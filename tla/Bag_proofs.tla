------------------------------ MODULE Bag_proofs ------------------------------
(***************************************************************************)
(* Proofs about opening a bag, for any set of files: the blocks of a       *)
(* connection never dangle, the index of an open bag is exact, a complete  *)
(* file opens, the schemata are those of the topics, and the messages of   *)
(* the connections are counted as those of the chunks.                     *)
(***************************************************************************)
EXTENDS Bag, SequenceTheorems, Sums

Loading == pc \in {"connections", "infos", "chunks", "index_data", "open"}

Positions ==
  {file.index[k].chunk_pos : k \in {l \in DOMAIN file.index : file.index[l].kind = "chunk_info"}}

chunk_info_t == [chunk_pos : Positions, connection_count : Nat, message_count : Nat]
chunk_t == [offset : {file.chunks[p].next : p \in DOMAIN file.chunks}, info : chunk_info_t]

TypesOK ==
  /\ file \in Files
  /\ pc \in {"stream", "connections", "infos", "chunks", "index_data", "open", "failed"}
  /\ pos \in Nat \ {0} /\ info \in Nat \ {0} /\ pending \in Nat
  /\ \A id \in DOMAIN connections_ :
       /\ DOMAIN connections_[id] = {"id", "topic", "blocks", "def", "message_count"}
       /\ connections_[id].message_count \in Nat
       /\ connections_[id].blocks \in Seq([store : Nat, at : Nat])
  /\ \A t \in topics : topic_connection_map_[t] \in Seq(DOMAIN connections_)
  /\ chunk_infos_ \in Seq(chunk_info_t)
  /\ chunks_ \in [store : Nat, cap : Nat, elems : Seq(chunk_t)]
  /\ DOMAIN message_schemata_ \subseteq Topics

\* How far the constructor is.
StageOK ==
  /\ pc = "stream" =>
       /\ pos = 1 /\ info = 1 /\ DOMAIN connections_ = {} /\ DOMAIN topic_connection_map_ = {}
       /\ Len(chunk_infos_) = 0 /\ chunks_ = EmptyVector
  /\ Loading =>
       /\ DOMAIN connections_ = 0..file.conn_count-1
       /\ Len(chunk_infos_) <= file.chunk_count
       /\ file.chunk_count <= chunks_.cap
       /\ info <= file.chunk_count + 1
       /\ Len(chunks_.elems) = info - 1
  /\ pc = "connections" => pos <= file.conn_count + 1 /\ Len(chunk_infos_) = 0
  /\ pc \in {"connections", "infos"} => info = 1
  /\ pc \in {"infos", "chunks", "index_data", "open"} =>
       pos = file.conn_count + 1 + Len(chunk_infos_)
  /\ pc \in {"chunks", "index_data", "open"} => Len(chunk_infos_) = file.chunk_count
  /\ pc = "index_data" => info <= file.chunk_count /\ pending <= chunk_infos_[info].connection_count
  /\ pc = "open" => info = file.chunk_count + 1

\* The data of chunk info i.
ChunkOf(i) == file.chunks[chunk_infos_[i].chunk_pos]

\* The chunk infos are those of the index section, and the chunks are theirs.
InfosOK ==
  Loading =>
    /\ \A i \in 1..Len(chunk_infos_) :
         /\ file.conn_count + i \in DOMAIN file.index
         /\ file.index[file.conn_count + i].kind = "chunk_info"
         /\ chunk_infos_[i].chunk_pos = file.index[file.conn_count + i].chunk_pos
         /\ chunk_infos_[i].connection_count = file.index[file.conn_count + i].count
         /\ i < info \/ (i = info /\ pc = "index_data") => chunk_infos_[i].chunk_pos \in DOMAIN file.chunks
    /\ \A i \in 1..info-1 : chunks_.elems[i].offset = ChunkOf(i).next

\* The INDEX_DATA records of chunk i that have been read.
ReadUpTo(i) ==
  IF i < info THEN chunk_infos_[i].connection_count
  ELSE IF i = info /\ pc = "index_data" THEN chunk_infos_[i].connection_count - pending
  ELSE 0

\* The chunks in which connection id was found so far.
Found(id) ==
  {i \in 1..Len(chunk_infos_) : \E j \in 1..ReadUpTo(i) : ChunkOf(i).data[j].conn = id}

BlocksOK ==
  Loading => \A id \in DOMAIN connections_ :
    Blocks(id) = {AddressOf(chunks_, i) : i \in Found(id)}

\* The topics lead to the connections that have been read, each once.
TopicsOK ==
  Loading /\ WellFormed(file) =>
    /\ \A t \in Topics :
         ConnectionsOf(t) = {id \in DOMAIN connections_ : connections_[id].topic = t}
    /\ \A id \in DOMAIN connections_ : connections_[id].topic # NoTopic =>
         \E k \in 1..file.conn_count : k < pos /\ file.index[k].id = id

SchemataOK ==
  /\ DOMAIN message_schemata_ # {} => pc = "open"
  /\ \A t \in DOMAIN message_schemata_ : topicInBag(t) /\ topic_connection_map_[t] # <<>>
  /\ SchemataSound

\* The inductive invariant.
Inv ==
  /\ TypesOK /\ StageOK /\ InfosOK /\ BlocksOK /\ TopicsOK /\ SchemataOK
  /\ WellFormedOpens

-----------------------------------------------------------------------------
\* The numbers of the file, and the shape of its index.
LEMMA FileNumbers ==
  ASSUME file \in Files
  PROVE  /\ NoTopic \notin Topics
         /\ file.conn_count \in Nat /\ file.chunk_count \in Nat
         /\ Len(file.index) \in Nat /\ DOMAIN file.index = 1..Len(file.index)
         /\ IsFiniteSet(DOMAIN file.chunks)
  BY FilesAssumption

LEMMA ConnectionRecord ==
  ASSUME file \in Files, NEW k \in DOMAIN file.index, file.index[k].kind = "connection"
  PROVE  /\ file.index[k].topic \in Topics \cup {NoTopic}
         /\ file.index[k].topic # NoTopic => file.index[k].id \in 0..file.conn_count-1
  BY FilesAssumption

LEMMA ChunkInfoRecord ==
  ASSUME file \in Files, NEW k \in DOMAIN file.index, file.index[k].kind = "chunk_info"
  PROVE  file.index[k].count \in Nat /\ file.index[k].chunk_pos \in Positions
  BY FilesAssumption DEF Positions

LEMMA DataRecord ==
  ASSUME file \in Files, NEW k \in DOMAIN file.index, file.index[k].kind = "chunk_info",
         file.index[k].chunk_pos \in DOMAIN file.chunks,
         NEW j \in DOMAIN file.chunks[file.index[k].chunk_pos].data
  PROVE  LET r == file.chunks[file.index[k].chunk_pos].data[j] IN
         r.conn \in 0..file.conn_count-1 /\ r.count \in Nat
<1>1. file.chunks[file.index[k].chunk_pos].data[j].conn \in 0..file.conn_count-1
  BY FilesAssumption
<1>2. file.chunks[file.index[k].chunk_pos].data[j].count \in Nat
  BY FilesAssumption
<1> QED
  BY <1>1, <1>2

\* The constructor may throw on a damaged file only.
LEMMA FailKeeps ==
  ASSUME Inv, Fail, pc # "open", ~WellFormed(file)
  PROVE  Inv'
<1> USE DEF Fail, loaded
<1>1. TypesOK'
  BY DEF Inv, TypesOK, topics, chunk_t, chunk_info_t, Positions
<1>2. ~Loading' /\ pc' = "failed"
  BY DEF Loading
<1>3. StageOK' /\ InfosOK' /\ BlocksOK' /\ TopicsOK'
  BY <1>2 DEF StageOK, InfosOK, BlocksOK, TopicsOK
<1>4. SchemataOK'
  BY DEF Inv, SchemataOK, SchemataSound, DefinitionOf, topicInBag
<1>5. WellFormedOpens'
  <2>1. WellFormed(file)' => WellFormed(file)
    BY DEF WellFormed
  <2> QED
    BY <2>1 DEF WellFormedOpens
<1> QED
  BY <1>1, <1>3, <1>4, <1>5 DEF Inv

LEMMA InitIsGood == Init => Inv
<1> SUFFICES ASSUME Init PROVE Inv
  OBVIOUS
<1> USE DEF Init
<1>1. TypesOK
  BY DEF TypesOK, EmptyVector, topics
<1>2. ~Loading /\ pc = "stream"
  BY DEF Loading
<1>3. StageOK /\ InfosOK /\ BlocksOK /\ TopicsOK
  BY <1>2 DEF StageOK, InfosOK, BlocksOK, TopicsOK
<1>4. SchemataOK
  BY DEF SchemataOK, SchemataSound
<1>5. WellFormedOpens
  BY DEF WellFormedOpens
<1> QED
  BY <1>1, <1>3, <1>4, <1>5 DEF Inv

LEMMA ReadBagHeaderKeeps ==
  ASSUME Inv, ReadBagHeader
  PROVE  Inv'
<1> USE DEF Inv
<1>1. CASE ~file.magic /\ Fail
  <2>1. pc # "open" /\ ~WellFormed(file)
    BY <1>1 DEF ReadBagHeader, WellFormed
  <2> QED
    BY <1>1, <2>1, FailKeeps
<1>2. CASE file.magic /\ ~Fail
  <2>1. /\ pc = "stream" /\ pc' = "connections"
        /\ connections_' = [id \in 0..file.conn_count-1 |-> NoConnection]
        /\ chunks_' = Reserve(chunks_, file.chunk_count)
        /\ UNCHANGED <<file, pos, info, pending, topic_connection_map_, chunk_infos_,
                       message_schemata_>>
    BY <1>2 DEF ReadBagHeader
  <2>2. file.conn_count \in Nat /\ file.chunk_count \in Nat
    BY FileNumbers DEF TypesOK
  <2>3. /\ chunks_' \in [store : Nat, cap : Nat, elems : Seq(chunk_t)]
        /\ chunks_'.elems = <<>> /\ file.chunk_count <= chunks_'.cap
    <3>1. chunks_ = [store |-> 0, cap |-> 0, elems |-> <<>>]
      BY <2>1 DEF StageOK, EmptyVector
    <3>2. \/ chunks_' = [store |-> 1, cap |-> file.chunk_count, elems |-> <<>>]
          \/ chunks_' = [store |-> 0, cap |-> 0, elems |-> <<>>] /\ file.chunk_count = 0
      BY <2>1, <2>2, <3>1 DEF Reserve
    <3>3. <<>> \in Seq(chunk_t)
      OBVIOUS
    <3>4. CASE chunks_' = [store |-> 1, cap |-> file.chunk_count, elems |-> <<>>]
      BY <2>2, <3>3, <3>4
    <3>5. CASE chunks_' = [store |-> 0, cap |-> 0, elems |-> <<>>] /\ file.chunk_count = 0
      BY <3>3, <3>5
    <3> QED
      BY <3>2, <3>4, <3>5
  <2>4. TypesOK'
    BY <2>1, <2>2, <2>3, SMTT(30) DEF TypesOK, NoConnection, topics, StageOK, chunk_t, chunk_info_t, Positions
  <2>5. Loading' /\ pos' = 1 /\ info' = 1 /\ Len(chunk_infos_') = 0
    BY <2>1 DEF Loading, StageOK
  <2>6. StageOK'
    BY <2>1, <2>2, <2>3, <2>5 DEF StageOK, Loading
  <2>7. InfosOK'
    BY <2>5 DEF InfosOK
  <2>8. BlocksOK'
    <3>1. ASSUME NEW id \in DOMAIN connections_'
          PROVE  Blocks(id)' = {} /\ Found(id)' = {}
      BY <2>1, <2>5 DEF Blocks, Found, NoConnection
    <3> QED
      BY <3>1 DEF BlocksOK
  <2>9. TopicsOK'
    <3>1. \A id \in DOMAIN connections_' : connections_'[id].topic = NoTopic
      BY <2>1 DEF NoConnection
    <3>2. ASSUME NEW t \in Topics
          PROVE  ConnectionsOf(t)' = {}
      BY <2>1 DEF ConnectionsOf, topicInBag, StageOK
    <3> QED
      BY <3>1, <3>2, FileNumbers DEF TopicsOK, TypesOK
  <2>10. SchemataOK'
    BY <2>1 DEF SchemataOK, SchemataSound
  <2>11. WellFormedOpens'
    BY <2>1 DEF WellFormedOpens
  <2> QED
    BY <2>4, <2>6, <2>7, <2>8, <2>9, <2>10, <2>11
<1> QED
  BY <1>1, <1>2 DEF ReadBagHeader, Fail

\* Appending to what a topic leads to.
LEMMA TopicAppended ==
  ASSUME NEW t, NEW id \in DOMAIN connections_,
         \A x \in topics : topic_connection_map_[x] \in Seq(DOMAIN connections_),
         topic_connection_map_' =
           Put(topic_connection_map_, t,
               IF t \in DOMAIN topic_connection_map_
               THEN Append(topic_connection_map_[t], id) ELSE <<id>>)
  PROVE  /\ \A u \in topics' : topic_connection_map_'[u] \in Seq(DOMAIN connections_)
         /\ \A u : ConnectionsOf(u)' = ConnectionsOf(u) \cup (IF u = t THEN {id} ELSE {})
<1>1. /\ DOMAIN topic_connection_map_' = DOMAIN topic_connection_map_ \cup {t}
      /\ \A x \in DOMAIN topic_connection_map_' : x # t =>
           topic_connection_map_'[x] = topic_connection_map_[x]
  BY DEF Put
<1>2. /\ topic_connection_map_'[t] \in Seq(DOMAIN connections_)
      /\ ConnectionsOf(t)' = ConnectionsOf(t) \cup {id}
  <2>1. CASE t \in DOMAIN topic_connection_map_
    <3> DEFINE s == topic_connection_map_[t]
    <3>1. s \in Seq(DOMAIN connections_) /\ topic_connection_map_'[t] = Append(s, id)
      BY <2>1 DEF Put, topics
    <3>2. /\ Append(s, id) \in Seq(DOMAIN connections_)
          /\ DOMAIN Append(s, id) = 1..Len(s)+1 /\ DOMAIN s = 1..Len(s) /\ Len(s) \in Nat
          /\ \A k \in 1..Len(s) : Append(s, id)[k] = s[k]
          /\ Append(s, id)[Len(s)+1] = id
      BY <3>1, LenProperties
    <3>3. {Append(s, id)[k] : k \in DOMAIN Append(s, id)} = {s[k] : k \in DOMAIN s} \cup {id}
      BY <3>2
    <3>4. ConnectionsOf(t) = {s[k] : k \in DOMAIN s}
      BY <2>1 DEF ConnectionsOf, topicInBag
    <3>5. ConnectionsOf(t)' = {Append(s, id)[k] : k \in DOMAIN Append(s, id)}
      <4>1. t \in DOMAIN topic_connection_map_'
        BY <1>1
      <4>2. ConnectionsOf(t)' =
              {topic_connection_map_'[t][k] : k \in DOMAIN topic_connection_map_'[t]}
        BY <4>1, Zenon DEF ConnectionsOf, topicInBag
      <4> QED
        BY <3>1, <4>2, Zenon
    <3> QED
      BY <3>1, <3>2, <3>3, <3>4, <3>5
  <2>2. CASE t \notin DOMAIN topic_connection_map_
    <3>1. topic_connection_map_'[t] = <<id>>
      BY <2>2 DEF Put
    <3>2. <<id>> \in Seq(DOMAIN connections_) /\ {<<id>>[k] : k \in DOMAIN <<id>>} = {id}
      OBVIOUS
    <3>3. ConnectionsOf(t) = {}
      BY <2>2 DEF ConnectionsOf, topicInBag
    <3>4. ConnectionsOf(t)' = {<<id>>[k] : k \in DOMAIN <<id>>}
      BY <1>1, <3>1 DEF ConnectionsOf, topicInBag
    <3> QED
      BY <3>1, <3>2, <3>3, <3>4
  <2> QED
    BY <2>1, <2>2
<1>3. \A u : u # t => ConnectionsOf(u)' = ConnectionsOf(u)
  BY <1>1 DEF ConnectionsOf, topicInBag
<1>4. \A u \in topics' : topic_connection_map_'[u] \in Seq(DOMAIN connections_)
  BY <1>1, <1>2 DEF topics
<1> QED
  BY <1>2, <1>3, <1>4

LEMMA ReadConnectionKeeps ==
  ASSUME Inv, ReadConnection
  PROVE  Inv'
<1> USE DEF Inv
<1>n. /\ file.conn_count \in Nat /\ file.chunk_count \in Nat /\ NoTopic \notin Topics
      /\ DOMAIN file.index = 1..Len(file.index) /\ Len(file.index) \in Nat
  BY FileNumbers DEF TypesOK
<1>p. pc = "connections" /\ pos <= file.conn_count /\ pos \in Nat \ {0}
  BY DEF ReadConnection, TypesOK
<1>s. /\ DOMAIN connections_ = 0..file.conn_count-1 /\ info = 1 /\ Len(chunk_infos_) = 0
      /\ Loading
  BY <1>p DEF StageOK, Loading
<1>1. CASE ~NextIs("connection") /\ Fail
  <2>1. ~WellFormed(file)
    BY <1>1, <1>p, <1>n DEF NextIs, WellFormed
  <2> QED
    BY <1>1, <1>p, <2>1, FailKeeps
<1>2. CASE NextIs("connection") /\ ~Fail
  <2> DEFINE r == file.index[pos]
  <2>1. /\ pos' = pos + 1
        /\ UNCHANGED <<file, pc, info, pending, chunk_infos_, chunks_, message_schemata_>>
        /\ Loading'
    BY <1>2, <1>s DEF ReadConnection, Loading
  <2>2. /\ pos \in DOMAIN file.index /\ r.kind = "connection"
        /\ r.topic \in Topics \cup {NoTopic}
        /\ r.topic # NoTopic => r.id \in DOMAIN connections_
    BY <1>2, <1>s, ConnectionRecord DEF NextIs, TypesOK
  <2>3. \/ /\ r.topic = NoTopic
           /\ UNCHANGED <<connections_, topic_connection_map_>>
        \/ /\ r.topic # NoTopic
           /\ DOMAIN connections_' = DOMAIN connections_
           /\ connections_'[r.id] = [id |-> r.id, topic |-> r.topic,
                blocks |-> connections_[r.id].blocks, def |-> r.def, message_count |-> 0]
           /\ \A id \in DOMAIN connections_ : id # r.id => connections_'[id] = connections_[id]
           /\ topic_connection_map_' =
                Put(topic_connection_map_, r.topic,
                    IF r.topic \in DOMAIN topic_connection_map_
                    THEN Append(topic_connection_map_[r.topic], r.id)
                    ELSE <<r.id>>)
    BY <1>2, <2>2 DEF ReadConnection
  <2>4. /\ DOMAIN connections_' = DOMAIN connections_
        /\ \A id \in DOMAIN connections_ : connections_'[id].blocks = connections_[id].blocks
    BY <2>2, <2>3
  <2>5. TypesOK'
    <3>1. \A id \in DOMAIN connections_' :
            /\ DOMAIN connections_'[id] = {"id", "topic", "blocks", "def", "message_count"}
            /\ connections_'[id].message_count \in Nat
            /\ connections_'[id].blocks \in Seq([store : Nat, at : Nat])
      <4>1. \A id \in DOMAIN connections_' :
              \/ connections_'[id] = connections_[id]
              \/ connections_'[id] = [id |-> r.id, topic |-> r.topic,
                   blocks |-> connections_[id].blocks, def |-> r.def, message_count |-> 0]
        BY <2>2, <2>3, <2>4
      <4>2. ASSUME NEW id \in DOMAIN connections_'
            PROVE  /\ DOMAIN connections_'[id] = {"id", "topic", "blocks", "def", "message_count"}
                   /\ connections_'[id].message_count \in Nat
        BY <4>1, <2>4 DEF TypesOK
      <4>3. ASSUME NEW id \in DOMAIN connections_'
            PROVE  connections_'[id].blocks \in Seq([store : Nat, at : Nat])
        BY <2>4 DEF TypesOK
      <4> QED
        BY <4>2, <4>3
    <3>2. \A t \in topics' : topic_connection_map_'[t] \in Seq(DOMAIN connections_)
      <4>1. CASE r.topic = NoTopic
        BY <4>1, <2>3 DEF TypesOK, topics
      <4>2. CASE r.topic # NoTopic
        <5>1. \A x \in topics : topic_connection_map_[x] \in Seq(DOMAIN connections_)
          BY DEF TypesOK
        <5>2. PICK u, c : u = r.topic /\ c = r.id
          OBVIOUS
        <5>3. /\ c \in DOMAIN connections_
              /\ topic_connection_map_' =
                   Put(topic_connection_map_, u,
                       IF u \in DOMAIN topic_connection_map_
                       THEN Append(topic_connection_map_[u], c) ELSE <<c>>)
          BY <4>2, <5>2, <2>2, <2>3
        <5> QED
          BY <5>1, <5>3, TopicAppended
      <4> QED
        BY <4>1, <4>2
    <3>3. chunk_t' = chunk_t /\ chunk_info_t' = chunk_info_t
      BY <2>1 DEF chunk_t, chunk_info_t, Positions
    <3> QED
      BY <2>1, <2>4, <3>1, <3>2, <3>3 DEF TypesOK
  <2>6. StageOK'
    BY <1>n, <1>p, <1>s, <2>1, <2>4 DEF StageOK, Loading
  <2>7. InfosOK'
    BY <1>s, <2>1 DEF InfosOK
  <2>8. BlocksOK'
    <3>1. ASSUME NEW id \in DOMAIN connections_'
          PROVE  Blocks(id)' = {} /\ Found(id)' = {}
      <4>1. Blocks(id) = {} /\ Found(id)' = {}
        BY <1>s, <2>1, <2>4 DEF BlocksOK, Found
      <4> QED
        BY <2>4, <4>1 DEF Blocks
    <3> QED
      BY <3>1 DEF BlocksOK
  <2>9. TopicsOK'
    <3> SUFFICES ASSUME WellFormed(file)
                 PROVE  /\ \A t \in Topics : ConnectionsOf(t)' =
                             {id \in DOMAIN connections_' : connections_'[id].topic = t}
                        /\ \A id \in DOMAIN connections_' : connections_'[id].topic # NoTopic =>
                             \E k \in 1..file.conn_count : k < pos' /\ file.index[k].id = id
      BY <2>1 DEF TopicsOK, WellFormed
    <3>1. /\ \A t \in Topics : ConnectionsOf(t) =
               {id \in DOMAIN connections_ : connections_[id].topic = t}
          /\ \A id \in DOMAIN connections_ : connections_[id].topic # NoTopic =>
               \E k \in 1..file.conn_count : k < pos /\ file.index[k].id = id
      BY <1>s DEF TopicsOK
    <3>2. CASE r.topic = NoTopic
      BY <3>1, <3>2, <2>1, <2>3, <1>p, <1>n DEF ConnectionsOf, topicInBag
    <3>3. CASE r.topic # NoTopic
      <4>1. connections_[r.id].topic = NoTopic
        <5>1. \A k \in 1..file.conn_count : k # pos => file.index[k].id # r.id
          BY <1>p, <1>n DEF WellFormed
        <5> QED
          BY <5>1, <3>1, <3>3, <2>2, <1>n, <1>p
      <4>2. ASSUME NEW t \in Topics
            PROVE  ConnectionsOf(t)' = ConnectionsOf(t) \cup (IF t = r.topic THEN {r.id} ELSE {})
        <5>1. \A x \in topics : topic_connection_map_[x] \in Seq(DOMAIN connections_)
          BY DEF TypesOK
        <5>2. PICK u, c : u = r.topic /\ c = r.id
          OBVIOUS
        <5>3. /\ c \in DOMAIN connections_
              /\ topic_connection_map_' =
                   Put(topic_connection_map_, u,
                       IF u \in DOMAIN topic_connection_map_
                       THEN Append(topic_connection_map_[u], c) ELSE <<c>>)
          BY <3>3, <5>2, <2>2, <2>3
        <5>4. ConnectionsOf(t)' = ConnectionsOf(t) \cup (IF t = u THEN {c} ELSE {})
          BY <5>1, <5>3, TopicAppended
        <5> QED
          BY <5>2, <5>4
      <4>3. \A id \in DOMAIN connections_ : connections_'[id].topic =
              IF id = r.id THEN r.topic ELSE connections_[id].topic
        BY <3>3, <2>2, <2>3
      <4>4. \A t \in Topics : ConnectionsOf(t)' =
              {id \in DOMAIN connections_ : connections_'[id].topic = t}
        BY <4>1, <4>2, <4>3, <3>1, <3>3, <2>2, <1>n
      <4>5. \A id \in DOMAIN connections_ : connections_'[id].topic # NoTopic =>
              \E k \in 1..file.conn_count : k < pos' /\ file.index[k].id = id
        <5> SUFFICES ASSUME NEW id \in DOMAIN connections_, connections_'[id].topic # NoTopic
                     PROVE  \E k \in 1..file.conn_count : k < pos' /\ file.index[k].id = id
          OBVIOUS
        <5>1. CASE id = r.id
          BY <5>1, <1>p, <1>n, <2>1
        <5>2. CASE id # r.id
          BY <5>2, <4>3, <3>1, <2>1, <1>p, <1>n
        <5> QED
          BY <5>1, <5>2
      <4> QED
        BY <4>4, <4>5, <2>4
    <3> QED
      BY <3>2, <3>3
  <2>10. SchemataOK'
    BY <1>p, <2>1 DEF SchemataOK, SchemataSound
  <2>11. WellFormedOpens'
    BY <1>p, <2>1 DEF WellFormedOpens
  <2> QED
    BY <2>5, <2>6, <2>7, <2>8, <2>9, <2>10, <2>11
<1> QED
  BY <1>1, <1>2, <1>p DEF ReadConnection, Fail

\* A step that changes nothing but where the constructor is.
LEMMA StageMoves ==
  ASSUME Inv, StageOK',
         pc \in {"connections", "infos", "chunks"}, pc' \in {"infos", "chunks", "open"},
         UNCHANGED <<file, pos, info, pending, loaded, message_schemata_>>
  PROVE  Inv'
<1> USE DEF Inv, loaded
<1>1. Loading /\ Loading'
  BY DEF Loading
<1>2. TypesOK'
  BY DEF TypesOK, topics, chunk_t, chunk_info_t, Positions
<1>3. InfosOK'
  BY <1>1 DEF InfosOK, ChunkOf
<1>4. \A i : ReadUpTo(i)' = ReadUpTo(i)
  BY DEF ReadUpTo
<1>5. \A id : Found(id)' = Found(id) /\ Blocks(id)' = Blocks(id)
  BY <1>4 DEF Found, Blocks, ChunkOf
<1>6. BlocksOK'
  BY <1>1, <1>5 DEF BlocksOK, AddressOf
<1>7. TopicsOK'
  BY <1>1 DEF TopicsOK, ConnectionsOf, topicInBag, WellFormed
<1>8. SchemataOK'
  BY DEF SchemataOK, SchemataSound
<1>9. WellFormedOpens'
  BY DEF WellFormedOpens
<1> QED
  BY <1>2, <1>3, <1>6, <1>7, <1>8, <1>9

LEMMA ConnectionsReadKeeps ==
  ASSUME Inv, ConnectionsRead
  PROVE  Inv'
<1>1. file.conn_count \in Nat
  BY FileNumbers DEF Inv, TypesOK
<1>2. StageOK'
  BY <1>1 DEF Inv, StageOK, TypesOK, ConnectionsRead, Loading, loaded
<1> QED
  BY <1>2, StageMoves DEF ConnectionsRead

LEMMA ChunkInfosReadKeeps ==
  ASSUME Inv, ChunkInfosRead
  PROVE  Inv'
<1>1. StageOK'
  BY DEF Inv, StageOK, TypesOK, ChunkInfosRead, Loading, loaded
<1> QED
  BY <1>1, StageMoves DEF ChunkInfosRead

LEMMA ChunksReadKeeps ==
  ASSUME Inv, ChunksRead
  PROVE  Inv'
<1>1. file.chunk_count \in Nat
  BY FileNumbers DEF Inv, TypesOK
<1>2. StageOK'
  BY <1>1 DEF Inv, StageOK, TypesOK, ChunksRead, Loading, loaded
<1> QED
  BY <1>2, StageMoves DEF ChunksRead

LEMMA ReadChunkInfoKeeps ==
  ASSUME Inv, ReadChunkInfo
  PROVE  Inv'
<1> USE DEF Inv
<1>n. /\ file.conn_count \in Nat /\ file.chunk_count \in Nat
      /\ DOMAIN file.index = 1..Len(file.index) /\ Len(file.index) \in Nat
  BY FileNumbers DEF TypesOK
<1>p. pc = "infos" /\ Loading /\ Len(chunk_infos_) < file.chunk_count
  BY DEF ReadChunkInfo, Loading
<1>s. /\ info = 1 /\ pos = file.conn_count + 1 + Len(chunk_infos_)
      /\ chunk_infos_ \in Seq(chunk_info_t) /\ Len(chunk_infos_) \in Nat
  BY <1>p, LenProperties DEF StageOK, TypesOK
<1>1. CASE ~NextIs("chunk_info") /\ Fail
  <2>1. ASSUME WellFormed(file)
        PROVE  FALSE
    <3>1. Len(file.index) = file.conn_count + file.chunk_count
      BY <2>1 DEF WellFormed
    <3>2. pos \in file.conn_count+1..Len(file.index) /\ pos \in DOMAIN file.index
      BY <3>1, <1>p, <1>n, <1>s
    <3>3. file.index[pos].kind = "chunk_info"
      BY <2>1, <3>2 DEF WellFormed
    <3> QED
      BY <1>1, <3>2, <3>3 DEF NextIs
  <2> QED
    BY <1>1, <1>p, <2>1, FailKeeps
<1>2. CASE NextIs("chunk_info") /\ ~Fail
  <2> DEFINE r == file.index[pos]
             x == [chunk_pos |-> r.chunk_pos, connection_count |-> r.count, message_count |-> 0]
             n == Len(chunk_infos_) + 1
  <2>1. /\ pos' = pos + 1
        /\ chunk_infos_' = Append(chunk_infos_, x)
        /\ UNCHANGED <<file, pc, info, pending, connections_, topic_connection_map_, chunks_,
                       message_schemata_>>
        /\ Loading'
    BY <1>2, <1>p DEF ReadChunkInfo, Loading
  <2>2. /\ pos \in DOMAIN file.index /\ r.kind = "chunk_info"
        /\ r.count \in Nat /\ r.chunk_pos \in Positions
    BY <1>2, ChunkInfoRecord DEF NextIs, TypesOK
  <2>3. x \in chunk_info_t
    BY <2>2 DEF chunk_info_t
  <2>4. /\ chunk_infos_' \in Seq(chunk_info_t) /\ Len(chunk_infos_') = n
        /\ \A i \in 1..Len(chunk_infos_) : chunk_infos_'[i] = chunk_infos_[i]
        /\ chunk_infos_'[n] = x
    BY <2>1, <2>3, <1>s
  <2>5. TypesOK'
    <3>1. chunk_t' = chunk_t /\ chunk_info_t' = chunk_info_t
      BY <2>1 DEF chunk_t, chunk_info_t, Positions
    <3> QED
      BY <2>1, <2>4, <3>1 DEF TypesOK, topics
  <2>6. StageOK'
    <3>1. Len(chunk_infos_') <= file.chunk_count /\ pos' = file.conn_count + 1 + Len(chunk_infos_')
      <4>1. PICK l \in Nat : l = Len(chunk_infos_)
        BY <1>s
      <4>2. Len(chunk_infos_') = l + 1
        BY <4>1, <2>4
      <4>3. pos = file.conn_count + 1 + l /\ pos' = pos + 1 /\ l < file.chunk_count
        BY <4>1, <1>p, <1>s, <2>1
      <4> QED
        BY <4>2, <4>3, <1>n
    <3>2. /\ DOMAIN connections_ = 0..file.conn_count-1
          /\ file.chunk_count <= chunks_.cap
          /\ info <= file.chunk_count + 1
          /\ Len(chunks_.elems) = info - 1
      BY <1>p DEF StageOK
    <3> QED
      BY <1>p, <1>s, <2>1, <3>1, <3>2 DEF StageOK
  <2>7. InfosOK'
    <3>1. ASSUME NEW i \in 1..n
          PROVE  /\ file.conn_count + i \in DOMAIN file.index
                 /\ file.index[file.conn_count + i].kind = "chunk_info"
                 /\ chunk_infos_'[i].chunk_pos = file.index[file.conn_count + i].chunk_pos
                 /\ chunk_infos_'[i].connection_count = file.index[file.conn_count + i].count
      <4>1. CASE i = n
        BY <4>1, <2>2, <2>4, <1>s, <1>n, SMTT(30)
      <4>2. CASE i \in 1..Len(chunk_infos_)
        BY <4>2, <2>4, <1>p DEF InfosOK
      <4> QED
        BY <4>1, <4>2, <1>s
    <3>2. pc' # "index_data" /\ info' = 1
      BY <1>p, <1>s, <2>1
    <3> QED
      BY <2>1, <2>4, <3>1, <3>2 DEF InfosOK
  <2>8. BlocksOK'
    <3>1. \A i \in Nat \ {0} : ReadUpTo(i) = 0 /\ ReadUpTo(i)' = 0
      BY <1>p, <1>s, <2>1 DEF ReadUpTo
    <3>2. ASSUME NEW id \in DOMAIN connections_'
          PROVE  Blocks(id)' = {} /\ Found(id)' = {}
      <4>1. Found(id) = {} /\ Found(id)' = {}
        BY <3>1, <1>s, <2>4 DEF Found
      <4>2. Blocks(id) = {AddressOf(chunks_, i) : i \in Found(id)}
        BY <1>p, <2>1 DEF BlocksOK
      <4>3. Blocks(id)' = Blocks(id)
        BY <2>1 DEF Blocks
      <4> QED
        BY <4>1, <4>2, <4>3
    <3> QED
      BY <3>2 DEF BlocksOK
  <2>9. TopicsOK'
    <3>1. \A k \in 1..file.conn_count : k < pos'
      BY <1>n, <1>s, <2>1
    <3>2. WellFormed(file)' => WellFormed(file)
      BY <2>1 DEF WellFormed
    <3>3. WellFormed(file) =>
            /\ \A t \in Topics :
                 ConnectionsOf(t) = {id \in DOMAIN connections_ : connections_[id].topic = t}
            /\ \A id \in DOMAIN connections_ : connections_[id].topic # NoTopic =>
                 \E k \in 1..file.conn_count : k < pos /\ file.index[k].id = id
      BY <1>p DEF TopicsOK
    <3>4. \A t \in Topics : ConnectionsOf(t)' = ConnectionsOf(t)
      BY <2>1 DEF ConnectionsOf, topicInBag
    <3>5. ASSUME WellFormed(file), NEW id \in DOMAIN connections_, connections_[id].topic # NoTopic
          PROVE  \E k \in 1..file.conn_count : k < pos' /\ file.index[k].id = id
      BY <3>1, <3>3, <3>5
    <3> QED
      BY <2>1, <3>2, <3>3, <3>4, <3>5 DEF TopicsOK
  <2>10. SchemataOK'
    BY <1>p, <2>1 DEF SchemataOK, SchemataSound
  <2>11. WellFormedOpens'
    BY <1>p, <2>1 DEF WellFormedOpens
  <2> QED
    BY <2>5, <2>6, <2>7, <2>8, <2>9, <2>10, <2>11
<1> QED
  BY <1>1, <1>2, <1>p DEF ReadChunkInfo, Fail

\* What the chunk infos say of a chunk that is being read, in a complete file.
LEMMA InfoOfCompleteFile ==
  ASSUME Inv, WellFormed(file), Loading, NEW i \in 1..Len(chunk_infos_)
  PROVE  /\ chunk_infos_[i].chunk_pos \in DOMAIN file.chunks
         /\ chunk_infos_[i].connection_count = Len(ChunkOf(i).data)
         /\ ChunkOf(i).supported
<1>1. /\ file.conn_count \in Nat /\ Len(file.index) \in Nat
      /\ DOMAIN file.index = 1..Len(file.index)
  BY FileNumbers DEF Inv, TypesOK
<1>2. /\ file.conn_count + i \in DOMAIN file.index
      /\ chunk_infos_[i].chunk_pos = file.index[file.conn_count + i].chunk_pos
      /\ chunk_infos_[i].connection_count = file.index[file.conn_count + i].count
  BY DEF Inv, InfosOK
<1>3. file.conn_count + i \in file.conn_count+1..Len(file.index)
  BY <1>1, <1>2
<1>4. /\ file.index[file.conn_count + i].chunk_pos \in DOMAIN file.chunks
      /\ file.index[file.conn_count + i].count =
           Len(file.chunks[file.index[file.conn_count + i].chunk_pos].data)
  BY <1>3 DEF WellFormed
<1> QED
  BY <1>2, <1>4 DEF ChunkOf, WellFormed

LEMMA ReadChunkKeeps ==
  ASSUME Inv, ReadChunk
  PROVE  Inv'
<1> USE DEF Inv, loaded
<1>n. file.chunk_count \in Nat
  BY FileNumbers DEF TypesOK
<1>p. pc = "chunks" /\ Loading /\ info <= file.chunk_count
  BY DEF ReadChunk, Loading
<1>s. /\ Len(chunk_infos_) = file.chunk_count /\ info \in 1..Len(chunk_infos_)
      /\ chunk_infos_ \in Seq(chunk_info_t)
  BY <1>p, <1>n DEF StageOK, TypesOK
<1>1. CASE Fail /\ ~(chunk_infos_[info].chunk_pos \in DOMAIN file.chunks /\ ChunkRecord.supported)
  <2>1. ~WellFormed(file)
    BY <1>1, <1>p, <1>s, InfoOfCompleteFile DEF ChunkRecord, ChunkOf
  <2> QED
    BY <1>1, <1>p, <2>1, FailKeeps
<1>2. CASE ~Fail
  <2>1. /\ chunk_infos_[info].chunk_pos \in DOMAIN file.chunks
        /\ pending' = chunk_infos_[info].connection_count
        /\ pc' = "index_data" /\ Loading'
        /\ UNCHANGED <<file, pos, info, connections_, topic_connection_map_, chunk_infos_,
                       chunks_, message_schemata_>>
    BY <1>2, <1>p DEF ReadChunk, Loading
  <2>2. pending' \in Nat
    <3>1. chunk_infos_[info] \in chunk_info_t
      BY <1>s, ElementOfSeq
    <3> QED
      BY <2>1, <3>1 DEF chunk_info_t
  <2>3. TypesOK'
    BY <2>1, <2>2 DEF TypesOK, topics, chunk_t, chunk_info_t, Positions
  <2>4. StageOK'
    <3>1. pending' <= chunk_infos_[info].connection_count
      BY <2>1, <2>2
    <3> QED
      BY <1>p, <2>1, <3>1 DEF StageOK
  <2>5. InfosOK'
    <3>1. /\ \A i \in 1..Len(chunk_infos_) :
               /\ file.conn_count + i \in DOMAIN file.index
               /\ file.index[file.conn_count + i].kind = "chunk_info"
               /\ chunk_infos_[i].chunk_pos = file.index[file.conn_count + i].chunk_pos
               /\ chunk_infos_[i].connection_count = file.index[file.conn_count + i].count
               /\ i < info => chunk_infos_[i].chunk_pos \in DOMAIN file.chunks
          /\ \A i \in 1..info-1 : chunks_.elems[i].offset = ChunkOf(i).next
      BY <1>p DEF InfosOK
    <3> QED
      BY <3>1, <2>1 DEF InfosOK, ChunkOf
  <2>6. BlocksOK'
    <3>1. \A i \in 1..Len(chunk_infos_) : 1..ReadUpTo(i)' = 1..ReadUpTo(i)
      <4> SUFFICES ASSUME NEW i \in 1..Len(chunk_infos_)
                   PROVE  ReadUpTo(i)' = ReadUpTo(i)
        OBVIOUS
      <4>1. CASE i = info
        BY <4>1, <1>p, <2>1, <2>2 DEF ReadUpTo, TypesOK
      <4>2. CASE i # info
        BY <4>2, <1>p, <2>1 DEF ReadUpTo
      <4> QED
        BY <4>1, <4>2
    <3>2. \A id : Found(id)' = Found(id)
      BY <2>1, <3>1 DEF Found, ChunkOf
    <3> QED
      BY <1>p, <2>1, <3>2 DEF BlocksOK, Blocks, AddressOf
  <2>7. TopicsOK'
    BY <1>p, <2>1 DEF TopicsOK, ConnectionsOf, topicInBag, WellFormed
  <2>8. SchemataOK'
    BY <1>p, <2>1 DEF SchemataOK, SchemataSound
  <2>9. WellFormedOpens'
    BY <2>1 DEF WellFormedOpens
  <2> QED
    BY <2>3, <2>4, <2>5, <2>6, <2>7, <2>8, <2>9
<1> QED
  BY <1>1, <1>2, <1>p DEF ReadChunk, Fail

LEMMA PushChunkKeeps ==
  ASSUME Inv, PushChunk
  PROVE  Inv'
<1> USE DEF Inv
<1>n. file.chunk_count \in Nat
  BY FileNumbers DEF TypesOK
<1>p. pc = "index_data" /\ Loading /\ pending = 0
  BY DEF PushChunk, Loading
<1>s. /\ Len(chunk_infos_) = file.chunk_count /\ info \in 1..Len(chunk_infos_)
      /\ chunk_infos_ \in Seq(chunk_info_t) /\ info \in Nat \ {0}
      /\ info <= file.chunk_count /\ file.chunk_count <= chunks_.cap
      /\ Len(chunks_.elems) = info - 1
      /\ chunks_ \in [store : Nat, cap : Nat, elems : Seq(chunk_t)]
  BY <1>p, <1>n DEF StageOK, TypesOK
<1> DEFINE x == [offset |-> ChunkRecord.next, info |-> chunk_infos_[info]]
<1>1. /\ chunks_' = PushBack(chunks_, x)
      /\ info' = info + 1 /\ pc' = "chunks" /\ Loading'
      /\ UNCHANGED <<file, pos, pending, connections_, topic_connection_map_, chunk_infos_,
                     message_schemata_>>
  BY DEF PushChunk, Loading
<1>2. PICK st \in Nat, cp \in Nat, es \in Seq(chunk_t) :
        chunks_ = [store |-> st, cap |-> cp, elems |-> es]
  BY <1>s
<1>3. chunk_infos_[info].chunk_pos \in DOMAIN file.chunks
  BY <1>p, <1>s DEF InfosOK
<1>4. x \in chunk_t
  <2>1. chunk_infos_[info] \in chunk_info_t
    BY <1>s, ElementOfSeq
  <2> QED
    BY <1>3, <2>1 DEF chunk_t, ChunkRecord
<1>5. chunks_' = [store |-> st, cap |-> cp, elems |-> Append(es, x)]
  <2>1. Len(es) = info - 1 /\ file.chunk_count <= cp
    BY <1>s, <1>2
  <2>2. Len(es) # cp
    BY <2>1, <1>s, <1>n
  <2>3. Reserve(chunks_, cp) = chunks_
    BY <1>2 DEF Reserve
  <2>4. chunks_' = [chunks_ EXCEPT !.elems = Append(@, x)]
    BY <1>1, <1>2, <2>2, <2>3 DEF PushBack
  <2> QED
    BY <2>4, <1>2
<1>6. /\ Append(es, x) \in Seq(chunk_t) /\ Len(Append(es, x)) = info
      /\ \A i \in 1..info-1 : Append(es, x)[i] = es[i]
      /\ Append(es, x)[info] = x
  <2>1. Len(es) = info - 1
    BY <1>s, <1>2
  <2> QED
    BY <2>1, <1>s, <1>2, <1>4
<1>7. chunks_'.store = chunks_.store /\ chunks_'.cap = chunks_.cap /\ chunks_'.elems = Append(es, x)
  BY <1>2, <1>5
<1>8. TypesOK'
  <2>1. chunks_' \in [store : Nat, cap : Nat, elems : Seq(chunk_t)]
    BY <1>2, <1>5, <1>6
  <2>2. chunk_t' = chunk_t /\ chunk_info_t' = chunk_info_t
    BY <1>1 DEF chunk_t, chunk_info_t, Positions
  <2> QED
    BY <1>1, <2>1, <2>2 DEF TypesOK, topics
<1>9. StageOK'
  <2>1. info' <= file.chunk_count + 1 /\ Len(chunks_'.elems) = info' - 1
    BY <1>n, <1>s, <1>1, <1>6, <1>7
  <2> QED
    BY <1>p, <1>1, <1>7, <2>1 DEF StageOK
<1>10. InfosOK'
  <2>1. ASSUME NEW i \in 1..info'-1
        PROVE  chunks_'.elems[i].offset = ChunkOf(i)'.next
    <3>1. CASE i = info
      <4>1. chunks_'.elems[info] = x /\ x.offset = ChunkRecord.next
        BY <1>6, <1>7
      <4>2. ChunkOf(i)' = ChunkRecord
        BY <3>1, <1>1 DEF ChunkRecord, ChunkOf
      <4> HIDE DEF x
      <4> QED
        BY <3>1, <4>1, <4>2
    <3>2. CASE i \in 1..info-1
      <4>1. chunks_.elems[i].offset = ChunkOf(i).next
        BY <3>2, <1>p DEF InfosOK
      <4> QED
        BY <3>2, <4>1, <1>1, <1>2, <1>6, <1>7 DEF ChunkOf
    <3>3. i = info \/ i \in 1..info-1
      BY <1>1, <1>s
    <3> QED
      BY <3>1, <3>2, <3>3
  <2>2. \A i \in 1..Len(chunk_infos_) :
          /\ file.conn_count + i \in DOMAIN file.index
          /\ file.index[file.conn_count + i].kind = "chunk_info"
          /\ chunk_infos_[i].chunk_pos = file.index[file.conn_count + i].chunk_pos
          /\ chunk_infos_[i].connection_count = file.index[file.conn_count + i].count
          /\ i < info \/ i = info => chunk_infos_[i].chunk_pos \in DOMAIN file.chunks
    BY <1>p DEF InfosOK
  <2>3. \A i \in 1..Len(chunk_infos_) :
          i < info' => chunk_infos_[i].chunk_pos \in DOMAIN file.chunks
    BY <2>2, <1>1, <1>s
  <2> QED
    BY <1>1, <2>1, <2>2, <2>3 DEF InfosOK
<1>11. BlocksOK'
  <2>1. ASSUME NEW i \in 1..Len(chunk_infos_)
        PROVE  ReadUpTo(i)' = ReadUpTo(i)
    <3>1. chunk_infos_[i].connection_count \in Nat
      <4>1. chunk_infos_[i] \in chunk_info_t
        BY <1>s, ElementOfSeq
      <4> QED
        BY <4>1 DEF chunk_info_t
    <3>2. CASE i = info
      BY <3>1, <3>2, <1>p, <1>s, <1>1 DEF ReadUpTo
    <3>3. CASE i < info \/ i > info
      BY <3>3, <1>p, <1>s, <1>1 DEF ReadUpTo
    <3> QED
      BY <3>2, <3>3, <1>s
  <2>2. \A id : Found(id)' = Found(id)
    BY <1>1, <2>1 DEF Found, ChunkOf
  <2> QED
    BY <1>p, <1>1, <1>7, <2>2 DEF BlocksOK, Blocks, AddressOf
<1>12. TopicsOK'
  BY <1>p, <1>1 DEF TopicsOK, ConnectionsOf, topicInBag, WellFormed
<1>13. SchemataOK'
  BY <1>p, <1>1 DEF SchemataOK, SchemataSound
<1>14. WellFormedOpens'
  BY <1>1 DEF WellFormedOpens
<1> QED
  BY <1>8, <1>9, <1>10, <1>11, <1>12, <1>13, <1>14

LEMMA AppendedElements ==
  ASSUME NEW S, NEW s \in Seq(S), NEW e \in S, NEW t, t = Append(s, e)
  PROVE  {t[k] : k \in DOMAIN t} = {s[k] : k \in DOMAIN s} \cup {e}
<1>1. /\ Append(s, e) \in Seq(S)
      /\ DOMAIN Append(s, e) = 1..Len(s)+1 /\ DOMAIN s = 1..Len(s) /\ Len(s) \in Nat
      /\ \A k \in 1..Len(s) : Append(s, e)[k] = s[k]
      /\ Append(s, e)[Len(s)+1] = e
  BY LenProperties
<1> QED
  BY <1>1

LEMMA ReadIndexDataKeeps ==
  ASSUME Inv, ReadIndexData
  PROVE  Inv'
<1> USE DEF Inv
<1>n. file.chunk_count \in Nat /\ file.conn_count \in Nat
  BY FileNumbers DEF TypesOK
<1>p. pc = "index_data" /\ Loading /\ pending > 0 /\ pending \in Nat
  BY DEF ReadIndexData, Loading, TypesOK
<1>s. /\ Len(chunk_infos_) = file.chunk_count /\ info \in 1..Len(chunk_infos_)
      /\ chunk_infos_ \in Seq(chunk_info_t)
      /\ DOMAIN chunk_infos_ = 1..Len(chunk_infos_)
      /\ DOMAIN connections_ = 0..file.conn_count-1
      /\ pending <= chunk_infos_[info].connection_count
  <2>1. chunk_infos_ \in Seq(chunk_info_t)
    BY DEF TypesOK
  <2>2. DOMAIN chunk_infos_ = 1..Len(chunk_infos_) /\ Len(chunk_infos_) \in Nat
    BY <2>1, LenProperties
  <2>3. /\ Len(chunk_infos_) = file.chunk_count /\ info <= file.chunk_count
        /\ DOMAIN connections_ = 0..file.conn_count-1
        /\ pending <= chunk_infos_[info].connection_count
    BY <1>p DEF StageOK
  <2>4. info \in Nat \ {0}
    BY DEF TypesOK
  <2> QED
    BY <1>n, <2>1, <2>2, <2>3, <2>4
<1>c. \A i \in 1..Len(chunk_infos_) : chunk_infos_[i] \in chunk_info_t
  BY <1>s, ElementOfSeq
<1>d. PICK cc \in Nat : cc = chunk_infos_[info].connection_count
  <2>1. chunk_infos_[info] \in chunk_info_t
    BY <1>s, <1>c
  <2>2. chunk_infos_[info].connection_count \in Nat
    BY <2>1 DEF chunk_info_t
  <2> QED
    BY <2>2
<1> DEFINE j == cc - pending + 1
           r == ChunkRecord.data[j]
<1>j. j \in 1..cc
  BY <1>d, <1>p, <1>s
<1>k. ChunkRecord = ChunkOf(info)
  BY DEF ChunkRecord, ChunkOf
<1>1. CASE j \notin DOMAIN ChunkRecord.data /\ Fail
  <2>1. ASSUME WellFormed(file)
        PROVE  FALSE
    <3>1. /\ chunk_infos_[info].chunk_pos \in DOMAIN file.chunks
          /\ cc = Len(ChunkOf(info).data)
      BY <2>1, <1>d, <1>p, <1>s, InfoOfCompleteFile
    <3>2. DOMAIN ChunkOf(info).data = 1..Len(ChunkOf(info).data)
      BY <3>1, FilesAssumption DEF TypesOK, ChunkOf
    <3> QED
      BY <3>1, <3>2, <1>j, <1>k, <1>1
  <2> QED
    BY <1>1, <1>p, <2>1, FailKeeps
<1>2. CASE ~Fail
  <2>1. /\ j \in DOMAIN ChunkRecord.data
        /\ chunk_infos_' = [chunk_infos_ EXCEPT ![info].message_count = @ + r.count]
        /\ connections_' = [connections_ EXCEPT
             ![r.conn].blocks = Append(@, AddressOf(chunks_, info)),
             ![r.conn].message_count = @ + r.count]
        /\ pending' = pending - 1
        /\ UNCHANGED <<file, pc, pos, info, topic_connection_map_, chunks_, message_schemata_>>
        /\ Loading'
    BY <1>2, <1>d, <1>p DEF ReadIndexData, Loading
  <2>u. pending' = pending - 1 /\ pc' = pc /\ info' = info /\ chunks_' = chunks_
    BY <2>1
  <2>f. file' = file
    BY <2>1
  <2>2. PICK c \in DOMAIN connections_, n \in Nat : c = r.conn /\ n = r.count
    <3>1. /\ file.conn_count + info \in DOMAIN file.index
          /\ file.index[file.conn_count + info].kind = "chunk_info"
          /\ chunk_infos_[info].chunk_pos = file.index[file.conn_count + info].chunk_pos
          /\ chunk_infos_[info].chunk_pos \in DOMAIN file.chunks
      BY <1>p, <1>s DEF InfosOK
    <3>2. PICK k \in DOMAIN file.index : k = file.conn_count + info
      BY <3>1
    <3>3. /\ file.index[k].kind = "chunk_info"
          /\ file.index[k].chunk_pos \in DOMAIN file.chunks
          /\ ChunkRecord = file.chunks[file.index[k].chunk_pos]
      BY <3>1, <3>2 DEF ChunkRecord
    <3>4. r.conn \in 0..file.conn_count-1 /\ r.count \in Nat
      BY <3>3, <2>1, DataRecord DEF TypesOK
    <3> QED
      BY <3>4, <1>s
  <2>3. PICK a \in [store : Nat, at : Nat] : a = AddressOf(chunks_, info)
    BY <1>s DEF AddressOf, TypesOK
  <2>4. PICK old : old = connections_[c]
    OBVIOUS
  <2>5. /\ DOMAIN old = {"id", "topic", "blocks", "def", "message_count"}
        /\ old.message_count \in Nat /\ old.blocks \in Seq([store : Nat, at : Nat])
    BY <2>4 DEF TypesOK
  <2>6. /\ connections_' = [connections_ EXCEPT ![c].blocks = Append(@, a),
                                                ![c].message_count = @ + n]
    BY <2>1, <2>2, <2>3
  <2>7. /\ DOMAIN connections_' = DOMAIN connections_
        /\ \A id \in DOMAIN connections_ : id # c => connections_'[id] = connections_[id]
        /\ DOMAIN connections_'[c] = DOMAIN old
        /\ connections_'[c].blocks = Append(old.blocks, a)
        /\ connections_'[c].message_count = old.message_count + n
        /\ connections_'[c].topic = old.topic /\ connections_'[c].def = old.def
    BY <2>4, <2>5, <2>6
  <2>8. \A id \in DOMAIN connections_ :
          connections_'[id].topic = connections_[id].topic
    BY <2>4, <2>7
  <2>9. /\ Len(chunk_infos_') = Len(chunk_infos_)
        /\ chunk_infos_' \in Seq(chunk_info_t)
        /\ \A i \in 1..Len(chunk_infos_) :
             /\ chunk_infos_'[i].chunk_pos = chunk_infos_[i].chunk_pos
             /\ chunk_infos_'[i].connection_count = chunk_infos_[i].connection_count
    <3>1. PICK cp \in Positions, co \in Nat, mc \in Nat : chunk_infos_[info] =
            [chunk_pos |-> cp, connection_count |-> co, message_count |-> mc]
      BY <1>c, <1>s DEF chunk_info_t
    <3>2. chunk_infos_' = [chunk_infos_ EXCEPT ![info] =
            [chunk_pos |-> cp, connection_count |-> co, message_count |-> mc + n]]
      <4>1. chunk_infos_' = [chunk_infos_ EXCEPT ![info].message_count = @ + n]
        BY <2>1, <2>2
      <4>2. chunk_infos_' = [chunk_infos_ EXCEPT ![info] =
              [chunk_infos_[info] EXCEPT !.message_count = mc + n]]
        BY <3>1, <4>1
      <4>3. [chunk_infos_[info] EXCEPT !.message_count = mc + n] =
              [chunk_pos |-> cp, connection_count |-> co, message_count |-> mc + n]
        BY <3>1
      <4> QED
        BY <4>2, <4>3
    <3>3. [chunk_pos |-> cp, connection_count |-> co, message_count |-> mc + n] \in chunk_info_t
      BY <2>2 DEF chunk_info_t
    <3>4. chunk_infos_' \in Seq(chunk_info_t) /\ Len(chunk_infos_') = Len(chunk_infos_)
      BY <3>2, <3>3, <1>s
    <3>5. ASSUME NEW i \in 1..Len(chunk_infos_)
          PROVE  /\ chunk_infos_'[i].chunk_pos = chunk_infos_[i].chunk_pos
                 /\ chunk_infos_'[i].connection_count = chunk_infos_[i].connection_count
      <4>1. CASE i = info
        BY <4>1, <3>1, <3>2, <1>s
      <4>2. CASE i # info
        BY <4>2, <3>2, <1>s
      <4> QED
        BY <4>1, <4>2
    <3> QED
      BY <3>4, <3>5
  <2>10. TypesOK'
    <3>1. \A id \in DOMAIN connections_' :
            /\ DOMAIN connections_'[id] = {"id", "topic", "blocks", "def", "message_count"}
            /\ connections_'[id].message_count \in Nat
            /\ connections_'[id].blocks \in Seq([store : Nat, at : Nat])
      <4>1. old.message_count + n \in Nat /\ Append(old.blocks, a) \in Seq([store : Nat, at : Nat])
        BY <2>2, <2>5
      <4> QED
        BY <4>1, <2>5, <2>7 DEF TypesOK
    <3>2. chunk_t' = chunk_t /\ chunk_info_t' = chunk_info_t
      BY <2>f, SMTT(30) DEF chunk_t, chunk_info_t, Positions
    <3>3. pending' \in Nat
      BY <1>p, <2>u, SMTT(30)
    <3> QED
      BY <2>1, <2>7, <2>9, <3>1, <3>2, <3>3 DEF TypesOK, topics
  <2>11. StageOK'
    <3>1. pending' <= chunk_infos_'[info].connection_count
      <4>1. chunk_infos_'[info].connection_count = chunk_infos_[info].connection_count
        BY <1>s, <2>9
      <4> QED
        BY <4>1, <1>d, <1>p, <1>s, <2>u
    <3> QED
      BY <1>p, <1>s, <2>1, <2>7, <2>9, <3>1 DEF StageOK
  <2>12. \A i \in 1..Len(chunk_infos_) : ChunkOf(i)' = ChunkOf(i)
    BY <2>1, <2>9 DEF ChunkOf
  <2>13. InfosOK'
    <3>1. \A i \in 1..info-1 : chunks_.elems[i].offset = ChunkOf(i)'.next
      BY <1>p, <1>s, <2>12 DEF InfosOK
    <3>2. \A i \in 1..Len(chunk_infos_) :
            /\ file.conn_count + i \in DOMAIN file.index
            /\ file.index[file.conn_count + i].kind = "chunk_info"
            /\ chunk_infos_[i].chunk_pos = file.index[file.conn_count + i].chunk_pos
            /\ chunk_infos_[i].connection_count = file.index[file.conn_count + i].count
            /\ i < info \/ i = info => chunk_infos_[i].chunk_pos \in DOMAIN file.chunks
      BY <1>p DEF InfosOK
    <3>3. \A i \in 1..Len(chunk_infos_') :
            /\ file.conn_count + i \in DOMAIN file.index
            /\ file.index[file.conn_count + i].kind = "chunk_info"
            /\ chunk_infos_'[i].chunk_pos = file.index[file.conn_count + i].chunk_pos
            /\ chunk_infos_'[i].connection_count = file.index[file.conn_count + i].count
            /\ i < info \/ i = info => chunk_infos_'[i].chunk_pos \in DOMAIN file.chunks
      BY <2>9, <3>2
    <3> HIDE DEF Inv
    <3> QED
      BY <2>f, <2>u, <3>1, <3>3 DEF InfosOK
  <2>14. BlocksOK'
    <3>1. ReadUpTo(info) = j - 1 /\ ReadUpTo(info)' = j
      <4>1. chunk_infos_'[info].connection_count = cc
        BY <1>d, <1>s, <2>9
      <4>2. ReadUpTo(info) = cc - pending /\ ReadUpTo(info)' = cc - pending'
        <5>1. info \in Nat
          BY DEF TypesOK
        <5> QED
          BY <4>1, <5>1, <1>d, <1>p, <2>u DEF ReadUpTo
      <4> QED
        BY <4>2, <1>p, <2>u
    <3>2. \A i \in 1..Len(chunk_infos_) : i # info => ReadUpTo(i)' = ReadUpTo(i)
      BY <2>1, <2>9 DEF ReadUpTo
    <3>3. ASSUME NEW id
          PROVE  Found(id)' = Found(id) \cup (IF id = c THEN {info} ELSE {})
      <4> DEFINE In(i, m) == \E l \in 1..m : ChunkOf(i).data[l].conn = id
      <4>1. Found(id) = {i \in 1..Len(chunk_infos_) : In(i, ReadUpTo(i))}
        BY DEF Found
      <4>2. Found(id)' = {i \in 1..Len(chunk_infos_) : In(i, ReadUpTo(i)')}
        BY <2>9, <2>12 DEF Found
      <4>3. In(info, j) <=> In(info, j - 1) \/ id = c
        <5>1. 1..j = (1..(j-1)) \cup {j}
          BY <1>j
        <5> QED
          BY <5>1, <2>2, <1>k
      <4> HIDE DEF In
      <4>4. ASSUME NEW i \in 1..Len(chunk_infos_)
            PROVE  In(i, ReadUpTo(i)') <=> In(i, ReadUpTo(i)) \/ (i = info /\ id = c)
        <5>1. CASE i = info
          BY <5>1, <4>3, <3>1, <2>u
        <5>2. CASE i # info
          BY <5>2, <3>2
        <5> QED
          BY <5>1, <5>2
      <4> QED
        BY <4>1, <4>2, <4>4, <1>s
    <3>4. /\ \A id \in DOMAIN connections_ : id # c => Blocks(id)' = Blocks(id)
          /\ Blocks(c)' = Blocks(c) \cup {a}
      <4>1. PICK B : B = [store : Nat, at : Nat]
        OBVIOUS
      <4>2. {Append(old.blocks, a)[k] : k \in DOMAIN Append(old.blocks, a)} =
            {old.blocks[k] : k \in DOMAIN old.blocks} \cup {a}
        <5>1. old.blocks \in Seq(B) /\ a \in B
          BY <2>3, <2>5, <4>1
        <5>2. PICK ob : ob = old.blocks
          OBVIOUS
        <5>3. ob \in Seq(B)
          BY <5>1, <5>2
        <5>4. PICK t : t = Append(ob, a)
          OBVIOUS
        <5>5. {t[k] : k \in DOMAIN t} = {ob[k] : k \in DOMAIN ob} \cup {a}
          <6>1. PICK e : e = a
            OBVIOUS
          <6>2. e \in B /\ t = Append(ob, e)
            BY <5>1, <5>4, <6>1
          <6>3. {t[k] : k \in DOMAIN t} = {ob[k] : k \in DOMAIN ob} \cup {e}
            BY <5>3, <6>2, AppendedElements
          <6> QED
            BY <6>1, <6>3
        <5> QED
          BY <5>2, <5>4, <5>5, Zenon
      <4>3. Blocks(c) = {old.blocks[k] : k \in DOMAIN old.blocks}
        BY <2>4 DEF Blocks
      <4>4. Blocks(c)' = {Append(old.blocks, a)[k] : k \in DOMAIN Append(old.blocks, a)}
        BY <2>7 DEF Blocks
      <4>5. \A id \in DOMAIN connections_ : id # c => Blocks(id)' = Blocks(id)
        BY <2>7 DEF Blocks
      <4> QED
        BY <4>2, <4>3, <4>4, <4>5
    <3>5. \A id \in DOMAIN connections_ : Blocks(id) = {AddressOf(chunks_, i) : i \in Found(id)}
      BY <1>p DEF BlocksOK
    <3>6. ASSUME NEW id \in DOMAIN connections_
          PROVE  Blocks(id)' = {AddressOf(chunks_, i) : i \in Found(id)'}
      <4>1. CASE id = c
        BY <4>1, <3>3, <3>4, <3>5, <2>3
      <4>2. CASE id # c
        BY <4>2, <3>3, <3>4, <3>5
      <4> QED
        BY <4>1, <4>2
    <3>7. \A i : AddressOf(chunks_', i) = AddressOf(chunks_, i)
      BY <2>u
    <3>8. \A id \in DOMAIN connections_ :
            Blocks(id)' = {AddressOf(chunks_', i) : i \in Found(id)'}
      BY <3>6, <3>7
    <3>9. DOMAIN connections_' = DOMAIN connections_
      BY <2>7
    <3> QED
      BY <3>8, <3>9 DEF BlocksOK
  <2>15. TopicsOK'
    <3>1. \A t : ConnectionsOf(t)' = ConnectionsOf(t)
      BY <2>1 DEF ConnectionsOf, topicInBag
    <3>2. WellFormed(file)' = WellFormed(file)
      BY <2>f, SMTT(30) DEF WellFormed
    <3>3. \A t : {id \in DOMAIN connections_' : connections_'[id].topic = t} =
                 {id \in DOMAIN connections_ : connections_[id].topic = t}
      BY <2>7, <2>8
    <3>4. \A id \in DOMAIN connections_' : connections_'[id].topic = connections_[id].topic
      BY <2>7, <2>8
    <3>5. file' = file /\ pos' = pos /\ DOMAIN connections_' = DOMAIN connections_
      BY <2>1, <2>7
    <3> QED
      BY <1>p, <3>1, <3>2, <3>3, <3>4, <3>5 DEF TopicsOK
  <2>16. SchemataOK'
    BY <1>p, <2>1 DEF SchemataOK, SchemataSound
  <2>17. WellFormedOpens'
    BY <1>p, <2>1 DEF WellFormedOpens
  <2> QED
    BY <2>10, <2>11, <2>13, <2>14, <2>15, <2>16, <2>17
<1> QED
  BY <1>1, <1>2, <1>d, <1>p DEF ReadIndexData, Fail

\* A topic that the bag does not know is inserted, with no connection.
LEMMA ConnectionsForTopicKeeps ==
  ASSUME Inv, NEW t \in Topics, connectionsForTopic(t)
  PROVE  Inv'
<1> USE DEF Inv
<1>1. /\ pc = "open"
      /\ UNCHANGED <<file, pc, pos, info, pending, connections_, chunk_infos_, chunks_,
                     message_schemata_>>
      /\ Loading /\ Loading'
  BY DEF connectionsForTopic, Loading
<1>2. /\ \A u \in topics : u \in topics' /\ topic_connection_map_'[u] = topic_connection_map_[u]
      /\ \A u \in topics' : u \notin topics => topic_connection_map_'[u] = <<>>
  BY DEF connectionsForTopic, topicInBag, Put, topics
<1>3. TypesOK'
  <2>1. \A u \in topics' : topic_connection_map_'[u] \in Seq(DOMAIN connections_)
    <3>1. <<>> \in Seq(DOMAIN connections_)
      OBVIOUS
    <3>2. ASSUME NEW u \in topics
          PROVE  topic_connection_map_'[u] \in Seq(DOMAIN connections_)
      BY <1>2 DEF TypesOK
    <3> QED
      BY <1>2, <3>1, <3>2
  <2>2. chunk_t' = chunk_t /\ chunk_info_t' = chunk_info_t
    BY <1>1 DEF chunk_t, chunk_info_t, Positions
  <2> QED
    BY <1>1, <2>1, <2>2 DEF TypesOK
<1>4. StageOK'
  BY <1>1 DEF StageOK, Loading
<1>5. InfosOK'
  BY <1>1 DEF InfosOK, ChunkOf
<1>6. BlocksOK'
  <2>1. \A i : ReadUpTo(i)' = ReadUpTo(i)
    BY <1>1 DEF ReadUpTo
  <2>2. \A id : Found(id)' = Found(id) /\ Blocks(id)' = Blocks(id)
    BY <1>1, <2>1 DEF Found, Blocks, ChunkOf
  <2> QED
    BY <1>1, <2>2 DEF BlocksOK, AddressOf
<1>7. TopicsOK'
  <2>1. ASSUME NEW u
        PROVE  ConnectionsOf(u)' = ConnectionsOf(u)
    <3>1. CASE u \in topics
      BY <3>1, <1>2 DEF ConnectionsOf, topicInBag, topics
    <3>2. CASE u \notin topics
      BY <3>2, <1>2 DEF ConnectionsOf, topicInBag, topics
    <3> QED
      BY <3>1, <3>2
  <2> QED
    BY <1>1, <2>1 DEF TopicsOK, WellFormed
<1>8. SchemataOK'
  <2>1. \A u \in DOMAIN message_schemata_ :
          u \in topics /\ u \in topics' /\ topic_connection_map_'[u] = topic_connection_map_[u]
    BY <1>2 DEF SchemataOK, topicInBag, topics
  <2>2. \A u \in DOMAIN message_schemata_ : DefinitionOf(u)' = DefinitionOf(u)
    BY <1>1, <2>1 DEF DefinitionOf
  <2>3. SchemataSound'
    BY <1>1, <2>2 DEF SchemataOK, SchemataSound, Parse
  <2> QED
    BY <1>1, <2>1, <2>3 DEF SchemataOK, topicInBag, topics
<1>9. WellFormedOpens'
  BY <1>1 DEF WellFormedOpens
<1> QED
  BY <1>3, <1>4, <1>5, <1>6, <1>7, <1>8, <1>9

LEMMA MsgDefForTopicKeeps ==
  ASSUME Inv, NEW t \in Topics, msgDefForTopic(t)
  PROVE  Inv'
<1> USE DEF Inv, loaded
<1>1. /\ pc = "open"
      /\ UNCHANGED <<file, pc, pos, info, pending, loaded>>
      /\ Loading /\ Loading'
  BY DEF msgDefForTopic, Loading
<1>2. \/ UNCHANGED message_schemata_
      \/ /\ topicInBag(t) /\ topic_connection_map_[t] # <<>>
         /\ message_schemata_' = Put(message_schemata_, t,
              IF DefinitionOf(t) \in Unparsable THEN Null ELSE Parse(DefinitionOf(t)))
  BY DEF msgDefForTopic
<1>3. /\ DOMAIN message_schemata_' \subseteq DOMAIN message_schemata_ \cup {t}
      /\ \A u \in DOMAIN message_schemata_' :
           /\ topicInBag(u) /\ topic_connection_map_[u] # <<>>
           /\ message_schemata_'[u] =
                (IF DefinitionOf(u) \in Unparsable THEN Null ELSE Parse(DefinitionOf(u)))
  <2>1. \A u \in DOMAIN message_schemata_ :
           /\ topicInBag(u) /\ topic_connection_map_[u] # <<>>
           /\ message_schemata_[u] =
                (IF DefinitionOf(u) \in Unparsable THEN Null ELSE Parse(DefinitionOf(u)))
    BY DEF SchemataOK, SchemataSound
  <2> QED
    BY <1>2, <2>1 DEF Put
<1>4. TypesOK'
  BY <1>1, <1>3 DEF TypesOK, topics, chunk_t, chunk_info_t, Positions
<1>5. StageOK'
  BY <1>1 DEF StageOK, Loading
<1>6. InfosOK'
  BY <1>1 DEF InfosOK, ChunkOf
<1>7. BlocksOK'
  <2>1. \A i : ReadUpTo(i)' = ReadUpTo(i)
    BY <1>1 DEF ReadUpTo
  <2>2. \A id : Found(id)' = Found(id) /\ Blocks(id)' = Blocks(id)
    BY <1>1, <2>1 DEF Found, Blocks, ChunkOf
  <2> QED
    BY <1>1, <2>2 DEF BlocksOK, AddressOf
<1>8. TopicsOK'
  BY <1>1 DEF TopicsOK, ConnectionsOf, topicInBag, WellFormed
<1>9. SchemataOK'
  <2>1. \A u : DefinitionOf(u)' = DefinitionOf(u) /\ topicInBag(u)' = topicInBag(u)
    BY <1>1 DEF DefinitionOf, topicInBag
  <2>2. SchemataSound'
    BY <1>3, <2>1 DEF SchemataSound
  <2> QED
    BY <1>1, <1>3, <2>1, <2>2 DEF SchemataOK
<1>10. WellFormedOpens'
  BY <1>1 DEF WellFormedOpens
<1> QED
  BY <1>4, <1>5, <1>6, <1>7, <1>8, <1>9, <1>10

\* The invariant is inductive.
LEMMA StepKeeps ==
  ASSUME Inv, [Next]_vars
  PROVE  Inv'
<1>1. CASE Load
  BY <1>1, ReadBagHeaderKeeps, ReadConnectionKeeps, ConnectionsReadKeeps, ReadChunkInfoKeeps,
     ChunkInfosReadKeeps, ReadChunkKeeps, ReadIndexDataKeeps, PushChunkKeeps, ChunksReadKeeps
  DEF Load
<1>2. CASE \E t \in Topics : connectionsForTopic(t)
  BY <1>2, ConnectionsForTopicKeeps
<1>3. CASE \E t \in Topics : msgDefForTopic(t)
  BY <1>3, MsgDefForTopicKeeps
<1>4. CASE UNCHANGED vars
  <2> USE <1>4 DEF vars, loaded, Inv
  <2>1. TypesOK' /\ StageOK'
    BY DEF TypesOK, StageOK, Loading, topics, chunk_t, chunk_info_t, Positions
  <2>2. InfosOK'
    BY DEF InfosOK, ChunkOf, Loading
  <2>3. \A i : ReadUpTo(i)' = ReadUpTo(i)
    BY DEF ReadUpTo
  <2>4. \A id : Found(id)' = Found(id) /\ Blocks(id)' = Blocks(id)
    BY <2>3 DEF Found, Blocks, ChunkOf
  <2>5. BlocksOK'
    BY <2>4 DEF BlocksOK, AddressOf, Loading
  <2>6. TopicsOK'
    BY DEF TopicsOK, ConnectionsOf, topicInBag, WellFormed, Loading
  <2>7. SchemataOK' /\ WellFormedOpens'
    BY DEF SchemataOK, SchemataSound, DefinitionOf, topicInBag, WellFormedOpens, WellFormed, Parse
  <2> QED
    BY <2>1, <2>2, <2>5, <2>6, <2>7
<1> QED
  BY <1>1, <1>2, <1>3, <1>4 DEF Next

\* The invariant of the constructor and of the questions to an open bag.
THEOREM Invariance == Spec => []Inv
  BY InitIsGood, StepKeeps, PTL DEF Spec

-----------------------------------------------------------------------------
LEMMA TypesFollow == Inv => TypeOK
<1> SUFFICES ASSUME Inv PROVE TypeOK
  OBVIOUS
<1>1. TypesOK
  BY DEF Inv
<1>2. ASSUME NEW id \in DOMAIN connections_, NEW k \in DOMAIN connections_[id].blocks
      PROVE  connections_[id].blocks[k] \in [store : Nat, at : Nat]
  <2>1. connections_[id].blocks \in Seq([store : Nat, at : Nat])
    BY <1>1 DEF TypesOK
  <2>2. PICK B, S : B = connections_[id].blocks /\ S = [store : Nat, at : Nat]
    OBVIOUS
  <2>3. B \in Seq(S) /\ k \in DOMAIN B
    BY <2>1, <2>2
  <2>4. k \in 1..Len(B)
    BY <2>3, LenProperties
  <2>5. B[k] \in S
    BY <2>3, <2>4, ElementOfSeq
  <2> QED
    BY <2>2, <2>5
<1> QED
  BY <1>1, <1>2 DEF TypesOK, TypeOK

(***************************************************************************)
(* The variables have their types: what a topic leads to are ids of the    *)
(* vector of connections, for any files (Bag::readRecords).                *)
(***************************************************************************)
THEOREM TypeCorrect == Spec => []TypeOK
  BY Invariance, TypesFollow, PTL

LEMMA BlocksFollow == Inv => BlocksPointToChunks
<1> SUFFICES ASSUME Inv, pc # "failed", NEW id \in DOMAIN connections_, NEW p \in Blocks(id)
             PROVE  /\ p.store = chunks_.store
                    /\ pc = "open" => Valid(chunks_, p)
  BY DEF BlocksPointToChunks
<1>1. Loading
  BY DEF Inv, TypesOK, StageOK, Loading
<1>2. PICK i \in Found(id) : p = AddressOf(chunks_, i)
  BY <1>1 DEF Inv, BlocksOK
<1>3. p.store = chunks_.store /\ p.at = i /\ i \in 1..Len(chunk_infos_)
  BY <1>2 DEF AddressOf, Found
<1>4. ASSUME pc = "open"
      PROVE  p.at \in DOMAIN chunks_.elems
  <2>1. Len(chunks_.elems) = file.chunk_count /\ Len(chunk_infos_) = file.chunk_count
    <3>1. file.chunk_count \in Nat
      BY FileNumbers DEF Inv, TypesOK
    <3> QED
      BY <1>1, <1>4, <3>1 DEF Inv, StageOK
  <2>2. chunks_.elems \in Seq(chunk_t)
    BY DEF Inv, TypesOK
  <2>3. DOMAIN chunks_.elems = 1..Len(chunks_.elems)
    BY <2>2, LenProperties
  <2> QED
    BY <1>3, <2>1, <2>3
<1> QED
  BY <1>3, <1>4 DEF Valid

(***************************************************************************)
(* No block of a connection dangles: the memory that is reserved for       *)
(* chunk_count chunks (embag.cc:169) is enough whatever the file says, and *)
(* in an open bag every pointer taken ahead (embag.cc:288) has a chunk.    *)
(***************************************************************************)
THEOREM BlocksNeverDangle == Spec => []BlocksPointToChunks
  BY Invariance, BlocksFollow, PTL

\* In a complete file every chunk is one of a chunk info: as many infos as
\* chunks, and no chunk twice.
LEMMA EveryChunkListed ==
  ASSUME Inv, pc = "open", WellFormed(file), NEW d \in DOMAIN file.chunks
  PROVE  \E i \in 1..Len(chunk_infos_) : chunk_infos_[i].chunk_pos = d
<1> DEFINE n == Len(chunk_infos_)
           D == DOMAIN file.chunks
           f == [i \in 1..n |-> chunk_infos_[i].chunk_pos]
<1>1. /\ Loading /\ n = file.chunk_count /\ n \in Nat /\ file.conn_count \in Nat
      /\ IsFiniteSet(D) /\ Len(file.index) \in Nat /\ DOMAIN file.index = 1..Len(file.index)
  BY FileNumbers DEF Inv, StageOK, Loading, TypesOK
<1>2. \A i \in 1..n : chunk_infos_[i].chunk_pos \in D
  BY <1>1, InfoOfCompleteFile
<1>3. ASSUME NEW i \in 1..n, NEW j \in 1..n, i # j
      PROVE  chunk_infos_[i].chunk_pos # chunk_infos_[j].chunk_pos
  <2>1. \A k \in 1..n :
          /\ file.conn_count + k \in DOMAIN file.index
          /\ chunk_infos_[k].chunk_pos = file.index[file.conn_count + k].chunk_pos
    BY <1>1 DEF Inv, InfosOK
  <2>2. /\ file.conn_count + i \in file.conn_count+1..Len(file.index)
        /\ file.conn_count + j \in file.conn_count+1..Len(file.index)
        /\ file.conn_count + i # file.conn_count + j
    BY <1>1, <1>3, <2>1
  <2>3. file.index[file.conn_count + i].chunk_pos # file.index[file.conn_count + j].chunk_pos
    BY <2>2 DEF WellFormed
  <2> QED
    BY <2>1, <2>3
<1>4. f \in Injection(1..n, D)
  BY <1>2, <1>3 DEF Injection, IsInjective
<1>5. Cardinality(1..n) = Cardinality(D)
  <2>1. Cardinality(1..n) = n
    BY <1>1, FS_Interval
  <2> QED
    BY <1>1, <2>1 DEF WellFormed
<1>6. f \in Surjection(1..n, D)
  BY <1>1, <1>4, <1>5, FS_Injection
<1> QED
  BY <1>6 DEF Surjection

LEMMA IndexFollows == Inv => IndexExact
<1> SUFFICES ASSUME Inv, pc = "open", WellFormed(file)
             PROVE  /\ \A t \in Topics : ConnectionsOf(t) =
                         {id \in DOMAIN connections_ : connections_[id].topic = t}
                    /\ \A id \in DOMAIN connections_ :
                         {chunks_.elems[p.at].offset : p \in Blocks(id)} =
                         {file.chunks[c].next : c \in {d \in DOMAIN file.chunks :
                            \E j \in DOMAIN file.chunks[d].data : file.chunks[d].data[j].conn = id}}
  BY DEF IndexExact
<1>1. Loading
  BY DEF Loading
<1>2. /\ info = file.chunk_count + 1 /\ Len(chunk_infos_) = file.chunk_count
      /\ file.chunk_count \in Nat
  BY FileNumbers DEF Inv, StageOK, TypesOK
<1>3. ASSUME NEW i \in 1..Len(chunk_infos_)
      PROVE  /\ chunk_infos_[i].chunk_pos \in DOMAIN file.chunks
             /\ 1..ReadUpTo(i) = DOMAIN ChunkOf(i).data
             /\ chunks_.elems[i].offset = ChunkOf(i).next
  <2>1. /\ chunk_infos_[i].chunk_pos \in DOMAIN file.chunks
        /\ chunk_infos_[i].connection_count = Len(ChunkOf(i).data)
    BY <1>1, InfoOfCompleteFile
  <2>2. DOMAIN ChunkOf(i).data = 1..Len(ChunkOf(i).data)
    BY <2>1, FilesAssumption DEF Inv, TypesOK, ChunkOf
  <2>3. i < info /\ i \in 1..info-1
    BY <1>2
  <2>4. ReadUpTo(i) = chunk_infos_[i].connection_count
    BY <2>3 DEF ReadUpTo
  <2>5. chunks_.elems[i].offset = ChunkOf(i).next
    BY <1>1, <2>3 DEF Inv, InfosOK
  <2> QED
    BY <2>1, <2>2, <2>4, <2>5
<1>4. ASSUME NEW id \in DOMAIN connections_
      PROVE  {chunks_.elems[p.at].offset : p \in Blocks(id)} =
             {file.chunks[c].next : c \in {d \in DOMAIN file.chunks :
                \E j \in DOMAIN file.chunks[d].data : file.chunks[d].data[j].conn = id}}
  <2> DEFINE Holds(d) == \E j \in DOMAIN file.chunks[d].data : file.chunks[d].data[j].conn = id
  <2>1. Blocks(id) = {AddressOf(chunks_, i) : i \in Found(id)}
    BY <1>1 DEF Inv, BlocksOK
  <2>2. {chunks_.elems[p.at].offset : p \in Blocks(id)} =
        {chunks_.elems[i].offset : i \in Found(id)}
    <3>1. \A p \in Blocks(id) : p.at \in Found(id)
      BY <2>1 DEF AddressOf
    <3>2. ASSUME NEW i \in Found(id)
          PROVE  \E p \in Blocks(id) : p.at = i
      <4>1. AddressOf(chunks_, i) \in Blocks(id)
        BY <2>1
      <4>2. AddressOf(chunks_, i).at = i
        BY DEF AddressOf
      <4> QED
        BY <4>1, <4>2
    <3> QED
      BY <3>1, <3>2
  <2>3. Found(id) = {i \in 1..Len(chunk_infos_) : Holds(chunk_infos_[i].chunk_pos)}
    BY <1>3 DEF Found, ChunkOf
  <2>4. \A i \in 1..Len(chunk_infos_) :
          chunks_.elems[i].offset = file.chunks[chunk_infos_[i].chunk_pos].next
    BY <1>3 DEF ChunkOf
  <2>5. \A i \in 1..Len(chunk_infos_) : chunk_infos_[i].chunk_pos \in DOMAIN file.chunks
    BY <1>3
  <2>6. \A d \in DOMAIN file.chunks :
          \E i \in 1..Len(chunk_infos_) : chunk_infos_[i].chunk_pos = d
    BY EveryChunkListed
  <2> HIDE DEF Holds
  <2>7. {chunks_.elems[i].offset : i \in Found(id)} =
        {file.chunks[c].next : c \in {d \in DOMAIN file.chunks : Holds(d)}}
    <3>1. ASSUME NEW i \in Found(id)
          PROVE  \E c \in DOMAIN file.chunks : Holds(c) /\ chunks_.elems[i].offset = file.chunks[c].next
      BY <2>3, <2>4, <2>5
    <3>2. ASSUME NEW c \in DOMAIN file.chunks, Holds(c)
          PROVE  \E i \in Found(id) : chunks_.elems[i].offset = file.chunks[c].next
      <4>1. PICK i \in 1..Len(chunk_infos_) : chunk_infos_[i].chunk_pos = c
        BY <2>6
      <4>2. i \in Found(id)
        BY <2>3, <3>2, <4>1
      <4> QED
        BY <2>4, <4>1, <4>2
    <3> QED
      BY <3>1, <3>2
  <2> QED
    BY <2>2, <2>7 DEF Holds
<1> QED
  BY <1>1, <1>4 DEF Inv, TopicsOK

(***************************************************************************)
(* In an open bag from a complete file the topics lead to exactly their    *)
(* connections and these to exactly the chunks with their messages, what-  *)
(* ever the order of the chunk infos, and whatever was asked of the bag.   *)
(***************************************************************************)
THEOREM IndexIsExact == Spec => []IndexExact
  BY Invariance, IndexFollows, PTL

(***************************************************************************)
(* The constructor does not throw on a complete file.                      *)
(***************************************************************************)
THEOREM WellFormedFilesOpen == Spec => []WellFormedOpens
<1>1. Inv => WellFormedOpens
  BY DEF Inv
<1> QED
  BY Invariance, <1>1, PTL

(***************************************************************************)
(* The schema kept for a topic is the one its first connection defines, or *)
(* null where the definition does not parse, although the map of topics    *)
(* changes between the questions (Bag::msgDefForTopic).                    *)
(***************************************************************************)
THEOREM SchemataAreSound == Spec => []SchemataSound
<1>1. Inv => SchemataSound
  BY DEF Inv, SchemataOK
<1> QED
  BY Invariance, <1>1, PTL

-----------------------------------------------------------------------------
(***************************************************************************)
(* How many messages were counted.  Both countings stand for the records   *)
(* that have been read; a chunk has the info as it was when it was pushed, *)
(* when all its records had been read.                                     *)
(***************************************************************************)
CountsOfConnections(cs) == [id \in DOMAIN cs |-> cs[id].message_count]
CountsOfChunks(chunks) == [k \in DOMAIN chunks |-> chunks[k].info.message_count]
CountsOfInfos(infos) == [i \in DOMAIN infos |-> infos[i].message_count]

CountsOK ==
  Loading =>
    /\ SumOf(CountsOfConnections(connections_), DOMAIN connections_) =
       SumOf(CountsOfInfos(chunk_infos_), DOMAIN chunk_infos_)
    /\ pc = "connections" => \A id \in DOMAIN connections_ : connections_[id].message_count = 0
    /\ \A i \in 1..info-1 : chunks_.elems[i].info = chunk_infos_[i]

\* The sums of CountsAgree.
LEMMA SumOfConnections ==
  ASSUME NEW cs, IsFiniteSet(DOMAIN cs), \A id \in DOMAIN cs : cs[id].message_count \in Nat
  PROVE  MapThenSumSet(LAMBDA id : cs[id].message_count, DOMAIN cs) =
         SumOf(CountsOfConnections(cs), DOMAIN cs)
<1> DEFINE S == DOMAIN cs
           f == CountsOfConnections(cs)
           Step(g) == [s \in SUBSET S |->
             IF s = {} THEN 0 ELSE cs[Picked(s)].message_count + g[s \ {Picked(s)}]]
<1>1. \A x \in S : f[x] \in Nat /\ f[x] = cs[x].message_count
  BY DEF CountsOfConnections
<1>2. \A s \in SUBSET S : s # {} => Picked(s) \in S
  BY DEF Picked
<1>3. \A g : Step(g) = SumStep(f, SUBSET S, g)
  <2> TAKE g
  <2> HIDE DEF f
  <2>1. \A s \in SUBSET S : (IF s = {} THEN 0 ELSE cs[Picked(s)].message_count + g[s \ {Picked(s)}]) =
                            (IF s = {} THEN 0 ELSE f[Picked(s)] + g[s \ {Picked(s)}])
    BY <1>1, <1>2
  <2> QED
    BY <2>1 DEF SumStep
<1>4. \A g : g = Step(g) <=> IsSum(f, S, g)
  BY <1>3 DEF IsSum, IsSumOn
<1>5. IsFiniteSet(S)
  OBVIOUS
<1> HIDE DEF Step, f, S
<1>6. PICK k : /\ k = CHOOSE g : g = Step(g)
               /\ k = Step(k)
  <2>1. \E g : IsSum(f, S, g)
    BY <1>1, <1>5, SumExists
  <2> QED
    BY <2>1, <1>4
<1>7. MapThenSumSet(LAMBDA id : cs[id].message_count, DOMAIN cs) = k[S]
  BY <1>6 DEF MapThenSumSet, MapThenFoldSet, Picked, Step, S
<1>8. SumOf(f, S) = k[S]
  <2>1. IsSum(f, S, k)
    BY <1>4, <1>6
  <2>2. \A x \in S : f[x] \in Nat
    BY <1>1
  <2> QED
    BY <1>5, <2>1, <2>2, SumIs
<1> QED
  BY <1>7, <1>8 DEF f, S

LEMMA SumOfChunks ==
  ASSUME NEW chunks, IsFiniteSet(DOMAIN chunks), \A k \in DOMAIN chunks : chunks[k].info.message_count \in Nat
  PROVE  MapThenSumSet(LAMBDA k : chunks[k].info.message_count, DOMAIN chunks) =
         SumOf(CountsOfChunks(chunks), DOMAIN chunks)
<1> DEFINE S == DOMAIN chunks
           f == CountsOfChunks(chunks)
           Step(g) == [s \in SUBSET S |->
             IF s = {} THEN 0 ELSE chunks[Picked(s)].info.message_count + g[s \ {Picked(s)}]]
<1>1. \A x \in S : f[x] \in Nat /\ f[x] = chunks[x].info.message_count
  BY DEF CountsOfChunks
<1>2. \A s \in SUBSET S : s # {} => Picked(s) \in S
  BY DEF Picked
<1>3. \A g : Step(g) = SumStep(f, SUBSET S, g)
  <2> TAKE g
  <2> HIDE DEF f
  <2>1. \A s \in SUBSET S : (IF s = {} THEN 0 ELSE chunks[Picked(s)].info.message_count + g[s \ {Picked(s)}]) =
                            (IF s = {} THEN 0 ELSE f[Picked(s)] + g[s \ {Picked(s)}])
    BY <1>1, <1>2
  <2> QED
    BY <2>1 DEF SumStep
<1>4. \A g : g = Step(g) <=> IsSum(f, S, g)
  BY <1>3 DEF IsSum, IsSumOn
<1>5. IsFiniteSet(S)
  OBVIOUS
<1> HIDE DEF Step, f, S
<1>6. PICK h : /\ h = CHOOSE g : g = Step(g)
               /\ h = Step(h)
  <2>1. \E g : IsSum(f, S, g)
    BY <1>1, <1>5, SumExists
  <2> QED
    BY <2>1, <1>4
<1>7. MapThenSumSet(LAMBDA k : chunks[k].info.message_count, DOMAIN chunks) = h[S]
  BY <1>6 DEF MapThenSumSet, MapThenFoldSet, Picked, Step, S
<1>8. SumOf(f, S) = h[S]
  <2>1. IsSum(f, S, h)
    BY <1>4, <1>6
  <2>2. \A x \in S : f[x] \in Nat
    BY <1>1
  <2> QED
    BY <1>5, <2>1, <2>2, SumIs
<1> QED
  BY <1>7, <1>8 DEF f, S

\* Nothing is counted, and no chunk is added.
LEMMA CountsUnchanged ==
  ASSUME CountsOK, UNCHANGED <<info, connections_, chunk_infos_, chunks_>>,
         Loading' => Loading, pc' = "connections" => pc = "connections"
  PROVE  CountsOK'
BY DEF CountsOK

LEMMA CountsNotLoading ==
  ASSUME Fail
  PROVE  CountsOK'
BY DEF CountsOK, Fail, Loading

LEMMA CountsAfterHeader ==
  ASSUME Inv, ReadBagHeader
  PROVE  CountsOK'
<1>1. CASE Fail
  BY <1>1, CountsNotLoading
<1>2. CASE ~Fail
  <2>1. /\ pc = "stream" /\ pc' = "connections" /\ info' = info /\ chunk_infos_' = chunk_infos_
        /\ connections_' = [id \in 0..file.conn_count-1 |-> NoConnection]
    BY <1>2 DEF ReadBagHeader
  <2>2. info' = 1 /\ chunk_infos_' \in Seq(chunk_info_t) /\ Len(chunk_infos_') = 0
    BY <2>1 DEF Inv, StageOK, TypesOK
  <2>3. DOMAIN chunk_infos_' = {}
    BY <2>2, LenProperties
  <2>4. IsFiniteSet(DOMAIN connections_')
    <3>1. file.conn_count \in Nat
      BY FileNumbers DEF Inv, TypesOK
    <3> QED
      BY <2>1, <3>1, FS_Interval
  <2>5. \A id \in DOMAIN connections_' : connections_'[id].message_count = 0
    BY <2>1 DEF NoConnection
  <2>6. PICK f : f = CountsOfConnections(connections_')
    OBVIOUS
  <2>7. SumOf(f, DOMAIN connections_') = 0
    <3>1. \A id \in DOMAIN connections_' : f[id] = 0
      BY <2>5, <2>6 DEF CountsOfConnections
    <3> QED
      BY <3>1, <2>4, SumZero
  <2>8. SumOf(CountsOfInfos(chunk_infos_'), {}) = 0
    BY SumEmpty
  <2> QED
    BY <2>1, <2>2, <2>3, <2>5, <2>6, <2>7, <2>8 DEF CountsOK
<1> QED
  BY <1>1, <1>2

\* A connection record comes before any message is counted.
LEMMA CountsAfterConnection ==
  ASSUME Inv, CountsOK, ReadConnection
  PROVE  CountsOK'
<1>1. CASE Fail
  BY <1>1, CountsNotLoading
<1>2. CASE ~Fail
  <2> DEFINE r == file.index[pos]
  <2>1. /\ pc = "connections" /\ NextIs("connection")
        /\ UNCHANGED <<pc, info, chunk_infos_, chunks_>>
        /\ \/ r.topic = NoTopic /\ UNCHANGED connections_
           \/ /\ r.topic # NoTopic
              /\ connections_' = [connections_ EXCEPT ![r.id] =
                   [id |-> r.id, topic |-> r.topic, blocks |-> @.blocks, def |-> r.def,
                    message_count |-> 0]]
    BY <1>2 DEF ReadConnection
  <2>2. Loading
    BY <2>1 DEF Loading
  <2>3. CASE r.topic = NoTopic /\ UNCHANGED connections_
    BY <2>1, <2>2, <2>3, CountsUnchanged
  <2>4. CASE r.topic # NoTopic
    <3>1. /\ DOMAIN connections_' = DOMAIN connections_
          /\ \A id \in DOMAIN connections_ : connections_'[id].message_count = 0
      BY <2>1, <2>2, <2>4 DEF CountsOK
    <3>2. CountsOfConnections(connections_') = CountsOfConnections(connections_)
      <4>1. \A id \in DOMAIN connections_ : connections_[id].message_count = 0
        BY <2>1, <2>2 DEF CountsOK
      <4> QED
        BY <3>1, <4>1 DEF CountsOfConnections
    <3> QED
      BY <2>1, <2>2, <3>1, <3>2 DEF CountsOK
  <2> QED
    BY <2>1, <2>3, <2>4
<1> QED
  BY <1>1, <1>2

\* A chunk info starts with no messages.
LEMMA CountsAfterChunkInfo ==
  ASSUME Inv, CountsOK, ReadChunkInfo
  PROVE  CountsOK'
<1>1. CASE Fail
  BY <1>1, CountsNotLoading
<1>2. CASE ~Fail
  <2> DEFINE e == [chunk_pos |-> file.index[pos].chunk_pos,
                   connection_count |-> file.index[pos].count, message_count |-> 0]
  <2>1. /\ pc = "infos" /\ UNCHANGED <<pc, info, connections_, chunks_>>
        /\ chunk_infos_' = Append(chunk_infos_, e)
    BY <1>2 DEF ReadChunkInfo
  <2>2. Loading /\ info = 1 /\ chunk_infos_ \in Seq(chunk_info_t)
    BY <2>1 DEF Inv, StageOK, TypesOK, Loading
  <2>3. PICK n \in Nat : n = Len(chunk_infos_) /\ DOMAIN chunk_infos_ = 1..n
    BY <2>2, LenProperties
  <2>4. /\ DOMAIN chunk_infos_' = 1..n \cup {n+1} /\ n+1 \notin 1..n
        /\ \A i \in 1..n : chunk_infos_'[i] = chunk_infos_[i]
        /\ chunk_infos_'[n+1] = e
    BY <2>1, <2>2, <2>3
  <2>5. \A i \in 1..n : chunk_infos_[i].message_count \in Nat
    <3>1. \A i \in 1..n : chunk_infos_[i] \in chunk_info_t
      BY <2>2, <2>3, ElementOfSeq
    <3> QED
      BY <3>1 DEF chunk_info_t
  <2>6. PICK f, h : f = CountsOfInfos(chunk_infos_) /\ h = CountsOfInfos(chunk_infos_')
    OBVIOUS
  <2>7. \A i \in 1..n : h[i] \in Nat /\ h[i] = f[i]
    BY <2>3, <2>4, <2>5, <2>6 DEF CountsOfInfos
  <2>8. h[n+1] = 0
    BY <2>4, <2>6 DEF CountsOfInfos
  <2>9. SumOf(h, 1..n \cup {n+1}) = SumOf(f, 1..n)
    <3>1. IsFiniteSet(1..n)
      BY FS_Interval
    <3>2. SumOf(h, 1..n) = SumOf(f, 1..n)
      BY <2>7, <3>1, SumSame
    <3>3. SumOf(h, 1..n) \in Nat
      BY <2>7, <3>1, SumIsNat
    <3>4. SumOf(h, 1..n \cup {n+1}) = SumOf(h, 1..n) + h[n+1]
      <4>1. \A x \in 1..n \cup {n+1} : h[x] \in Nat
        BY <2>7, <2>8
      <4>2. n+1 \notin 1..n
        OBVIOUS
      <4> QED
        BY <3>1, <4>1, <4>2, SumAdd
    <3> QED
      BY <2>8, <3>2, <3>3, <3>4
  <2>10. SumOf(CountsOfConnections(connections_'), DOMAIN connections_') =
         SumOf(CountsOfInfos(chunk_infos_'), DOMAIN chunk_infos_')
    BY <2>1, <2>2, <2>3, <2>4, <2>6, <2>9 DEF CountsOK
  <2>11. pc' # "connections" /\ 1..info'-1 = {}
    BY <2>1, <2>2
  <2> QED
    BY <2>10, <2>11 DEF CountsOK
<1> QED
  BY <1>1, <1>2

\* The chunk gets the info as it is.
LEMMA CountsAfterPush ==
  ASSUME Inv, CountsOK, PushChunk
  PROVE  CountsOK'
<1>1. /\ pc = "index_data" /\ pc' = "chunks" /\ info' = info + 1
      /\ UNCHANGED <<connections_, chunk_infos_>>
      /\ chunks_' = PushBack(chunks_, [offset |-> ChunkRecord.next, info |-> chunk_infos_[info]])
  BY DEF PushChunk
<1>2. /\ Loading /\ info \in Nat \ {0} /\ Len(chunks_.elems) = info - 1
      /\ chunks_.elems \in Seq(chunk_t)
  BY <1>1 DEF Inv, StageOK, TypesOK, Loading
<1>3. PICK e : e = [offset |-> ChunkRecord.next, info |-> chunk_infos_[info]]
  OBVIOUS
<1>4. chunks_'.elems = Append(chunks_.elems, e)
  BY <1>1, <1>3 DEF PushBack, Reserve
<1>5. /\ \A i \in 1..info-1 : chunks_'.elems[i] = chunks_.elems[i]
      /\ chunks_'.elems[info].info = chunk_infos_[info]
  <2>1. chunks_'.elems[info] = e
    BY <1>2, <1>4
  <2> QED
    BY <1>2, <1>3, <1>4, <2>1
<1>6. \A i \in 1..info'-1 : i \in 1..info-1 \/ i = info
  BY <1>1, <1>2
<1> QED
  BY <1>1, <1>2, <1>5, <1>6 DEF CountsOK

\* The messages of a record are counted twice.
LEMMA CountsAfterIndexData ==
  ASSUME Inv, CountsOK, ReadIndexData
  PROVE  CountsOK'
<1>1. CASE Fail
  BY <1>1, CountsNotLoading
<1>2. CASE ~Fail
  <2> DEFINE j == chunk_infos_[info].connection_count - pending + 1
             r == ChunkRecord.data[j]
  <2>1. /\ pc = "index_data" /\ pending > 0 /\ j \in DOMAIN ChunkRecord.data
        /\ UNCHANGED <<pc, info, chunks_>>
        /\ chunk_infos_' = [chunk_infos_ EXCEPT ![info].message_count = @ + r.count]
        /\ connections_' = [connections_ EXCEPT
             ![r.conn].blocks = Append(@, AddressOf(chunks_, info)),
             ![r.conn].message_count = @ + r.count]
    BY <1>2 DEF ReadIndexData
  <2>2. /\ Loading /\ info \in Nat \ {0} /\ chunk_infos_ \in Seq(chunk_info_t)
        /\ Len(chunk_infos_) = file.chunk_count /\ info <= file.chunk_count
        /\ DOMAIN connections_ = 0..file.conn_count-1
    BY <2>1 DEF Inv, StageOK, TypesOK, Loading
  <2>3. file.chunk_count \in Nat /\ file.conn_count \in Nat
    BY FileNumbers DEF Inv, TypesOK
  <2>4. PICK I : I = DOMAIN chunk_infos_ /\ I = 1..file.chunk_count /\ info \in I
    BY <2>2, <2>3, LenProperties
  <2>5. \A i \in I : chunk_infos_[i] \in chunk_info_t
    BY <2>2, <2>4, ElementOfSeq
  <2>6. r.count \in Nat /\ r.conn \in DOMAIN connections_
    <3>1. /\ file.conn_count + info \in DOMAIN file.index
          /\ file.index[file.conn_count + info].kind = "chunk_info"
          /\ chunk_infos_[info].chunk_pos = file.index[file.conn_count + info].chunk_pos
          /\ chunk_infos_[info].chunk_pos \in DOMAIN file.chunks
      BY <2>1, <2>2, <2>3, <2>4 DEF Inv, InfosOK
    <3>2. PICK k \in DOMAIN file.index : k = file.conn_count + info
      BY <3>1
    <3>3. ChunkRecord = file.chunks[file.index[k].chunk_pos]
      BY <3>1, <3>2 DEF ChunkRecord
    <3>4. file \in Files
      BY DEF Inv, TypesOK
    <3> HIDE DEF r, j
    <3>5. j \in DOMAIN file.chunks[file.index[k].chunk_pos].data
      BY <2>1, <3>3
    <3>6. LET d == file.chunks[file.index[k].chunk_pos].data[j]
          IN d.conn \in 0..file.conn_count-1 /\ d.count \in Nat
      BY <3>1, <3>2, <3>4, <3>5, DataRecord
    <3> QED
      BY <2>2, <3>3, <3>6 DEF r
  <2>7. PICK n \in Nat, c \in DOMAIN connections_ : n = r.count /\ c = r.conn
    BY <2>6
  <2> HIDE DEF r, j
  <2>8. /\ DOMAIN connections_' = DOMAIN connections_
        /\ \A id \in DOMAIN connections_ : /\ connections_[id].message_count \in Nat
              /\ "message_count" \in DOMAIN connections_[id]
        /\ \A id \in DOMAIN connections_ \ {c} : connections_'[id] = connections_[id]
        /\ connections_'[c].message_count = connections_[c].message_count + n
    <3>1. \A id \in DOMAIN connections_ :
            /\ connections_[id].message_count \in Nat
            /\ DOMAIN connections_[id] = {"id", "topic", "blocks", "def", "message_count"}
      BY DEF Inv, TypesOK
    <3> QED
      BY <2>1, <2>7, <3>1
  <2>9. /\ DOMAIN chunk_infos_' = I
        /\ \A i \in I : chunk_infos_[i].message_count \in Nat
        /\ \A i \in I \ {info} : chunk_infos_'[i] = chunk_infos_[i]
        /\ chunk_infos_'[info].message_count = chunk_infos_[info].message_count + n
    <3>1. /\ DOMAIN chunk_infos_' = I
          /\ \A i \in I \ {info} : chunk_infos_'[i] = chunk_infos_[i]
          /\ chunk_infos_'[info] = [chunk_infos_[info] EXCEPT !.message_count = @ + n]
      BY <2>1, <2>4, <2>7
    <3>2. \A i \in I : chunk_infos_[i].message_count \in Nat
      BY <2>5 DEF chunk_info_t
    <3>3. chunk_infos_'[info].message_count = chunk_infos_[info].message_count + n
      BY <2>4, <2>5, <3>1 DEF chunk_info_t
    <3> QED
      BY <3>1, <3>2, <3>3
  <2>10. SumOf(CountsOfConnections(connections_'), DOMAIN connections_) =
         SumOf(CountsOfConnections(connections_), DOMAIN connections_) + n
    <3> DEFINE S == DOMAIN connections_
    <3>1. PICK f, h : f = CountsOfConnections(connections_) /\ h = CountsOfConnections(connections_')
      OBVIOUS
    <3>2. IsFiniteSet(S)
      <4>1. IsFiniteSet(0..file.conn_count-1)
        <5>1. \A m \in Nat : IsFiniteSet(0..m-1)
          BY FS_Interval
        <5> QED
          BY <2>3, <5>1
      <4> QED
        BY <2>2, <4>1
    <3>3. /\ \A x \in S : f[x] \in Nat
          /\ h[c] = f[c] + n
          /\ \A x \in S \ {c} : h[x] = f[x]
      BY <2>7, <2>8, <3>1 DEF CountsOfConnections
    <3> HIDE DEF S
    <3>4. c \in S
      BY <2>7 DEF S
    <3>5. SumOf(h, S) = SumOf(f, S) + n
      BY <2>7, <3>2, <3>3, <3>4, SumGrows
    <3> QED
      BY <3>1, <3>5 DEF S
  <2>11. SumOf(CountsOfInfos(chunk_infos_'), I) = SumOf(CountsOfInfos(chunk_infos_), I) + n
    <3>1. PICK f, h : f = CountsOfInfos(chunk_infos_) /\ h = CountsOfInfos(chunk_infos_')
      OBVIOUS
    <3>2. IsFiniteSet(I)
      BY <2>3, <2>4, FS_Interval
    <3>3. /\ \A x \in I : f[x] \in Nat
          /\ h[info] = f[info] + n
          /\ \A x \in I \ {info} : h[x] = f[x]
      BY <2>4, <2>9, <3>1 DEF CountsOfInfos
    <3>4. PICK i \in I : i = info
      BY <2>4
    <3>5. h[i] = f[i] + n /\ \A x \in I \ {i} : h[x] = f[x]
      BY <3>3, <3>4
    <3>6. SumOf(h, I) = SumOf(f, I) + n
      BY <3>2, <3>3, <3>5, SumGrows
    <3> QED
      BY <3>1, <3>6
  <2>12. SumOf(CountsOfConnections(connections_), DOMAIN connections_) =
         SumOf(CountsOfInfos(chunk_infos_), I)
    BY <2>2, <2>4 DEF CountsOK
  <2>13. \A i \in 1..info-1 : chunks_.elems[i].info = chunk_infos_[i] /\ i \in I \ {info}
    BY <2>2, <2>3, <2>4 DEF CountsOK
  <2> QED
    BY <2>1, <2>8, <2>9, <2>10, <2>11, <2>12, <2>13 DEF CountsOK
<1> QED
  BY <1>1, <1>2

LEMMA CountsKept ==
  ASSUME Inv, CountsOK, [Next]_vars
  PROVE  CountsOK'
<1>1. CASE ReadBagHeader \/ ReadConnection \/ ReadChunkInfo \/ ReadIndexData \/ PushChunk
  BY <1>1, CountsAfterHeader, CountsAfterConnection, CountsAfterChunkInfo, CountsAfterIndexData,
     CountsAfterPush
<1>2. CASE ConnectionsRead \/ ChunkInfosRead \/ ChunksRead
  BY <1>2, CountsUnchanged DEF ConnectionsRead, ChunkInfosRead, ChunksRead, loaded, Loading
<1>3. CASE ReadChunk
  <2>1. CASE Fail
    BY <2>1, CountsNotLoading
  <2>2. CASE ~Fail
    BY <1>3, <2>2, CountsUnchanged DEF ReadChunk, loaded, Loading
  <2> QED
    BY <2>1, <2>2
<1>4. CASE \E t \in Topics : connectionsForTopic(t) \/ msgDefForTopic(t)
  BY <1>4, CountsUnchanged DEF connectionsForTopic, msgDefForTopic, loaded, Loading
<1>5. CASE UNCHANGED vars
  BY <1>5, CountsUnchanged DEF vars, loaded, Loading
<1> QED
  BY <1>1, <1>2, <1>3, <1>4, <1>5 DEF Next, Load

LEMMA CountsFollow ==
  ASSUME Inv, CountsOK
  PROVE  CountsAgree
<1> SUFFICES ASSUME pc = "open" PROVE CountsAgree
  BY DEF CountsAgree
<1>1. PICK cs, es : cs = connections_ /\ es = chunks_.elems
  OBVIOUS
<1>2. file.conn_count \in Nat /\ file.chunk_count \in Nat
  BY FileNumbers DEF Inv, TypesOK
<1>3. /\ Loading /\ DOMAIN cs = 0..file.conn_count-1 /\ info = file.chunk_count + 1
      /\ Len(chunk_infos_) = file.chunk_count /\ Len(es) = file.chunk_count
      /\ chunk_infos_ \in Seq(chunk_info_t) /\ es \in Seq(chunk_t)
      /\ \A id \in DOMAIN cs : cs[id].message_count \in Nat
  <2>1. Loading
    BY DEF Loading
  <2>2. /\ DOMAIN cs = 0..file.conn_count-1 /\ info = file.chunk_count + 1
        /\ Len(chunk_infos_) = file.chunk_count
        /\ Len(chunks_.elems) = info - 1
    BY <1>1, <2>1 DEF Inv, StageOK
  <2>3. Len(es) = file.chunk_count
    BY <1>1, <1>2, <2>2
  <2>4. /\ chunk_infos_ \in Seq(chunk_info_t) /\ es \in Seq(chunk_t)
        /\ \A id \in DOMAIN cs : cs[id].message_count \in Nat
    BY <1>1 DEF Inv, TypesOK
  <2> QED
    BY <2>1, <2>2, <2>3, <2>4
<1>4. PICK I : I = 1..file.chunk_count /\ I = DOMAIN es /\ I = DOMAIN chunk_infos_
  BY <1>3, LenProperties
<1>5. \A i \in I : /\ es[i].info = chunk_infos_[i]
                   /\ es[i].info.message_count \in Nat
  <2>1. \A i \in I : chunk_infos_[i] \in chunk_info_t
    BY <1>3, <1>4, ElementOfSeq
  <2>2. \A i \in I : es[i].info = chunk_infos_[i]
    BY <1>1, <1>2, <1>3, <1>4 DEF CountsOK
  <2>3. \A i \in I : es[i].info.message_count \in Nat
    BY <2>1, <2>2 DEF chunk_info_t
  <2> QED
    BY <2>2, <2>3
<1>6. IsFiniteSet(DOMAIN cs) /\ IsFiniteSet(DOMAIN es)
  <2>1. \A n \in Nat : IsFiniteSet(0..n-1) /\ IsFiniteSet(1..n)
    BY FS_Interval
  <2> QED
    BY <1>2, <1>3, <1>4, <2>1
<1>7. MapThenSumSet(LAMBDA id : cs[id].message_count, DOMAIN cs) =
      SumOf(CountsOfConnections(cs), DOMAIN cs)
  BY <1>3, <1>6, SumOfConnections
<1>8. MapThenSumSet(LAMBDA k : es[k].info.message_count, DOMAIN es) =
      SumOf(CountsOfChunks(es), DOMAIN es)
  BY <1>4, <1>5, <1>6, SumOfChunks
<1>9. CountsOfChunks(es) = CountsOfInfos(chunk_infos_)
  BY <1>4, <1>5 DEF CountsOfChunks, CountsOfInfos
<1>10. SumOf(CountsOfConnections(cs), DOMAIN cs) = SumOf(CountsOfInfos(chunk_infos_), DOMAIN es)
  BY <1>1, <1>3, <1>4 DEF CountsOK
<1> QED
  BY <1>1, <1>7, <1>8, <1>9, <1>10 DEF CountsAgree

(***************************************************************************)
(* The sum of message_count over the connections is the sum over the       *)
(* infos that the chunks keep, for any file that opens, also one that      *)
(* lists a chunk twice or whose counts are wrong: every INDEX_DATA record  *)
(* is counted for its connection and its chunk (embag.cc:283), and the     *)
(* info is copied when none is left to be read (embag.cc:300).             *)
(***************************************************************************)
THEOREM CountsAreEqual == Spec => []CountsAgree
<1>1. Init => CountsOK
  BY DEF Init, CountsOK, Loading
<1>2. Inv /\ CountsOK /\ [Next]_vars => CountsOK'
  BY CountsKept
<1>3. Inv /\ CountsOK => CountsAgree
  BY CountsFollow
<1> QED
  BY Invariance, <1>1, <1>2, <1>3, PTL DEF Spec

=============================================================================
