---------------------------- MODULE RosBagTypes ----------------------------
(***************************************************************************)
(* The contents of the bags as Bag::readRecords leaves them in memory, and *)
(* as the View reads them: the vectors chunks_ and connections_ of         *)
(* lib/embag.h, whose element types are in lib/ros_bag_types.h.  They do   *)
(* not change once a bag is open, so they are constants here.              *)
(*                                                                         *)
(* Bytes are counted in units of LengthWords, the two 32-bit lengths of a  *)
(* record.  A record of a decompressed chunk starts at an offset o of      *)
(* DOMAIN records, takes head units up to its data (lengths included) and  *)
(* len units of data.                                                      *)
(***************************************************************************)
EXTENDS RosTime

CONSTANTS
  Bags,          \* the open bags
  Topics,        \* the topic names
  NoTopic,       \* the empty topic of a connection that was not filled in
  None,          \* the null pointer
  chunks_,       \* chunks_[b]: the sequence of chunks of bag b
  connections_   \* connections_[b]: connection id -> its record

LengthWords == 1

\* The operations a record of a chunk can carry; any other is "OTHER".
Op == {"MESSAGE_DATA", "CONNECTION", "OTHER"}

Chunks(b) == DOMAIN chunks_[b]
ChunkNames == UNION {{[bag |-> b, chunk |-> c] : c \in Chunks(b)} : b \in Bags}
Records(b, c) == DOMAIN chunks_[b][c].records
RecordAt(b, c, o) == chunks_[b][c].records[o]

\* Where the data of a record starts, and where the next record does.
DataStart(b, c, o) == o + RecordAt(b, c, o).head
NextRecord(b, c, o) == DataStart(b, c, o) + RecordAt(b, c, o).len

(***************************************************************************)
(* chunk_t.  size is the uncompressed_size of the chunk header.  ok says   *)
(* that the buffer is not empty and that decompress() returns, for lz4 if  *)
(* the shared context is clean; good is the number of units decompress()   *)
(* fills in, the rest of the buffer is zeros: lz4 fails when it cannot     *)
(* fill the buffer, bz2 does not, and an uncompressed chunk is copied.     *)
(***************************************************************************)
ASSUME ChunkAssumption ==
  \A b \in Bags : \A c \in Chunks(b) :
    LET ch == chunks_[b][c] IN
    /\ ch.offset \in Nat /\ ch.size \in Nat /\ ch.good \in Nat
    /\ ch.compression \in {"lz4", "bz2", "none"}
    /\ ch.ok \in BOOLEAN /\ (ch.ok => ch.size > 0)
    /\ ch.compression = "none" /\ ch.size > 0 => ch.ok
    /\ ch.good \in Records(b, c) \cup {ch.size}
    /\ ch.ok /\ ch.compression # "bz2" => ch.good = ch.size
    /\ ch.start_time \in ros_time_t /\ ch.end_time \in ros_time_t

\* The records of a chunk tile it.
ASSUME RecordAssumption ==
  \A b \in Bags : \A c \in Chunks(b) :
    LET ch == chunks_[b][c] IN
    /\ ch.size > 0 => 0 \in Records(b, c)
    /\ \A o \in Records(b, c) :
         LET r == RecordAt(b, c, o) IN
         /\ o \in Nat /\ o < ch.size
         /\ r.op \in Op /\ r.ts \in ros_time_t
         /\ r.head \in Nat /\ r.head >= LengthWords
         /\ r.len \in Nat
         /\ NextRecord(b, c, o) \in Records(b, c) \cup {ch.size}
         /\ \A p \in Records(b, c) : p > o => p >= NextRecord(b, c, o)

\* Two chunks of a file lie at different offsets, in any order of the index.
ASSUME OffsetAssumption ==
  \A b \in Bags : \A c, d \in Chunks(b) :
    chunks_[b][c].offset = chunks_[b][d].offset => c = d

(***************************************************************************)
(* connection_record_t.  blocks is the set of chunks that the INDEX_DATA   *)
(* records list for the connection; the index of a well-formed file lists  *)
(* every chunk that holds a message of the connection.                     *)
(***************************************************************************)
ASSUME ConnectionAssumption ==
  \A b \in Bags :
    /\ \A id \in DOMAIN connections_[b] :
         /\ connections_[b][id].topic \in Topics \cup {NoTopic}
         /\ connections_[b][id].blocks \subseteq Chunks(b)
    /\ \A c \in Chunks(b) : \A o \in Records(b, c) :
         LET r == RecordAt(b, c, o) IN
         r.op = "MESSAGE_DATA" =>
            r.conn \in DOMAIN connections_[b] /\ c \in connections_[b][r.conn].blocks

-----------------------------------------------------------------------------
(* Messages, and their order in the file.                                  *)

MessagesIn(b, c) ==
  {[bag |-> b, chunk |-> c, off |-> o] :
      o \in {p \in Records(b, c) : RecordAt(b, c, p).op = "MESSAGE_DATA"}}

Messages(b) == UNION {MessagesIn(b, c) : c \in Chunks(b)}

AllMessages == UNION {Messages(b) : b \in Bags}

\* The sentinels are none of the things they stand in for.
ASSUME SentinelAssumption ==
  /\ NoTopic \notin Topics
  /\ None \notin Bags
  /\ \A b \in Bags : None \notin Chunks(b)
  /\ None \notin AllMessages

RecordOf(m) == RecordAt(m.bag, m.chunk, m.off)
ConnectionOf(m) == RecordOf(m).conn
TopicOf(m) == connections_[m.bag][ConnectionOf(m)].topic
TimeOf(m) == RecordOf(m).ts

\* bag_offset_compare_t orders the chunks of a bag.
ChunkBefore(b, c, d) == chunks_[b][c].offset < chunks_[b][d].offset

\* Mutant: the order of the index instead of the order of the file.
FirstInIndex(b, c, S) == c \in S /\ \A d \in S : c <= d

\* c is the first chunk of the set S in that order.
IsFirstChunk(b, c, S) == c \in S /\ \A d \in S \ {c} : ChunkBefore(b, c, d)

\* Two messages of one bag in file order.
FileBefore(m, n) ==
  /\ m.bag = n.bag
  /\ \/ ChunkBefore(m.bag, m.chunk, n.chunk)
     \/ m.chunk = n.chunk /\ m.off < n.off

\* What can make the View throw while it reads a chunk: damage, a record of
\* an unexpected kind, or a record without data that ends the chunk.
Faulty(b, c) ==
  LET ch == chunks_[b][c] IN
  \/ ~ch.ok
  \/ ch.good < ch.size
  \/ \E o \in Records(b, c) : RecordAt(b, c, o).op = "OTHER"
  \/ \E o \in Records(b, c) : DataStart(b, c, o) = ch.size

=============================================================================
