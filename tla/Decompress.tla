----------------------------- MODULE Decompress -----------------------------
(***************************************************************************)
(* chunk_t::decompress of lib/ros_bag_types.h, and the lz4 context that    *)
(* all chunks share (lib/decompression.h).  RosBagTypes and View take its  *)
(* outcome for granted: here it comes from the loop.                       *)
(*                                                                         *)
(* Compressed data is a sequence of symbols: a frame starts with "head",   *)
(* goes on with units, each of which decompresses to itself, and stops at  *)
(* "end".  Anything else is an error that the libraries (external) report. *)
(* The data of a chunk without compression are units.                      *)
(***************************************************************************)
EXTENDS Integers, Sequences, FiniteSetsExt

CONSTANTS
  Units,  \* the contents of the chunks, told apart
  Chunks  \* the chunks: records [compression, data, uncompressed_size]

\* What is in a new buffer, and a byte that is not of this chunk.
Zero == "zero"
Foreign == "foreign"

ASSUME DecompressAssumption ==
  /\ Units \cap {Zero, Foreign, "head", "end"} = {}
  /\ \A c \in Chunks :
       /\ c.compression \in {"lz4", "bz2", "none"}
       /\ c.uncompressed_size \in Nat \ {0}
       /\ Len(c.data) \in Nat /\ DOMAIN c.data = 1..Len(c.data)
       /\ c.compression = "none" => \A k \in DOMAIN c.data : c.data[k] \in Units

VARIABLES
  chunk,          \* the chunk that is decompressed
  pc,             \* where decompress() is, or how it came back
  lz4_ctx,        \* what the shared context expects: a frame, or the rest of one
  before,         \* history: lz4_ctx when decompress() was called
  dst,            \* the buffer, of uncompressed_size units
  src_bytes_left,
  dst_bytes_left

vars == <<chunk, pc, lz4_ctx, before, dst, src_bytes_left, dst_bytes_left>>

IsUnit(s) == s \in Units
Empty(n) == [k \in 1..n |-> Zero]

-----------------------------------------------------------------------------
(* The libraries.                                                          *)

\* How many units follow position h of the symbols src, up to room.
Run(src, h, room) ==
  Max({k \in 0..room : h + k <= Len(src) /\ \A j \in h+1..h+k : IsUnit(src[j])})

\* The units behind position h of src, written to the start of the buffer.
Written(src, h, n) == [k \in DOMAIN dst |-> IF k <= n THEN src[h + k] ELSE dst[k]]

(***************************************************************************)
(* LZ4F_decompress: goes on from the state of the context to the end of    *)
(* the frame, of src or of the room in dst, or to an error, which leaves   *)
(* the context where it is.                                                *)
(***************************************************************************)
LZ4F_decompress(src, room) ==
  LET h == IF lz4_ctx = "frame" THEN 1 ELSE 0
      n == Run(src, h, room)
      next == h + n + 1 IN
  IF h = 1 /\ src[1] # "head"
  THEN [error |-> TRUE, read |-> 0, written |-> 0, dst |-> dst, ctx |-> "frame"]
  ELSE [error   |-> next <= Len(src) /\ ~IsUnit(src[next]) /\ src[next] # "end",
        read    |-> IF next <= Len(src) /\ src[next] = "end" THEN next ELSE next - 1,
        written |-> n,
        dst     |-> Written(src, h, n),
        ctx     |-> IF next <= Len(src) /\ src[next] = "end" THEN "frame" ELSE "rest"]

\* BZ2_bzBuffToBuffDecompress: one stream, as a whole; BZ_OK when its end
\* is found before the buffer is full.
BZ2_bzBuffToBuffDecompress(src, room) ==
  LET begins == src # <<>> /\ src[1] = "head"
      n == Run(src, 1, room) IN
  IF ~begins
  THEN [ok |-> FALSE, dst |-> dst]
  ELSE [ok |-> n + 2 <= Len(src) /\ src[n + 2] = "end", dst |-> Written(src, 1, n)]

-----------------------------------------------------------------------------
Init ==
  /\ chunk \in Chunks
  /\ pc = "called"
  /\ lz4_ctx = "frame"
  /\ before = "frame"
  /\ dst = Empty(chunk.uncompressed_size)
  /\ src_bytes_left = Len(chunk.data)
  /\ dst_bytes_left = chunk.uncompressed_size

CameBack == pc \in {"returned", "threw"}

\* readMessage makes a buffer for another chunk, and calls decompress().
Call(c) ==
  /\ CameBack
  /\ chunk' = c
  /\ pc' = "called"
  /\ before' = lz4_ctx
  /\ dst' = Empty(c.uncompressed_size)
  /\ src_bytes_left' = Len(c.data)
  /\ dst_bytes_left' = c.uncompressed_size
  /\ UNCHANGED lz4_ctx

InLz4Loop == pc = "called" /\ chunk.compression = "lz4"

(***************************************************************************)
(* A turn of the loop of decompressLz4Chunk.  The numbers of units left    *)
(* are counted down, but every turn passes the start of dst and of         *)
(* record.data.                                                            *)
(***************************************************************************)
Lz4Turn ==
  /\ InLz4Loop
  /\ dst_bytes_left > 0 /\ src_bytes_left > 0
  /\ LET r == LZ4F_decompress(SubSeq(chunk.data, 1, src_bytes_left), dst_bytes_left) IN
     /\ lz4_ctx' = r.ctx
     /\ dst' = r.dst
     /\ IF r.error
        THEN pc' = "threw" /\ UNCHANGED <<src_bytes_left, dst_bytes_left>>
        ELSE /\ src_bytes_left' = src_bytes_left - r.read
             /\ dst_bytes_left' = dst_bytes_left - r.written
             /\ UNCHANGED pc
  /\ UNCHANGED <<chunk, before>>

\* Mutant: both must be left over.
Lz4EndLenient ==
  /\ InLz4Loop
  /\ dst_bytes_left = 0 \/ src_bytes_left = 0
  /\ pc' = IF src_bytes_left > 0 /\ dst_bytes_left > 0 THEN "threw" ELSE "returned"
  /\ UNCHANGED <<chunk, lz4_ctx, before, dst, src_bytes_left, dst_bytes_left>>

\* Behind the loop: nothing may be left over.
Lz4End ==
  /\ InLz4Loop
  /\ dst_bytes_left = 0 \/ src_bytes_left = 0
  /\ pc' = IF src_bytes_left > 0 \/ dst_bytes_left > 0 THEN "threw" ELSE "returned"
  /\ UNCHANGED <<chunk, lz4_ctx, before, dst, src_bytes_left, dst_bytes_left>>

\* decompressBz2Chunk: a result that is too short is not noticed.
Bz2 ==
  /\ pc = "called" /\ chunk.compression = "bz2"
  /\ LET r == BZ2_bzBuffToBuffDecompress(chunk.data, chunk.uncompressed_size) IN
     /\ dst' = r.dst
     /\ pc' = IF r.ok THEN "returned" ELSE "threw"
  /\ UNCHANGED <<chunk, lz4_ctx, before, src_bytes_left, dst_bytes_left>>

\* memcpy of uncompressed_size units, whatever the length of the record is:
\* behind its data come other bytes of the file.
Copy ==
  /\ pc = "called" /\ chunk.compression = "none"
  /\ dst' = [k \in DOMAIN dst |-> IF k <= Len(chunk.data) THEN chunk.data[k] ELSE Foreign]
  /\ pc' = "returned"
  /\ UNCHANGED <<chunk, lz4_ctx, before, src_bytes_left, dst_bytes_left>>

Next == Lz4Turn \/ Lz4End \/ Bz2 \/ Copy \/ \E c \in Chunks : Call(c)

Spec == Init /\ [][Next]_vars

-----------------------------------------------------------------------------
(* Properties.                                                             *)

\* The data is one frame, with as many units as the chunk header says.
Whole ==
  LET n == chunk.uncompressed_size IN
  IF chunk.compression = "none"
  THEN Len(chunk.data) = n
  ELSE /\ Len(chunk.data) = n + 2
       /\ chunk.data[1] = "head" /\ chunk.data[n + 2] = "end"
       /\ \A k \in 2..n+1 : IsUnit(chunk.data[k])

Ends == chunk.data # <<>> /\ chunk.data[Len(chunk.data)] = "end"

\* Something follows the end of the first frame.
GoesOn == \E k \in 1..Len(chunk.data)-1 : chunk.data[k] = "end"

\* The contents begin behind the head of the frame.
Header == IF chunk.data # <<>> /\ chunk.data[1] = "head" THEN 1 ELSE 0

\* The buffer begins with n units, the first ones of the contents, and the
\* rest is zeros.
FilledTo(n) ==
  /\ Header + n <= Len(chunk.data)
  /\ \A k \in 1..n : IsUnit(chunk.data[Header + k])
  /\ \A k \in DOMAIN dst : dst[k] = IF k <= n THEN chunk.data[Header + k] ELSE Zero

(***************************************************************************)
(* What RosBagTypes (ok, good) and View (lz4_ctx, spoiled) assume: a chunk *)
(* that is whole is decompressed, unless it is an lz4 chunk and an earlier *)
(* one left the context in a frame: then it throws and the buffer is       *)
(* zeros; and the buffer always holds a first part of the contents.  When  *)
(* lz4 returns the buffer is full, and the context is clean, unless        *)
(* something follows the first frame or just the end of that is lacking.   *)
(***************************************************************************)
AsTheViewAssumes ==
  CameBack =>
    /\ Whole /\ before = "frame" => pc = "returned" /\ FilledTo(chunk.uncompressed_size)
    /\ Whole /\ before = "rest" /\ chunk.compression = "lz4" => pc = "threw" /\ FilledTo(0)
    /\ chunk.compression = "lz4" /\ pc = "returned" /\ Ends /\ ~GoesOn => lz4_ctx = "frame"
    /\ chunk.compression # "lz4" => lz4_ctx = before
    /\ \/ chunk.compression = "none" /\ Len(chunk.data) < chunk.uncompressed_size
       \/ \E n \in 0..chunk.uncompressed_size :
            /\ FilledTo(n)
            /\ chunk.compression = "lz4" /\ pc = "returned" /\ ~GoesOn =>
                 n = chunk.uncompressed_size

=============================================================================
