-------------------------- MODULE Decompress_proofs --------------------------
(***************************************************************************)
(* What decompress() leaves in the buffer and in the context that all      *)
(* chunks share: proofs for any chunks, one after the other.               *)
(***************************************************************************)
EXTENDS Decompress, Sums

-----------------------------------------------------------------------------
DecompressTypeOK ==
  /\ chunk \in Chunks
  /\ pc \in {"called", "returned", "threw"}
  /\ lz4_ctx \in {"frame", "rest"} /\ before \in {"frame", "rest"}
  /\ DOMAIN dst = 1..chunk.uncompressed_size
  /\ src_bytes_left \in 0..Len(chunk.data)
  /\ dst_bytes_left \in 0..chunk.uncompressed_size

\* decompress() has been called, and nothing is done yet.
Fresh ==
  /\ dst = Empty(chunk.uncompressed_size)
  /\ src_bytes_left = Len(chunk.data)
  /\ dst_bytes_left = chunk.uncompressed_size
  /\ lz4_ctx = before

\* Data with nothing behind its frame is done with in one turn of the loop.
DoneInOne ==
  /\ ~GoesOn =>
       /\ FilledTo(chunk.uncompressed_size - dst_bytes_left)
       /\ src_bytes_left = 0 \/ dst_bytes_left = 0
       /\ src_bytes_left = 0 /\ Ends => lz4_ctx = "frame"
  /\ Whole => before = "frame" /\ src_bytes_left = 0 /\ dst_bytes_left = 0

\* The buffer begins with some first part of the contents.
Filled == \E n \in 0..chunk.uncompressed_size : FilledTo(n)

\* The inductive invariant.
DecompressInv ==
  /\ DecompressTypeOK
  /\ InLz4Loop => (Fresh \/ DoneInOne) /\ Filled
  /\ pc = "called" /\ chunk.compression # "lz4" => Fresh
  /\ AsTheViewAssumes

-----------------------------------------------------------------------------
\* A chunk, by the assumption.
LEMMA ChunkFacts ==
  ASSUME chunk \in Chunks
  PROVE  /\ chunk.compression \in {"lz4", "bz2", "none"}
         /\ chunk.uncompressed_size \in Nat \ {0}
         /\ Len(chunk.data) \in Nat /\ DOMAIN chunk.data = 1..Len(chunk.data)
         /\ chunk.compression = "none" => \A k \in DOMAIN chunk.data : IsUnit(chunk.data[k])
         /\ Zero \notin Units /\ Foreign \notin Units /\ "head" \notin Units /\ "end" \notin Units
BY DecompressAssumption DEF IsUnit

\* There are as many units as the room, the data and its symbols allow.
LEMMA RunIs ==
  ASSUME NEW src, Len(src) \in Nat, NEW h \in Nat, h <= Len(src), NEW room \in Nat
  PROVE  \E n \in 0..room :
           /\ n = Run(src, h, room)
           /\ h + n <= Len(src)
           /\ \A j \in h+1..h+n : IsUnit(src[j])
           /\ n < room /\ h + n < Len(src) => ~IsUnit(src[h + n + 1])
<1> DEFINE K == {k \in 0..room : h + k <= Len(src) /\ \A j \in h+1..h+k : IsUnit(src[j])}
<1>1. K \in SUBSET (0..room) /\ 0 \in K
  OBVIOUS
<1>2. PICK n \in K : n = Max(K) /\ \A k \in K : k <= n
  <2> HIDE DEF K
  <2> QED
    BY <1>1, GreatestNatural
<1>3. n \in 0..room /\ h + n <= Len(src) /\ \A j \in h+1..h+n : IsUnit(src[j])
  BY <1>2
<1>4. ASSUME n < room, h + n < Len(src), IsUnit(src[h + n + 1])
      PROVE  FALSE
  <2>1. n + 1 \in 0..room /\ h + (n + 1) <= Len(src)
    BY <1>3, <1>4
  <2>2. \A j \in h+1..h+(n+1) : j \in h+1..h+n \/ j = h + n + 1
    BY <1>3
  <2>3. n + 1 \in K
    BY <1>3, <1>4, <2>1, <2>2
  <2>4. n + 1 <= n
    BY <1>2, <2>3
  <2> QED
    BY <1>3, <2>4
<1>5. n = Run(src, h, room)
  BY <1>2 DEF Run
<1> QED
  BY <1>3, <1>4, <1>5

\* Whole data has nothing behind its frame.
LEMMA WholeFacts ==
  ASSUME chunk \in Chunks, Whole, chunk.compression # "none"
  PROVE  ~GoesOn /\ Header = 1 /\ chunk.data # <<>>
<1>1. PICK n \in Nat \ {0} : n = chunk.uncompressed_size
  BY ChunkFacts
<1>2. /\ Len(chunk.data) = n + 2 /\ DOMAIN chunk.data = 1..n+2
      /\ chunk.data[1] = "head" /\ chunk.data[n + 2] = "end"
      /\ \A k \in 2..n+1 : chunk.data[k] \in Units
  BY <1>1, ChunkFacts DEF Whole, IsUnit
<1>3. chunk.data # <<>>
  BY <1>1, <1>2
<1>4. ASSUME NEW k \in 1..n+1
      PROVE  chunk.data[k] # "end"
  <2>1. k = 1 \/ k \in 2..n+1
    BY <1>1
  <2> QED
    BY <1>2, <2>1, ChunkFacts
<1>5. ~GoesOn
  BY <1>1, <1>2, <1>4 DEF GoesOn
<1> QED
  BY <1>2, <1>3, <1>5 DEF Header

\* Nothing has been written to a new buffer.
LEMMA EmptyIsFilled ==
  ASSUME chunk \in Chunks, dst = Empty(chunk.uncompressed_size)
  PROVE  FilledTo(0) /\ Filled
<1>1. Len(chunk.data) \in Nat /\ DOMAIN chunk.data = 1..Len(chunk.data)
      /\ chunk.uncompressed_size \in Nat
  BY ChunkFacts
<1>2. Header + 0 <= Len(chunk.data)
  <2>1. Header \in {0, 1} /\ (Header = 1 => chunk.data # <<>>)
    BY DEF Header
  <2>2. chunk.data # <<>> /\ chunk.data[1] = "head" => Len(chunk.data) > 0
    BY <1>1, ChunkFacts
  <2> QED
    BY <1>1, <2>1, <2>2 DEF Header
<1>3. FilledTo(0)
  BY <1>1, <1>2 DEF FilledTo, Empty
<1> QED
  BY <1>1, <1>3 DEF Filled

\* Where LZ4F_decompress and BZ2_bzBuffToBuffDecompress begin to look for units.
Start == IF lz4_ctx = "frame" THEN 1 ELSE 0

\* n units from the start of the contents fill the buffer as far as n, or
\* leave it filled as far as it was.
LEMMA WrittenIsFilled ==
  ASSUME chunk \in Chunks, DOMAIN dst = 1..chunk.uncompressed_size,
         NEW n \in 0..chunk.uncompressed_size, Header + n <= Len(chunk.data),
         \A k \in 1..n : IsUnit(chunk.data[Header + k]),
         NEW m \in 0..chunk.uncompressed_size, FilledTo(m),
         chunk' = chunk, dst' = Written(chunk.data, Header, n)
  PROVE  /\ FilledTo(IF m <= n THEN n ELSE m)'
         /\ Filled'
<1> DEFINE N == chunk.uncompressed_size
           q == IF m <= n THEN n ELSE m
<1>1. N \in Nat /\ n \in Nat /\ m \in Nat /\ q \in 0..N /\ Header \in {0, 1} /\ Header' = Header
  BY ChunkFacts DEF Header
<1>2. /\ Header + m <= Len(chunk.data)
      /\ \A k \in 1..m : IsUnit(chunk.data[Header + k])
      /\ \A k \in 1..N : dst[k] = IF k <= m THEN chunk.data[Header + k] ELSE Zero
  BY DEF FilledTo
<1>3. /\ DOMAIN dst' = 1..N
      /\ \A k \in 1..N : dst'[k] = IF k <= n THEN chunk.data[Header + k] ELSE dst[k]
  BY DEF Written
<1>4. \A k \in 1..N : dst'[k] = IF k <= q THEN chunk.data[Header + k] ELSE Zero
  BY <1>1, <1>2, <1>3
<1>5. \A k \in 1..q : IsUnit(chunk.data[Header + k])
  BY <1>1, <1>2
<1>6. Header + q <= Len(chunk.data)
  BY <1>2
<1> HIDE DEF q
<1>7. FilledTo(q)'
  BY <1>1, <1>3, <1>4, <1>5, <1>6 DEF FilledTo
<1> QED
  BY <1>1, <1>7 DEF q, Filled

\* What a turn of the loop does, in terms of the data of the chunk.
Turn(n) ==
  LET next == Start + n + 1 IN
  \/ /\ next <= src_bytes_left /\ chunk.data[next] # "end" /\ ~IsUnit(chunk.data[next])
     /\ pc' = "threw" /\ UNCHANGED <<src_bytes_left, dst_bytes_left>>
  \/ /\ next <= src_bytes_left /\ chunk.data[next] = "end"
     /\ pc' = pc /\ lz4_ctx' = "frame"
     /\ src_bytes_left' = src_bytes_left - next /\ dst_bytes_left' = dst_bytes_left - n
  \/ /\ next <= src_bytes_left => IsUnit(chunk.data[next]) /\ n = dst_bytes_left
     /\ pc' = pc
     /\ src_bytes_left' = src_bytes_left - (next - 1) /\ dst_bytes_left' = dst_bytes_left - n
     /\ next > src_bytes_left => src_bytes_left' = 0 /\ chunk.data[src_bytes_left] # "end"

LEMMA TurnIs ==
  ASSUME DecompressInv, Lz4Turn
  PROVE  \/ /\ Start = 1 /\ chunk.data[1] # "head"
            /\ pc' = "threw" /\ dst' = dst /\ lz4_ctx' = "frame"
            /\ UNCHANGED <<chunk, before, src_bytes_left, dst_bytes_left>>
         \/ /\ Start = 1 => chunk.data[1] = "head"
            /\ \E n \in 0..dst_bytes_left :
                 /\ Start + n <= src_bytes_left
                 /\ \A k \in 1..n : IsUnit(chunk.data[Start + k])
                 /\ dst' = Written(chunk.data, Start, n)
                 /\ Turn(n)
                 /\ lz4_ctx' \in {"frame", "rest"} /\ UNCHANGED <<chunk, before>>
<1> DEFINE src == SubSeq(chunk.data, 1, src_bytes_left)
           room == dst_bytes_left
           r == LZ4F_decompress(src, room)
<1>1. /\ chunk \in Chunks /\ src_bytes_left \in 1..Len(chunk.data) /\ room \in Nat
      /\ Len(chunk.data) \in Nat /\ DOMAIN chunk.data = 1..Len(chunk.data)
  BY ChunkFacts DEF DecompressInv, DecompressTypeOK, Lz4Turn
<1>2. Len(src) = src_bytes_left /\ \A j \in 1..src_bytes_left : src[j] = chunk.data[j]
  BY <1>1
<1>3. /\ UNCHANGED <<chunk, before>>
      /\ lz4_ctx' = r.ctx /\ dst' = r.dst
      /\ r.error => pc' = "threw" /\ UNCHANGED <<src_bytes_left, dst_bytes_left>>
      /\ ~r.error => /\ src_bytes_left' = src_bytes_left - r.read
                     /\ dst_bytes_left' = dst_bytes_left - r.written
                     /\ pc' = pc
  BY DEF Lz4Turn
<1>4. Start \in {0, 1} /\ Start = IF lz4_ctx = "frame" THEN 1 ELSE 0
  BY DEF Start
<1> HIDE DEF src, room
<1>5. CASE Start = 1 /\ chunk.data[1] # "head"
  <2>1. r = [error |-> TRUE, read |-> 0, written |-> 0, dst |-> dst, ctx |-> "frame"]
    BY <1>1, <1>2, <1>4, <1>5 DEF LZ4F_decompress
  <2> QED
    BY <1>3, <1>5, <2>1
<1>6. CASE ~(Start = 1 /\ chunk.data[1] # "head")
  <2>1. PICK n \in 0..room :
          /\ n = Run(src, Start, room)
          /\ Start + n <= Len(src)
          /\ \A j \in Start+1..Start+n : IsUnit(src[j])
          /\ n < room /\ Start + n < Len(src) => ~IsUnit(src[Start + n + 1])
    <3>1. Len(src) \in Nat /\ Start \in Nat /\ Start <= Len(src) /\ room \in Nat
      BY <1>1, <1>2, <1>4
    <3> QED
      BY <3>1, RunIs
  <2> DEFINE next == Start + n + 1
             atEnd == next <= Len(src) /\ src[next] = "end"
  <2>2. r = [error   |-> next <= Len(src) /\ ~IsUnit(src[next]) /\ src[next] # "end",
             read    |-> IF atEnd THEN next ELSE next - 1,
             written |-> n,
             dst     |-> Written(src, Start, n),
             ctx     |-> IF atEnd THEN "frame" ELSE "rest"]
    BY <1>1, <1>2, <1>4, <1>6, <2>1 DEF LZ4F_decompress
  <2>3. \A k \in 1..n : IsUnit(chunk.data[Start + k]) /\ src[Start + k] = chunk.data[Start + k]
    BY <1>1, <1>2, <1>4, <2>1
  <2>4. Written(src, Start, n) = Written(chunk.data, Start, n)
    <3>1. DOMAIN dst = 1..chunk.uncompressed_size /\ n \in Nat
      BY <1>1, <2>1 DEF DecompressInv, DecompressTypeOK
    <3>2. \A k \in DOMAIN dst : k <= n => src[Start + k] = chunk.data[Start + k]
      BY <2>3, <3>1
    <3> QED
      BY <3>2 DEF Written
  <2>5. next \in Nat \ {0} /\ (next <= src_bytes_left => src[next] = chunk.data[next])
    BY <1>1, <1>2, <1>4, <2>1
  <2> HIDE DEF r
  <2>6. dst' = Written(chunk.data, Start, n) /\ lz4_ctx' \in {"frame", "rest"}
    BY <1>3, <2>2, <2>4
  <2>7. CASE next <= src_bytes_left /\ chunk.data[next] # "end" /\ ~IsUnit(chunk.data[next])
    <3>1. r.error
      BY <1>2, <2>2, <2>5, <2>7
    <3> QED
      BY <1>2, <1>3, <1>6, <2>1, <2>3, <2>6, <2>7, <3>1 DEF Turn, room
  <2>8. CASE next <= src_bytes_left /\ chunk.data[next] = "end"
    <3>1. ~r.error /\ r.read = next /\ r.written = n /\ r.ctx = "frame"
      BY <1>2, <2>2, <2>5, <2>8
    <3> QED
      BY <1>2, <1>3, <1>6, <2>1, <2>3, <2>6, <2>8, <3>1 DEF Turn, room
  <2>9. CASE next <= src_bytes_left => IsUnit(chunk.data[next])
    <3>0. "end" \notin Units
      BY <1>1, ChunkFacts
    <3>1. ~r.error /\ r.read = next - 1 /\ r.written = n
      BY <1>2, <2>2, <2>5, <2>9, <3>0 DEF IsUnit
    <3>2. next <= src_bytes_left => n = room
      BY <1>1, <1>2, <1>4, <2>1, <2>5, <2>9
    <3>3. next > src_bytes_left => src_bytes_left - (next - 1) = 0
      BY <1>1, <1>2, <1>4, <2>1
    <3>4. next > src_bytes_left => chunk.data[src_bytes_left] # "end"
      <4>1. ASSUME next > src_bytes_left
            PROVE  src_bytes_left = Start + n
        BY <1>1, <1>2, <1>4, <2>1, <4>1
      <4>2. CASE n = 0
        BY <1>1, <1>4, <1>6, <4>1, <4>2
      <4>3. CASE n # 0
        BY <2>1, <2>3, <3>0, <4>1, <4>3 DEF IsUnit
      <4> QED
        BY <4>2, <4>3
    <3> QED
      BY <1>2, <1>3, <1>6, <2>1, <2>3, <2>6, <2>9, <3>1, <3>2, <3>3, <3>4 DEF Turn, room
  <2> QED
    BY <2>7, <2>8, <2>9
<1> QED
  BY <1>5, <1>6

\* The contents begin where lz4 looks for them, or it finds no units there.
LEMMA StartIsHeader ==
  ASSUME chunk \in Chunks, DOMAIN dst = 1..chunk.uncompressed_size,
         Start = 1 => chunk.data[1] = "head",
         NEW n \in Nat, Start + n <= Len(chunk.data), 1 <= Len(chunk.data),
         \A k \in 1..n : IsUnit(chunk.data[Start + k])
  PROVE  /\ Header + n <= Len(chunk.data)
         /\ \A k \in 1..n : IsUnit(chunk.data[Header + k])
         /\ Written(chunk.data, Start, n) = Written(chunk.data, Header, n)
<1>1. /\ "head" \notin Units /\ Start \in {0, 1} /\ Len(chunk.data) \in Nat
      /\ chunk.data # <<>> /\ chunk.uncompressed_size \in Nat
  BY ChunkFacts DEF Start
<1>2. CASE n = 0
  <2>1. Header \in {0, 1}
    BY DEF Header
  <2>2. \A k \in DOMAIN dst : ~(k <= n)
    BY <1>1, <1>2
  <2> QED
    BY <1>1, <1>2, <2>1, <2>2 DEF Written
<1>3. CASE n # 0
  <2>1. IsUnit(chunk.data[Start + 1])
    BY <1>3
  <2>2. Header = Start
    BY <1>1, <2>1 DEF Header, IsUnit
  <2> QED
    BY <2>2
<1> QED
  BY <1>2, <1>3

\* The contents as a turn of the loop writes them.
LEMMA TurnFills ==
  ASSUME DecompressInv, Lz4Turn,
         NEW n \in 0..dst_bytes_left, Start + n <= src_bytes_left,
         Start = 1 => chunk.data[1] = "head",
         \A k \in 1..n : IsUnit(chunk.data[Start + k]),
         dst' = Written(chunk.data, Start, n), chunk' = chunk
  PROVE  /\ Filled'
         /\ Fresh => FilledTo(n)'
<1>1. /\ chunk \in Chunks /\ DOMAIN dst = 1..chunk.uncompressed_size
      /\ chunk.uncompressed_size \in Nat
      /\ n \in 0..chunk.uncompressed_size /\ n \in Nat
      /\ Len(chunk.data) \in Nat /\ Start \in {0, 1}
      /\ Start + n <= Len(chunk.data) /\ 1 <= Len(chunk.data)
  BY ChunkFacts DEF DecompressInv, DecompressTypeOK, Lz4Turn, Start
<1>2. /\ Header + n <= Len(chunk.data)
      /\ \A k \in 1..n : IsUnit(chunk.data[Header + k])
      /\ dst' = Written(chunk.data, Header, n)
  BY <1>1, StartIsHeader
<1>3. ASSUME NEW m \in 0..chunk.uncompressed_size, FilledTo(m)
      PROVE  FilledTo(IF m <= n THEN n ELSE m)' /\ Filled'
  BY <1>1, <1>2, <1>3, WrittenIsFilled
<1>4. PICK m \in 0..chunk.uncompressed_size : FilledTo(m)
  BY DEF DecompressInv, Lz4Turn, Filled
<1>5. ASSUME Fresh
      PROVE  FilledTo(n)'
  <2>1. FilledTo(0) /\ 0 \in 0..chunk.uncompressed_size
    BY <1>1, <1>5, EmptyIsFilled DEF Fresh
  <2>2. FilledTo(IF 0 <= n THEN n ELSE 0)'
    BY <1>3, <2>1
  <2>3. (IF 0 <= n THEN n ELSE 0) = n
    BY <1>1
  <2> QED
    BY <2>2, <2>3
<1> QED
  BY <1>3, <1>4, <1>5

\* A turn over whole data is the first one: it throws at the head of the
\* frame when the context is inside another, and else it is the last one.
LEMMA WholeTurn ==
  ASSUME DecompressInv, Lz4Turn, Whole,
         NEW n \in 0..dst_bytes_left, Start + n <= src_bytes_left, Turn(n),
         \A k \in 1..n : IsUnit(chunk.data[Start + k])
  PROVE  /\ Fresh
         /\ before = "rest" => pc' = "threw" /\ n = 0
         /\ before = "frame" => pc' = "called" /\ src_bytes_left' = 0 /\ dst_bytes_left' = 0
<1>1. /\ chunk \in Chunks /\ chunk.compression = "lz4" /\ pc = "called"
      /\ src_bytes_left > 0 /\ dst_bytes_left > 0
      /\ src_bytes_left \in Nat /\ before \in {"frame", "rest"}
  BY ChunkFacts DEF DecompressInv, DecompressTypeOK, Lz4Turn, InLz4Loop
<1>2. Fresh
  BY <1>1 DEF DecompressInv, Lz4Turn, DoneInOne
<1>3. PICK N \in Nat \ {0} : N = chunk.uncompressed_size
  BY <1>1, ChunkFacts
<1>4. /\ src_bytes_left = N + 2 /\ dst_bytes_left = N /\ lz4_ctx = before
      /\ chunk.data[1] = "head" /\ chunk.data[N + 2] = "end"
      /\ \A k \in 2..N+1 : IsUnit(chunk.data[k])
  BY <1>1, <1>2, <1>3 DEF Whole, Fresh
<1>5. ~IsUnit("head") /\ ~IsUnit("end")
  BY <1>1, ChunkFacts DEF IsUnit
<1>6. n \in 0..N
  BY <1>4
<1>7. ASSUME before = "rest"
      PROVE  pc' = "threw" /\ n = 0
  <2>1. Start = 0
    BY <1>4, <1>7 DEF Start
  <2>2. n = 0
    <3>1. n # 0 => IsUnit(chunk.data[Start + 1])
      BY <1>6
    <3> QED
      BY <1>4, <1>5, <2>1, <3>1
  <2> QED
    BY <1>3, <1>4, <1>5, <2>1, <2>2 DEF Turn
<1>8. ASSUME before = "frame"
      PROVE  pc' = "called" /\ src_bytes_left' = 0 /\ dst_bytes_left' = 0
  <2>1. Start = 1
    BY <1>4, <1>8 DEF Start
  <2>2. CASE n = N
    BY <1>1, <1>3, <1>4, <1>5, <2>1, <2>2 DEF Turn
  <2>3. CASE n # N
    <3>1. n + 2 \in 2..N+1
      BY <1>3, <1>6, <2>3
    <3>2. IsUnit(chunk.data[n + 2]) /\ chunk.data[n + 2] # "end" /\ Start + n + 1 = n + 2
      BY <1>4, <1>5, <1>6, <2>1, <3>1
    <3> QED
      BY <1>3, <1>4, <1>6, <2>3, <3>1, <3>2 DEF Turn
  <2> QED
    BY <2>2, <2>3
<1> QED
  BY <1>2, <1>7, <1>8

\* One turn is enough for data with nothing behind its frame.
LEMMA TurnIsDone ==
  ASSUME DecompressInv, Lz4Turn, pc' = "called", UNCHANGED <<chunk, before>>,
         NEW n \in 0..dst_bytes_left, Start + n <= src_bytes_left, Turn(n),
         \A k \in 1..n : IsUnit(chunk.data[Start + k]),
         Fresh => FilledTo(n)'
  PROVE  DoneInOne'
<1>1. /\ src_bytes_left > 0 /\ dst_bytes_left > 0 /\ pc = "called"
      /\ src_bytes_left \in Nat /\ dst_bytes_left \in Nat /\ n \in Nat
      /\ before \in {"frame", "rest"} /\ Start \in {0, 1}
  BY ChunkFacts DEF DecompressInv, DecompressTypeOK, Lz4Turn, InLz4Loop, Start
<1>2. ASSUME Whole
      PROVE  before = "frame" /\ src_bytes_left' = 0 /\ dst_bytes_left' = 0
  BY <1>1, <1>2, WholeTurn
<1>3. GoesOn' = GoesOn /\ Ends' = Ends /\ Whole' = Whole
  BY DEF GoesOn, Ends, Whole
<1>4. ASSUME ~GoesOn
      PROVE  /\ FilledTo(chunk.uncompressed_size - dst_bytes_left)'
             /\ src_bytes_left' = 0 \/ dst_bytes_left' = 0
             /\ src_bytes_left' = 0 /\ Ends => lz4_ctx' = "frame"
  <2>1. Fresh
    BY <1>1, <1>4 DEF DecompressInv, DoneInOne, Lz4Turn
  <2>2. /\ src_bytes_left = Len(chunk.data) /\ dst_bytes_left = chunk.uncompressed_size
        /\ FilledTo(n)'
    BY <2>1 DEF Fresh
  <2>3. dst_bytes_left' = dst_bytes_left - n
    BY <1>1 DEF Turn
  <2>4. FilledTo(chunk.uncompressed_size - dst_bytes_left)'
    <3>1. chunk'.uncompressed_size - dst_bytes_left' = n
      BY <1>1, <2>2, <2>3
    <3> QED
      BY <2>2, <3>1
  <2> DEFINE next == Start + n + 1
  <2>5. CASE next <= src_bytes_left /\ chunk.data[next] = "end" /\ lz4_ctx' = "frame"
             /\ src_bytes_left' = src_bytes_left - next
    <3>1. next = Len(chunk.data)
      BY <1>1, <1>4, <2>2, <2>5 DEF GoesOn
    <3> QED
      BY <1>1, <2>2, <2>4, <2>5, <3>1
  <2>6. CASE /\ next <= src_bytes_left => IsUnit(chunk.data[next]) /\ n = dst_bytes_left
             /\ src_bytes_left' = src_bytes_left - (next - 1)
             /\ next > src_bytes_left => src_bytes_left' = 0 /\ chunk.data[src_bytes_left] # "end"
    <3>1. CASE next > src_bytes_left
      BY <2>2, <2>4, <2>6, <3>1 DEF Ends
    <3>2. CASE next <= src_bytes_left
      <4>1. dst_bytes_left' = 0 /\ src_bytes_left' # 0
        BY <1>1, <2>3, <2>6, <3>2
      <4> QED
        BY <2>4, <4>1
    <3> QED
      BY <1>1, <3>1, <3>2
  <2> QED
    BY <1>1, <2>5, <2>6 DEF Turn
<1> QED
  BY <1>2, <1>3, <1>4 DEF DoneInOne

LEMMA InitIsGood == Init => DecompressInv
<1> SUFFICES ASSUME Init PROVE DecompressInv
  OBVIOUS
<1>1. chunk \in Chunks /\ pc = "called" /\ Fresh
  BY DEF Init, Fresh
<1>2. DecompressTypeOK
  <2>1. chunk.uncompressed_size \in Nat /\ Len(chunk.data) \in Nat
    BY <1>1, ChunkFacts
  <2> QED
    BY <2>1 DEF Init, DecompressTypeOK, Empty
<1>3. Filled
  BY <1>1, EmptyIsFilled DEF Fresh
<1>4. AsTheViewAssumes
  BY <1>1 DEF AsTheViewAssumes, CameBack
<1> QED
  BY <1>1, <1>2, <1>3, <1>4 DEF DecompressInv

LEMMA CallKeeps ==
  ASSUME DecompressInv, NEW c \in Chunks, Call(c)
  PROVE  DecompressInv'
<1>1. /\ chunk' \in Chunks /\ pc' = "called" /\ chunk' = c
      /\ lz4_ctx' \in {"frame", "rest"} /\ before' = lz4_ctx'
      /\ dst' = Empty(c.uncompressed_size)
      /\ src_bytes_left' = Len(c.data) /\ dst_bytes_left' = c.uncompressed_size
  BY DEF Call, DecompressInv, DecompressTypeOK
<1>2. Fresh'
  BY <1>1 DEF Fresh, Empty
<1>3. c.uncompressed_size \in Nat /\ Len(c.data) \in Nat
  BY DecompressAssumption
<1>4. DecompressTypeOK'
  BY <1>1, <1>3 DEF DecompressTypeOK, Empty
<1>5. Filled'
  <2>1. (chunk \in Chunks /\ dst = Empty(chunk.uncompressed_size) => Filled)'
    BY EmptyIsFilled, PTL
  <2> QED
    BY <1>1, <2>1 DEF Empty
<1>6. AsTheViewAssumes'
  BY <1>1 DEF AsTheViewAssumes, CameBack
<1> QED
  BY <1>1, <1>2, <1>4, <1>5, <1>6 DEF DecompressInv

\* What a call that throws in the lz4 loop leaves.
LEMMA ThrowIsGood ==
  ASSUME chunk \in Chunks, pc = "threw", chunk.compression = "lz4", Filled,
         Whole => before = "rest" /\ FilledTo(0)
  PROVE  AsTheViewAssumes
<1>1. "threw" # "returned" /\ "rest" # "frame" /\ "lz4" # "none"
  OBVIOUS
<1> QED
  BY <1>1 DEF AsTheViewAssumes, CameBack, Filled

LEMMA TurnKeeps ==
  ASSUME DecompressInv, Lz4Turn
  PROVE  DecompressInv'
<1>1. /\ chunk \in Chunks /\ chunk.compression = "lz4" /\ pc = "called"
      /\ src_bytes_left > 0 /\ dst_bytes_left > 0
      /\ src_bytes_left \in 0..Len(chunk.data) /\ dst_bytes_left \in 0..chunk.uncompressed_size
      /\ Len(chunk.data) \in Nat /\ chunk.uncompressed_size \in Nat
      /\ before \in {"frame", "rest"} /\ Start \in {0, 1}
      /\ DOMAIN dst = 1..chunk.uncompressed_size
  BY ChunkFacts DEF DecompressInv, DecompressTypeOK, Lz4Turn, InLz4Loop, Start
<1>2. CASE /\ Start = 1 /\ chunk.data[1] # "head"
           /\ pc' = "threw" /\ dst' = dst /\ lz4_ctx' = "frame"
           /\ UNCHANGED <<chunk, before, src_bytes_left, dst_bytes_left>>
  <2>1. DecompressTypeOK'
    BY <1>1, <1>2 DEF DecompressInv, DecompressTypeOK
  <2>2. Filled'
    BY <1>2 DEF DecompressInv, Lz4Turn, Filled, FilledTo, Header
  <2>3. ~Whole'
    BY <1>1, <1>2 DEF Whole
  <2>4. AsTheViewAssumes'
    <3>1. ((chunk \in Chunks /\ pc = "threw" /\ chunk.compression = "lz4" /\ Filled
            /\ (Whole => before = "rest" /\ FilledTo(0))) => AsTheViewAssumes)'
      BY ThrowIsGood, PTL
    <3> QED
      BY <1>1, <1>2, <2>2, <2>3, <3>1
  <2> QED
    BY <1>2, <2>1, <2>4 DEF DecompressInv, InLz4Loop
<1>3. ASSUME Start = 1 => chunk.data[1] = "head",
             NEW n \in 0..dst_bytes_left,
             Start + n <= src_bytes_left,
             \A k \in 1..n : IsUnit(chunk.data[Start + k]),
             dst' = Written(chunk.data, Start, n),
             Turn(n),
             lz4_ctx' \in {"frame", "rest"}, UNCHANGED <<chunk, before>>
      PROVE  DecompressInv'
  <2>1. Filled' /\ (Fresh => FilledTo(n)')
    BY <1>3, TurnFills
  <2>2. /\ pc' \in {"called", "threw"}
        /\ src_bytes_left' \in 0..Len(chunk.data)
        /\ dst_bytes_left' \in 0..chunk.uncompressed_size
    <3> DEFINE next == Start + n + 1
    <3>1. n \in Nat /\ n <= dst_bytes_left /\ next \in 1..src_bytes_left+1
      BY <1>1, <1>3
    <3>2. CASE pc' = "threw" /\ UNCHANGED <<src_bytes_left, dst_bytes_left>>
      BY <1>1, <3>2
    <3>3. CASE /\ pc' = pc /\ next <= src_bytes_left
               /\ src_bytes_left' = src_bytes_left - next /\ dst_bytes_left' = dst_bytes_left - n
      <4> HIDE DEF next
      <4> QED
        BY <1>1, <3>1, <3>3
    <3>4. CASE /\ pc' = pc
               /\ src_bytes_left' = src_bytes_left - (next - 1)
               /\ dst_bytes_left' = dst_bytes_left - n
      <4> HIDE DEF next
      <4> QED
        BY <1>1, <3>1, <3>4
    <3> QED
      BY <1>3, <3>2, <3>3, <3>4 DEF Turn
  <2>3. DecompressTypeOK'
    <3>1. DOMAIN dst' = DOMAIN dst
      BY <1>3 DEF Written
    <3> QED
      BY <1>1, <1>3, <2>2, <3>1 DEF DecompressTypeOK
  <2>4. CASE pc' = "threw"
    <3>1. Whole' => before' = "rest" /\ FilledTo(0)'
      <4>1. ASSUME Whole
            PROVE  before = "rest" /\ n = 0 /\ Fresh
        <5>1. pc' # "called"
          BY <2>4
        <5> QED
          BY <1>1, <1>3, <4>1, <5>1, WholeTurn
      <4>2. Whole' = Whole
        BY <1>3 DEF Whole
      <4> QED
        BY <1>3, <2>1, <4>1, <4>2
    <3>2. ((chunk \in Chunks /\ pc = "threw" /\ chunk.compression = "lz4" /\ Filled
            /\ (Whole => before = "rest" /\ FilledTo(0))) => AsTheViewAssumes)'
      BY ThrowIsGood, PTL
    <3>3. AsTheViewAssumes'
      BY <1>1, <1>3, <2>1, <2>4, <3>1, <3>2
    <3> QED
      BY <2>3, <2>4, <3>3 DEF DecompressInv, InLz4Loop
  <2>5. CASE pc' = "called"
    <3>1. DoneInOne'
      BY <1>3, <2>1, <2>5, TurnIsDone
    <3>2. AsTheViewAssumes'
      BY <2>5 DEF AsTheViewAssumes, CameBack
    <3> QED
      BY <1>1, <1>3, <2>1, <2>3, <2>5, <3>1, <3>2 DEF DecompressInv
  <2> QED
    BY <2>2, <2>4, <2>5
<1> QED
  BY <1>2, <1>3, TurnIs

LEMMA EndKeeps ==
  ASSUME DecompressInv, Lz4End
  PROVE  DecompressInv'
<1>1. /\ chunk \in Chunks /\ chunk.compression = "lz4" /\ pc = "called"
      /\ dst_bytes_left = 0 \/ src_bytes_left = 0
      /\ src_bytes_left \in Nat /\ dst_bytes_left \in Nat
      /\ Len(chunk.data) \in Nat /\ chunk.uncompressed_size \in Nat \ {0}
      /\ pc' = IF src_bytes_left > 0 \/ dst_bytes_left > 0 THEN "threw" ELSE "returned"
      /\ UNCHANGED <<chunk, lz4_ctx, before, dst, src_bytes_left, dst_bytes_left>>
      /\ before \in {"frame", "rest"}
      /\ Filled /\ (Fresh \/ DoneInOne)
  BY ChunkFacts DEF DecompressInv, DecompressTypeOK, Lz4End, InLz4Loop
<1>2. DecompressTypeOK'
  BY <1>1 DEF DecompressInv, DecompressTypeOK
<1>3. /\ \A n : FilledTo(n)' = FilledTo(n)
      /\ Whole' = Whole /\ Ends' = Ends /\ GoesOn' = GoesOn
  BY <1>1 DEF FilledTo, Header, Whole, Ends, GoesOn
<1>4. Whole => DoneInOne
  <2>1. ASSUME Whole, Fresh
        PROVE  FALSE
    BY <1>1, <2>1 DEF Whole, Fresh
  <2> QED
    BY <1>1, <2>1
<1>5. ASSUME Whole
      PROVE  /\ before = "frame" /\ pc' = "returned"
             /\ FilledTo(chunk.uncompressed_size)
  <2>1. /\ before = "frame" /\ src_bytes_left = 0 /\ dst_bytes_left = 0
        /\ FilledTo(chunk.uncompressed_size - dst_bytes_left)
    <3>1. ~GoesOn
      BY <1>1, <1>5, WholeFacts
    <3> QED
      BY <1>4, <1>5, <3>1 DEF DoneInOne
  <2>2. chunk.uncompressed_size - dst_bytes_left = chunk.uncompressed_size
    BY <1>1, <2>1
  <2> QED
    BY <1>1, <2>1, <2>2
<1>6. ASSUME pc' = "returned"
      PROVE  DoneInOne /\ src_bytes_left = 0 /\ dst_bytes_left = 0
  BY <1>1, <1>6 DEF Fresh
<1>7. ASSUME pc' = "returned", ~GoesOn
      PROVE  /\ FilledTo(chunk.uncompressed_size)
             /\ Ends => lz4_ctx' = "frame"
  <2>1. FilledTo(chunk.uncompressed_size - dst_bytes_left) /\ (Ends => lz4_ctx = "frame")
    BY <1>6, <1>7 DEF DoneInOne
  <2>2. chunk.uncompressed_size - dst_bytes_left = chunk.uncompressed_size
    BY <1>1, <1>6, <1>7
  <2> QED
    BY <1>1, <2>1, <2>2
<1>8. \E n \in 0..chunk.uncompressed_size :
        FilledTo(n) /\ (pc' = "returned" /\ ~GoesOn => n = chunk.uncompressed_size)
  <2>1. CASE pc' = "returned" /\ ~GoesOn
    BY <1>1, <1>7, <2>1
  <2>2. CASE ~(pc' = "returned" /\ ~GoesOn)
    BY <1>1, <2>2 DEF Filled
  <2> QED
    BY <2>1, <2>2
<1>9. AsTheViewAssumes'
  BY <1>1, <1>3, <1>5, <1>7, <1>8 DEF AsTheViewAssumes
<1>10. pc' # "called"
  BY <1>1
<1> QED
  BY <1>2, <1>9, <1>10 DEF DecompressInv, InLz4Loop

LEMMA Bz2Keeps ==
  ASSUME DecompressInv, Bz2
  PROVE  DecompressInv'
<1> DEFINE r == BZ2_bzBuffToBuffDecompress(chunk.data, chunk.uncompressed_size)
<1>1. /\ chunk \in Chunks /\ chunk.compression = "bz2" /\ Fresh
      /\ Len(chunk.data) \in Nat /\ DOMAIN chunk.data = 1..Len(chunk.data)
      /\ chunk.uncompressed_size \in Nat \ {0}
      /\ pc' = (IF r.ok THEN "returned" ELSE "threw") /\ dst' = r.dst
      /\ UNCHANGED <<chunk, lz4_ctx, before, src_bytes_left, dst_bytes_left>>
      /\ DOMAIN dst = 1..chunk.uncompressed_size
  BY ChunkFacts DEF DecompressInv, DecompressTypeOK, Bz2
<1>2. FilledTo(0)
  BY <1>1, EmptyIsFilled DEF Fresh
<1>3. Whole' = Whole
  BY <1>1 DEF Whole
<1>4. CASE ~(chunk.data # <<>> /\ chunk.data[1] = "head")
  <2>1. r = [ok |-> FALSE, dst |-> dst]
    BY <1>4 DEF BZ2_bzBuffToBuffDecompress
  <2>2. pc' = "threw" /\ dst' = dst
    BY <1>1, <2>1
  <2>3. ~Whole
    BY <1>1, <1>4, WholeFacts DEF Whole
  <2>4. FilledTo(0)'
    BY <1>1, <1>2, <2>2 DEF FilledTo, Header
  <2>5. AsTheViewAssumes'
    BY <1>1, <1>3, <2>2, <2>3, <2>4 DEF AsTheViewAssumes, Fresh
  <2>6. DecompressTypeOK'
    BY <1>1, <2>2 DEF DecompressInv, DecompressTypeOK
  <2> QED
    BY <2>2, <2>5, <2>6 DEF DecompressInv, InLz4Loop
<1>5. CASE chunk.data # <<>> /\ chunk.data[1] = "head"
  <2>1. Header = 1 /\ 1 <= Len(chunk.data)
    BY <1>1, <1>5 DEF Header
  <2>2. PICK n \in 0..chunk.uncompressed_size :
          /\ n = Run(chunk.data, 1, chunk.uncompressed_size)
          /\ 1 + n <= Len(chunk.data)
          /\ \A j \in 1+1..1+n : IsUnit(chunk.data[j])
          /\ n < chunk.uncompressed_size /\ 1 + n < Len(chunk.data) =>
               ~IsUnit(chunk.data[1 + n + 1])
    BY <1>1, <2>1, RunIs
  <2>3. r = [ok |-> n + 2 <= Len(chunk.data) /\ chunk.data[n + 2] = "end",
             dst |-> Written(chunk.data, 1, n)]
    <3>1. n = Run(chunk.data, 1, chunk.uncompressed_size)
      BY <2>2
    <3> QED
      BY <1>5, <3>1 DEF BZ2_bzBuffToBuffDecompress
  <2>4. dst' = Written(chunk.data, Header, n) /\ pc' \in {"returned", "threw"}
    BY <1>1, <2>1, <2>3
  <2>5. n \in Nat /\ \A k \in 1..n : IsUnit(chunk.data[Header + k])
    BY <1>1, <2>1, <2>2
  <2>6. FilledTo(IF 0 <= n THEN n ELSE 0)'
    BY <1>1, <1>2, <2>1, <2>2, <2>4, <2>5, WrittenIsFilled
  <2>7. FilledTo(n)'
    <3>1. (IF 0 <= n THEN n ELSE 0) = n
      BY <2>5
    <3> QED
      BY <2>6, <3>1
  <2>8. ASSUME Whole
        PROVE  pc' = "returned" /\ n = chunk.uncompressed_size
    <3>1. PICK N \in Nat \ {0} : N = chunk.uncompressed_size
      BY <1>1
    <3>2. /\ Len(chunk.data) = N + 2 /\ chunk.data[N + 2] = "end"
          /\ \A k \in 2..N+1 : IsUnit(chunk.data[k])
      BY <1>1, <2>8, <3>1 DEF Whole
    <3>3. n = N
      <4>1. ASSUME n < N
            PROVE  FALSE
        <5>1. 1 + n + 1 \in 2..N+1 /\ 1 + n < Len(chunk.data)
          BY <2>5, <3>1, <3>2, <4>1
        <5>2. ~IsUnit(chunk.data[1 + n + 1])
          BY <2>2, <3>1, <4>1, <5>1
        <5> QED
          BY <3>2, <5>1, <5>2
      <4> QED
        BY <2>2, <3>1, <4>1
    <3>4. r.ok
      <4>1. n + 2 <= Len(chunk.data) /\ chunk.data[n + 2] = "end"
        BY <3>1, <3>2, <3>3
      <4> HIDE DEF r
      <4> QED
        BY <2>3, <4>1
    <3> QED
      BY <1>1, <3>1, <3>3, <3>4
  <2>9. AsTheViewAssumes'
    <3>1. lz4_ctx' = before' /\ chunk'.compression = "bz2"
      BY <1>1 DEF Fresh
    <3>2. chunk' = chunk /\ Whole' = Whole
      BY <1>1, <1>3
    <3>3. n \in 0..chunk'.uncompressed_size
      BY <2>2, <3>2
    <3> QED
      BY <2>7, <2>8, <3>1, <3>2, <3>3 DEF AsTheViewAssumes
  <2>10. DecompressTypeOK'
    <3>1. DOMAIN dst' = DOMAIN dst
      BY <2>4 DEF Written
    <3> QED
      BY <1>1, <2>4, <3>1 DEF DecompressInv, DecompressTypeOK
  <2> QED
    BY <2>4, <2>9, <2>10 DEF DecompressInv, InLz4Loop
<1> QED
  BY <1>4, <1>5

LEMMA CopyKeeps ==
  ASSUME DecompressInv, Copy
  PROVE  DecompressInv'
<1>1. /\ chunk \in Chunks /\ chunk.compression = "none" /\ Fresh
      /\ Len(chunk.data) \in Nat /\ DOMAIN chunk.data = 1..Len(chunk.data)
      /\ \A k \in 1..Len(chunk.data) : IsUnit(chunk.data[k])
      /\ ~IsUnit("head")
      /\ chunk.uncompressed_size \in Nat \ {0}
      /\ pc' = "returned"
      /\ dst' = [k \in DOMAIN dst |-> IF k <= Len(chunk.data) THEN chunk.data[k] ELSE Foreign]
      /\ UNCHANGED <<chunk, lz4_ctx, before, src_bytes_left, dst_bytes_left>>
      /\ DOMAIN dst = 1..chunk.uncompressed_size
  BY ChunkFacts DEF DecompressInv, DecompressTypeOK, Copy, IsUnit
<1>2. Header' = 0
  BY <1>1 DEF Header
<1>3. ASSUME Len(chunk.data) >= chunk.uncompressed_size
      PROVE  FilledTo(chunk.uncompressed_size)'
  BY <1>1, <1>2, <1>3 DEF FilledTo
<1>4. Whole' => Len(chunk.data) >= chunk.uncompressed_size
  BY <1>1 DEF Whole
<1>5. lz4_ctx' = before' /\ chunk'.uncompressed_size \in 0..chunk'.uncompressed_size
  BY <1>1 DEF Fresh
<1>6. AsTheViewAssumes'
  BY <1>1, <1>3, <1>4, <1>5 DEF AsTheViewAssumes
<1>7. DecompressTypeOK'
  BY <1>1 DEF DecompressInv, DecompressTypeOK
<1> QED
  BY <1>1, <1>6, <1>7 DEF DecompressInv, InLz4Loop

\* The invariant is inductive.
LEMMA StepKeeps ==
  ASSUME DecompressInv, [Next]_vars
  PROVE  DecompressInv'
<1>1. CASE UNCHANGED vars
  <2> USE <1>1 DEF vars
  <2>1. DecompressTypeOK' /\ InLz4Loop' = InLz4Loop /\ Fresh' = Fresh
    BY DEF DecompressInv, DecompressTypeOK, InLz4Loop, Fresh, Empty
  <2>2. /\ \A n : FilledTo(n)' = FilledTo(n)
        /\ Whole' = Whole /\ Ends' = Ends /\ GoesOn' = GoesOn
    BY DEF FilledTo, Header, Whole, Ends, GoesOn
  <2>3. Filled' = Filled /\ DoneInOne' = DoneInOne
    BY <2>2 DEF Filled, DoneInOne
  <2>4. AsTheViewAssumes'
    BY <2>2 DEF DecompressInv, AsTheViewAssumes, CameBack
  <2> QED
    BY <2>1, <2>3, <2>4 DEF DecompressInv
<1> QED
  BY <1>1, CallKeeps, TurnKeeps, EndKeeps, Bz2Keeps, CopyKeeps DEF Next

\* The invariant of the calls through the shared context.
THEOREM DecompressInvariance == Spec => []DecompressInv
  BY InitIsGood, StepKeeps, PTL DEF Spec

(***************************************************************************)
(* For chunks of any size, with any data, one after the other through the  *)
(* one context: whole data is decompressed, unless the context is inside a *)
(* frame, when lz4 throws and the buffer stays zeros; however the call     *)
(* ends, the buffer holds a first part of the contents, but for a copy of  *)
(* data that is too short; and when lz4 returns it is full and the context *)
(* clean, but for data that goes on behind its first frame, or lacks the   *)
(* end of it (decompressLz4Chunk, ros_bag_types.h:104).                    *)
(***************************************************************************)
THEOREM DecompressesAsAssumed == Spec => []AsTheViewAssumes
<1>1. DecompressInv => AsTheViewAssumes
  BY DEF DecompressInv
<1> QED
  BY DecompressInvariance, <1>1, PTL
=============================================================================
