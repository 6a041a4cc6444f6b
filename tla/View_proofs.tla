---------------------------- MODULE View_proofs ----------------------------
(***************************************************************************)
(* Proofs about the View, for every set of bags, topics, queries and       *)
(* iterators and every contents of the bags: its types and its structure,  *)
(* the order of the messages that an iteration delivers, and the           *)
(* refinement of Merge.                                                    *)
(***************************************************************************)
EXTENDS ViewRefinement, TLAPS

\* The inductive invariant: types and structure need each other.
Inv == TypeOK /\ StructureOK

-----------------------------------------------------------------------------
(* Facts about the contents of the bags.                                   *)

\* A record that starts in a chunk ends in it, and the next one starts there.
LEMMA RecordFacts ==
  ASSUME NEW b \in Bags, NEW c \in Chunks(b), NEW o \in Records(b, c)
  PROVE  /\ o \in Nat /\ o < chunks_[b][c].size
         /\ DataStart(b, c, o) \in Nat /\ NextRecord(b, c, o) \in Nat
         /\ o < DataStart(b, c, o)
         /\ DataStart(b, c, o) <= NextRecord(b, c, o)
         /\ NextRecord(b, c, o) \in Records(b, c) \cup {chunks_[b][c].size}
         /\ RecordAt(b, c, o).op \in Op
  BY RecordAssumption DEF NextRecord, DataStart, LengthWords

LEMMA ChunkFacts ==
  ASSUME NEW b \in Bags, NEW c \in Chunks(b)
  PROVE  /\ chunks_[b][c].size \in Nat /\ chunks_[b][c].good \in Nat
         /\ chunks_[b][c].ok \in BOOLEAN
         /\ chunks_[b][c].good <= chunks_[b][c].size
         /\ chunks_[b][c].size > 0 => 0 \in Records(b, c)
         /\ c # None
  <1>1. /\ chunks_[b][c].size \in Nat /\ chunks_[b][c].good \in Nat
        /\ chunks_[b][c].ok \in BOOLEAN
        /\ chunks_[b][c].good \in Records(b, c) \cup {chunks_[b][c].size}
    BY ChunkAssumption
  <1>2. chunks_[b][c].good <= chunks_[b][c].size
    <2>1. CASE chunks_[b][c].good = chunks_[b][c].size
      BY <2>1, <1>1
    <2>2. CASE chunks_[b][c].good \in Records(b, c)
      <3>1. chunks_[b][c].good < chunks_[b][c].size
        BY <2>2, RecordFacts
      <3> QED
        BY <3>1, <1>1
    <2> QED
      BY <2>1, <2>2, <1>1
  <1> QED
    BY <1>1, <1>2, RecordAssumption, SentinelAssumption

\* A buffer is filled at most up to its end.
LEMMA FilledFacts ==
  ASSUME NEW b \in Bags, NEW w, w.current_buffer \in Chunks(b)
  PROVE  Filled(b, w) \in Nat /\ Filled(b, w) <= chunks_[b][w.current_buffer].size
  BY ChunkFacts DEF Filled

\* The message at an offset of a chunk.
LEMMA MessageAt ==
  ASSUME NEW b \in Bags, NEW c \in Chunks(b), NEW o \in Records(b, c),
         RecordAt(b, c, o).op = "MESSAGE_DATA"
  PROVE  [bag |-> b, chunk |-> c, off |-> o] \in Messages(b)
  BY DEF Messages, MessagesIn

\* A message of a bag is a message, and not the null pointer.
LEMMA MessageFacts ==
  ASSUME NEW b \in Bags, NEW m \in Messages(b)
  PROVE  m \in AllMessages /\ m # None
  BY SentinelAssumption DEF AllMessages

\* In a sound chunk every record is decompressed and has its data in bounds.
LEMMA SoundChunk ==
  ASSUME NEW b \in Bags, NEW c \in Chunks(b), ~Faulty(b, c)
  PROVE  /\ chunks_[b][c].good = chunks_[b][c].size
         /\ \A o \in Records(b, c) :
              /\ RecordAt(b, c, o).op # "OTHER"
              /\ DataStart(b, c, o) < chunks_[b][c].size
  <1>1. chunks_[b][c].good = chunks_[b][c].size
    BY ChunkFacts DEF Faulty
  <1>2. ASSUME NEW o \in Records(b, c)
        PROVE  /\ RecordAt(b, c, o).op # "OTHER"
               /\ DataStart(b, c, o) < chunks_[b][c].size
    <2>1. DataStart(b, c, o) # chunks_[b][c].size /\ RecordAt(b, c, o).op # "OTHER"
      BY DEF Faulty
    <2>2. NextRecord(b, c, o) <= chunks_[b][c].size
      BY RecordFacts, ChunkFacts
    <2> QED
      BY <2>1, <2>2, RecordFacts, ChunkFacts
  <1> QED
    BY <1>1, <1>2

\* A chunk of a bag has a name.
LEMMA NameFacts ==
  ASSUME NEW b \in Bags, NEW c \in Chunks(b)
  PROVE  [bag |-> b, chunk |-> c] \in ChunkNames
  BY DEF ChunkNames

-----------------------------------------------------------------------------
(* Facts about the state.                                                  *)

\* top() returns an element of the queue.
LEMMA TopsFacts ==
  ASSUME TypeOK, NEW i \in Iterators, NEW Q \in SUBSET Bags, NEW t \in Tops(i, Q)
  PROVE  /\ t \in Bags \cup {None}
         /\ Q # {} => t \in Q
  <1>1. CASE Q = {}
    BY <1>1 DEF Tops
  <1>2. CASE Q # {}
    BY <1>2 DEF Tops
  <1> QED
    BY <1>1, <1>2

\* A wrapper of a query is replaced by w.
LEMMA SetWrapperFacts ==
  ASSUME TypeOK, NEW q \in Queries, NEW b \in Bags, NEW w \in BagWrapper(b),
         wrapper' = [wrapper EXCEPT ![q][b] = w]
  PROVE  /\ DOMAIN wrapper' = Queries
         /\ \A p \in Queries :
              /\ DOMAIN wrapper'[p] = Bags
              /\ \A a \in Bags :
                   /\ wrapper'[p][a] = IF p = q /\ a = b THEN w ELSE wrapper[p][a]
                   /\ wrapper'[p][a] \in BagWrapper(a)
  BY DEF TypeOK

\* What a running call works on.
LEMMA CallFacts ==
  ASSUME Inv, call.pc # "idle"
  PROVE  /\ call.it \in Iterators /\ iter[call.it].st # "none"
         /\ CallQuery \in Queries /\ query[CallQuery].made
         /\ call.pc = "read" =>
              /\ call.bag \in Bags
              /\ CallWrapper \in BagWrapper(call.bag)
              /\ WrapperOK(call.bag, CallWrapper)
  BY DEF Inv, TypeOK, StructureOK, CallOK, IteratorOK, CallQuery, CallWrapper

\* The parts of the invariant that speak of wrappers, after a step of
\* readMessage that changes the wrapper of the call only.
LEMMA WrapperStep ==
  ASSUME Inv, call.pc = "read", NEW w \in BagWrapper(call.bag),
         WrapperOK(call.bag, w), w.current # None \/ w.current = CallWrapper.current,
         SetWrapper(w)
  PROVE  /\ DOMAIN wrapper' = Queries
         /\ \A q \in Queries :
              /\ DOMAIN wrapper'[q] = Bags
              /\ \A b \in Bags : wrapper'[q][b] \in BagWrapper(b)
         /\ \A q \in Queries, b \in Bags : WrapperOK(b, wrapper'[q][b])
         /\ \A q \in Queries, b \in Bags :
              wrapper[q][b].current # None => wrapper'[q][b].current # None
         /\ wrapper'[CallQuery][call.bag] = w
  <1>1. CallQuery \in Queries /\ call.bag \in Bags
    BY CallFacts
  <1>2. wrapper' = [wrapper EXCEPT ![CallQuery][call.bag] = w]
    BY DEF SetWrapper
  <1>3. /\ DOMAIN wrapper' = Queries
        /\ \A p \in Queries :
              /\ DOMAIN wrapper'[p] = Bags
              /\ \A a \in Bags :
                   /\ wrapper'[p][a] = IF p = CallQuery /\ a = call.bag THEN w ELSE wrapper[p][a]
                   /\ wrapper'[p][a] \in BagWrapper(a)
    BY <1>1, <1>2, SetWrapperFacts DEF Inv
  <1>4. \A q \in Queries, b \in Bags : WrapperOK(b, wrapper'[q][b])
    BY <1>3 DEF Inv, StructureOK
  <1>5. \A q \in Queries, b \in Bags :
              wrapper[q][b].current # None => wrapper'[q][b].current # None
    BY <1>3 DEF CallWrapper
  <1> QED
    BY <1>1, <1>3, <1>4, <1>5

\* A step of readMessage that changes nothing but the wrapper.
LEMMA QuietStep ==
  ASSUME Inv, call.pc = "read", NEW w \in BagWrapper(call.bag),
         WrapperOK(call.bag, w), w.current = CallWrapper.current,
         SetWrapper(w), UNCHANGED <<bags_, query, iter, call, failure>>,
         lz4_ctx' \in {None, lz4_ctx}
  PROVE  Inv'
  <1>1. TypeOK'
    BY WrapperStep DEF Inv, TypeOK
  <1>2. CallOK' /\ FailureOK'
    BY DEF Inv, StructureOK, CallOK, FailureOK
  <1>3. ASSUME NEW i \in Iterators PROVE IteratorOK(i)'
    <2>1. IteratorOK(i) /\ iter[i].queue \subseteq Bags
      BY DEF Inv, TypeOK, StructureOK, Iterator
    <2>2. \A b \in iter[i].queue : iter[i].query \in Queries
      BY <2>1 DEF IteratorOK
    <2> QED
      BY <2>1, <2>2, WrapperStep DEF IteratorOK
  <1> QED
    BY <1>1, <1>2, <1>3, WrapperStep DEF Inv, StructureOK

\* An exception, from the constructor or from operator++.
LEMMA ThrowStep ==
  ASSUME Inv, call.pc = "read", NEW w \in BagWrapper(call.bag),
         WrapperOK(call.bag, w), w.current = CallWrapper.current,
         w.current_buffer # None, Throw(w),
         lz4_ctx' \in ChunkNames \cup {None}, lz4_ctx' # None => Culprit(lz4_ctx')
  PROVE  Inv'
  <1> DEFINE i == call.it
  <1>1. /\ i \in Iterators /\ iter[i].st # "none"
        /\ CallQuery \in Queries /\ query[CallQuery].made /\ call.bag \in Bags
    BY CallFacts
  <1>2. SetWrapper(w) /\ call' = Idle /\ UNCHANGED <<bags_, query>>
    BY DEF Throw
  <1>3. /\ failure'.query = CallQuery
        /\ w.current_buffer \in Chunks(call.bag) =>
             failure' \in [query : Queries, bag : {call.bag}, chunk : Chunks(call.bag),
                          cause : ChunkNames]
    <2> DEFINE own == [bag |-> call.bag, chunk |-> w.current_buffer]
               cause == IF w.spoiled = None THEN own ELSE w.spoiled
    <2>1. failure' = [query |-> CallQuery, bag |-> call.bag, chunk |-> w.current_buffer,
                      cause |-> cause]
      BY DEF Throw
    <2>2. w.current_buffer \in Chunks(call.bag) => cause \in ChunkNames
      BY <1>1, NameFacts DEF BagWrapper
    <2> HIDE DEF cause
    <2> QED
      BY <1>1, <2>1, <2>2
  <1>4. \/ iter[i].st = "building" /\ iter' = [iter EXCEPT ![i] = NoIterator]
        \/ /\ iter[i].st = "live"
           /\ \E t \in Tops(i, iter[i].queue) :
                iter' = [iter EXCEPT ![i].top = t, ![i].lost = @ \cup {call.bag}]
    BY <1>1 DEF Throw, Inv, TypeOK, Iterator
  <1>5. /\ iter' \in [Iterators -> Iterator]
        /\ iter'[i].st = "none" => iter'[i] = NoIterator
        /\ iter'[i].st # "none" =>
             /\ iter'[i].st = "live"
             /\ iter'[i].query = iter[i].query /\ iter'[i].queue = iter[i].queue
             /\ iter[i].queue # {} => iter'[i].top \in iter[i].queue
        /\ \A j \in Iterators \ {i} : iter'[j] = iter[j]
    <2>1. CASE iter[i].st = "building" /\ iter' = [iter EXCEPT ![i] = NoIterator]
      <3>1. NoIterator \in Iterator
        BY DEF NoIterator, Iterator
      <3> QED
        BY <2>1, <3>1, <1>1 DEF Inv, TypeOK, NoIterator
    <2>2. ASSUME NEW t \in Tops(i, iter[i].queue), iter[i].st = "live",
                 iter' = [iter EXCEPT ![i].top = t, ![i].lost = @ \cup {call.bag}]
          PROVE  <1>5!:
      <3>1. iter[i] \in Iterator
        BY <1>1 DEF Inv, TypeOK
      <3>2. t \in Bags \cup {None} /\ (iter[i].queue # {} => t \in iter[i].queue)
        BY <1>1, <3>1, TopsFacts DEF Inv, Iterator
      <3>3. PICK x : x = [iter[i] EXCEPT !.top = t, !.lost = @ \cup {call.bag}]
        OBVIOUS
      <3>4. /\ x \in Iterator /\ x.st = "live" /\ x.query = iter[i].query
            /\ x.queue = iter[i].queue /\ x.top = t
        BY <1>1, <2>2, <3>1, <3>2, <3>3 DEF Iterator
      <3>5. iter \in [Iterators -> Iterator] /\ iter' = [iter EXCEPT ![i] = x]
        BY <2>2, <3>3 DEF Inv, TypeOK
      <3> QED
        BY <1>1, <3>2, <3>4, <3>5
    <2> QED
      BY <2>1, <2>2, <1>4
  <1>6. w.current_buffer \in Chunks(call.bag)
    BY DEF BagWrapper
  <1>7. TypeOK'
    BY <1>1, <1>2, <1>3, <1>5, <1>6, WrapperStep DEF Inv, TypeOK, Idle, Call
  <1>8. CallOK' /\ FailureOK'
    BY <1>1, <1>2, <1>3, SentinelAssumption DEF Inv, StructureOK, CallOK, FailureOK, Idle
  <1>9. ASSUME NEW j \in Iterators PROVE IteratorOK(j)'
    <2>1. IteratorOK(j) /\ iter[j].queue \subseteq Bags
      BY DEF Inv, TypeOK, StructureOK, Iterator
    <2>2. \A b \in iter[j].queue : iter[j].query \in Queries
      BY <2>1 DEF IteratorOK
    <2>3. \A b \in iter[j].queue : wrapper'[iter[j].query][b].current # None
      BY <1>2, <2>1, <2>2, WrapperStep DEF IteratorOK
    <2>4. CASE j = i
      BY <1>1, <1>2, <1>5, <2>1, <2>3, <2>4 DEF IteratorOK, NoIterator, Idle
    <2>5. CASE j # i
      <3>1. iter[j].st # "building"
        BY <2>1, <2>5 DEF IteratorOK
      <3> QED
        BY <1>1, <1>2, <1>5, <2>1, <2>3, <2>5, <3>1 DEF IteratorOK, Idle
    <2> QED
      BY <2>4, <2>5
  <1> QED
    BY <1>2, <1>7, <1>8, <1>9, WrapperStep DEF Inv, StructureOK

-----------------------------------------------------------------------------
(* The steps of readMessage keep the invariant.                            *)

\* What becomes of the wrapper when a chunk is loaded, is broken, or is spoiled
\* by an earlier failure.
Loaded(c) == [CallWrapper EXCEPT !.current_buffer = c,
                                 !.uncompressed_size = chunks_[call.bag][c].size]
Broken(c) == [CallWrapper EXCEPT !.current_buffer = c]
Spoiled(c) == [CallWrapper EXCEPT !.current_buffer = c, !.spoiled = lz4_ctx]

LEMMA LoadChunkCases ==
  ASSUME LoadChunk
  PROVE  \E c \in CallWrapper.chunk_iter :
           LET ch == chunks_[call.bag][c]
               with_lz4 == ch.compression = "lz4" /\ ch.size > 0 IN
           \/ /\ ch.ok
              /\ SetWrapper(Loaded(c))
              /\ lz4_ctx' = IF with_lz4 THEN None ELSE lz4_ctx
              /\ UNCHANGED <<bags_, query, iter, call, failure>>
           \/ /\ ~ch.ok
              /\ Throw(Broken(c))
              /\ lz4_ctx' = IF with_lz4 THEN [bag |-> call.bag, chunk |-> c] ELSE lz4_ctx
           \/ /\ with_lz4 /\ lz4_ctx # None
              /\ Throw(Spoiled(c))
              /\ UNCHANGED lz4_ctx
  BY DEF LoadChunk, Loaded, Broken, Spoiled

LEMMA LoadChunkOK == Inv /\ LoadChunk => Inv'
  <1> SUFFICES ASSUME Inv, LoadChunk PROVE Inv'
    OBVIOUS
  <1> DEFINE b == call.bag
             w == CallWrapper
             lz4(c) == chunks_[b][c].compression = "lz4" /\ chunks_[b][c].size > 0
  <1>1. call.pc = "read" /\ w.current_buffer = None
    BY DEF LoadChunk, Reading
  <1>2. b \in Bags /\ w \in BagWrapper(b) /\ WrapperOK(b, w)
    BY <1>1, CallFacts
  <1>3. PICK c \in w.chunk_iter :
          \/ /\ chunks_[b][c].ok
             /\ SetWrapper(Loaded(c))
             /\ lz4_ctx' = IF lz4(c) THEN None ELSE lz4_ctx
             /\ UNCHANGED <<bags_, query, iter, call, failure>>
          \/ /\ ~chunks_[b][c].ok
             /\ Throw(Broken(c))
             /\ lz4_ctx' = IF lz4(c) THEN [bag |-> b, chunk |-> c] ELSE lz4_ctx
          \/ /\ lz4(c) /\ lz4_ctx # None
             /\ Throw(Spoiled(c))
             /\ UNCHANGED lz4_ctx
    BY LoadChunkCases
  <1>4. /\ c \in Chunks(b) /\ c \in w.chunks_to_parse /\ c # None
        /\ w.processed_bytes = 0 /\ w.spoiled = None
    BY <1>1, <1>2, <1>3, SentinelAssumption DEF BagWrapper, WrapperOK, Loaded, Broken, Spoiled
  <1>5. lz4_ctx \in ChunkNames \cup {None} /\ (lz4_ctx # None => Culprit(lz4_ctx))
    BY DEF Inv, TypeOK, StructureOK, FailureOK
  <1>6. CASE /\ chunks_[b][c].ok /\ SetWrapper(Loaded(c)) /\ lz4_ctx' \in {None, lz4_ctx}
             /\ UNCHANGED <<bags_, query, iter, call, failure>>
    <2>1. Loaded(c) \in BagWrapper(b) /\ Loaded(c).current = w.current
      BY <1>2, <1>4, ChunkFacts DEF BagWrapper, Loaded, Broken, Spoiled
    <2>2. 0 \in Records(b, c)
      BY <1>2, <1>4, <1>6, ChunkAssumption, ChunkFacts
    <2>3. WrapperOK(b, Loaded(c))
      BY <1>2, <1>4, <2>2 DEF BagWrapper, WrapperOK, Loaded, Broken, Spoiled
    <2> QED
      BY <1>1, <1>6, <2>1, <2>3, QuietStep
  <1>7. CASE /\ ~chunks_[b][c].ok /\ Throw(Broken(c))
             /\ lz4_ctx' = IF lz4(c) THEN [bag |-> b, chunk |-> c] ELSE lz4_ctx
    <2>1. /\ Broken(c) \in BagWrapper(b) /\ Broken(c).current = w.current
          /\ Broken(c).current_buffer # None
      BY <1>2, <1>4 DEF BagWrapper, Loaded, Broken, Spoiled
    <2>2. 0 \in Records(b, c) \/ 0 >= chunks_[b][c].good
      BY <1>2, <1>4, ChunkFacts
    <2>3. Faulty(b, c)
      BY <1>7 DEF Faulty
    <2>4. WrapperOK(b, Broken(c))
      BY <1>2, <1>4, <2>2, <2>3 DEF BagWrapper, WrapperOK, Filled, Loaded, Broken, Spoiled
    <2>5. lz4_ctx' \in ChunkNames \cup {None} /\ (lz4_ctx' # None => Culprit(lz4_ctx'))
      BY <1>2, <1>4, <1>5, <1>7, <2>3, NameFacts DEF Culprit
    <2> QED
      BY <1>1, <1>7, <2>1, <2>4, <2>5, ThrowStep
  <1>8. CASE lz4(c) /\ lz4_ctx # None /\ Throw(Spoiled(c)) /\ UNCHANGED lz4_ctx
    <2>1. /\ Spoiled(c) \in BagWrapper(b) /\ Spoiled(c).current = w.current
          /\ Spoiled(c).current_buffer # None
      BY <1>2, <1>4, <1>5 DEF BagWrapper, Loaded, Broken, Spoiled
    <2>2. WrapperOK(b, Spoiled(c))
      BY <1>2, <1>4, <1>5, <1>8 DEF BagWrapper, WrapperOK, Filled, Loaded, Broken, Spoiled
    <2> QED
      BY <1>1, <1>5, <1>8, <2>1, <2>2, ThrowStep
  <1> QED
    BY <1>3, <1>6, <1>7, <1>8

\* Where the next record starts is a position of the buffer again.
LEMMA AfterRecordFacts ==
  ASSUME Inv, AtRecord
  PROVE  /\ call.pc = "read" /\ call.bag \in Bags
         /\ CallWrapper \in BagWrapper(call.bag) /\ WrapperOK(call.bag, CallWrapper)
         /\ CallWrapper.current_buffer \in Chunks(call.bag)
         /\ Here \in Nat
         /\ Here < BufferFilled =>
              /\ Here \in Records(call.bag, CallWrapper.current_buffer)
              /\ LET v == [CallWrapper EXCEPT !.processed_bytes = AfterRecord] IN
                 v \in BagWrapper(call.bag) /\ WrapperOK(call.bag, v)
  <1> DEFINE b == call.bag
             w == CallWrapper
             c == w.current_buffer
  <1>1. call.pc = "read" /\ c # None
    BY DEF AtRecord, Reading
  <1>2. b \in Bags /\ w \in BagWrapper(b) /\ WrapperOK(b, w)
    BY <1>1, CallFacts
  <1>3. c \in Chunks(b) /\ Here \in Nat
    BY <1>1, <1>2 DEF BagWrapper, Here
  <1>4. ASSUME Here < BufferFilled
        PROVE  /\ Here \in Records(b, c)
               /\ LET v == [w EXCEPT !.processed_bytes = AfterRecord] IN
                  v \in BagWrapper(b) /\ WrapperOK(b, v)
    <2>1. Here \in Records(b, c)
      BY <1>1, <1>2, <1>3, <1>4, FilledFacts DEF WrapperOK, Here, BufferFilled
    <2>2. /\ AfterRecord \in Nat
          /\ AfterRecord \in Records(b, c) \/ AfterRecord >= Filled(b, w)
      BY <1>2, <1>3, <2>1, RecordFacts, ChunkFacts, FilledFacts DEF AfterRecord
    <2> HIDE DEF w
    <2>3. [w EXCEPT !.processed_bytes = AfterRecord] \in BagWrapper(b)
      BY <1>2, <2>2 DEF BagWrapper
    <2>4. WrapperOK(b, [w EXCEPT !.processed_bytes = AfterRecord])
      BY <1>1, <1>2, <2>2 DEF WrapperOK, BagWrapper, Filled
    <2> QED
      BY <2>1, <2>3, <2>4
  <1> QED
    BY <1>1, <1>2, <1>3, <1>4

LEMMA SkipRecordOK == Inv /\ SkipRecord => Inv'
  <1> SUFFICES ASSUME Inv, SkipRecord PROVE Inv'
    OBVIOUS
  <1> DEFINE v == [CallWrapper EXCEPT !.processed_bytes = AfterRecord]
  <1>1. AtRecord /\ Here < BufferFilled /\ SetWrapper(v)
    BY DEF SkipRecord, Readable
  <1>2. UNCHANGED <<bags_, query, iter, call, lz4_ctx, failure>>
    BY DEF SkipRecord
  <1>3. call.pc = "read" /\ v \in BagWrapper(call.bag) /\ WrapperOK(call.bag, v)
    BY <1>1, AfterRecordFacts
  <1>4. v.current = CallWrapper.current
    BY <1>1, AfterRecordFacts DEF BagWrapper
  <1> QED
    BY <1>1, <1>2, <1>3, <1>4, QuietStep

LEMMA UnknownRecordOK == Inv /\ UnknownRecord => Inv'
  <1> SUFFICES ASSUME Inv, UnknownRecord PROVE Inv'
    OBVIOUS
  <1> DEFINE v == [CallWrapper EXCEPT !.processed_bytes = AfterRecord]
  <1>1. AtRecord /\ Here < BufferFilled /\ Throw(v) /\ UNCHANGED lz4_ctx
    BY DEF UnknownRecord, Readable
  <1>2. call.pc = "read" /\ v \in BagWrapper(call.bag) /\ WrapperOK(call.bag, v)
    BY <1>1, AfterRecordFacts
  <1>3. v.current = CallWrapper.current /\ v.current_buffer # None
    BY <1>1, AfterRecordFacts DEF BagWrapper, AtRecord
  <1> QED
    BY <1>1, <1>2, <1>3, ThrowStep DEF Inv, TypeOK, StructureOK, FailureOK

LEMMA UnreadableRecordOK == Inv /\ UnreadableRecord => Inv'
  <1> SUFFICES ASSUME Inv, UnreadableRecord PROVE Inv'
    OBVIOUS
  <1> DEFINE b == call.bag
             w == CallWrapper
             c == w.current_buffer
             p == IF Here >= Buffer.size THEN Here
                  ELSE IF Here >= BufferFilled THEN Here + LengthWords
                  ELSE AfterRecord
             v == [w EXCEPT !.processed_bytes = p]
  <1>1. AtRecord /\ Throw(v) /\ c # None /\ UNCHANGED lz4_ctx
    BY DEF UnreadableRecord, AtRecord
  <1>2. /\ call.pc = "read" /\ b \in Bags /\ w \in BagWrapper(b) /\ WrapperOK(b, w)
        /\ c \in Chunks(b) /\ Here \in Nat
    BY <1>1, AfterRecordFacts
  <1>3. v \in BagWrapper(b) /\ WrapperOK(b, v)
    <2>1. CASE Here < BufferFilled
      <3>1. BufferFilled \in Nat /\ BufferFilled <= Buffer.size /\ Buffer.size \in Nat
        BY <1>2, FilledFacts, ChunkFacts DEF Buffer, BufferFilled
      <3>2. p = AfterRecord
        BY <1>2, <2>1, <3>1
      <3> QED
        BY <1>1, <2>1, <3>2, AfterRecordFacts
    <2>2. CASE Here >= BufferFilled
      <3>1. p \in Nat /\ p >= Filled(b, w)
        BY <1>2, <2>2, FilledFacts DEF Buffer, BufferFilled, LengthWords
      <3> HIDE DEF p, w
      <3>2. v \in BagWrapper(b)
        BY <1>2, <3>1 DEF BagWrapper
      <3>3. WrapperOK(b, v)
        BY <1>1, <1>2, <3>1 DEF WrapperOK, BagWrapper, Filled
      <3> QED
        BY <3>2, <3>3
    <2> QED
      BY <1>2, <2>1, <2>2, FilledFacts DEF BufferFilled
  <1>4. v.current = w.current /\ v.current_buffer # None
    BY <1>1, <1>2 DEF BagWrapper
  <1> QED
    BY <1>1, <1>2, <1>3, <1>4, ThrowStep DEF Inv, TypeOK, StructureOK, FailureOK

LEMMA FinishChunkOK == Inv /\ FinishChunk => Inv'
  <1> SUFFICES ASSUME Inv, FinishChunk PROVE Inv'
    OBVIOUS
  <1> DEFINE b == call.bag
             w == CallWrapper
  <1>1. call.pc = "read" /\ UNCHANGED <<bags_, query, iter, call, lz4_ctx, failure>>
    BY DEF FinishChunk, Reading
  <1>2. b \in Bags /\ w \in BagWrapper(b) /\ WrapperOK(b, w)
    BY <1>1, CallFacts
  <1>3. PICK c \in w.chunk_iter :
          SetWrapper([w EXCEPT !.chunk_iter = @ \ {c}, !.current_buffer = None,
                               !.spoiled = None, !.processed_bytes = 0])
    BY DEF FinishChunk
  <1> DEFINE v == [w EXCEPT !.chunk_iter = @ \ {c}, !.current_buffer = None,
                            !.spoiled = None, !.processed_bytes = 0]
  <1>4. v \in BagWrapper(b) /\ v.current = w.current
    BY <1>2 DEF BagWrapper
  <1>5. WrapperOK(b, v)
    BY <1>2 DEF BagWrapper, WrapperOK
  <1> QED
    BY <1>1, <1>3, <1>4, <1>5, QuietStep

LEMMA TakeMessageOK == Inv /\ TakeMessage => Inv'
  <1> SUFFICES ASSUME Inv, TakeMessage PROVE Inv'
    OBVIOUS
  <1> DEFINE b == call.bag
             w == CallWrapper
             m == [bag |-> b, chunk |-> w.current_buffer, off |-> Here]
             u == [w EXCEPT !.processed_bytes = AfterRecord]
             v == [w EXCEPT !.processed_bytes = AfterRecord, !.current = m]
  <1>1. /\ AtRecord /\ Here < BufferFilled /\ SetWrapper(v)
        /\ HereRecord.op = "MESSAGE_DATA"
        /\ iter' = [iter EXCEPT ![call.it].queue = @ \cup {b}]
        /\ call' = [call EXCEPT !.pc = "loop", !.bag = None]
        /\ UNCHANGED <<bags_, query, lz4_ctx, failure>>
    BY DEF TakeMessage, Readable, IsWanted
  <1>2. /\ call.pc = "read" /\ b \in Bags /\ w \in BagWrapper(b)
        /\ w.current_buffer \in Chunks(b)
        /\ Here \in Records(b, w.current_buffer)
        /\ u \in BagWrapper(b) /\ WrapperOK(b, u)
    BY <1>1, AfterRecordFacts
  <1>3. m \in Messages(b) /\ m # None
    <2>1. m \in Messages(b)
      BY <1>1, <1>2, MessageAt DEF HereRecord
    <2> QED
      BY <1>2, <2>1, MessageFacts
  <1>4. v = [u EXCEPT !.current = m] /\ v.current = m
    BY <1>2 DEF BagWrapper
  <1>5. v \in BagWrapper(b) /\ WrapperOK(b, v)
    <2> HIDE DEF u, m, v
    <2> QED
      BY <1>2, <1>3, <1>4 DEF BagWrapper, WrapperOK, Filled
  <1>6. call.it \in Iterators /\ iter[call.it].st # "none" /\ CallQuery \in Queries
    BY <1>2, CallFacts
  <1> HIDE DEF v, m
  <1>7. TypeOK'
    <2>1. iter' \in [Iterators -> Iterator]
      <3>1. iter \in [Iterators -> Iterator] /\ iter[call.it] \in Iterator
        BY <1>6 DEF Inv, TypeOK
      <3>2. [iter[call.it] EXCEPT !.queue = @ \cup {b}] \in Iterator
        BY <1>2, <3>1 DEF Iterator
      <3> QED
        BY <1>1, <1>6, <3>1, <3>2
    <2>2. call' \in Call
      BY <1>1 DEF Inv, TypeOK, Call
    <2> QED
      BY <1>1, <1>2, <1>3, <1>4, <1>5, <2>1, <2>2, WrapperStep DEF Inv, TypeOK
  <1>8. CallOK' /\ FailureOK'
    BY <1>1, <1>2, <1>6, SentinelAssumption
    DEF Inv, TypeOK, StructureOK, CallOK, FailureOK, Call, Iterator
  <1>9. ASSUME NEW i \in Iterators PROVE IteratorOK(i)'
    <2>1. IteratorOK(i) /\ iter[i] \in Iterator /\ call' = [call EXCEPT !.pc = "loop", !.bag = None]
      BY <1>1 DEF Inv, TypeOK, StructureOK
    <2>2. call'.it = call.it
      BY <1>1 DEF Inv, TypeOK, Call
    <2>3. /\ iter'[i].st = iter[i].st /\ iter'[i].query = iter[i].query
          /\ iter'[i].top = iter[i].top
          /\ iter'[i].queue = IF i = call.it THEN iter[i].queue \cup {b} ELSE iter[i].queue
      <3>1. iter \in [Iterators -> Iterator]
        BY DEF Inv, TypeOK
      <3> QED
        BY <1>1, <1>6, <2>1, <3>1 DEF Iterator
    <2>4. ASSUME NEW a \in iter[i].queue PROVE wrapper'[iter[i].query][a].current # None
      <3>1. iter[i].query \in Queries /\ a \in Bags /\ wrapper[iter[i].query][a].current # None
        BY <2>1 DEF IteratorOK, Iterator
      <3> QED
        BY <1>1, <1>2, <1>3, <1>4, <1>5, <3>1, WrapperStep
    <2>5. wrapper'[CallQuery][b].current # None
      BY <1>1, <1>2, <1>3, <1>4, <1>5, WrapperStep
    <2>6. CASE i = call.it
      <3>1. \A a \in iter'[i].queue : wrapper'[iter'[i].query][a].current # None
        BY <2>3, <2>4, <2>5, <2>6 DEF CallQuery
      <3>2. iter[i].st # "none" /\ iter[i].query \in Queries /\ query'[iter[i].query].made
        BY <1>1, <1>6, <2>1, <2>6 DEF IteratorOK
      <3> QED
        BY <2>2, <2>3, <2>6, <3>1, <3>2 DEF IteratorOK
    <2>7. CASE i # call.it
      BY <1>1, <2>1, <2>2, <2>3, <2>4, <2>7 DEF IteratorOK
    <2> QED
      BY <2>6, <2>7
  <1> QED
    BY <1>1, <1>2, <1>3, <1>4, <1>5, <1>7, <1>8, <1>9, WrapperStep DEF Inv, StructureOK

LEMMA ReadEndOK == Inv /\ ReadEnd => Inv'
  <1> SUFFICES ASSUME Inv, ReadEnd PROVE Inv'
    OBVIOUS
  <1>1. /\ call.pc = "read" /\ call' = [call EXCEPT !.pc = "loop", !.bag = None]
        /\ UNCHANGED <<bags_, query, wrapper, iter, lz4_ctx, failure>>
    BY DEF ReadEnd
  <1>2. call \in Call /\ call'.it = call.it /\ call'.pc = "loop" /\ call'.bag = None
    BY <1>1 DEF Inv, TypeOK, Call
  <1>3. TypeOK'
    BY <1>1 DEF Inv, TypeOK, Call
  <1>4. CallOK' /\ FailureOK'
    BY <1>1, <1>2, SentinelAssumption DEF Inv, StructureOK, CallOK, FailureOK
  <1>5. \A i \in Iterators : IteratorOK(i)'
    BY <1>1, <1>2 DEF Inv, StructureOK, IteratorOK
  <1> QED
    BY <1>1, <1>3, <1>4, <1>5 DEF Inv, StructureOK

-----------------------------------------------------------------------------
(* So do the other steps of a call, and the calls of the user.             *)

LEMMA ReturnOK == Inv /\ Return => Inv'
  <1> SUFFICES ASSUME Inv, Return PROVE Inv'
    OBVIOUS
  <1> DEFINE i == call.it
  <1>1. /\ call.pc = "loop" /\ call' = Idle
        /\ UNCHANGED <<bags_, query, wrapper, lz4_ctx, failure>>
    BY DEF Return
  <1>2. PICK t \in Tops(i, iter[i].queue) :
          iter' = [iter EXCEPT ![i].st = "live", ![i].top = t]
    BY DEF Return
  <1>3. i \in Iterators /\ iter[i].st # "none"
    BY <1>1, CallFacts
  <1>4. iter[i].queue \in SUBSET Bags
    BY <1>3 DEF Inv, TypeOK, Iterator
  <1>5. t \in Bags \cup {None} /\ (iter[i].queue # {} => t \in iter[i].queue)
    BY <1>2, <1>3, <1>4, TopsFacts DEF Inv
  <1>6. TypeOK'
    <2>1. iter' \in [Iterators -> Iterator]
      <3>1. iter \in [Iterators -> Iterator] /\ iter[i] \in Iterator
        BY <1>3 DEF Inv, TypeOK
      <3>2. [iter[i] EXCEPT !.st = "live", !.top = t] \in Iterator
        BY <1>5, <3>1 DEF Iterator
      <3> QED
        BY <1>2, <1>3, <3>1, <3>2
    <2> QED
      BY <1>1, <2>1 DEF Inv, TypeOK, Idle, Call
  <1>7. CallOK' /\ FailureOK'
    BY <1>1, SentinelAssumption DEF Inv, StructureOK, CallOK, FailureOK, Idle
  <1>8. ASSUME NEW j \in Iterators PROVE IteratorOK(j)'
    <2>1. IteratorOK(j) /\ iter[j] \in Iterator
      BY DEF Inv, TypeOK, StructureOK
    <2>2. CASE j = i
      <3>1. /\ iter'[j].st = "live" /\ iter'[j].query = iter[j].query
            /\ iter'[j].queue = iter[j].queue /\ iter'[j].top = t
        BY <1>2, <1>3, <2>2 DEF Inv, TypeOK, Iterator
      <3> QED
        BY <1>1, <1>3, <1>5, <2>1, <2>2, <3>1 DEF IteratorOK
    <2>3. CASE j # i
      <3>1. iter'[j] = iter[j] /\ iter[j].st # "building"
        BY <1>2, <2>1, <2>3 DEF Inv, TypeOK, IteratorOK
      <3> QED
        BY <1>1, <2>1, <2>3, <3>1 DEF IteratorOK
    <2> QED
      BY <2>2, <2>3
  <1> QED
    BY <1>1, <1>6, <1>7, <1>8 DEF Inv, StructureOK

LEMMA BeginBagOK == ASSUME NEW b \in Bags PROVE Inv /\ BeginBag(b) => Inv'
  <1> SUFFICES ASSUME Inv, BeginBag(b) PROVE Inv'
    OBVIOUS
  <1> DEFINE q == CallQuery
             w == wrapper[q][b]
             v == [w EXCEPT !.chunk_iter = w.chunks_to_parse]
  <1>1. /\ call.pc = "loop"
        /\ wrapper' = [wrapper EXCEPT ![q][b].chunk_iter = w.chunks_to_parse]
        /\ call' = [call EXCEPT !.pc = "read", !.bag = b, !.todo = @ \ {b}]
        /\ UNCHANGED <<bags_, query, iter, lz4_ctx, failure>>
    BY DEF BeginBag
  <1>2. call.it \in Iterators /\ iter[call.it].st # "none" /\ q \in Queries
    BY <1>1, CallFacts
  <1>3. wrapper' = [wrapper EXCEPT ![q][b] = v]
    BY <1>1
  <1>4. w \in BagWrapper(b) /\ WrapperOK(b, w)
    BY <1>2 DEF Inv, TypeOK, StructureOK
  <1>5. v \in BagWrapper(b) /\ WrapperOK(b, v) /\ v.current = w.current
    <2> HIDE DEF w
    <2> QED
      BY <1>4 DEF BagWrapper, WrapperOK, Filled
  <1> HIDE DEF v, q
  <1>6. /\ DOMAIN wrapper' = Queries
        /\ \A p \in Queries :
              /\ DOMAIN wrapper'[p] = Bags
              /\ \A a \in Bags :
                   /\ wrapper'[p][a] = IF p = q /\ a = b THEN v ELSE wrapper[p][a]
                   /\ wrapper'[p][a] \in BagWrapper(a)
    BY <1>2, <1>3, <1>5, SetWrapperFacts DEF Inv
  <1>7. /\ call' \in Call /\ call'.it = call.it /\ call'.pc = "read" /\ call'.bag = b
    BY <1>1 DEF Inv, TypeOK, Call
  <1>8. TypeOK'
    BY <1>1, <1>6, <1>7 DEF Inv, TypeOK
  <1>9. CallOK' /\ FailureOK'
    BY <1>1, <1>2, <1>7 DEF Inv, StructureOK, CallOK, FailureOK
  <1>10. \A p \in Queries, a \in Bags : WrapperOK(a, wrapper'[p][a])
    BY <1>5, <1>6 DEF Inv, StructureOK
  <1>11. ASSUME NEW i \in Iterators PROVE IteratorOK(i)'
    <2>1. IteratorOK(i) /\ iter[i].queue \subseteq Bags
      BY DEF Inv, TypeOK, StructureOK, Iterator
    <2>2. \A a \in iter[i].queue : iter[i].query \in Queries
      BY <2>1 DEF IteratorOK
    <2>3. \A a \in iter[i].queue : wrapper'[iter[i].query][a].current # None
      BY <1>5, <1>6, <2>1, <2>2 DEF IteratorOK
    <2> QED
      BY <1>1, <1>7, <2>1, <2>3 DEF IteratorOK
  <1> QED
    BY <1>8, <1>9, <1>10, <1>11 DEF Inv, StructureOK

LEMMA AddBagOK == ASSUME NEW b \in Bags PROVE Inv /\ AddBag(b) => Inv'
  <1> SUFFICES ASSUME Inv, AddBag(b) PROVE Inv'
    OBVIOUS
  <1>1. bags_' \in Seq(Bags) /\ UNCHANGED <<query, wrapper, iter, call, lz4_ctx, failure>>
    BY DEF AddBag, Inv, TypeOK
  <1>2. TypeOK'
    BY <1>1 DEF Inv, TypeOK
  <1>3. StructureOK'
    BY <1>1 DEF Inv, StructureOK, CallOK, IteratorOK, FailureOK
  <1> QED
    BY <1>2, <1>3 DEF Inv

\* What a filter selects in a bag belongs to the bag.
LEMMA FilterFacts ==
  ASSUME NEW b \in Bags, NEW f \in Filter
  PROVE  NewWrapper(ChunksToParse(b, f), ConnectionIds(b, f)) \in BagWrapper(b)
  <1>1. ConnectionIds(b, f) \subseteq DOMAIN connections_[b]
    BY DEF ConnectionIds
  <1>2. ChunksToParse(b, f) \subseteq Chunks(b)
    <2>1. \A id \in ConnectionIds(b, f) : connections_[b][id].blocks \subseteq Chunks(b)
      BY <1>1, ConnectionAssumption
    <2> QED
      BY <2>1 DEF ChunksToParse
  <1> QED
    BY <1>1, <1>2 DEF NewWrapper, BagWrapper

LEMMA GetMessagesOK ==
  ASSUME NEW q \in Queries, NEW f \in Filter
  PROVE  Inv /\ GetMessages(q, f) => Inv'
  <1> SUFFICES ASSUME Inv, GetMessages(q, f) PROVE Inv'
    OBVIOUS
  <1> DEFINE made == [made |-> TRUE, bags |-> {bags_[k] : k \in DOMAIN bags_}, filter |-> f]
             new == [b \in Bags |-> NewWrapper(ChunksToParse(b, f), ConnectionIds(b, f))]
  <1>1. /\ ~query[q].made /\ query' = [query EXCEPT ![q] = made]
        /\ wrapper' = [wrapper EXCEPT ![q] = new]
        /\ UNCHANGED <<bags_, iter, call, lz4_ctx, failure>>
    BY DEF GetMessages
  <1>2. made \in [made : BOOLEAN, bags : SUBSET Bags, filter : Filter]
    <2>1. \A k \in DOMAIN bags_ : bags_[k] \in Bags
      BY DEF Inv, TypeOK
    <2> QED
      BY <2>1
  <1>3. \A b \in Bags : new[b] \in BagWrapper(b) /\ WrapperOK(b, new[b])
    BY FilterFacts DEF WrapperOK, NewWrapper
  <1> HIDE DEF new, made
  <1>4. DOMAIN new = Bags
    BY DEF new
  <1>5. /\ DOMAIN wrapper' = Queries
        /\ \A p \in Queries : wrapper'[p] = IF p = q THEN new ELSE wrapper[p]
        /\ \A p \in Queries : query'[p] = IF p = q THEN made ELSE query[p]
    BY <1>1 DEF Inv, TypeOK
  <1>6. TypeOK'
    <2>1. query' \in [Queries -> [made : BOOLEAN, bags : SUBSET Bags, filter : Filter]]
      BY <1>1, <1>2 DEF Inv, TypeOK
    <2>2. \A p \in Queries :
            /\ DOMAIN wrapper'[p] = Bags
            /\ \A b \in Bags : wrapper'[p][b] \in BagWrapper(b)
      BY <1>3, <1>4, <1>5 DEF Inv, TypeOK
    <2> QED
      BY <1>1, <1>5, <2>1, <2>2 DEF Inv, TypeOK
  <1>7. made.made = TRUE
    BY DEF made
  <1>8. CallOK' /\ FailureOK'
    <2>1. CallOK'
      BY <1>1 DEF Inv, StructureOK, CallOK
    <2>2. failure # None => failure.query \in Queries
      BY DEF Inv, TypeOK
    <2> QED
      BY <1>1, <1>5, <1>7, <2>1, <2>2 DEF Inv, StructureOK, FailureOK
  <1>9. \A p \in Queries, b \in Bags : WrapperOK(b, wrapper'[p][b])
    BY <1>3, <1>5 DEF Inv, StructureOK
  <1>10. ASSUME NEW i \in Iterators PROVE IteratorOK(i)'
    <2>1. IteratorOK(i)
      BY DEF Inv, StructureOK
    <2>2. iter[i].st # "none" => iter[i].query # q
      BY <1>1, <2>1 DEF IteratorOK
    <2> QED
      BY <1>1, <1>5, <2>1, <2>2 DEF IteratorOK
  <1> QED
    BY <1>6, <1>8, <1>9, <1>10 DEF Inv, StructureOK

\* Marking the iterators of a query as disturbed touches history only.
LEMMA DisturbFacts ==
  ASSUME TypeOK, NEW i \in Iterators, NEW q \in Queries
  PROVE  /\ Disturb(i, q) \in [Iterators -> Iterator]
         /\ Disturb(i, q)[i] = iter[i]
         /\ \A j \in Iterators :
              /\ Disturb(i, q)[j].st = iter[j].st
              /\ Disturb(i, q)[j].query = iter[j].query
              /\ Disturb(i, q)[j].queue = iter[j].queue
              /\ Disturb(i, q)[j].top = iter[j].top
  <1>1. ASSUME NEW j \in Iterators
        PROVE  /\ [iter[j] EXCEPT !.alone = FALSE, !.out = <<>>] \in Iterator
               /\ iter[j] \in Iterator
    <2>1. iter[j] \in Iterator
      BY DEF TypeOK
    <2>2. <<>> \in Seq(AllMessages)
      OBVIOUS
    <2> QED
      BY <2>1, <2>2 DEF Iterator
  <1> QED
    BY <1>1 DEF Disturb, Iterator

LEMMA BeginOK ==
  ASSUME NEW i \in Iterators, NEW q \in Queries
  PROVE  Inv /\ Begin(i, q) => Inv'
  <1> SUFFICES ASSUME Inv, Begin(i, q) PROVE Inv'
    OBVIOUS
  <1> DEFINE d == Disturb(i, q)
             x == [NoIterator EXCEPT !.st = "building", !.query = q,
                                     !.fresh = Untouched(q), !.alone = TRUE]
  <1>1. /\ call.pc = "idle" /\ query[q].made
        /\ iter' = [d EXCEPT ![i] = x]
        /\ call' = [pc |-> "loop", it |-> i, bag |-> None, todo |-> query[q].bags]
        /\ UNCHANGED <<bags_, query, wrapper, lz4_ctx, failure>>
    BY DEF Begin
  <1>2. x \in Iterator /\ x.st = "building" /\ x.query = q /\ x.queue = {}
    <2>1. Untouched(q) \in BOOLEAN
      BY DEF Untouched
    <2>2. ASSUME NEW u \in BOOLEAN
          PROVE  [NoIterator EXCEPT !.st = "building", !.query = q,
                                    !.fresh = u, !.alone = TRUE] \in Iterator
      <3>1. NoIterator \in Iterator
        BY DEF NoIterator, Iterator
      <3> QED
        BY <3>1 DEF Iterator
    <2> QED
      BY <2>1, <2>2 DEF NoIterator
  <1> HIDE DEF x, d
  <1>3. /\ d \in [Iterators -> Iterator]
        /\ \A j \in Iterators :
              d[j].st = iter[j].st /\ d[j].query = iter[j].query
              /\ d[j].queue = iter[j].queue /\ d[j].top = iter[j].top
    BY DisturbFacts DEF Inv, d
  <1>4. call = Idle
    BY <1>1 DEF Inv, StructureOK, CallOK
  <1>5. /\ iter' \in [Iterators -> Iterator] /\ iter'[i] = x
        /\ \A j \in Iterators \ {i} : iter'[j] = d[j]
    BY <1>1, <1>2, <1>3
  <1>6. TypeOK'
    BY <1>1, <1>5 DEF Inv, TypeOK, Call
  <1>7. CallOK' /\ FailureOK'
    BY <1>1, <1>2, <1>5, SentinelAssumption DEF Inv, StructureOK, CallOK, FailureOK
  <1>8. ASSUME NEW j \in Iterators PROVE IteratorOK(j)'
    <2>1. IteratorOK(j)
      BY DEF Inv, StructureOK
    <2>2. CASE j = i
      BY <1>1, <1>2, <1>5, <2>2 DEF IteratorOK
    <2>3. CASE j # i
      <3>1. call.it # j
        BY <1>4, ViewAssumption DEF Idle
      <3> QED
        BY <1>1, <1>3, <1>5, <2>1, <2>3, <3>1 DEF IteratorOK
    <2> QED
      BY <2>2, <2>3
  <1> QED
    BY <1>1, <1>6, <1>7, <1>8 DEF Inv, StructureOK

LEMMA IncrementOK == ASSUME NEW i \in Iterators PROVE Inv /\ Increment(i) => Inv'
  <1> SUFFICES ASSUME Inv, Increment(i) PROVE Inv'
    OBVIOUS
  <1> DEFINE q == iter[i].query
             b == iter[i].top
             m == wrapper[q][b].current
             d == Disturb(i, q)
  <1>1. /\ call.pc = "idle" /\ iter[i].st = "live" /\ iter[i].queue # {}
        /\ iter' = [d EXCEPT ![i].queue = @ \ {b},
                             ![i].out = IF iter[i].alone THEN Append(@, m) ELSE @]
        /\ call' = [pc |-> "read", it |-> i, bag |-> b, todo |-> {}]
        /\ UNCHANGED <<bags_, query, wrapper, lz4_ctx, failure>>
    BY DEF Increment
  <1>2. call = Idle /\ IteratorOK(i) /\ iter[i] \in Iterator
    BY <1>1 DEF Inv, TypeOK, StructureOK, CallOK
  <1>3. q \in Queries /\ b \in iter[i].queue /\ b \in Bags /\ m # None
    BY <1>1, <1>2, ViewAssumption DEF IteratorOK, Iterator, Idle
  <1>4. m \in AllMessages
    <2>1. wrapper[q][b] \in BagWrapper(b)
      BY <1>3 DEF Inv, TypeOK
    <2>2. m \in Messages(b)
      BY <1>3, <2>1 DEF BagWrapper
    <2> QED
      BY <1>3, <2>2, MessageFacts
  <1>5. /\ d \in [Iterators -> Iterator] /\ d[i] = iter[i]
        /\ \A j \in Iterators :
              d[j].st = iter[j].st /\ d[j].query = iter[j].query
              /\ d[j].queue = iter[j].queue /\ d[j].top = iter[j].top
    BY <1>3, DisturbFacts DEF Inv
  <1> HIDE DEF m, d, b, q
  <1>6. /\ iter' \in [Iterators -> Iterator]
        /\ iter'[i].st = "live" /\ iter'[i].query = q
        /\ iter'[i].queue = iter[i].queue \ {b}
        /\ \A j \in Iterators \ {i} : iter'[j] = d[j]
    <2>1. iter[i].out \in Seq(AllMessages) /\ iter[i].queue \in SUBSET Bags
      BY <1>2 DEF Iterator
    <2>2. (IF iter[i].alone THEN Append(iter[i].out, m) ELSE iter[i].out) \in Seq(AllMessages)
      BY <1>4, <2>1
    <2> DEFINE o == IF iter[i].alone THEN Append(iter[i].out, m) ELSE iter[i].out
               y == [iter[i] EXCEPT !.queue = @ \ {b}, !.out = o]
    <2>3. iter' = [d EXCEPT ![i] = y]
      BY <1>1, <1>5
    <2> HIDE DEF o
    <2>4. y \in Iterator /\ y.st = "live" /\ y.query = q /\ y.queue = iter[i].queue \ {b}
      BY <1>1, <1>2, <2>1, <2>2 DEF Iterator, o, q
    <2> QED
      BY <1>5, <2>3, <2>4
  <1>7. TypeOK'
    BY <1>1, <1>3, <1>6 DEF Inv, TypeOK, Call
  <1>8. CallOK' /\ FailureOK'
    BY <1>1, <1>3, <1>6 DEF Inv, StructureOK, CallOK, FailureOK
  <1>9. ASSUME NEW j \in Iterators PROVE IteratorOK(j)'
    <2>1. IteratorOK(j) /\ call.it # j
      BY <1>2, ViewAssumption DEF Inv, StructureOK, Idle
    <2>2. CASE j = i
      BY <1>1, <1>2, <1>3, <1>6, <2>1, <2>2 DEF IteratorOK, q
    <2>3. CASE j # i
      <3>1. /\ iter'[j].st = iter[j].st /\ iter'[j].query = iter[j].query
            /\ iter'[j].queue = iter[j].queue /\ iter'[j].top = iter[j].top
            /\ iter[j].st # "building"
        BY <1>5, <1>6, <2>1, <2>3 DEF IteratorOK
      <3>2. query' = query /\ wrapper' = wrapper
        BY <1>1
      <3> QED
        BY <2>1, <3>1, <3>2 DEF IteratorOK
    <2> QED
      BY <2>2, <2>3
  <1> QED
    BY <1>1, <1>7, <1>8, <1>9 DEF Inv, StructureOK

LEMMA CopyIteratorOK ==
  ASSUME NEW i \in Iterators, NEW j \in Iterators
  PROVE  Inv /\ CopyIterator(i, j) => Inv'
  <1> SUFFICES ASSUME Inv, CopyIterator(i, j) PROVE Inv'
    OBVIOUS
  <1>1. /\ call.pc = "idle" /\ iter[i].st = "live" /\ iter' = [iter EXCEPT ![j] = iter[i]]
        /\ UNCHANGED <<bags_, query, wrapper, call, lz4_ctx, failure>>
    BY DEF CopyIterator
  <1>2. call = Idle /\ iter \in [Iterators -> Iterator]
    BY <1>1 DEF Inv, TypeOK, StructureOK, CallOK
  <1>3. \A k \in Iterators : iter'[k] = IF k = j THEN iter[i] ELSE iter[k]
    BY <1>1, <1>2
  <1>4. TypeOK'
    BY <1>1, <1>2 DEF Inv, TypeOK
  <1>5. CallOK' /\ FailureOK'
    BY <1>1, <1>2 DEF Inv, StructureOK, CallOK, FailureOK, Idle
  <1>6. ASSUME NEW k \in Iterators PROVE IteratorOK(k)'
    <2>1. IteratorOK(i) /\ IteratorOK(k) /\ call.it # k /\ call.it # i
      BY <1>2, ViewAssumption DEF Inv, StructureOK, Idle
    <2>2. CASE k = j
      BY <1>1, <1>3, <2>1, <2>2 DEF IteratorOK
    <2>3. CASE k # j
      BY <1>1, <1>3, <2>1, <2>3 DEF IteratorOK
    <2> QED
      BY <2>2, <2>3
  <1> QED
    BY <1>1, <1>4, <1>5, <1>6 DEF Inv, StructureOK

-----------------------------------------------------------------------------
(* The invariant.                                                          *)

LEMMA InitOK == Init => Inv
  <1> SUFFICES ASSUME Init PROVE Inv
    OBVIOUS
  <1>1. \A b \in Bags : NewWrapper({}, {}) \in BagWrapper(b) /\ WrapperOK(b, NewWrapper({}, {}))
    BY DEF NewWrapper, BagWrapper, WrapperOK
  <1>2. NoQuery \in [made : BOOLEAN, bags : SUBSET Bags, filter : Filter]
    BY DEF NoQuery, Filter
  <1>3. NoIterator \in Iterator /\ Idle \in Call
    BY DEF NoIterator, Iterator, Idle, Call
  <1>4. TypeOK
    BY <1>1, <1>2, <1>3 DEF Init, TypeOK
  <1>5. StructureOK
    BY <1>1, SentinelAssumption
    DEF Init, StructureOK, CallOK, IteratorOK, FailureOK, Idle, NoIterator
  <1> QED
    BY <1>4, <1>5 DEF Inv

LEMMA NextOK == Inv /\ [Next]_vars => Inv'
  <1> SUFFICES ASSUME Inv, [Next]_vars PROVE Inv'
    OBVIOUS
  <1>1. CASE CallStep
    BY <1>1, BeginBagOK, LoadChunkOK, SkipRecordOK, TakeMessageOK, UnknownRecordOK,
       UnreadableRecordOK, FinishChunkOK, ReadEndOK, ReturnOK DEF CallStep
  <1>2. CASE UserCall
    <2>1. ASSUME NEW q \in Queries, GetAllMessages(q) PROVE Inv'
      <3>1. [all |-> TRUE, topics |-> {}] \in Filter
        BY DEF Filter
      <3> QED
        BY <2>1, <3>1, GetMessagesOK DEF GetAllMessages
    <2>2. ASSUME NEW q \in Queries, NEW topics \in SUBSET Topics, GetTopicMessages(q, topics)
          PROVE  Inv'
      <3>1. [all |-> FALSE, topics |-> topics] \in Filter
        BY DEF Filter
      <3> QED
        BY <2>2, <3>1, GetMessagesOK DEF GetTopicMessages
    <2> QED
      BY <1>2, <2>1, <2>2, AddBagOK, BeginOK, IncrementOK, CopyIteratorOK DEF UserCall
  <1>3. CASE UNCHANGED vars
    <2>1. TypeOK'
      BY <1>3 DEF Inv, TypeOK, vars
    <2>2. StructureOK'
      BY <1>3 DEF Inv, StructureOK, CallOK, IteratorOK, FailureOK, vars
    <2> QED
      BY <2>1, <2>2 DEF Inv
  <1> QED
    BY <1>1, <1>2, <1>3 DEF Next

LEMMA InvHolds == Spec => []Inv
  BY InitOK, NextOK, PTL DEF Spec

\* Every reachable state of the View is well typed: a wrapper never holds a
\* chunk, connection or message of another bag (view.h, bag_wrapper_t).
THEOREM TypeCorrect == Spec => []TypeOK
  <1>1. Inv => TypeOK
    BY DEF Inv
  <1> QED
    BY <1>1, InvHolds, PTL

\* However iterators share wrappers and whatever was thrown, a wrapper stays
\* at a record and a queue holds messages (view.cc, readMessage).
THEOREM StructureSound == Spec => []StructureOK
  <1>1. Inv => StructureOK
    BY DEF Inv
  <1> QED
    BY <1>1, InvHolds, PTL

-----------------------------------------------------------------------------
(* Every exception is the fault of a chunk that the query selected.        *)

\* The chunks of a query that was made.
LEMMA SelectionStable ==
  ASSUME Inv, FailureExplained, UNCHANGED failure,
         \A q \in Queries, b \in Bags :
           query[q].made =>
             wrapper'[q][b].chunks_to_parse = wrapper[q][b].chunks_to_parse
  PROVE  FailureExplained'
  <1>1. CASE failure = None
    BY <1>1 DEF FailureExplained
  <1>2. CASE failure # None
    <2>1. failure.query \in Queries /\ failure.bag \in Bags /\ query[failure.query].made
      BY <1>2 DEF Inv, TypeOK, StructureOK, FailureOK
    <2> QED
      BY <1>2, <2>1 DEF FailureExplained
  <1> QED
    BY <1>1, <1>2

\* A step that leaves the wrapper of the call with the chunks it had.
LEMMA SelectionKept ==
  ASSUME Inv, FailureExplained, call.pc = "read", NEW w \in BagWrapper(call.bag),
         w.chunks_to_parse = CallWrapper.chunks_to_parse, SetWrapper(w),
         UNCHANGED failure
  PROVE  FailureExplained'
  <1>1. CallQuery \in Queries /\ call.bag \in Bags
    BY CallFacts
  <1>2. \A q \in Queries, b \in Bags :
          wrapper'[q][b] = IF q = CallQuery /\ b = call.bag THEN w ELSE wrapper[q][b]
    BY <1>1, SetWrapperFacts DEF SetWrapper, Inv
  <1>3. \A q \in Queries, b \in Bags :
          wrapper'[q][b].chunks_to_parse = wrapper[q][b].chunks_to_parse
    BY <1>2 DEF CallWrapper
  <1> QED
    BY <1>3, SelectionStable

\* An exception is explained by its cause: the chunk itself, or the one that
\* spoiled its buffer.
LEMMA ThrowExplained ==
  ASSUME Inv, call.pc = "read", NEW w \in BagWrapper(call.bag), Throw(w),
         w.current_buffer \in w.chunks_to_parse,
         w.spoiled = None => Faulty(call.bag, w.current_buffer),
         w.spoiled # None =>
           /\ Culprit(w.spoiled)
           /\ chunks_[call.bag][w.current_buffer].compression = "lz4"
  PROVE  FailureExplained'
  <1> DEFINE own == [bag |-> call.bag, chunk |-> w.current_buffer]
             cause == IF w.spoiled = None THEN own ELSE w.spoiled
  <1>1. CallQuery \in Queries /\ call.bag \in Bags
    BY CallFacts
  <1>2. wrapper'[CallQuery][call.bag] = w
    BY <1>1, SetWrapperFacts DEF Throw, SetWrapper, Inv
  <1>3. failure' = [query |-> CallQuery, bag |-> call.bag, chunk |-> w.current_buffer,
                    cause |-> cause]
    BY DEF Throw
  <1>4. /\ Faulty(cause.bag, cause.chunk)
        /\ \/ cause = own
           \/ \A n \in {own, cause} : chunks_[n.bag][n.chunk].compression = "lz4"
    BY DEF Culprit
  <1> HIDE DEF cause
  <1> QED
    BY <1>2, <1>3, <1>4 DEF FailureExplained

LEMMA ReadExplained ==
  ASSUME Inv, FailureExplained,
         LoadChunk \/ SkipRecord \/ TakeMessage \/ UnknownRecord \/ UnreadableRecord
           \/ FinishChunk
  PROVE  FailureExplained'
  <1> DEFINE b == call.bag
             w == CallWrapper
             c == w.current_buffer
  <1>1. call.pc = "read"
    BY DEF LoadChunk, SkipRecord, TakeMessage, UnknownRecord, UnreadableRecord,
           FinishChunk, AtRecord, Reading
  <1>2. b \in Bags /\ w \in BagWrapper(b) /\ WrapperOK(b, w)
    BY <1>1, CallFacts
  <1>3. CASE LoadChunk
    <2> DEFINE lz4(d) == chunks_[b][d].compression = "lz4" /\ chunks_[b][d].size > 0
    <2>1. PICK d \in w.chunk_iter :
            \/ /\ chunks_[b][d].ok
               /\ SetWrapper(Loaded(d))
               /\ lz4_ctx' = IF lz4(d) THEN None ELSE lz4_ctx
               /\ UNCHANGED <<bags_, query, iter, call, failure>>
            \/ /\ ~chunks_[b][d].ok
               /\ Throw(Broken(d))
               /\ lz4_ctx' = IF lz4(d) THEN [bag |-> b, chunk |-> d] ELSE lz4_ctx
            \/ /\ lz4(d) /\ lz4_ctx # None
               /\ Throw(Spoiled(d))
               /\ UNCHANGED lz4_ctx
      BY <1>3, LoadChunkCases
    <2>2. /\ d \in Chunks(b) /\ d \in w.chunks_to_parse /\ chunks_[b][d].size \in Nat
          /\ w.current_buffer = None /\ w.spoiled = None
          /\ lz4_ctx \in ChunkNames \cup {None} /\ (lz4_ctx # None => Culprit(lz4_ctx))
      BY <1>2, <1>3, <2>1, ChunkFacts
      DEF BagWrapper, WrapperOK, LoadChunk, Inv, TypeOK, StructureOK, FailureOK
    <2> HIDE DEF w
    <2>3. /\ Loaded(d) \in BagWrapper(b) /\ Loaded(d).chunks_to_parse = w.chunks_to_parse
          /\ Broken(d) \in BagWrapper(b) /\ Broken(d).chunks_to_parse = w.chunks_to_parse
          /\ Broken(d).current_buffer = d /\ Broken(d).spoiled = None
          /\ Spoiled(d) \in BagWrapper(b) /\ Spoiled(d).chunks_to_parse = w.chunks_to_parse
          /\ Spoiled(d).current_buffer = d /\ Spoiled(d).spoiled = lz4_ctx
      BY <1>2, <2>2 DEF BagWrapper, Loaded, Broken, Spoiled, w
    <2>4. CASE SetWrapper(Loaded(d)) /\ UNCHANGED failure
      BY <1>1, <2>3, <2>4, SelectionKept DEF w
    <2>5. CASE ~chunks_[b][d].ok /\ Throw(Broken(d))
      <3>1. Faulty(b, d)
        BY <2>5 DEF Faulty
      <3> QED
        BY <1>1, <2>2, <2>3, <2>5, <3>1, ThrowExplained
    <2>6. CASE chunks_[b][d].compression = "lz4" /\ lz4_ctx # None /\ Throw(Spoiled(d))
      BY <1>1, <2>2, <2>3, <2>6, ThrowExplained
    <2> QED
      BY <2>1, <2>4, <2>5, <2>6
  <1>4. CASE FinishChunk
    <2>1. PICK d \in w.chunk_iter :
            SetWrapper([w EXCEPT !.chunk_iter = @ \ {d}, !.current_buffer = None,
                                 !.spoiled = None, !.processed_bytes = 0])
      BY <1>4 DEF FinishChunk
    <2> DEFINE v == [w EXCEPT !.chunk_iter = @ \ {d}, !.current_buffer = None,
                              !.spoiled = None, !.processed_bytes = 0]
    <2>2. v \in BagWrapper(b) /\ v.chunks_to_parse = w.chunks_to_parse
      BY <1>2 DEF BagWrapper
    <2> QED
      BY <1>1, <1>4, <2>1, <2>2, SelectionKept DEF FinishChunk
  <1>5. ASSUME AtRecord
        PROVE  /\ c # None /\ c \in Chunks(b) /\ c \in w.chunks_to_parse
               /\ Here \in Nat /\ Here < w.uncompressed_size
               /\ Here \in Records(b, c) \/ Here >= BufferFilled
               /\ ~Faulty(b, c) /\ w.spoiled = None =>
                    w.uncompressed_size = chunks_[b][c].size
               /\ w.spoiled # None =>
                    Culprit(w.spoiled) /\ chunks_[b][c].compression = "lz4"
    BY <1>2, <1>5 DEF AtRecord, WrapperOK, BagWrapper, Here, BufferFilled
  <1>6. ASSUME NEW p \in Nat
        PROVE  LET v == [w EXCEPT !.processed_bytes = p] IN
               /\ v \in BagWrapper(b)
               /\ v.chunks_to_parse = w.chunks_to_parse /\ v.current_buffer = c
               /\ v.spoiled = w.spoiled
    BY <1>2, <1>6 DEF BagWrapper
  <1>7. ASSUME AtRecord, Here < BufferFilled PROVE AfterRecord \in Nat /\ Here \in Records(b, c)
    <2>1. Here \in Records(b, c)
      BY <1>7, AfterRecordFacts
    <2> QED
      BY <1>2, <1>5, <1>7, <2>1, RecordFacts DEF AfterRecord
  <1>8. CASE SkipRecord
    <2>1. AtRecord /\ Here < BufferFilled /\ UNCHANGED failure
          /\ SetWrapper([w EXCEPT !.processed_bytes = AfterRecord])
      BY <1>8 DEF SkipRecord, Readable
    <2> QED
      BY <1>1, <1>6, <1>7, <2>1, SelectionKept
  <1>9. CASE TakeMessage
    <2> DEFINE m == [bag |-> b, chunk |-> c, off |-> Here]
               v == [w EXCEPT !.processed_bytes = AfterRecord, !.current = m]
    <2>1. /\ AtRecord /\ Here < BufferFilled /\ UNCHANGED failure /\ SetWrapper(v)
          /\ HereRecord.op = "MESSAGE_DATA"
      BY <1>9 DEF TakeMessage, Readable, IsWanted
    <2>2. m \in Messages(b) /\ AfterRecord \in Nat
      BY <1>2, <1>5, <1>7, <2>1, MessageAt DEF HereRecord
    <2> HIDE DEF m, w
    <2>3. v \in BagWrapper(b) /\ v.chunks_to_parse = w.chunks_to_parse
      BY <1>2, <2>2 DEF BagWrapper
    <2> QED
      BY <1>1, <2>1, <2>3, SelectionKept DEF w
  <1>10. CASE UnknownRecord
    <2>1. /\ AtRecord /\ Here < BufferFilled /\ HereRecord.op = "OTHER"
          /\ Throw([w EXCEPT !.processed_bytes = AfterRecord])
      BY <1>10 DEF UnknownRecord, Readable
    <2>2. Faulty(b, c)
      BY <1>7, <2>1 DEF Faulty, HereRecord
    <2> QED
      BY <1>1, <1>5, <1>6, <1>7, <2>1, <2>2, ThrowExplained
  <1>11. CASE UnreadableRecord
    <2> DEFINE p == IF Here >= Buffer.size THEN Here
                    ELSE IF Here >= BufferFilled THEN Here + LengthWords
                    ELSE AfterRecord
    <2>1. AtRecord /\ ~Readable /\ Throw([w EXCEPT !.processed_bytes = p])
      BY <1>11 DEF UnreadableRecord
    <2>2. p \in Nat
      <3>1. BufferFilled \in Nat
        BY <1>2, <1>5, <2>1, FilledFacts DEF BufferFilled
      <3>2. Here >= BufferFilled \/ AfterRecord \in Nat
        BY <1>5, <1>7, <2>1, <3>1
      <3> QED
        BY <1>5, <2>1, <3>1, <3>2 DEF LengthWords
    <2>3. w.spoiled = None => Faulty(b, c)
      <3>1. SUFFICES ASSUME ~Faulty(b, c), w.spoiled = None PROVE FALSE
        OBVIOUS
      <3>2. AtRecord /\ BufferFilled = chunks_[b][c].good
        BY <2>1, <3>1 DEF BufferFilled, Filled
      <3>3. Here < BufferFilled /\ Here \in Records(b, c)
        BY <1>2, <1>5, <3>1, <3>2, SoundChunk, ChunkFacts
      <3>4. DataStart(b, c, Here) < chunks_[b][c].size
        BY <1>2, <1>5, <3>1, <3>2, <3>3, SoundChunk
      <3> QED
        BY <2>1, <3>3, <3>4 DEF Readable, Buffer
    <2> HIDE DEF p
    <2> QED
      BY <1>1, <1>5, <1>6, <2>1, <2>2, <2>3, ThrowExplained
  <1> QED
    BY <1>3, <1>4, <1>8, <1>9, <1>10, <1>11

LEMMA NextExplained == Inv /\ FailureExplained /\ [Next]_vars => FailureExplained'
  <1> SUFFICES ASSUME Inv, FailureExplained, [Next]_vars PROVE FailureExplained'
    OBVIOUS
  <1>1. ASSUME UNCHANGED <<wrapper, failure>> PROVE FailureExplained'
    BY <1>1 DEF FailureExplained
  <1>2. ASSUME NEW b \in Bags, BeginBag(b) PROVE FailureExplained'
    <2> DEFINE v == [wrapper[CallQuery][b] EXCEPT
                       !.chunk_iter = wrapper[CallQuery][b].chunks_to_parse]
    <2>1. /\ call.pc = "loop" /\ UNCHANGED failure
          /\ wrapper' = [wrapper EXCEPT ![CallQuery][b] = v]
      BY <1>2 DEF BeginBag
    <2>2. CallQuery \in Queries
      BY <2>1, CallFacts
    <2>3. wrapper[CallQuery][b] \in BagWrapper(b)
      BY <2>2 DEF Inv, TypeOK
    <2>4. v \in BagWrapper(b) /\ v.chunks_to_parse = wrapper[CallQuery][b].chunks_to_parse
      BY <2>3 DEF BagWrapper
    <2> HIDE DEF v
    <2>5. \A q \in Queries, a \in Bags :
            wrapper'[q][a] = IF q = CallQuery /\ a = b THEN v ELSE wrapper[q][a]
      BY <2>1, <2>2, <2>4, SetWrapperFacts DEF Inv
    <2>6. \A q \in Queries, a \in Bags :
            wrapper'[q][a].chunks_to_parse = wrapper[q][a].chunks_to_parse
      BY <2>4, <2>5
    <2> QED
      BY <2>1, <2>6, SelectionStable
  <1>3. CASE CallStep
    BY <1>1, <1>2, <1>3, ReadExplained DEF CallStep, ReadEnd, Return
  <1>4. ASSUME NEW q \in Queries, NEW f, GetMessages(q, f) PROVE FailureExplained'
    <2>1. UNCHANGED failure /\ \A p \in Queries \ {q} : wrapper'[p] = wrapper[p]
      BY <1>4 DEF GetMessages, Inv, TypeOK
    <2>2. ~query[q].made
      BY <1>4 DEF GetMessages
    <2> QED
      BY <2>1, <2>2, SelectionStable
  <1>5. CASE UserCall
    BY <1>1, <1>4, <1>5 DEF UserCall, AddBag, GetAllMessages, GetTopicMessages, Begin,
       Increment, CopyIterator
  <1>6. CASE UNCHANGED vars
    BY <1>1, <1>6 DEF vars
  <1> QED
    BY <1>3, <1>5, <1>6 DEF Next

\* readMessage throws only for a faulty chunk among those its query selected:
\* in bags without such chunks no iterator ever sees an exception, however
\* wrappers are shared or left half way.
THEOREM FailuresExplained == Spec => []FailureExplained
  <1>1. Init => FailureExplained
    BY DEF Init, FailureExplained
  <1> QED
    BY <1>1, NextExplained, InvHolds, PTL DEF Spec

-----------------------------------------------------------------------------
(***************************************************************************)
(* The invariant of delivery.  The first three parts are about all         *)
(* wrappers and iterators, the others about an iterator that is Exclusive. *)
(***************************************************************************)

\* getMessages gave every wrapper the chunks and connections of its filter.
SelectionOK ==
  \A q \in Queries, b \in Bags : query[q].made =>
    /\ wrapper[q][b].chunks_to_parse = ChunksToParse(b, query[q].filter)
    /\ wrapper[q][b].connection_ids = ConnectionIds(b, query[q].filter)

\* chunk_iter is a position: behind a chunk that is left all others are left.
PositionOK ==
  \A q \in Queries, b \in Bags :
    \A c \in wrapper[q][b].chunk_iter, d \in wrapper[q][b].chunks_to_parse :
      ChunkBefore(b, c, d) => d \in wrapper[q][b].chunk_iter

\* While a call moves the wrappers of a query, only its iterator is alone there.
AloneOK ==
  call.pc # "idle" =>
    \A j \in Iterators \ {call.it} : iter[j].query = CallQuery => ~iter[j].alone

\* The bags that begin() has still to visit for iterator i.
Waiting(i) == IF call.it = i THEN call.todo ELSE {}

\* readMessage works on bag b for iterator i.
ReadsBag(i, b) == call.it = i /\ call.bag = b

\* Where the bags of iterator i are: a bag is in one place only, and ++ reads
\* on in the bag of the message that was shown last.
StageOK(i) ==
  LET x == iter[i] IN
  /\ x.queue \subseteq query[x.query].bags
  /\ x.queue \cap x.lost = {}
  /\ x.st = "building" => x.out = <<>> /\ x.lost = {}
  /\ Waiting(i) \subseteq query[x.query].bags \ x.queue
  /\ x.st = "live" => Waiting(i) = {}
  /\ call.it = i /\ call.pc = "read" =>
       /\ call.bag \in query[x.query].bags \ (x.queue \cup x.lost \cup Waiting(i))
       /\ x.st = "live" => x.out # <<>> /\ x.out[Len(x.out)].bag = call.bag

\* Message m lies before the cursor of wrapper w.
Before(m, w) ==
  \/ m.chunk \notin w.chunk_iter
  \/ m.chunk = w.current_buffer /\ m.off < w.processed_bytes

Passed(q, b) == {m \in Requested(q, b) : Before(m, wrapper[q][b])}

\* What iterator i has shown of bag b, and what it holds of it.
ShownOf(i, b) == {m \in Shown(iter[i]) : m.bag = b}
Held(i, b) == IF b \in iter[i].queue THEN {wrapper[iter[i].query][b].current} ELSE {}

\* The cursor of bag b is where iterator i left it: what lies before it was
\* shown, but for the message that is held, which is the last of these.
CursorOK(i, b) ==
  LET x == iter[i]
      w == wrapper[x.query][b] IN
  /\ b \in Waiting(i) => w.current_buffer = None
  /\ b \notin Waiting(i) \cup x.lost =>
       /\ Passed(x.query, b) = ShownOf(i, b) \cup Held(i, b)
       /\ w.current_buffer # None =>
            /\ IsFirstChunk(b, w.current_buffer, w.chunk_iter)
            /\ w.uncompressed_size = chunks_[b][w.current_buffer].size
       /\ b \in x.queue => \A m \in ShownOf(i, b) : FileBefore(m, w.current)
       /\ b \notin x.queue /\ ~ReadsBag(i, b) => w.chunk_iter = {}

\* What was shown was asked for, of these bags, in the order of the file.
OutOK(i) ==
  LET x == iter[i] IN
  /\ \A k \in DOMAIN x.out :
       x.out[k].bag \in query[x.query].bags /\ x.out[k] \in Requested(x.query, x.out[k].bag)
  /\ \A k, l \in DOMAIN x.out :
       k < l /\ x.out[k].bag = x.out[l].bag => FileBefore(x.out[k], x.out[l])

DeliveryOK(i) ==
  /\ StageOK(i)
  /\ OutOK(i)
  /\ \A b \in query[iter[i].query].bags : CursorOK(i, b)

\* m is no later than n, as the view compares them.
NotAfter(m, n) == ~Greater(TimeOf(m), TimeOf(n))

\* The top of the queue is one of the earliest.
TopOK(i) ==
  Resting(i) =>
    \A b \in iter[i].queue : ~ComesAfter(iter[i].query, iter[i].top, b)

\* What was shown came no later than what was, or is, next in another bag.
HeadsOK(i) ==
  LET x == iter[i] IN
  \A k \in DOMAIN x.out :
    /\ \A l \in DOMAIN x.out :
         k < l /\ WasHead(x.query, x.out, k, x.out[l]) => NotAfter(x.out[k], x.out[l])
    /\ \A b \in x.queue :
         LET m == wrapper[x.query][b].current IN
         WasHead(x.query, x.out, k, m) => NotAfter(x.out[k], m)

\* If the bags are in order, then so is what was shown and what is held.
SortedOK(i) ==
  LET x == iter[i] IN
  (\A b \in query[x.query].bags : SortedBag(x.query, b)) =>
    \A k \in DOMAIN x.out :
      /\ \A l \in DOMAIN x.out : k < l => NotAfter(x.out[k], x.out[l])
      /\ \A b \in x.queue : NotAfter(x.out[k], wrapper[x.query][b].current)

TimeOK(i) == TopOK(i) /\ HeadsOK(i) /\ SortedOK(i)

BaseInv == Inv /\ SelectionOK /\ PositionOK /\ AloneOK
OrderInv == BaseInv /\ \A i \in Iterators : Exclusive(i) => DeliveryOK(i)
MergeInv == OrderInv /\ \A i \in Iterators : Exclusive(i) => TimeOK(i)

-----------------------------------------------------------------------------
(* What the steps have in common.                                          *)

\* The steps of the loops of readMessage.
ReadStep ==
  LoadChunk \/ SkipRecord \/ TakeMessage \/ UnknownRecord \/ UnreadableRecord \/ FinishChunk

\* A wrapper keeps its selection, and its chunk_iter stays, restarts or moves
\* on by a chunk.
Moves(b, w, v) ==
  /\ v.chunks_to_parse = w.chunks_to_parse
  /\ v.connection_ids = w.connection_ids
  /\ \/ v.chunk_iter = w.chunk_iter
     \/ v.chunk_iter = w.chunks_to_parse
     \/ \E c \in w.chunk_iter :
          IsFirstChunk(b, c, w.chunk_iter) /\ v.chunk_iter = w.chunk_iter \ {c}

\* The running call goes on, or it comes back.
CallGoesOn ==
  /\ query' = query
  /\ call' = Idle \/ call'.it = call.it
  /\ \A j \in Iterators \ {call.it} : iter'[j] = iter[j]
  /\ iter'[call.it].query = CallQuery \/ iter'[call.it] = NoIterator
  /\ \A q \in Queries \ {CallQuery} : wrapper'[q] = wrapper[q]
  /\ \A b \in Bags : Moves(b, wrapper[CallQuery][b], wrapper'[CallQuery][b])

\* The wrapper that readMessage leaves.
LEMMA ReadWrapper ==
  ASSUME Inv, Inv', call.pc = "read", NEW w, SetWrapper(w)
  PROVE  /\ w \in BagWrapper(call.bag) /\ wrapper'[CallQuery][call.bag] = w
         /\ \A q \in Queries \ {CallQuery} : wrapper'[q] = wrapper[q]
         /\ \A b \in Bags \ {call.bag} : wrapper'[CallQuery][b] = wrapper[CallQuery][b]
         /\ Moves(call.bag, CallWrapper, w) =>
              \A b \in Bags : Moves(b, wrapper[CallQuery][b], wrapper'[CallQuery][b])
  <1>1. CallQuery \in Queries /\ call.bag \in Bags
    BY CallFacts
  <1>2. wrapper' = [wrapper EXCEPT ![CallQuery][call.bag] = w]
    BY DEF SetWrapper
  <1>3. /\ wrapper'[CallQuery][call.bag] = w
        /\ \A q \in Queries \ {CallQuery} : wrapper'[q] = wrapper[q]
        /\ \A b \in Bags \ {call.bag} : wrapper'[CallQuery][b] = wrapper[CallQuery][b]
    BY <1>1, <1>2 DEF Inv, TypeOK
  <1>4. w \in BagWrapper(call.bag)
    BY <1>1, <1>3 DEF Inv, TypeOK
  <1>5. \A b \in Bags \ {call.bag} : Moves(b, wrapper[CallQuery][b], wrapper'[CallQuery][b])
    BY <1>3 DEF Moves
  <1> QED
    BY <1>3, <1>4, <1>5 DEF CallWrapper

\* An exception changes the iterator of the call only.
LEMMA ThrowGoesOn ==
  ASSUME Inv, Inv', call.pc = "read", NEW w, Throw(w), Moves(call.bag, CallWrapper, w)
  PROVE  CallGoesOn
  <1>1. call.it \in Iterators /\ iter \in [Iterators -> Iterator]
    BY CallFacts DEF Inv, TypeOK
  <1>2. SetWrapper(w) /\ query' = query /\ call' = Idle
    BY DEF Throw
  <1>3. \/ iter' = [iter EXCEPT ![call.it] = NoIterator]
        \/ \E t \in Tops(call.it, iter[call.it].queue) :
             iter' = [iter EXCEPT ![call.it].top = t, ![call.it].lost = @ \cup {call.bag}]
    BY DEF Throw
  <1>4. /\ \A j \in Iterators \ {call.it} : iter'[j] = iter[j]
        /\ iter'[call.it].query = CallQuery \/ iter'[call.it] = NoIterator
    BY ZenonT(60), <1>1, <1>3 DEF CallQuery, Iterator
  <1> QED
    BY <1>2, <1>4, ReadWrapper DEF CallGoesOn

LEMMA ReadGoesOn ==
  ASSUME Inv, Inv', ReadStep
  PROVE  CallGoesOn
  <1> DEFINE b == call.bag
             w == CallWrapper
  <1>1. call.pc = "read"
    BY DEF ReadStep, LoadChunk, SkipRecord, TakeMessage, UnknownRecord, UnreadableRecord,
           FinishChunk, AtRecord, Reading
  <1>2. call.it \in Iterators /\ b \in Bags /\ w \in BagWrapper(b)
        /\ CallQuery = iter[call.it].query /\ iter \in [Iterators -> Iterator]
    BY <1>1, CallFacts DEF CallQuery, Inv, TypeOK
  <1>3. ASSUME NEW v, SetWrapper(v), Moves(b, w, v), UNCHANGED <<query, iter, call>>
        PROVE  CallGoesOn
    BY <1>1, <1>2, <1>3, ReadWrapper DEF CallGoesOn
  <1>4. \A p : LET v == [w EXCEPT !.processed_bytes = p] IN Moves(b, w, v)
    BY <1>2 DEF Moves, BagWrapper
  <1>5. CASE LoadChunk
    <2>1. PICK c \in w.chunk_iter :
            \/ SetWrapper(Loaded(c)) /\ UNCHANGED <<query, iter, call>>
            \/ Throw(Broken(c))
            \/ Throw(Spoiled(c))
      BY <1>5, LoadChunkCases
    <2>2. Moves(b, w, Loaded(c)) /\ Moves(b, w, Broken(c)) /\ Moves(b, w, Spoiled(c))
      BY <1>2 DEF Moves, BagWrapper, Loaded, Broken, Spoiled
    <2> QED
      BY <1>1, <1>3, <2>1, <2>2, ThrowGoesOn
  <1>6. CASE SkipRecord
    BY <1>3, <1>4, <1>6 DEF SkipRecord
  <1>7. CASE TakeMessage
    <2> DEFINE m == [bag |-> b, chunk |-> w.current_buffer, off |-> Here]
               v == [w EXCEPT !.processed_bytes = AfterRecord, !.current = m]
    <2>1. /\ SetWrapper(v) /\ query' = query
          /\ iter' = [iter EXCEPT ![call.it].queue = @ \cup {b}]
          /\ call' = [call EXCEPT !.pc = "loop", !.bag = None]
      BY <1>7 DEF TakeMessage
    <2>2. Moves(b, w, v)
      BY <1>2 DEF Moves, BagWrapper
    <2>3. call'.it = call.it /\ iter'[call.it].query = CallQuery
      BY <1>2, <2>1 DEF Inv, TypeOK, Call, Iterator
    <2>4. \A j \in Iterators \ {call.it} : iter'[j] = iter[j]
      BY <1>2, <2>1
    <2> QED
      BY <1>1, <2>1, <2>2, <2>3, <2>4, ReadWrapper DEF CallGoesOn
  <1>8. CASE UnknownRecord
    BY <1>1, <1>4, <1>8, ThrowGoesOn DEF UnknownRecord
  <1>9. CASE UnreadableRecord
    BY <1>1, <1>4, <1>9, ThrowGoesOn DEF UnreadableRecord
  <1>10. CASE FinishChunk
    <2>1. PICK c \in w.chunk_iter :
            /\ IsFirstChunk(b, c, w.chunk_iter)
            /\ SetWrapper([w EXCEPT !.chunk_iter = @ \ {c}, !.current_buffer = None,
                                    !.spoiled = None, !.processed_bytes = 0])
      BY <1>10 DEF FinishChunk
    <2> DEFINE v == [w EXCEPT !.chunk_iter = @ \ {c}, !.current_buffer = None,
                              !.spoiled = None, !.processed_bytes = 0]
    <2>2. Moves(b, w, v)
      BY <1>2, <2>1 DEF Moves, BagWrapper
    <2> QED
      BY <1>3, <1>10, <2>1, <2>2 DEF FinishChunk
  <1> QED
    BY <1>5, <1>6, <1>7, <1>8, <1>9, <1>10 DEF ReadStep

LEMMA StepGoesOn ==
  ASSUME Inv, Inv', CallStep
  PROVE  CallGoesOn
  <1>1. ASSUME NEW b \in Bags, BeginBag(b) PROVE CallGoesOn
    <2> DEFINE v == [wrapper[CallQuery][b] EXCEPT
                       !.chunk_iter = wrapper[CallQuery][b].chunks_to_parse]
    <2>1. /\ call.pc = "loop" /\ UNCHANGED <<query, iter>>
          /\ wrapper' = [wrapper EXCEPT ![CallQuery][b] = v]
          /\ call' = [call EXCEPT !.pc = "read", !.bag = b, !.todo = @ \ {b}]
      BY <1>1 DEF BeginBag
    <2>2. CallQuery \in Queries /\ call.it \in Iterators
      BY <2>1, CallFacts
    <2>3. wrapper[CallQuery][b] \in BagWrapper(b) /\ call'.it = call.it
      BY <2>1, <2>2 DEF Inv, TypeOK, Call
    <2>4. Moves(b, wrapper[CallQuery][b], v)
      BY <2>3 DEF Moves, BagWrapper
    <2> HIDE DEF v
    <2>5. /\ \A q \in Queries \ {CallQuery} : wrapper'[q] = wrapper[q]
          /\ \A a \in Bags : wrapper'[CallQuery][a] =
               IF a = b THEN v ELSE wrapper[CallQuery][a]
      BY <2>1, <2>2 DEF Inv, TypeOK
    <2>6. \A a \in Bags : Moves(a, wrapper[CallQuery][a], wrapper'[CallQuery][a])
      BY <2>4, <2>5 DEF Moves
    <2> QED
      BY <2>1, <2>3, <2>5, <2>6 DEF CallGoesOn, CallQuery
  <1>2. ASSUME UNCHANGED <<query, wrapper>>, call' = Idle \/ call'.it = call.it,
               \A j \in Iterators \ {call.it} : iter'[j] = iter[j],
               iter'[call.it].query = CallQuery
        PROVE  CallGoesOn
    BY <1>2 DEF CallGoesOn, Moves
  <1>3. CASE ReadEnd
    <2>1. UNCHANGED <<query, wrapper, iter>> /\ call'.it = call.it
      BY <1>3 DEF ReadEnd, Inv, TypeOK, Call
    <2> QED
      BY <1>2, <2>1 DEF CallQuery
  <1>4. CASE Return
    <2>1. /\ call.pc = "loop" /\ call' = Idle /\ UNCHANGED <<query, wrapper>>
          /\ \E t : iter' = [iter EXCEPT ![call.it].st = "live", ![call.it].top = t]
      BY <1>4 DEF Return
    <2>2. call.it \in Iterators /\ iter \in [Iterators -> Iterator]
      BY <2>1, CallFacts DEF Inv, TypeOK
    <2>3. /\ \A j \in Iterators \ {call.it} : iter'[j] = iter[j]
          /\ iter'[call.it].query = CallQuery
      BY <2>1, <2>2 DEF CallQuery, Iterator
    <2> QED
      BY <1>2, <2>1, <2>3
  <1> QED
    BY <1>1, <1>3, <1>4, ReadGoesOn DEF CallStep, ReadStep

-----------------------------------------------------------------------------
(* Selections, positions, and who is alone.                                *)

\* Chunks of a bag are ordered by their offsets.
LEMMA ChunkOrder ==
  ASSUME NEW b \in Bags
  PROVE  /\ \A c, d \in Chunks(b) : c # d => ChunkBefore(b, c, d) \/ ChunkBefore(b, d, c)
         /\ \A c, d \in Chunks(b) : ~(ChunkBefore(b, c, d) /\ ChunkBefore(b, d, c))
         /\ \A c, d, e \in Chunks(b) :
              ChunkBefore(b, c, d) /\ ChunkBefore(b, d, e) => ChunkBefore(b, c, e)
  <1>1. \A c \in Chunks(b) : chunks_[b][c].offset \in Nat
    BY ChunkAssumption
  <1>2. \A c, d \in Chunks(b) : chunks_[b][c].offset = chunks_[b][d].offset => c = d
    BY OffsetAssumption
  <1> QED
    BY <1>1, <1>2 DEF ChunkBefore

UpwardClosed(b, w) ==
  \A c \in w.chunk_iter, d \in w.chunks_to_parse : ChunkBefore(b, c, d) => d \in w.chunk_iter

\* A position that moves is still a position.
LEMMA MovesUpward ==
  ASSUME NEW b \in Bags, NEW w \in BagWrapper(b), NEW v, Moves(b, w, v), UpwardClosed(b, w)
  PROVE  UpwardClosed(b, v)
  <1>1. CASE v.chunk_iter = w.chunk_iter \/ v.chunk_iter = w.chunks_to_parse
    BY <1>1 DEF Moves, UpwardClosed
  <1>2. ASSUME NEW c \in w.chunk_iter,
               IsFirstChunk(b, c, w.chunk_iter), v.chunk_iter = w.chunk_iter \ {c}
        PROVE  UpwardClosed(b, v)
    <2> SUFFICES ASSUME NEW d \in v.chunk_iter, NEW e \in v.chunks_to_parse,
                        ChunkBefore(b, d, e)
                 PROVE  e \in v.chunk_iter
      BY DEF UpwardClosed
    <2>1. c \in Chunks(b) /\ d \in Chunks(b) /\ d \in w.chunk_iter /\ d # c
      BY <1>2 DEF BagWrapper
    <2>2. e \in w.chunk_iter
      BY <2>1 DEF Moves, UpwardClosed
    <2>3. ChunkBefore(b, c, d)
      BY <1>2, <2>1 DEF IsFirstChunk
    <2>4. e # c
      BY <2>1, <2>3, ChunkOrder
    <2> QED
      BY <1>2, <2>2, <2>4
  <1> QED
    BY <1>1, <1>2 DEF Moves

\* A call that goes on keeps what was selected, the positions, and who is alone.
LEMMA GoesOnBase ==
  ASSUME BaseInv, Inv', call.pc # "idle", CallGoesOn
  PROVE  BaseInv'
  <1>1. call.it \in Iterators /\ CallQuery \in Queries
    BY CallFacts DEF BaseInv
  <1>2. \A q \in Queries, b \in Bags : Moves(b, wrapper[q][b], wrapper'[q][b])
    BY <1>1 DEF CallGoesOn, Moves
  <1>3. SelectionOK'
    BY <1>2 DEF BaseInv, SelectionOK, CallGoesOn, Moves
  <1>4. PositionOK'
    <2>1. \A q \in Queries, b \in Bags :
            wrapper[q][b] \in BagWrapper(b) /\ UpwardClosed(b, wrapper[q][b])
      BY DEF BaseInv, Inv, TypeOK, PositionOK, UpwardClosed
    <2>2. \A q \in Queries, b \in Bags : UpwardClosed(b, wrapper'[q][b])
      BY <1>2, <2>1, MovesUpward
    <2> QED
      BY <2>2 DEF PositionOK, UpwardClosed
  <1>5. AloneOK'
    <2>1. SUFFICES ASSUME call'.pc # "idle", NEW j \in Iterators \ {call'.it},
                          iter'[j].query = CallQuery'
                   PROVE  ~iter'[j].alone
      BY DEF AloneOK
    <2>2. call'.it = call.it /\ iter'[j] = iter[j]
      BY <1>1, <2>1 DEF CallGoesOn, Idle
    <2>3. iter'[call.it] # NoIterator
      BY <1>1, <2>1, <2>2, SentinelAssumption, CallFacts
         DEF Inv, StructureOK, CallOK, NoIterator
    <2>4. iter'[j].query = CallQuery
      BY <2>1, <2>2, <2>3 DEF CallGoesOn, CallQuery
    <2> QED
      BY <2>2, <2>4 DEF BaseInv, AloneOK
  <1> QED
    BY <1>3, <1>4, <1>5 DEF BaseInv

LEMMA GetMessagesBase ==
  ASSUME BaseInv, Inv', NEW q \in Queries, NEW f \in Filter, GetMessages(q, f)
  PROVE  BaseInv'
  <1> DEFINE new == [b \in Bags |-> NewWrapper(ChunksToParse(b, f), ConnectionIds(b, f))]
  <1>1. /\ call.pc = "idle" /\ call' = call
        /\ query' = [query EXCEPT ![q] =
             [made |-> TRUE, bags |-> {bags_[k] : k \in DOMAIN bags_}, filter |-> f]]
        /\ wrapper' = [wrapper EXCEPT ![q] = new]
    BY DEF GetMessages
  <1>2. \A p \in Queries \ {q} : query'[p] = query[p] /\ wrapper'[p] = wrapper[p]
    BY <1>1 DEF BaseInv, Inv, TypeOK
  <1>3. query'[q].filter = f /\ wrapper'[q] = new
    BY <1>1 DEF BaseInv, Inv, TypeOK
  <1>4. \A b \in Bags : /\ new[b].chunks_to_parse = ChunksToParse(b, f)
                        /\ new[b].connection_ids = ConnectionIds(b, f)
                        /\ new[b].chunk_iter = {}
    BY DEF NewWrapper
  <1> HIDE DEF new
  <1>5. SelectionOK'
    BY <1>2, <1>3, <1>4 DEF BaseInv, SelectionOK
  <1>6. PositionOK'
    BY <1>2, <1>3, <1>4 DEF BaseInv, PositionOK
  <1>7. AloneOK'
    BY <1>1 DEF AloneOK
  <1> QED
    BY <1>5, <1>6, <1>7 DEF BaseInv

\* begin() and ++ disturb the other iterators of their query.
LEMMA DisturbBase ==
  ASSUME BaseInv, Inv', NEW i \in Iterators, NEW q, UNCHANGED <<query, wrapper>>,
         call'.it = i, iter'[i].query = q,
         \A j \in Iterators \ {i} : iter'[j] = Disturb(i, q)[j]
  PROVE  BaseInv'
  <1>1. AloneOK'
    <2>1. /\ \A j \in Iterators : iter[j] \in Iterator
          /\ \A j \in Iterators \ {i} : iter'[j] =
               IF iter[j].query = q THEN [iter[j] EXCEPT !.alone = FALSE, !.out = <<>>] ELSE iter[j]
      BY DEF Disturb, BaseInv, Inv, TypeOK
    <2>2. ASSUME NEW j \in Iterators \ {i}
          PROVE  iter'[j].query = iter[j].query /\ (iter[j].query = q => ~iter'[j].alone)
      <3>1. CASE iter[j].query = q
        <4>1. iter'[j] = [iter[j] EXCEPT !.alone = FALSE, !.out = <<>>] /\ iter[j] \in Iterator
          BY <2>1, <3>1
        <4> QED
          BY <4>1 DEF Iterator
      <3>2. CASE iter[j].query # q
        BY <2>1, <3>2
      <3> QED
        BY <3>1, <3>2
    <2> QED
      BY <2>2 DEF AloneOK, CallQuery
  <1> QED
    BY <1>1 DEF BaseInv, SelectionOK, PositionOK

LEMMA BaseNext == BaseInv /\ Inv' /\ [Next]_vars => BaseInv'
  <1> SUFFICES ASSUME BaseInv, Inv', [Next]_vars PROVE BaseInv'
    OBVIOUS
  <1>1. ASSUME UNCHANGED <<query, wrapper>>, call.pc = "idle", UNCHANGED call PROVE BaseInv'
    BY <1>1 DEF BaseInv, SelectionOK, PositionOK, AloneOK
  <1>2. CASE CallStep
    <2>1. call.pc # "idle"
      BY <1>2 DEF CallStep, BeginBag, LoadChunk, SkipRecord, TakeMessage, UnknownRecord,
         UnreadableRecord, FinishChunk, AtRecord, Reading, ReadEnd, Return
    <2> QED
      BY <1>2, <2>1, StepGoesOn, GoesOnBase DEF BaseInv
  <1>3. ASSUME NEW q \in Queries, GetAllMessages(q) PROVE BaseInv'
    <2>1. [all |-> TRUE, topics |-> {}] \in Filter
      BY DEF Filter
    <2> QED
      BY <1>3, <2>1, GetMessagesBase DEF GetAllMessages
  <1>4. ASSUME NEW q \in Queries, NEW topics \in SUBSET Topics, GetTopicMessages(q, topics)
        PROVE  BaseInv'
    <2>1. [all |-> FALSE, topics |-> topics] \in Filter
      BY DEF Filter
    <2> QED
      BY <1>4, <2>1, GetMessagesBase DEF GetTopicMessages
  <1>5. ASSUME NEW i \in Iterators, NEW q \in Queries, Begin(i, q) PROVE BaseInv'
    <2> DEFINE x == [NoIterator EXCEPT !.st = "building", !.query = q,
                                       !.fresh = Untouched(q), !.alone = TRUE]
    <2>1. /\ UNCHANGED <<query, wrapper>> /\ call'.it = i
          /\ iter' = [Disturb(i, q) EXCEPT ![i] = x]
      BY <1>5 DEF Begin
    <2>2. x.query = q /\ DOMAIN Disturb(i, q) = Iterators
      BY DEF NoIterator, Disturb
    <2> HIDE DEF x
    <2>3. iter'[i].query = q /\ \A j \in Iterators \ {i} : iter'[j] = Disturb(i, q)[j]
      BY <2>1, <2>2
    <2> QED
      BY <2>1, <2>3, DisturbBase
  <1>6. ASSUME NEW i \in Iterators, Increment(i) PROVE BaseInv'
    <2> DEFINE q == iter[i].query
               d == Disturb(i, q)
    <2>1. /\ UNCHANGED <<query, wrapper>> /\ call'.it = i
          /\ \E Q, o : iter' = [d EXCEPT ![i].queue = Q, ![i].out = o]
      BY <1>6 DEF Increment
    <2>2. DOMAIN d = Iterators /\ d[i] = iter[i] /\ iter[i] \in Iterator
      BY DEF Disturb, BaseInv, Inv, TypeOK
    <2> HIDE DEF d
    <2>3. iter'[i].query = q /\ \A j \in Iterators \ {i} : iter'[j] = d[j]
      BY <2>1, <2>2 DEF Iterator
    <2> QED
      BY <2>1, <2>3, DisturbBase DEF d
  <1>7. CASE UserCall
    BY <1>1, <1>3, <1>4, <1>5, <1>6, <1>7 DEF UserCall, AddBag, CopyIterator
  <1>8. CASE UNCHANGED vars
    <2>1. UNCHANGED <<query, wrapper, iter, call>>
      BY <1>8 DEF vars
    <2> QED
      BY <2>1 DEF BaseInv, SelectionOK, PositionOK, AloneOK, CallQuery
  <1> QED
    BY <1>2, <1>7, <1>8 DEF Next

-----------------------------------------------------------------------------
(* Messages and what a query asks for.                                     *)

LEMMA MessageParts ==
  ASSUME NEW b \in Bags, NEW m \in Messages(b)
  PROVE  /\ m = [bag |-> b, chunk |-> m.chunk, off |-> m.off] /\ m.bag = b
         /\ m.chunk \in Chunks(b) /\ m.off \in Records(b, m.chunk) /\ m.off \in Nat
         /\ m.off < chunks_[b][m.chunk].size
         /\ RecordAt(b, m.chunk, m.off).op = "MESSAGE_DATA"
         /\ ConnectionOf(m) = RecordAt(b, m.chunk, m.off).conn
         /\ ConnectionOf(m) \in DOMAIN connections_[b]
         /\ m.chunk \in connections_[b][ConnectionOf(m)].blocks
  <1>1. PICK c \in Chunks(b) : \E o \in Records(b, c) :
          m = [bag |-> b, chunk |-> c, off |-> o] /\ RecordAt(b, c, o).op = "MESSAGE_DATA"
    BY DEF Messages, MessagesIn
  <1>2. PICK o \in Records(b, c) :
          m = [bag |-> b, chunk |-> c, off |-> o] /\ RecordAt(b, c, o).op = "MESSAGE_DATA"
    BY <1>1
  <1>3. m.bag = b /\ m.chunk = c /\ m.off = o
    BY <1>2
  <1>4. ConnectionOf(m) = RecordAt(b, c, o).conn
    BY <1>3 DEF ConnectionOf, RecordOf
  <1> QED
    BY <1>2, <1>3, <1>4, RecordFacts, ConnectionAssumption

\* A message that was asked for has its chunk and its connection selected.
LEMMA RequestedFacts ==
  ASSUME BaseInv, NEW q \in Queries, query[q].made, NEW b \in Bags, NEW m \in Messages(b)
  PROVE  /\ m \in Requested(q, b) <=> ConnectionOf(m) \in wrapper[q][b].connection_ids
         /\ m \in Requested(q, b) => m.chunk \in wrapper[q][b].chunks_to_parse
  <1> DEFINE f == query[q].filter
  <1>1. /\ wrapper[q][b].chunks_to_parse = ChunksToParse(b, f)
        /\ wrapper[q][b].connection_ids = ConnectionIds(b, f)
    BY DEF BaseInv, SelectionOK
  <1>2. /\ m.bag = b /\ m.chunk \in Chunks(b)
        /\ ConnectionOf(m) \in DOMAIN connections_[b]
        /\ m.chunk \in connections_[b][ConnectionOf(m)].blocks
    BY MessageParts
  <1>3. TopicOf(m) = connections_[b][ConnectionOf(m)].topic
    BY <1>2 DEF TopicOf
  <1>4. m \in Requested(q, b) <=> f.all \/ TopicOf(m) \in f.topics
    BY DEF Requested
  <1>5. f.all \in BOOLEAN
    BY DEF BaseInv, Inv, TypeOK, Filter
  <1>6. m \in Requested(q, b) <=> ConnectionOf(m) \in ConnectionIds(b, f)
    BY <1>2, <1>3, <1>4, <1>5 DEF ConnectionIds
  <1> HIDE DEF f
  <1>7. m \in Requested(q, b) => m.chunk \in ChunksToParse(b, f)
    BY <1>2, <1>6 DEF ChunksToParse
  <1> QED
    BY <1>1, <1>6, <1>7

-----------------------------------------------------------------------------
(* Whom a step concerns.                                                   *)

\* Iterator j is as k was, and so is all that it stands on.
Same(k, j) ==
  LET q == iter[k].query IN
  /\ iter'[j] = iter[k]
  /\ query'[q] = query[q] /\ wrapper'[q] = wrapper[q]
  /\ call.it # k /\ call'.it # j

\* The wrappers of an iterator that nobody disturbs move in its own calls only.
LEMMA WhoMoves ==
  ASSUME BaseInv, BaseInv', [Next]_vars, NEW j \in Iterators, Exclusive(j)'
  PROVE  \/ Exclusive(j) /\ Same(j, j)
         \/ \E k \in Iterators : CopyIterator(k, j) /\ Exclusive(k) /\ Same(k, j)
         \/ UNCHANGED vars
         \/ CallStep /\ call.it = j /\ Exclusive(j)
         \/ \E q \in Queries : Begin(j, q)
         \/ Increment(j) /\ Exclusive(j)
  <1>1. call.pc = "idle" => call.it # j
    BY SentinelAssumption, ViewAssumption DEF BaseInv, Inv, StructureOK, CallOK, Idle
  <1>2. /\ iter \in [Iterators -> Iterator] /\ None \notin Iterators
        /\ call.pc = "idle" => call.it = None
    BY ViewAssumption DEF BaseInv, Inv, TypeOK, StructureOK, CallOK, Idle
  <1>3. CASE CallStep
    <2>1. call.pc # "idle"
      BY <1>3 DEF CallStep, BeginBag, LoadChunk, SkipRecord, TakeMessage, UnknownRecord,
         UnreadableRecord, FinishChunk, AtRecord, Reading, ReadEnd, Return
    <2>2. CallGoesOn
      BY <1>3, StepGoesOn DEF BaseInv
    <2>3. CASE j # call.it
      <3>1. iter'[j] = iter[j] /\ call'.it # j /\ query' = query
        BY <1>2, <2>2, <2>3 DEF CallGoesOn, Idle
      <3>2. Exclusive(j)
        BY <3>1 DEF Exclusive
      <3>3. iter[j].query \in Queries /\ iter[j].query # CallQuery
        BY <2>1, <2>3, <3>2 DEF BaseInv, AloneOK, Exclusive, Inv, StructureOK, IteratorOK
      <3> QED
        BY <2>2, <2>3, <3>1, <3>2, <3>3 DEF Same, CallGoesOn
    <2>4. CASE j = call.it
      <3>1. ASSUME NEW r, iter' = [iter EXCEPT ![call.it] = r],
                   r.fresh = iter[j].fresh, r.alone = iter[j].alone
            PROVE  Exclusive(j)
        BY <1>2, <2>1, <2>4, <3>1, CallFacts DEF Exclusive, BaseInv
      <3>2. ASSUME iter' = iter PROVE Exclusive(j)
        BY <3>2 DEF Exclusive
      <3>3. ASSUME NEW w, Throw(w) PROVE Exclusive(j)
        <4>1. iter'[j].st # "none"
          BY DEF Exclusive
        <4>2. iter' # [iter EXCEPT ![call.it] = NoIterator]
          BY <1>2, <2>4, <4>1 DEF NoIterator
        <4>3. PICK t : iter' = [iter EXCEPT ![call.it].top = t,
                                            ![call.it].lost = @ \cup {call.bag}]
          BY <3>3, <4>2 DEF Throw
        <4> DEFINE r == [iter[call.it] EXCEPT !.top = t, !.lost = @ \cup {call.bag}]
        <4>4. iter' = [iter EXCEPT ![call.it] = r]
          BY <1>2, <2>4, <4>3
        <4>5. r.fresh = iter[j].fresh /\ r.alone = iter[j].alone
          BY <1>2, <2>4 DEF Iterator
        <4> QED
          BY <3>1, <4>4, <4>5
      <3>4. \/ iter' = iter
            \/ \E r : iter' = [iter EXCEPT ![call.it] = r]
                      /\ r.fresh = iter[j].fresh /\ r.alone = iter[j].alone
            \/ \E w : Throw(w)
        <4>1. CASE LoadChunk
          BY <4>1, LoadChunkCases
        <4>2. CASE TakeMessage
          <5> DEFINE r == [iter[call.it] EXCEPT !.queue = @ \cup {call.bag}]
          <5>1. iter' = [iter EXCEPT ![call.it] = r]
            BY <4>2 DEF TakeMessage
          <5>2. r.fresh = iter[j].fresh /\ r.alone = iter[j].alone
            BY <1>2, <2>4 DEF Iterator
          <5> QED
            BY <5>1, <5>2
        <4>3. CASE Return
          <5>1. PICK t : iter' = [iter EXCEPT ![call.it] =
                                    [iter[call.it] EXCEPT !.st = "live", !.top = t]]
            BY <4>3 DEF Return
          <5> DEFINE r == [iter[call.it] EXCEPT !.st = "live", !.top = t]
          <5>2. r.fresh = iter[j].fresh /\ r.alone = iter[j].alone
            BY <1>2, <2>4 DEF Iterator
          <5> QED
            BY <5>1, <5>2
        <4> QED
          BY <1>3, <4>1, <4>2, <4>3
             DEF CallStep, BeginBag, SkipRecord, UnknownRecord, UnreadableRecord, FinishChunk, ReadEnd
      <3> QED
        BY <1>3, <2>4, <3>1, <3>2, <3>3, <3>4
    <2> QED
      BY <2>3, <2>4
  <1>4. ASSUME Exclusive(j), call.pc = "idle", UNCHANGED <<iter, call>>,
               query'[iter[j].query] = query[iter[j].query],
               wrapper'[iter[j].query] = wrapper[iter[j].query]
        PROVE  Same(j, j)
    BY <1>1, <1>4 DEF Same
  <1>5. ASSUME NEW b \in Bags, AddBag(b) PROVE Exclusive(j) /\ Same(j, j)
    BY <1>4, <1>5 DEF AddBag, Exclusive
  <1>6. ASSUME NEW q \in Queries, NEW f, GetMessages(q, f)
        PROVE  Exclusive(j) /\ Same(j, j)
    <2>1. Exclusive(j) /\ ~query[q].made
      BY <1>6 DEF GetMessages, Exclusive
    <2>2. iter[j].query \in Queries /\ iter[j].query # q
      BY <2>1 DEF Exclusive, BaseInv, Inv, StructureOK, IteratorOK
    <2> QED
      BY <1>4, <1>6, <2>1, <2>2 DEF GetMessages, BaseInv, Inv, TypeOK
  <1>7. ASSUME NEW i \in Iterators \ {j}, NEW q, call.pc = "idle",
               UNCHANGED <<query, wrapper>>, call'.it = i,
               iter'[j] = Disturb(i, q)[j]
        PROVE  Exclusive(j) /\ Same(j, j)
    <2>1. CASE iter[j].query = q
      <3>1. iter'[j] = [iter[j] EXCEPT !.alone = FALSE, !.out = <<>>] /\ iter[j] \in Iterator
        BY <1>2, <1>7, <2>1 DEF Disturb
      <3>2. ~iter'[j].alone
        BY <3>1 DEF Iterator
      <3> QED
        BY <3>2 DEF Exclusive
    <2>2. CASE iter[j].query # q
      BY <1>1, <1>7, <2>2 DEF Disturb, Exclusive, Same
    <2> QED
      BY <2>1, <2>2
  <1>8. ASSUME NEW i \in Iterators \ {j}, NEW q \in Queries, Begin(i, q)
        PROVE  Exclusive(j) /\ Same(j, j)
    <2>1. DOMAIN Disturb(i, q) = Iterators
      BY DEF Disturb
    <2>2. \E r : iter' = [Disturb(i, q) EXCEPT ![i] = r]
      BY <1>8 DEF Begin
    <2>3. call'.it = i /\ call.pc = "idle" /\ UNCHANGED <<query, wrapper>>
      BY <1>8 DEF Begin
    <2> QED
      BY <1>7, <2>1, <2>2, <2>3
  <1>9. ASSUME NEW i \in Iterators \ {j}, Increment(i) PROVE Exclusive(j) /\ Same(j, j)
    <2> DEFINE q == iter[i].query
    <2>1. DOMAIN Disturb(i, q) = Iterators
      BY DEF Disturb
    <2>2. \E r, s : iter' = [Disturb(i, q) EXCEPT ![i].queue = r, ![i].out = s]
      BY <1>9 DEF Increment
    <2>3. call'.it = i /\ call.pc = "idle" /\ UNCHANGED <<query, wrapper>>
      BY <1>9 DEF Increment
    <2> QED
      BY <1>7, <2>1, <2>2, <2>3
  <1>10. ASSUME Increment(j) PROVE Exclusive(j)
    <2>1. Disturb(j, iter[j].query)[j] = iter[j] /\ DOMAIN Disturb(j, iter[j].query) = Iterators
      BY DEF Disturb
    <2>2. \E r, s : iter' = [Disturb(j, iter[j].query) EXCEPT ![j].queue = r, ![j].out = s]
      BY <1>10 DEF Increment
    <2>3. iter'[j].fresh = iter[j].fresh /\ iter'[j].alone = iter[j].alone /\ iter'[j].st = iter[j].st
      BY <1>2, <2>1, <2>2 DEF Iterator
    <2> QED
      BY <2>3 DEF Exclusive
  <1>11. ASSUME NEW i \in Iterators, NEW k \in Iterators, CopyIterator(i, k)
         PROVE  \/ Exclusive(j) /\ Same(j, j)
                \/ CopyIterator(i, j) /\ Exclusive(i) /\ Same(i, j)
    <2>1. /\ iter' = [iter EXCEPT ![k] = iter[i]] /\ call.pc = "idle"
          /\ UNCHANGED <<query, wrapper, call>>
      BY <1>11 DEF CopyIterator
    <2>2. CASE j = k
      <3>1. iter'[j] = iter[i]
        BY <1>2, <2>1, <2>2
      <3> QED
        BY <1>2, <1>11, <2>1, <2>2, <3>1 DEF Same, Exclusive
    <2>3. CASE j # k
      <3>1. iter'[j] = iter[j]
        BY <1>2, <2>1, <2>3
      <3> QED
        BY <1>2, <2>1, <3>1 DEF Same, Exclusive
    <2> QED
      BY <2>2, <2>3
  <1>12. CASE UserCall
    <2>1. CASE \E q \in Queries : \E f : GetMessages(q, f)
      BY <1>6, <2>1
    <2>2. CASE ~\E q \in Queries : \E f : GetMessages(q, f)
      BY <1>5, <1>8, <1>9, <1>10, <1>11, <1>12, <2>2 DEF UserCall, GetAllMessages, GetTopicMessages
    <2> QED
      BY <2>1, <2>2
  <1> QED
    BY <1>3, <1>12 DEF Next

-----------------------------------------------------------------------------
(* The cursor of a wrapper among the messages of its bag.                  *)

\* Only one chunk is the first.
LEMMA FirstUnique ==
  ASSUME NEW b \in Bags, NEW S \in SUBSET Chunks(b), NEW c, NEW d,
         IsFirstChunk(b, c, S), IsFirstChunk(b, d, S)
  PROVE  c = d
  BY ChunkOrder DEF IsFirstChunk

\* Loading a chunk passes nothing.
LEMMA LoadBefore ==
  ASSUME Inv, call.pc = "read", CallWrapper.current_buffer = None,
         NEW c \in CallWrapper.chunk_iter, NEW m \in Messages(call.bag)
  PROVE  Before(m, Loaded(c)) <=> Before(m, CallWrapper)
  <1>1. call.bag \in Bags /\ CallWrapper \in BagWrapper(call.bag)
        /\ CallWrapper.processed_bytes = 0
    BY CallFacts DEF WrapperOK
  <1>2. m.off \in Nat /\ m.chunk # None
    BY <1>1, MessageParts, SentinelAssumption
  <1>3. /\ Loaded(c).chunk_iter = CallWrapper.chunk_iter
        /\ Loaded(c).processed_bytes = CallWrapper.processed_bytes
    BY <1>1 DEF Loaded, BagWrapper
  <1> QED
    BY <1>1, <1>2, <1>3 DEF Before

\* Leaving the first chunk when it is used up passes nothing.
LEMMA LeaveBefore ==
  ASSUME NEW b \in Bags, NEW w \in BagWrapper(b), NEW v, NEW c \in w.chunk_iter,
         w.current_buffer = c, w.processed_bytes >= chunks_[b][c].size,
         v.chunk_iter = w.chunk_iter \ {c}, v.current_buffer = None, NEW m \in Messages(b)
  PROVE  Before(m, v) <=> Before(m, w)
  <1>1. m.off \in Nat /\ m.chunk # None /\ m.chunk \in Chunks(b)
        /\ m.off < chunks_[b][m.chunk].size
    BY MessageParts, SentinelAssumption
  <1>2. w.processed_bytes \in Nat /\ chunks_[b][c].size \in Nat
    BY ChunkFacts DEF BagWrapper
  <1> QED
    BY <1>1, <1>2 DEF Before

\* Passing a record passes the message in it, if there is one, and no other.
LEMMA PassBefore ==
  ASSUME NEW b \in Bags, NEW w \in BagWrapper(b), NEW v, NEW m \in Messages(b),
         w.current_buffer \in w.chunk_iter,
         w.processed_bytes \in Records(b, w.current_buffer),
         v.processed_bytes = NextRecord(b, w.current_buffer, w.processed_bytes),
         v.chunk_iter = w.chunk_iter, v.current_buffer = w.current_buffer
  PROVE  Before(m, v) <=>
           Before(m, w) \/ (m.chunk = w.current_buffer /\ m.off = w.processed_bytes)
  <1> DEFINE c == w.current_buffer
             o == w.processed_bytes
  <1>1. c \in Chunks(b) /\ o \in Nat /\ NextRecord(b, c, o) \in Nat /\ o < NextRecord(b, c, o)
    BY RecordFacts DEF BagWrapper
  <1>2. m.off \in Nat /\ (m.chunk = c => m.off \in Records(b, c))
    BY MessageParts
  <1>3. m.chunk = c /\ m.off > o => m.off >= NextRecord(b, c, o)
    BY <1>1, <1>2, RecordAssumption
  <1>4. m.chunk = c => (m.off < NextRecord(b, c, o) <=> m.off < o \/ m.off = o)
    BY <1>1, <1>2, <1>3
  <1>5. CASE m.chunk = c
    <2>1. Before(m, v) <=> m.off < NextRecord(b, c, o)
      BY <1>5 DEF Before
    <2>2. Before(m, w) <=> m.off < o
      BY <1>5 DEF Before
    <2> QED
      BY <1>4, <1>5, <2>1, <2>2
  <1>6. CASE m.chunk # c
    BY <1>6 DEF Before
  <1> QED
    BY <1>5, <1>6

\* What lies before the cursor precedes what lies at it.
LEMMA BeforeFirst ==
  ASSUME NEW b \in Bags, NEW w \in BagWrapper(b), UpwardClosed(b, w),
         NEW m \in Messages(b), NEW n \in Messages(b),
         n.chunk \in w.chunks_to_parse, Before(n, w),
         m.chunk \in w.chunk_iter, m.chunk \in w.chunks_to_parse,
         m.chunk = w.current_buffer, m.off = w.processed_bytes
  PROVE  FileBefore(n, m)
  <1>1. /\ m.bag = b /\ n.bag = b /\ m.off \in Nat /\ n.off \in Nat
        /\ m.chunk \in Chunks(b) /\ n.chunk \in Chunks(b)
    BY MessageParts
  <1>2. CASE n.chunk \notin w.chunk_iter
    <2>1. n.chunk # m.chunk /\ ~ChunkBefore(b, m.chunk, n.chunk)
      BY <1>2 DEF UpwardClosed
    <2> QED
      BY <1>1, <2>1, ChunkOrder DEF FileBefore
  <1>3. CASE n.chunk = w.current_buffer /\ n.off < w.processed_bytes
    BY <1>1, <1>3 DEF FileBefore
  <1> QED
    BY <1>2, <1>3 DEF Before

-----------------------------------------------------------------------------
(* What an iterator that stays the same delivered.                         *)

LEMMA FrameDelivery ==
  ASSUME NEW k \in Iterators, NEW j \in Iterators, Same(k, j), DeliveryOK(k)
  PROVE  DeliveryOK(j)'
  <1>0. PICK q : q = iter[k].query
    OBVIOUS
  <1>1. /\ iter'[j] = iter[k] /\ query'[q] = query[q] /\ wrapper'[q] = wrapper[q]
        /\ Waiting(k) = {} /\ Waiting(j)' = {} /\ call.it # k /\ call'.it # j
        /\ \A b : ~ReadsBag(k, b) /\ ~ReadsBag(j, b)'
    BY <1>0 DEF Same, Waiting, ReadsBag
  <1>2. \A b : Requested(q, b)' = Requested(q, b)
    BY <1>1 DEF Requested
  <1>3. \A b : Passed(q, b)' = Passed(q, b)
    BY <1>1, <1>2 DEF Passed, Before
  <1>4. \A b : ShownOf(j, b)' = ShownOf(k, b) /\ Held(j, b)' = Held(k, b)
    BY <1>0, <1>1 DEF ShownOf, Held, Shown
  <1>5. StageOK(j)'
    BY <1>0, <1>1 DEF DeliveryOK, StageOK
  <1>6. OutOK(j)'
    BY <1>0, <1>1, <1>2 DEF DeliveryOK, OutOK
  <1>7. \A b : CursorOK(k, b) => CursorOK(j, b)'
    BY <1>0, <1>1, <1>3, <1>4 DEF CursorOK
  <1> QED
    BY <1>0, <1>1, <1>5, <1>6, <1>7 DEF DeliveryOK

LEMMA FrameTime ==
  ASSUME NEW k \in Iterators, NEW j \in Iterators, Same(k, j), TimeOK(k)
  PROVE  TimeOK(j)'
  <1>0. PICK q : q = iter[k].query
    OBVIOUS
  <1>1. /\ iter'[j] = iter[k] /\ query'[q] = query[q] /\ wrapper'[q] = wrapper[q]
        /\ call.it # k /\ call'.it # j
    BY <1>0 DEF Same
  <1>2. \A b : Requested(q, b)' = Requested(q, b) /\ SortedBag(q, b)' = SortedBag(q, b)
    BY <1>1 DEF Requested, SortedBag
  <1>3. \A a, b : ComesAfter(q, a, b)' = ComesAfter(q, a, b)
    BY <1>1 DEF ComesAfter
  <1>4. \A out, n, m : WasHead(q, out, n, m)' = WasHead(q, out, n, m)
    BY <1>2 DEF WasHead
  <1>5. TopOK(j)'
    BY <1>0, <1>1, <1>3 DEF TimeOK, TopOK, Resting
  <1>6. HeadsOK(j)'
    BY <1>0, <1>1, <1>4 DEF TimeOK, HeadsOK
  <1>7. SortedOK(j)'
    BY <1>0, <1>1, <1>2 DEF TimeOK, SortedOK
  <1> QED
    BY <1>5, <1>6, <1>7 DEF TimeOK

-----------------------------------------------------------------------------
(* What an iterator delivers while readMessage runs for it.                *)

\* A bag that the step does not touch.
LEMMA CursorFrame ==
  ASSUME NEW i \in Iterators, NEW b \in Bags, CursorOK(i, b), query' = query,
         iter'[i].query = iter[i].query, ShownOf(i, b)' = ShownOf(i, b),
         wrapper'[iter[i].query][b] = wrapper[iter[i].query][b],
         b \in iter'[i].queue <=> b \in iter[i].queue,
         b \in iter[i].lost => b \in iter'[i].lost,
         b \in Waiting(i)' <=> b \in Waiting(i),
         ReadsBag(i, b) => ReadsBag(i, b)' \/ wrapper[iter[i].query][b].chunk_iter = {}
  PROVE  CursorOK(i, b)'
  <1>1. PICK q : q = iter[i].query
    OBVIOUS
  <1>2. Passed(q, b)' = Passed(q, b)
    BY <1>1 DEF Passed, Requested, Before
  <1>3. Held(i, b)' = Held(i, b)
    BY <1>1 DEF Held
  <1> QED
    BY <1>1, <1>2, <1>3 DEF CursorOK

\* What was shown stays as it was.
LEMMA OutFrame ==
  ASSUME NEW i \in Iterators, OutOK(i), query' = query,
         iter'[i].query = iter[i].query, iter'[i].out = iter[i].out
  PROVE  OutOK(i)'
  <1>1. PICK q : q = iter[i].query
    OBVIOUS
  <1>2. \A b : Requested(q, b)' = Requested(q, b)
    BY DEF Requested
  <1> QED
    BY <1>1, <1>2 DEF OutOK

\* The bag that is read.
LEMMA ReadBagFacts ==
  ASSUME Inv, call.pc = "read", DeliveryOK(call.it)
  PROVE  LET i == call.it
             b == call.bag
             w == CallWrapper IN
         /\ i \in Iterators /\ b \in Bags /\ b \in query[CallQuery].bags
         /\ b \notin iter[i].queue /\ b \notin iter[i].lost /\ b \notin Waiting(i)
         /\ Passed(CallQuery, b) = ShownOf(i, b)
         /\ w.current_buffer # None =>
              /\ IsFirstChunk(b, w.current_buffer, w.chunk_iter)
              /\ w.uncompressed_size = chunks_[b][w.current_buffer].size
  <1>1. call.it \in Iterators /\ call.bag \in Bags
    BY CallFacts
  <1>2. /\ call.bag \in query[CallQuery].bags
        /\ call.bag \notin iter[call.it].queue \cup iter[call.it].lost \cup Waiting(call.it)
    BY DEF DeliveryOK, StageOK, CallQuery
  <1>3. CursorOK(call.it, call.bag)
    BY <1>2 DEF DeliveryOK, CallQuery
  <1> QED
    BY <1>1, <1>2, <1>3 DEF CursorOK, CallQuery, CallWrapper, Held

\* A step that changes the wrapper only, and passes no message that was asked for.
LEMMA QuietDelivery ==
  ASSUME Inv, Inv', call.pc = "read", NEW i, i = call.it, DeliveryOK(i),
         NEW v, SetWrapper(v), UNCHANGED <<query, iter, call>>,
         \A m \in Requested(CallQuery, call.bag) : Before(m, v) <=> Before(m, CallWrapper),
         v.current_buffer # None =>
           /\ IsFirstChunk(call.bag, v.current_buffer, v.chunk_iter)
           /\ v.uncompressed_size = chunks_[call.bag][v.current_buffer].size
  PROVE  DeliveryOK(i)'
  <1>1. PICK q, c : q = CallQuery /\ c = call.bag
    OBVIOUS
  <1>2. /\ q = iter[i].query /\ iter'[i] = iter[i] /\ i \in Iterators /\ c \in Bags
        /\ query' = query /\ call' = call
    BY <1>1, CallFacts DEF CallQuery
  <1>3. wrapper'[q][c] = v /\ \A b \in Bags \ {c} : wrapper'[q][b] = wrapper[q][b]
    BY <1>1, ReadWrapper
  <1>4. StageOK(i)' /\ OutOK(i)'
    BY <1>2 DEF DeliveryOK, StageOK, OutOK, Waiting, Requested
  <1>5. \A b : ShownOf(i, b)' = ShownOf(i, b)
    BY <1>2 DEF ShownOf, Shown
  <1>6. \A b \in query[q].bags \ {c} : CursorOK(i, b)'
    <2>1. query[q].bags \subseteq Bags
      BY <1>1, CallFacts DEF Inv, TypeOK
    <2> QED
      BY <1>2, <1>3, <1>5, <2>1, CursorFrame DEF DeliveryOK, Waiting, ReadsBag
  <1>7. CursorOK(i, c)'
    <2>1. Passed(q, c)' = Passed(q, c)
      BY <1>1, <1>2, <1>3 DEF Passed, Requested, CallWrapper
    <2>2. /\ c \notin iter[i].queue /\ c \notin Waiting(i)
          /\ Passed(q, c) = ShownOf(i, c)
      BY <1>1, ReadBagFacts
    <2>3. Held(i, c)' = {} /\ ReadsBag(i, c)' /\ c \notin Waiting(i)'
      BY <1>1, <1>2, <2>2 DEF Held, ReadsBag, Waiting
    <2> QED
      BY <1>1, <1>2, <1>3, <1>5, <2>1, <2>2, <2>3 DEF CursorOK
  <1> QED
    BY <1>2, <1>4, <1>6, <1>7 DEF DeliveryOK

\* The record at the position, as the iterator of the call finds it.
LEMMA AtRecordFacts ==
  ASSUME BaseInv, AtRecord, Readable, DeliveryOK(call.it)
  PROVE  LET b == call.bag
             w == CallWrapper IN
         /\ call.pc = "read" /\ b \in Bags /\ w \in BagWrapper(b)
         /\ w.current_buffer \in w.chunk_iter /\ w.current_buffer # None
         /\ w.processed_bytes \in Records(b, w.current_buffer)
         /\ AfterRecord = NextRecord(b, w.current_buffer, w.processed_bytes)
  <1>1. call.pc = "read" /\ CallWrapper.current_buffer # None /\ Here < BufferFilled
    BY DEF AtRecord, Reading, Readable
  <1>2. CallWrapper.current_buffer \in CallWrapper.chunk_iter
    BY <1>1, ReadBagFacts DEF BaseInv, IsFirstChunk
  <1>3. /\ call.bag \in Bags /\ CallWrapper \in BagWrapper(call.bag)
        /\ Here \in Records(call.bag, CallWrapper.current_buffer)
    BY <1>1, AfterRecordFacts DEF BaseInv
  <1> QED
    BY <1>1, <1>2, <1>3 DEF AfterRecord, Here

\* LoadChunkCases, with the chunk that it is about.
LEMMA LoadChunkFirst ==
  ASSUME LoadChunk
  PROVE  \E c \in CallWrapper.chunk_iter :
           /\ IsFirstChunk(call.bag, c, CallWrapper.chunk_iter)
           /\ \/ SetWrapper(Loaded(c)) /\ UNCHANGED <<query, iter, call>>
              \/ Throw(Broken(c))
              \/ Throw(Spoiled(c))
  BY DEF LoadChunk, Loaded, Broken, Spoiled

\* An iterator that survives an exception loses the bag, and keeps the rest.
LEMMA ThrowDelivery ==
  ASSUME BaseInv, BaseInv', call.pc = "read", NEW i, i = call.it, DeliveryOK(i),
         NEW v, Throw(v), Exclusive(i)'
  PROVE  DeliveryOK(i)'
  <1>1. PICK q, c : q = CallQuery /\ c = call.bag
    OBVIOUS
  <1>2. /\ i \in Iterators /\ c \in Bags /\ q = iter[i].query /\ query[q].bags \subseteq Bags
        /\ c \notin iter[i].queue /\ Waiting(i)' = {} /\ call' = Idle /\ call'.it # i
        /\ query' = query /\ SetWrapper(v) /\ iter \in [Iterators -> Iterator]
    BY <1>1, CallFacts, ReadBagFacts, ViewAssumption
       DEF BaseInv, Inv, TypeOK, Throw, CallQuery, Waiting, Idle
  <1>3. \A a \in Bags \ {c} : wrapper'[q][a] = wrapper[q][a]
    BY <1>1, <1>2, ReadWrapper DEF BaseInv
  <1>4. iter[i].st = "live" /\ \E t :
          iter' = [iter EXCEPT ![i].top = t, ![i].lost = @ \cup {c}]
    <2>1. iter' # [iter EXCEPT ![i] = NoIterator]
      BY <1>2 DEF Exclusive, NoIterator
    <2>2. iter[i].st \in {"building", "live"}
      BY <1>2, CallFacts DEF BaseInv, Iterator
    <2> QED
      BY <1>1, <2>1, <2>2 DEF Throw
  <1>5. /\ iter'[i].queue = iter[i].queue /\ iter'[i].st = "live"
        /\ iter'[i].out = iter[i].out /\ iter'[i].lost = iter[i].lost \cup {c}
        /\ iter'[i].query = q
    BY <1>2, <1>4 DEF Iterator
  <1>6. StageOK(i)' /\ OutOK(i)'
    <2>1. StageOK(i)'
      <3>1. /\ iter[i].queue \subseteq query[q].bags
            /\ iter[i].queue \cap iter[i].lost = {}
        BY <1>2 DEF DeliveryOK, StageOK
      <3>2. /\ iter'[i].queue \subseteq query'[q].bags
            /\ iter'[i].queue \cap iter'[i].lost = {}
        BY <1>2, <1>5, <3>1
      <3> QED
        BY <1>2, <1>5, <3>2 DEF StageOK
    <2>2. OutOK(i)'
      BY <1>2, <1>5, OutFrame DEF DeliveryOK
    <2> QED
      BY <2>1, <2>2
  <1>7. \A a : ShownOf(i, a)' = ShownOf(i, a)
    BY <1>5 DEF ShownOf, Shown
  <1>8. Waiting(i) = {}
    BY <1>4 DEF DeliveryOK, StageOK
  <1>9. ASSUME NEW a \in query[q].bags, a # c PROVE CursorOK(i, a)'
    <2>1. CursorOK(i, a) /\ wrapper'[q][a] = wrapper[q][a] /\ a \in Bags /\ ~ReadsBag(i, a)
      BY <1>1, <1>2, <1>3, <1>9 DEF DeliveryOK, ReadsBag
    <2> QED
      BY <1>2, <1>5, <1>7, <1>8, <2>1, CursorFrame
  <1>10. CursorOK(i, c)'
    BY <1>2, <1>5 DEF CursorOK
  <1> QED
    BY <1>2, <1>5, <1>6, <1>9, <1>10 DEF DeliveryOK

LEMMA LoadChunkDelivery ==
  ASSUME BaseInv, BaseInv', LoadChunk, NEW i, i = call.it, DeliveryOK(i), Exclusive(i)'
  PROVE  DeliveryOK(i)'
  <1> DEFINE b == call.bag
             w == CallWrapper
  <1>1. call.pc = "read" /\ w.current_buffer = None
    BY DEF LoadChunk, Reading
  <1>2. /\ b \in Bags /\ w \in BagWrapper(b) /\ CallQuery = iter[i].query
        /\ Requested(CallQuery, b) \subseteq Messages(b)
    BY <1>1, CallFacts DEF BaseInv, CallQuery, Requested
  <1>3. PICK c \in w.chunk_iter :
          /\ IsFirstChunk(b, c, w.chunk_iter)
          /\ \/ SetWrapper(Loaded(c)) /\ UNCHANGED <<query, iter, call>>
             \/ Throw(Broken(c))
             \/ Throw(Spoiled(c))
    BY LoadChunkFirst
  <1>4. CASE SetWrapper(Loaded(c)) /\ UNCHANGED <<query, iter, call>>
    <2>1. /\ Loaded(c).current_buffer = c /\ Loaded(c).chunk_iter = w.chunk_iter
          /\ Loaded(c).uncompressed_size = chunks_[b][c].size
      BY <1>2 DEF Loaded, BagWrapper
    <2>2. \A m \in Requested(CallQuery, b) : Before(m, Loaded(c)) <=> Before(m, w)
      BY <1>1, <1>2, LoadBefore DEF BaseInv
    <2> QED
      BY <1>1, <1>3, <1>4, <2>1, <2>2, QuietDelivery DEF BaseInv
  <1>5. ASSUME NEW v, Throw(v) PROVE DeliveryOK(i)'
    BY <1>1, <1>5, ThrowDelivery
  <1> QED
    BY <1>3, <1>4, <1>5

LEMMA SkipRecordDelivery ==
  ASSUME BaseInv, BaseInv', SkipRecord, NEW i, i = call.it, DeliveryOK(i)
  PROVE  DeliveryOK(i)'
  <1> DEFINE b == call.bag
             w == CallWrapper
             c == w.current_buffer
             o == w.processed_bytes
             v == [w EXCEPT !.processed_bytes = AfterRecord]
  <1>1. AtRecord /\ Readable /\ ~IsWanted /\ SetWrapper(v) /\ UNCHANGED <<query, iter, call>>
    BY DEF SkipRecord
  <1>2. /\ call.pc = "read" /\ b \in Bags /\ w \in BagWrapper(b)
        /\ c \in w.chunk_iter /\ o \in Records(b, c) /\ AfterRecord = NextRecord(b, c, o)
    BY <1>1, AtRecordFacts
  <1>3. CallQuery \in Queries /\ query[CallQuery].made
    BY <1>2, CallFacts DEF BaseInv
  <1>4. ASSUME NEW m \in Requested(CallQuery, b) PROVE Before(m, v) <=> Before(m, w)
    <2>1. m \in Messages(b)
      BY DEF Requested
    <2>2. ConnectionOf(m) \in w.connection_ids
      BY <1>2, <1>3, <2>1, RequestedFacts DEF CallWrapper
    <2>3. ~(m.chunk = c /\ m.off = o)
      BY <1>1, <1>2, <2>1, <2>2, MessageParts DEF IsWanted, HereRecord, Here
    <2>4. /\ v.processed_bytes = NextRecord(b, c, o) /\ v.chunk_iter = w.chunk_iter
          /\ v.current_buffer = c
      BY <1>2 DEF BagWrapper
    <2> HIDE DEF v
    <2> QED
      BY <1>2, <2>1, <2>3, <2>4, PassBefore
  <1>5. /\ v.chunk_iter = w.chunk_iter /\ v.current_buffer = c
        /\ v.uncompressed_size = w.uncompressed_size
    BY <1>2 DEF BagWrapper
  <1>6. IsFirstChunk(b, c, w.chunk_iter) /\ w.uncompressed_size = chunks_[b][c].size
    BY <1>1, <1>2, ReadBagFacts DEF BaseInv, AtRecord
  <1> HIDE DEF v
  <1> QED
    BY <1>1, <1>2, <1>4, <1>5, <1>6, QuietDelivery DEF BaseInv

LEMMA FinishChunkDelivery ==
  ASSUME BaseInv, BaseInv', FinishChunk, NEW i, i = call.it, DeliveryOK(i)
  PROVE  DeliveryOK(i)'
  <1> DEFINE b == call.bag
             w == CallWrapper
             v(c) == [w EXCEPT !.chunk_iter = @ \ {c}, !.current_buffer = None,
                               !.spoiled = None, !.processed_bytes = 0]
  <1>1. PICK c \in w.chunk_iter :
          /\ call.pc = "read" /\ w.current_buffer # None
          /\ w.processed_bytes >= w.uncompressed_size
          /\ IsFirstChunk(b, c, w.chunk_iter)
          /\ SetWrapper(v(c)) /\ UNCHANGED <<query, iter, call>>
    BY DEF FinishChunk, Reading
  <1>2. b \in Bags /\ w \in BagWrapper(b) /\ w.chunk_iter \in SUBSET Chunks(b)
    BY <1>1, CallFacts DEF BaseInv, BagWrapper
  <1>3. /\ IsFirstChunk(b, w.current_buffer, w.chunk_iter)
        /\ w.uncompressed_size = chunks_[b][w.current_buffer].size
    BY <1>1, ReadBagFacts DEF BaseInv
  <1>4. w.current_buffer = c
    BY <1>1, <1>2, <1>3, FirstUnique
  <1>5. v(c).chunk_iter = w.chunk_iter \ {c} /\ v(c).current_buffer = None
    BY <1>2 DEF BagWrapper
  <1>6. SetWrapper(v(c))
    BY <1>1
  <1> HIDE DEF v
  <1>7. \A m \in Requested(CallQuery, b) : Before(m, v(c)) <=> Before(m, w)
    BY <1>1, <1>2, <1>3, <1>4, <1>5, LeaveBefore DEF Requested
  <1> QED
    BY <1>1, <1>5, <1>6, <1>7, QuietDelivery DEF BaseInv

\* The message at the position is the next one that was asked for.
LEMMA TakeFacts ==
  ASSUME BaseInv, TakeMessage, DeliveryOK(call.it)
  PROVE  LET b == call.bag
             q == CallQuery
             w == CallWrapper
             m == [bag |-> b, chunk |-> w.current_buffer, off |-> Here]
             v == [w EXCEPT !.processed_bytes = AfterRecord, !.current = m] IN
         /\ call.pc = "read" /\ SetWrapper(v) /\ query' = query
         /\ v.current = m /\ v.chunk_iter = w.chunk_iter
         /\ v.current_buffer = w.current_buffer /\ v.uncompressed_size = w.uncompressed_size
         /\ m.bag = b /\ m \in Requested(q, b) /\ ~Before(m, w)
         /\ \A n \in Requested(q, b) : Before(n, v) <=> Before(n, w) \/ n = m
         /\ \A n \in Requested(q, b) : Before(n, w) => FileBefore(n, m)
  <1> DEFINE b == call.bag
             q == CallQuery
             w == CallWrapper
             c == w.current_buffer
             o == w.processed_bytes
             m == [bag |-> b, chunk |-> c, off |-> Here]
             v == [w EXCEPT !.processed_bytes = AfterRecord, !.current = m]
  <1>1. AtRecord /\ Readable /\ IsWanted /\ SetWrapper(v) /\ query' = query
    BY DEF TakeMessage
  <1>2. /\ call.pc = "read" /\ b \in Bags /\ w \in BagWrapper(b)
        /\ c \in w.chunk_iter /\ o \in Records(b, c) /\ AfterRecord = NextRecord(b, c, o)
    BY <1>1, AtRecordFacts
  <1>3. q \in Queries /\ query[q].made /\ w = wrapper[q][b] /\ Here = o
    BY <1>2, CallFacts DEF BaseInv, CallWrapper, Here
  <1>4. /\ v.current = m /\ v.chunk_iter = w.chunk_iter /\ v.current_buffer = c
        /\ v.uncompressed_size = w.uncompressed_size
        /\ v.processed_bytes = NextRecord(b, c, o)
    BY <1>2 DEF BagWrapper
  <1>5. m.bag = b /\ m.chunk = c /\ m.off = o
    BY <1>3
  <1>6. m \in Messages(b)
    BY <1>1, <1>2, <1>3, MessageAt DEF IsWanted, HereRecord, BagWrapper
  <1>7. ConnectionOf(m) \in w.connection_ids
    <2>1. HereRecord.conn \in w.connection_ids /\ HereRecord = RecordAt(b, c, o)
      BY <1>1, <1>3 DEF IsWanted, HereRecord
    <2>2. ConnectionOf(m) = RecordAt(b, c, o).conn
      BY <1>2, <1>5, <1>6, MessageParts
    <2> QED
      BY <2>1, <2>2
  <1>8. m \in Requested(q, b) /\ m.chunk \in w.chunks_to_parse
    BY <1>2, <1>3, <1>6, <1>7, RequestedFacts
  <1>9. ~Before(m, w)
    <2>1. o \in Nat /\ ~(o < o)
      BY <1>2 DEF BagWrapper
    <2> QED
      BY <1>2, <1>5, <2>1 DEF Before
  <1>10. ASSUME NEW n \in Requested(q, b)
         PROVE  /\ Before(n, v) <=> Before(n, w) \/ n = m
                /\ Before(n, w) => FileBefore(n, m)
    <2>1. n \in Messages(b) /\ n.chunk \in w.chunks_to_parse
      BY <1>2, <1>3, RequestedFacts DEF Requested
    <2>2. n = [bag |-> b, chunk |-> n.chunk, off |-> n.off]
      BY <1>2, <2>1, MessageParts
    <2>3. n.chunk = c /\ n.off = o <=> n = m
      BY <1>3, <1>5, <2>2
    <2>4. UpwardClosed(b, w)
      BY <1>2, <1>3 DEF BaseInv, PositionOK, UpwardClosed
    <2> HIDE DEF v, m
    <2>5. Before(n, v) <=> Before(n, w) \/ n = m
      BY <1>2, <1>4, <2>1, <2>3, PassBefore
    <2>6. Before(n, w) => FileBefore(n, m)
      BY <1>2, <1>5, <1>6, <1>8, <2>1, <2>4, BeforeFirst
    <2> QED
      BY <2>5, <2>6
  <1> QED
    BY <1>1, <1>2, <1>4, <1>5, <1>8, <1>9, <1>10

LEMMA TakeMessageDelivery ==
  ASSUME BaseInv, BaseInv', TakeMessage, NEW i, i = call.it, DeliveryOK(i)
  PROVE  DeliveryOK(i)'
  <1>1. PICK b, q, w, m, v :
          /\ b = call.bag /\ q = CallQuery /\ w = CallWrapper
          /\ m = [bag |-> b, chunk |-> w.current_buffer, off |-> Here]
          /\ v = [w EXCEPT !.processed_bytes = AfterRecord, !.current = m]
    OBVIOUS
  <1>2. /\ call.pc = "read" /\ SetWrapper(v) /\ query' = query
        /\ v.current = m /\ v.chunk_iter = w.chunk_iter
        /\ v.current_buffer = w.current_buffer /\ v.uncompressed_size = w.uncompressed_size
        /\ m.bag = b /\ m \in Requested(q, b)
        /\ \A n \in Requested(q, b) : Before(n, v) <=> Before(n, w) \/ n = m
        /\ \A n \in Requested(q, b) : Before(n, w) => FileBefore(n, m)
    BY <1>1, TakeFacts
  <1>3. /\ i \in Iterators /\ b \in Bags /\ q = iter[i].query /\ w = wrapper[q][b]
        /\ b \in query[q].bags /\ query[q].bags \subseteq Bags
        /\ b \notin iter[i].queue /\ b \notin iter[i].lost /\ b \notin Waiting(i)
        /\ Passed(q, b) = ShownOf(i, b)
        /\ w.current_buffer # None =>
              /\ IsFirstChunk(b, w.current_buffer, w.chunk_iter)
              /\ w.uncompressed_size = chunks_[b][w.current_buffer].size
    BY <1>1, <1>2, ReadBagFacts, CallFacts DEF BaseInv, CallQuery, CallWrapper, Inv, TypeOK
  <1>4. wrapper'[q][b] = v /\ \A a \in Bags \ {b} : wrapper'[q][a] = wrapper[q][a]
    BY <1>1, <1>2, ReadWrapper DEF BaseInv
  <1>5. /\ iter'[i].queue = iter[i].queue \cup {b} /\ iter'[i].st = iter[i].st
        /\ iter'[i].out = iter[i].out /\ iter'[i].lost = iter[i].lost
        /\ iter'[i].query = q
        /\ call'.it = i /\ call'.pc = "loop" /\ call'.bag = None /\ call'.todo = call.todo
    <2>1. iter \in [Iterators -> Iterator] /\ call \in Call
      BY DEF BaseInv, Inv, TypeOK
    <2>2. iter' = [iter EXCEPT ![i].queue = @ \cup {b}]
          /\ call' = [call EXCEPT !.pc = "loop", !.bag = None]
      BY <1>1 DEF TakeMessage
    <2> QED
      BY <1>3, <2>1, <2>2 DEF Iterator, Call
  <1>6. Waiting(i)' = Waiting(i) /\ \A a \in Bags : ReadsBag(i, a) => a = b
    BY <1>1, <1>5 DEF Waiting, ReadsBag
  <1>7. StageOK(i)'
    <2>1. StageOK(i)
      BY DEF DeliveryOK
    <2>2. call'.pc # "read" /\ b \notin iter[i].lost \cup Waiting(i) /\ b \in query[q].bags
      BY <1>2, <1>3, <1>5, <2>1 DEF StageOK
    <2>3. /\ Waiting(i)' = Waiting(i) /\ query'[iter'[i].query] = query[iter[i].query]
          /\ iter'[i].queue = iter[i].queue \cup {b} /\ iter'[i].st = iter[i].st
          /\ iter'[i].out = iter[i].out /\ iter'[i].lost = iter[i].lost
          /\ b \in query[iter[i].query].bags
      BY <1>2, <1>3, <1>5, <1>6
    <2> QED
      BY <2>1, <2>2, <2>3 DEF StageOK
  <1>8. OutOK(i)'
    BY <1>2, <1>3, <1>5, OutFrame DEF DeliveryOK
  <1>9. \A a : ShownOf(i, a)' = ShownOf(i, a)
    BY <1>5 DEF ShownOf, Shown
  <1>10. ASSUME NEW a \in query[q].bags, a # b PROVE CursorOK(i, a)'
    <2>1. CursorOK(i, a) /\ wrapper'[q][a] = wrapper[q][a] /\ a \in Bags
      BY <1>3, <1>4, <1>10 DEF DeliveryOK
    <2>2. a \in iter'[i].queue <=> a \in iter[i].queue
      BY <1>5, <1>10
    <2> QED
      BY ZenonT(60), <1>2, <1>3, <1>5, <1>6, <1>9, <1>10, <2>1, <2>2, CursorFrame
  <1>11. CursorOK(i, b)'
    <2>1. Passed(q, b)' = Passed(q, b) \cup {m}
      <3>1. Requested(q, b)' = Requested(q, b)
        BY <1>2 DEF Requested
      <3>2. Passed(q, b)' = {n \in Requested(q, b) : Before(n, v)}
        BY <1>4, <3>1 DEF Passed
      <3>3. Passed(q, b) = {n \in Requested(q, b) : Before(n, w)}
        BY <1>3 DEF Passed
      <3> QED
        BY <1>2, <3>2, <3>3
    <2>2. Held(i, b)' = {m}
      BY <1>2, <1>4, <1>5 DEF Held
    <2>3. \A n \in ShownOf(i, b) : FileBefore(n, m)
      BY <1>2, <1>3 DEF Passed
    <2>4. b \notin Waiting(i)' /\ b \in iter'[i].queue
      BY <1>3, <1>5, <1>6
    <2>5. v.current_buffer # None =>
            /\ IsFirstChunk(b, v.current_buffer, v.chunk_iter)
            /\ v.uncompressed_size = chunks_[b][v.current_buffer].size
      BY <1>2, <1>3
    <2>6. wrapper'[q][b] = v /\ iter'[i].query = q /\ v.current = m
      BY <1>2, <1>4, <1>5
    <2>7. Passed(q, b)' = ShownOf(i, b)' \cup Held(i, b)'
      BY <1>3, <1>9, <2>1, <2>2
    <2>8. \A n \in ShownOf(i, b)' : FileBefore(n, m)
      BY <1>9, <2>3
    <2> QED
      BY <2>4, <2>5, <2>6, <2>7, <2>8 DEF CursorOK
  <1> QED
    BY <1>2, <1>5, <1>7, <1>8, <1>10, <1>11 DEF DeliveryOK

\* The constructor restarts a bag whose cursor is at the beginning.
LEMMA BeginBagDelivery ==
  ASSUME BaseInv, BaseInv', NEW b \in Bags, BeginBag(b), NEW i, i = call.it, DeliveryOK(i)
  PROVE  DeliveryOK(i)'
  <1>1. PICK q, w, v :
          /\ q = CallQuery /\ w = wrapper[q][b]
          /\ v = [w EXCEPT !.chunk_iter = w.chunks_to_parse]
    OBVIOUS
  <1>2. /\ call.pc = "loop" /\ b \in call.todo /\ UNCHANGED <<query, iter>>
        /\ wrapper' = [wrapper EXCEPT ![q][b] = v]
        /\ call' = [call EXCEPT !.pc = "read", !.bag = b, !.todo = @ \ {b}]
    BY <1>1 DEF BeginBag
  <1>3. /\ i \in Iterators /\ q = iter[i].query /\ q \in Queries /\ query[q].made
        /\ iter[i].st # "none" /\ iter[i] \in Iterator /\ call.bag \notin Bags
        /\ w \in BagWrapper(b) /\ query[q].bags \subseteq Bags
    BY <1>1, <1>2, CallFacts DEF BaseInv, CallQuery, Inv, TypeOK, StructureOK, CallOK
  <1>4. /\ call'.it = i /\ call'.pc = "read" /\ call'.bag = b /\ call'.todo = call.todo \ {b}
    BY <1>2 DEF BaseInv, Inv, TypeOK, Call
  <1>5. wrapper'[q][b] = v /\ \A a \in Bags \ {b} : wrapper'[q][a] = wrapper[q][a]
    BY <1>2, <1>3 DEF BaseInv, Inv, TypeOK
  <1>6. Waiting(i) = call.todo /\ Waiting(i)' = call.todo \ {b}
    BY <1>4 DEF Waiting
  <1>7. /\ b \in query[q].bags \ iter[i].queue /\ iter[i].st = "building"
        /\ iter[i].out = <<>> /\ iter[i].lost = {} /\ CursorOK(i, b)
    BY <1>2, <1>3, <1>6 DEF DeliveryOK, StageOK, Iterator
  <1>8. StageOK(i)'
    BY <1>2, <1>3, <1>4, <1>6, <1>7 DEF DeliveryOK, StageOK
  <1>9. OutOK(i)'
    BY <1>2, <1>3, OutFrame DEF DeliveryOK
  <1>10. \A a : ShownOf(i, a)' = ShownOf(i, a)
    BY <1>2 DEF ShownOf, Shown
  <1>11. ASSUME NEW a \in query[q].bags, a # b PROVE CursorOK(i, a)'
    <2>1. /\ CursorOK(i, a) /\ wrapper'[q][a] = wrapper[q][a] /\ a \in Bags
          /\ ~ReadsBag(i, a) /\ (a \in Waiting(i)' <=> a \in Waiting(i))
      BY <1>3, <1>5, <1>6, <1>11 DEF DeliveryOK, ReadsBag
    <2> QED
      BY <1>2, <1>3, <1>10, <2>1, CursorFrame
  <1>12. CursorOK(i, b)'
    <2>1. w.current_buffer = None
      BY <1>1, <1>2, <1>3, <1>6, <1>7 DEF CursorOK
    <2>2. v.current_buffer = None /\ v.chunk_iter = w.chunks_to_parse
      BY <1>1, <1>3, <2>1 DEF BagWrapper
    <2>3. \A m \in Requested(q, b) : ~Before(m, v)
      <3> SUFFICES ASSUME NEW m \in Requested(q, b) PROVE ~Before(m, v)
        OBVIOUS
      <3>1. m \in Messages(b)
        BY DEF Requested
      <3>2. m.chunk \in wrapper[q][b].chunks_to_parse
        BY <1>3, <3>1, RequestedFacts
      <3>3. m.chunk # None
        BY <3>1, MessageParts, SentinelAssumption
      <3> QED
        BY <1>1, <2>2, <3>2, <3>3 DEF Before
    <2>4. Passed(q, b)' = {}
      <3>1. Requested(q, b)' = Requested(q, b)
        BY <1>2 DEF Requested
      <3> QED
        BY <1>5, <2>3, <3>1 DEF Passed
    <2>5. ShownOf(i, b)' = {} /\ Held(i, b)' = {}
      BY <1>2, <1>7 DEF ShownOf, Shown, Held
    <2>6. /\ b \notin Waiting(i)' /\ ReadsBag(i, b)' /\ iter'[i].query = q
          /\ b \notin iter'[i].queue
      BY <1>2, <1>3, <1>4, <1>6, <1>7 DEF ReadsBag
    <2> QED
      BY <1>5, <2>2, <2>4, <2>5, <2>6 DEF CursorOK
  <1> QED
    BY <1>2, <1>3, <1>8, <1>9, <1>11, <1>12 DEF DeliveryOK

\* The bag is at its end, and its wrapper is not pushed.
LEMMA ReadEndDelivery ==
  ASSUME BaseInv, BaseInv', ReadEnd, NEW i, i = call.it, DeliveryOK(i)
  PROVE  DeliveryOK(i)'
  <1>1. PICK q : q = CallQuery
    OBVIOUS
  <1>2. /\ call.pc = "read" /\ CallWrapper.chunk_iter = {} /\ UNCHANGED <<query, iter, wrapper>>
        /\ call' = [call EXCEPT !.pc = "loop", !.bag = None]
    BY DEF ReadEnd
  <1>3. /\ i \in Iterators /\ q = iter[i].query /\ query[q].bags \subseteq Bags
    BY <1>1, <1>2, CallFacts DEF BaseInv, CallQuery, Inv, TypeOK
  <1>4. call'.it = i /\ call'.pc = "loop" /\ call'.todo = call.todo
    BY <1>2 DEF BaseInv, Inv, TypeOK, Call
  <1>5. Waiting(i)' = Waiting(i)
    BY <1>4 DEF Waiting
  <1>6. StageOK(i)' /\ OutOK(i)'
    BY <1>2, <1>3, <1>4, <1>5, OutFrame DEF DeliveryOK, StageOK
  <1>7. \A a : ShownOf(i, a)' = ShownOf(i, a)
    BY <1>2 DEF ShownOf, Shown
  <1>8. ASSUME NEW a \in query[q].bags PROVE CursorOK(i, a)'
    <2>1. CursorOK(i, a) /\ (ReadsBag(i, a) => wrapper[q][a].chunk_iter = {})
      BY <1>1, <1>2, <1>3 DEF DeliveryOK, ReadsBag, CallWrapper
    <2> QED
      BY <1>2, <1>3, <1>5, <1>7, <2>1, CursorFrame
  <1> QED
    BY <1>2, <1>3, <1>6, <1>8 DEF DeliveryOK

LEMMA ReturnDelivery ==
  ASSUME BaseInv, BaseInv', Return, NEW i, i = call.it, DeliveryOK(i)
  PROVE  DeliveryOK(i)'
  <1>1. PICK q : q = CallQuery
    OBVIOUS
  <1>2. /\ call.pc = "loop" /\ call.todo = {} /\ UNCHANGED <<query, wrapper>> /\ call' = Idle
        /\ \E t : iter' = [iter EXCEPT ![i].st = "live", ![i].top = t]
    BY DEF Return
  <1>3. /\ i \in Iterators /\ q = iter[i].query /\ query[q].bags \subseteq Bags
        /\ iter \in [Iterators -> Iterator] /\ call.bag \notin Bags
    BY <1>1, <1>2, CallFacts DEF BaseInv, CallQuery, Inv, TypeOK, StructureOK, CallOK
  <1>4. /\ iter'[i].queue = iter[i].queue /\ iter'[i].st = "live"
        /\ iter'[i].out = iter[i].out /\ iter'[i].lost = iter[i].lost
        /\ iter'[i].query = q
    BY <1>2, <1>3 DEF Iterator
  <1>5. Waiting(i) = {} /\ Waiting(i)' = {} /\ call'.it # i
    BY <1>2, <1>3, ViewAssumption DEF Waiting, Idle
  <1>6. StageOK(i)' /\ OutOK(i)'
    <2>1. StageOK(i)'
      BY <1>2, <1>3, <1>4, <1>5 DEF DeliveryOK, StageOK
    <2>2. OutOK(i)'
      BY <1>2, <1>3, <1>4, OutFrame DEF DeliveryOK
    <2> QED
      BY <2>1, <2>2
  <1>7. \A a : ShownOf(i, a)' = ShownOf(i, a)
    BY <1>4 DEF ShownOf, Shown
  <1>8. ASSUME NEW a \in query[q].bags PROVE CursorOK(i, a)'
    <2>1. CursorOK(i, a) /\ ~ReadsBag(i, a) /\ a \in Bags
      BY <1>3 DEF DeliveryOK, ReadsBag
    <2> QED
      BY <1>2, <1>3, <1>4, <1>5, <1>7, <2>1, CursorFrame
  <1> QED
    BY <1>2, <1>4, <1>6, <1>8 DEF DeliveryOK

\* begin() on wrappers that are untouched.
LEMMA BeginDelivery ==
  ASSUME BaseInv, BaseInv', NEW i \in Iterators, NEW q \in Queries, Begin(i, q), Exclusive(i)'
  PROVE  DeliveryOK(i)'
  <1> DEFINE x == [NoIterator EXCEPT !.st = "building", !.query = q,
                                     !.fresh = Untouched(q), !.alone = TRUE]
  <1>1. /\ UNCHANGED <<query, wrapper>>
        /\ iter' = [Disturb(i, q) EXCEPT ![i] = x]
        /\ call' = [pc |-> "loop", it |-> i, bag |-> None, todo |-> query[q].bags]
    BY DEF Begin
  <1>2. /\ iter'[i].st = "building" /\ iter'[i].query = q /\ iter'[i].queue = {}
        /\ iter'[i].out = <<>> /\ iter'[i].lost = {} /\ iter'[i].fresh = Untouched(q)
    <2>1. i \in DOMAIN Disturb(i, q)
      BY DEF Disturb
    <2> QED
      BY <1>1, <2>1 DEF NoIterator
  <1>3. Untouched(q)
    BY <1>2 DEF Exclusive
  <1>4. Waiting(i)' = query[q].bags /\ call'.pc = "loop"
    BY <1>1 DEF Waiting
  <1>5. StageOK(i)'
    BY <1>1, <1>2, <1>4 DEF StageOK
  <1>6. OutOK(i)'
    BY <1>2 DEF OutOK
  <1>7. ASSUME NEW b \in query[q].bags PROVE CursorOK(i, b)'
    <2>1. b \in Waiting(i)' /\ wrapper'[q][b].current_buffer = None
      BY <1>1, <1>3, <1>4 DEF Untouched
    <2> QED
      BY <1>2, <2>1 DEF CursorOK
  <1> QED
    BY <1>1, <1>2, <1>5, <1>6, <1>7 DEF DeliveryOK

\* What ++ starts with: the top of the queue and its message.
LEMMA TopFacts ==
  ASSUME BaseInv, NEW i \in Iterators, call.pc = "idle", iter[i].st = "live",
         iter[i].queue # {}, DeliveryOK(i)
  PROVE  LET q == iter[i].query
             b == iter[i].top
             m == wrapper[q][b].current IN
         /\ call.it # i /\ Resting(i)
         /\ q \in Queries /\ query[q].made /\ query[q].bags \subseteq Bags
         /\ b \in iter[i].queue /\ b \in query[q].bags /\ b \in Bags /\ b \notin iter[i].lost
         /\ m.bag = b /\ m \in Requested(q, b) /\ m \in AllMessages
         /\ Passed(q, b) = ShownOf(i, b) \cup {m}
         /\ \A n \in ShownOf(i, b) : FileBefore(n, m)
  <1> DEFINE q == iter[i].query
             b == iter[i].top
             m == wrapper[q][b].current
  <1>1. call.it # i
    BY ViewAssumption DEF BaseInv, Inv, StructureOK, CallOK, Idle
  <1>2. /\ b \in iter[i].queue /\ q \in Queries /\ query[q].made /\ m # None
    BY <1>1 DEF BaseInv, Inv, StructureOK, IteratorOK
  <1>3. query[q].bags \subseteq Bags /\ b \in query[q].bags /\ b \notin iter[i].lost
    BY <1>2 DEF BaseInv, Inv, TypeOK, DeliveryOK, StageOK
  <1>4. Waiting(i) = {}
    BY <1>1 DEF Waiting
  <1>5. /\ Passed(q, b) = ShownOf(i, b) \cup {m}
        /\ \A n \in ShownOf(i, b) : FileBefore(n, m)
    BY <1>2, <1>3, <1>4 DEF DeliveryOK, CursorOK, Held
  <1>6. m \in Messages(b)
    BY <1>2, <1>3 DEF BaseInv, Inv, TypeOK, BagWrapper
  <1>7. m \in Requested(q, b)
    BY <1>5 DEF Passed
  <1> QED
    BY <1>1, <1>2, <1>3, <1>5, <1>6, <1>7, MessageParts, MessageFacts DEF Resting

\* The iterator of ++ when it begins.
LEMMA IncrementFacts ==
  ASSUME BaseInv, NEW i \in Iterators, Increment(i), Exclusive(i)
  PROVE  LET x == iter[i]
             b == x.top IN
         /\ call.pc = "idle" /\ x.st = "live" /\ x.queue # {} /\ UNCHANGED <<query, wrapper>>
         /\ iter'[i].st = "live" /\ iter'[i].query = x.query /\ iter'[i].lost = x.lost
         /\ iter'[i].queue = x.queue \ {b}
         /\ iter'[i].out = Append(x.out, wrapper[x.query][b].current)
         /\ call'.it = i /\ call'.pc = "read" /\ call'.bag = b /\ call'.todo = {}
  <1> DEFINE d == Disturb(i, iter[i].query)
             b == iter[i].top
             o == IF iter[i].alone THEN Append(iter[i].out, wrapper[iter[i].query][b].current)
                                   ELSE iter[i].out
  <1>1. DOMAIN d = Iterators /\ d[i] = iter[i] /\ iter[i] \in Iterator
    BY DEF Disturb, BaseInv, Inv, TypeOK
  <1>2. /\ iter' = [d EXCEPT ![i].queue = iter[i].queue \ {b}, ![i].out = o]
        /\ call.pc = "idle" /\ iter[i].st = "live" /\ iter[i].queue # {}
        /\ UNCHANGED <<query, wrapper>>
        /\ call' = [pc |-> "read", it |-> i, bag |-> b, todo |-> {}]
    BY <1>1 DEF Increment
  <1>3. o = Append(iter[i].out, wrapper[iter[i].query][b].current)
    BY DEF Exclusive
  <1> HIDE DEF d, o
  <1>4. iter'[i] = [iter[i] EXCEPT !.queue = iter[i].queue \ {b}, !.out = o]
    BY <1>1, <1>2
  <1> QED
    BY <1>1, <1>2, <1>3, <1>4 DEF Iterator

\* What is appended to what was shown.
LEMMA AppendShown ==
  ASSUME NEW S, NEW out \in Seq(S), NEW m \in S
  PROVE  LET new == Append(out, m) IN
         {new[k] : k \in DOMAIN new} = {out[k] : k \in DOMAIN out} \cup {m}
  <1> DEFINE new == Append(out, m)
  <1>1. /\ DOMAIN new = 1..Len(out) + 1 /\ DOMAIN out = 1..Len(out) /\ Len(out) \in Nat
        /\ \A k \in 1..Len(out) : new[k] = out[k]
        /\ new[Len(out) + 1] = m
    OBVIOUS
  <1> HIDE DEF new
  <1>2. ASSUME NEW n
        PROVE  (\E k \in DOMAIN new : n = new[k]) <=> (\E k \in DOMAIN out : n = out[k]) \/ n = m
    BY <1>1
  <1>3. {new[k] : k \in DOMAIN new} = {out[k] : k \in DOMAIN out} \cup {m}
    BY <1>2
  <1> QED
    BY <1>3 DEF new

\* ++ shows the message that its bag holds.
LEMMA IncrementDelivery ==
  ASSUME BaseInv, NEW i \in Iterators, Increment(i), Exclusive(i), DeliveryOK(i)
  PROVE  DeliveryOK(i)'
  <1>1. PICK q, b, m, out :
          /\ q = iter[i].query /\ b = iter[i].top /\ m = wrapper[q][b].current
          /\ out = iter[i].out
    OBVIOUS
  <1>2. /\ call.pc = "idle" /\ iter[i].st = "live" /\ iter[i].queue # {}
        /\ UNCHANGED <<query, wrapper>>
        /\ iter'[i].st = "live" /\ iter'[i].query = q /\ iter'[i].lost = iter[i].lost
        /\ iter'[i].queue = iter[i].queue \ {b} /\ iter'[i].out = Append(out, m)
        /\ call'.it = i /\ call'.pc = "read" /\ call'.bag = b /\ call'.todo = {}
    BY <1>1, IncrementFacts
  <1>3. /\ call.it # i /\ query[q].bags \subseteq Bags
        /\ b \in iter[i].queue /\ b \in query[q].bags /\ b \in Bags /\ b \notin iter[i].lost
        /\ m.bag = b /\ m \in Requested(q, b) /\ m \in AllMessages
        /\ Passed(q, b) = ShownOf(i, b) \cup {m}
        /\ \A n \in ShownOf(i, b) : FileBefore(n, m)
    <2>1. iter[i].st = "live" /\ iter[i].queue # {}
      BY <1>2
    <2>2. /\ call.it # i
          /\ query[iter[i].query].bags \subseteq Bags
          /\ iter[i].top \in iter[i].queue
          /\ iter[i].top \in query[iter[i].query].bags
          /\ iter[i].top \in Bags
          /\ iter[i].top \notin iter[i].lost
      BY <1>2, <2>1, TopFacts
    <2>3. LET n == wrapper[iter[i].query][iter[i].top].current IN
          /\ n.bag = iter[i].top /\ n \in Requested(iter[i].query, iter[i].top)
          /\ n \in AllMessages
          /\ Passed(iter[i].query, iter[i].top) = ShownOf(i, iter[i].top) \cup {n}
          /\ \A p \in ShownOf(i, iter[i].top) : FileBefore(p, n)
      BY <1>2, <2>1, TopFacts
    <2> QED
      BY <1>1, <2>2, <2>3
  <1>4. out \in Seq(AllMessages) /\ iter[i] \in Iterator
    BY <1>1 DEF BaseInv, Inv, TypeOK, Iterator
  <1>5. /\ DOMAIN Append(out, m) = 1..Len(out) + 1 /\ DOMAIN out = 1..Len(out)
        /\ Len(out) \in Nat /\ Len(Append(out, m)) = Len(out) + 1
        /\ \A k \in 1..Len(out) : Append(out, m)[k] = out[k]
        /\ Append(out, m)[Len(out) + 1] = m
    BY <1>3, <1>4
  <1>6. Waiting(i) = {} /\ Waiting(i)' = {}
    BY <1>2, <1>3 DEF Waiting
  <1>7. StageOK(i)'
    <2>1. Append(out, m) # <<>> /\ Append(out, m)[Len(Append(out, m))].bag = b
      BY <1>3, <1>4, <1>5
    <2> QED
      BY <1>1, <1>2, <1>3, <1>6, <2>1 DEF DeliveryOK, StageOK
  <1>8. OutOK(i)'
    <2>1. \A a : Requested(q, a)' = Requested(q, a)
      BY <1>2 DEF Requested
    <2>2. ASSUME NEW k \in DOMAIN Append(out, m)
          PROVE  LET n == Append(out, m)[k] IN n.bag \in query[q].bags /\ n \in Requested(q, n.bag)
      <3>1. CASE k \in 1..Len(out)
        BY <1>1, <1>5, <3>1 DEF DeliveryOK, OutOK
      <3>2. CASE k = Len(out) + 1
        BY <1>3, <1>5, <3>2
      <3> QED
        BY <1>5, <3>1, <3>2
    <2>3. ASSUME NEW k \in DOMAIN Append(out, m), NEW l \in DOMAIN Append(out, m), k < l,
                 Append(out, m)[k].bag = Append(out, m)[l].bag
          PROVE  FileBefore(Append(out, m)[k], Append(out, m)[l])
      <3>1. k \in 1..Len(out) /\ Append(out, m)[k] = out[k]
        BY <1>5, <2>3
      <3>2. CASE l \in 1..Len(out)
        BY <1>1, <1>5, <2>3, <3>1, <3>2 DEF DeliveryOK, OutOK
      <3>3. CASE l = Len(out) + 1
        <4>1. out[k] \in ShownOf(i, b)
          BY <1>1, <1>3, <1>5, <2>3, <3>1, <3>3 DEF ShownOf, Shown
        <4> QED
          BY <1>3, <1>5, <3>1, <3>3, <4>1
      <3> QED
        BY <1>5, <3>2, <3>3
    <2> QED
      BY <1>2, <2>1, <2>2, <2>3 DEF OutOK
  <1>9. \A a : ShownOf(i, a)' = ShownOf(i, a) \cup (IF a = b THEN {m} ELSE {})
    <2>1. Shown(iter[i])' = Shown(iter[i]) \cup {m}
      <3>1. Shown(iter[i])' = {Append(out, m)[k] : k \in DOMAIN Append(out, m)}
        BY <1>2 DEF Shown
      <3>2. Shown(iter[i]) = {out[k] : k \in DOMAIN out}
        BY <1>1 DEF Shown
      <3>3. {Append(out, m)[k] : k \in DOMAIN Append(out, m)} = {out[k] : k \in DOMAIN out} \cup {m}
        <4>1. m \in AllMessages /\ out \in Seq(AllMessages)
          BY <1>3, <1>4
        <4> QED
          BY <4>1, AppendShown
      <3> QED
        BY <3>1, <3>2, <3>3
    <2> QED
      BY <1>3, <2>1 DEF ShownOf
  <1>10. ASSUME NEW a \in query[q].bags, a # b PROVE CursorOK(i, a)'
    <2>1. CursorOK(i, a) /\ a \in Bags /\ ~ReadsBag(i, a)
      BY <1>1, <1>3, <1>10 DEF DeliveryOK, ReadsBag
    <2>2. a \in iter'[i].queue <=> a \in iter[i].queue
      BY <1>2, <1>10
    <2>3. ShownOf(i, a)' = ShownOf(i, a)
      BY <1>9, <1>10
    <2> QED
      BY <1>1, <1>2, <1>3, <1>6, <2>1, <2>2, <2>3, CursorFrame
  <1>11. CursorOK(i, b)'
    <2>1. CursorOK(i, b)
      BY <1>1, <1>3 DEF DeliveryOK
    <2>2. Passed(q, b)' = Passed(q, b) /\ Held(i, b)' = {}
      BY <1>2 DEF Passed, Requested, Held
    <2>3. Passed(q, b)' = ShownOf(i, b)' \cup Held(i, b)'
      BY <1>3, <1>9, <2>2
    <2>4. b \notin iter'[i].queue /\ ReadsBag(i, b)' /\ b \notin Waiting(i)'
      BY <1>2, <1>6 DEF ReadsBag
    <2>5. /\ query' = query /\ wrapper' = wrapper /\ iter'[i].query = q
          /\ iter'[i].lost = iter[i].lost /\ iter[i].query = q
          /\ b \notin Waiting(i) \cup iter[i].lost
      BY <1>1, <1>2, <1>3, <1>6
    <2> QED
      BY <2>1, <2>3, <2>4, <2>5 DEF CursorOK
  <1> QED
    BY <1>2, <1>7, <1>8, <1>10, <1>11 DEF DeliveryOK

-----------------------------------------------------------------------------
(* The order of the messages.                                              *)

LEMMA DeliveryNext ==
  ASSUME OrderInv, BaseInv', [Next]_vars, NEW j \in Iterators, Exclusive(j)'
  PROVE  DeliveryOK(j)'
  <1>1. BaseInv /\ \A i \in Iterators : Exclusive(i) => DeliveryOK(i)
    BY DEF OrderInv
  <1>2. CASE \E k \in Iterators : Exclusive(k) /\ Same(k, j)
    BY <1>1, <1>2, FrameDelivery
  <1>3. CASE UNCHANGED vars
    <2>1. query' = query /\ iter' = iter /\ wrapper' = wrapper /\ call' = call
      BY <1>3 DEF vars
    <2>2. DeliveryOK(j)
      BY <1>1, <2>1 DEF Exclusive
    <2>3. /\ Waiting(j)' = Waiting(j) /\ \A a : ReadsBag(j, a)' <=> ReadsBag(j, a)
          /\ \A q, a : Requested(q, a)' = Requested(q, a)
      BY <2>1 DEF Waiting, ReadsBag, Requested
    <2>4. /\ \A q, a : Passed(q, a)' = Passed(q, a)
          /\ \A a : ShownOf(j, a)' = ShownOf(j, a) /\ Held(j, a)' = Held(j, a)
      BY <2>1, <2>3 DEF Passed, ShownOf, Shown, Held
    <2>5. StageOK(j)' /\ OutOK(j)'
      BY <2>1, <2>2, <2>3 DEF DeliveryOK, StageOK, OutOK
    <2>6. ASSUME NEW a, CursorOK(j, a) PROVE CursorOK(j, a)'
      BY <2>1, <2>3, <2>4, <2>6 DEF CursorOK
    <2> QED
      BY <2>1, <2>2, <2>5, <2>6 DEF DeliveryOK
  <1>4. CASE CallStep /\ call.it = j /\ Exclusive(j)
    <2>1. DeliveryOK(j)
      BY <1>1, <1>4
    <2>2. ASSUME NEW v, call.pc = "read", Throw(v) PROVE DeliveryOK(j)'
      BY <1>1, <1>4, <2>1, <2>2, ThrowDelivery
    <2>3. CASE UnknownRecord \/ UnreadableRecord
      BY <2>2, <2>3 DEF UnknownRecord, UnreadableRecord, AtRecord, Reading
    <2> QED
      BY <1>1, <1>4, <2>1, <2>3, BeginBagDelivery, LoadChunkDelivery, SkipRecordDelivery,
         TakeMessageDelivery, FinishChunkDelivery, ReadEndDelivery, ReturnDelivery DEF CallStep
  <1>5. CASE \E q \in Queries : Begin(j, q)
    BY <1>1, <1>5, BeginDelivery
  <1>6. CASE Increment(j) /\ Exclusive(j)
    BY <1>1, <1>6, IncrementDelivery
  <1> QED
    BY <1>1, <1>2, <1>3, <1>4, <1>5, <1>6, WhoMoves

LEMMA OrderInit == Init => OrderInv
  <1> SUFFICES ASSUME Init PROVE OrderInv
    OBVIOUS
  <1>1. \A q \in Queries, b \in Bags : ~query[q].made /\ wrapper[q][b] = NewWrapper({}, {})
    BY DEF Init, NoQuery
  <1>2. SelectionOK /\ PositionOK
    BY <1>1 DEF SelectionOK, PositionOK, NewWrapper
  <1>3. AloneOK
    BY DEF AloneOK, Init, Idle
  <1>4. \A i \in Iterators : ~Exclusive(i)
    BY DEF Init, NoIterator, Exclusive
  <1> QED
    BY <1>2, <1>3, <1>4, InitOK DEF OrderInv, BaseInv

LEMMA OrderNext == OrderInv /\ [Next]_vars => OrderInv'
  <1> SUFFICES ASSUME OrderInv, [Next]_vars PROVE OrderInv'
    OBVIOUS
  <1>1. Inv'
    BY NextOK DEF OrderInv, BaseInv
  <1>2. BaseInv'
    BY <1>1, BaseNext DEF OrderInv
  <1> QED
    BY <1>2, DeliveryNext DEF OrderInv

LEMMA OrderHolds == Spec => []OrderInv
  BY OrderNext, OrderInit, PTL DEF Spec

\* An iterator that began on untouched wrappers and that no other disturbs
\* shows what was asked for, in the order of the file, and nothing twice, for
\* all bags, filters and interleavings of calls (view.cc, readMessage).
THEOREM DeliveredInFileOrder == Spec => []RequestedInFileOrder
  <1>1. OrderInv => RequestedInFileOrder
    BY DEF OrderInv, DeliveryOK, OutOK, RequestedInFileOrder
  <1> QED
    BY <1>1, OrderHolds, PTL

-----------------------------------------------------------------------------
(* The order of time stamps.                                               *)

LEMMA TimeFacts ==
  ASSUME NEW m \in AllMessages
  PROVE  TimeOf(m) \in ros_time_t
  <1>1. PICK b \in Bags : m \in Messages(b)
    BY DEF AllMessages
  <1>2. /\ m.bag = b /\ m.chunk \in Chunks(b) /\ m.off \in Records(b, m.chunk)
    BY <1>1, MessageParts
  <1>3. RecordAt(b, m.chunk, m.off).ts \in ros_time_t
    BY <1>2, RecordAssumption
  <1> QED
    BY <1>2, <1>3 DEF TimeOf, RecordOf

\* The comparison of the view is a total preorder.
LEMMA NotAfterOrder ==
  /\ \A m \in AllMessages : NotAfter(m, m)
  /\ \A m, n, p \in AllMessages : NotAfter(m, n) /\ NotAfter(n, p) => NotAfter(m, p)
  <1>1. \A s, t, u \in ros_time_t :
          ~Greater(s, s) /\ (~Greater(s, t) /\ ~Greater(t, u) => ~Greater(s, u))
    BY TimeAssumption DEF ros_time_t, Greater
  <1> QED
    BY <1>1, TimeFacts DEF NotAfter

\* It agrees with to_nsec() on normalised time stamps.
LEMMA NotAfterNotLater ==
  ASSUME NEW m \in AllMessages, NEW n \in AllMessages, NotAfter(m, n)
  PROVE  NotLater(m, n)
  <1> DEFINE s == TimeOf(m)
             t == TimeOf(n)
  <1>1. /\ s.secs \in Nat /\ s.nsecs \in Nat /\ t.secs \in Nat /\ t.nsecs \in Nat
        /\ NsecsPerSec \in Nat
    BY TimeFacts, TimeAssumption DEF ros_time_t
  <1>2. ~Greater(s, t)
    BY DEF NotAfter
  <1> HIDE DEF s, t
  <1>3. ASSUME s.nsecs < NsecsPerSec, t.nsecs < NsecsPerSec
        PROVE  s.secs * NsecsPerSec + s.nsecs <= t.secs * NsecsPerSec + t.nsecs
    <2>1. CASE s.secs = t.secs
      BY <1>1, <1>2, <2>1 DEF Greater
    <2>2. CASE s.secs < t.secs
      <3>1. PICK d \in Nat : t.secs = s.secs + 1 + d
        <4>1. t.secs - s.secs - 1 \in Nat
          BY <1>1, <2>2
        <4> QED
          BY <1>1, <4>1
      <3>2. t.secs * NsecsPerSec = s.secs * NsecsPerSec + NsecsPerSec + d * NsecsPerSec
        BY <1>1, <3>1
      <3>3. d * NsecsPerSec \in Nat /\ s.secs * NsecsPerSec \in Nat
        BY <1>1, <3>1
      <3> QED
        BY <1>1, <1>3, <3>2, <3>3
    <2>3. s.secs = t.secs \/ s.secs < t.secs
      BY <1>1, <1>2 DEF Greater
    <2> QED
      BY <2>1, <2>2, <2>3
  <1> QED
    BY <1>3 DEF NotLater, Normalised, to_nsec, s, t

LEMMA FileBeforeIrreflexive ==
  ASSUME NEW m \in AllMessages
  PROVE  ~FileBefore(m, m)
  <1>1. PICK b \in Bags : m \in Messages(b)
    BY DEF AllMessages
  <1>2. m.bag = b /\ m.chunk \in Chunks(b) /\ m.off \in Nat
    BY <1>1, MessageParts
  <1> QED
    BY <1>2, ChunkOrder DEF FileBefore

-----------------------------------------------------------------------------
(* The order of the heads, and of time.                                    *)

\* Nothing is added to the queue, and what it holds stays.
LEMMA TimeFrame ==
  ASSUME NEW i \in Iterators, TimeOK(i), query' = query,
         iter'[i].query = iter[i].query, iter'[i].out = iter[i].out,
         iter'[i].queue = iter[i].queue,
         \A b \in iter[i].queue :
           wrapper'[iter[i].query][b].current = wrapper[iter[i].query][b].current,
         TopOK(i)'
  PROVE  TimeOK(i)'
  <1>1. PICK q : q = iter[i].query
    OBVIOUS
  <1>2. \A b : Requested(q, b)' = Requested(q, b) /\ SortedBag(q, b)' = SortedBag(q, b)
    BY DEF Requested, SortedBag
  <1>3. \A out, k, m : WasHead(q, out, k, m)' = WasHead(q, out, k, m)
    BY <1>2 DEF WasHead
  <1>4. HeadsOK(i)'
    BY <1>1, <1>3 DEF TimeOK, HeadsOK
  <1>5. SortedOK(i)'
    BY <1>1, <1>2 DEF TimeOK, SortedOK
  <1> QED
    BY <1>4, <1>5 DEF TimeOK

\* The top that top() may return, of an iterator that is alone.
LEMMA TopsEarliest ==
  ASSUME NEW i \in Iterators, iter[i].alone, NEW t \in Tops(i, iter[i].queue),
         iter'[i].queue = iter[i].queue, iter'[i].query = iter[i].query, iter'[i].top = t,
         \A b \in iter[i].queue :
           wrapper'[iter[i].query][b].current = wrapper[iter[i].query][b].current
  PROVE  TopOK(i)'
  <1>1. PICK q : q = iter[i].query
    OBVIOUS
  <1>2. ASSUME NEW b \in iter[i].queue
        PROVE  ~Greater(TimeOf(wrapper[q][t].current), TimeOf(wrapper[q][b].current))
               /\ t \in iter[i].queue
    BY <1>1 DEF Tops, ComesAfter
  <1> QED
    BY <1>1, <1>2 DEF TopOK, ComesAfter

\* Steps of a call that goes on: the iterator stays, and its heads stay.
LEMMA RunningTime ==
  ASSUME BaseInv, call.pc # "idle", CallGoesOn, NEW i, i = call.it, TimeOK(i),
         UNCHANGED iter, call'.it = i,
         \A b \in iter[i].queue :
           wrapper'[iter[i].query][b].current = wrapper[iter[i].query][b].current
  PROVE  TimeOK(i)'
  <1>1. i \in Iterators /\ query' = query
    BY CallFacts DEF BaseInv, CallGoesOn
  <1>2. TopOK(i)'
    BY DEF TopOK, Resting
  <1> QED
    BY <1>1, <1>2, TimeFrame

\* An iterator that rests has its top among the earliest.
LEMMA ReturnTime ==
  ASSUME BaseInv, Return, NEW i, i = call.it, iter[i].alone, TimeOK(i)
  PROVE  TimeOK(i)'
  <1>1. PICK t \in Tops(i, iter[i].queue) : iter' = [iter EXCEPT ![i].st = "live", ![i].top = t]
    BY DEF Return
  <1>2. i \in Iterators /\ iter \in [Iterators -> Iterator] /\ UNCHANGED <<query, wrapper>>
    BY CallFacts DEF Return, BaseInv, Inv, TypeOK
  <1>3. /\ iter'[i].query = iter[i].query /\ iter'[i].queue = iter[i].queue
        /\ iter'[i].out = iter[i].out /\ iter'[i].top = t
    BY <1>1, <1>2 DEF Iterator
  <1>4. TopOK(i)'
    BY <1>1, <1>2, <1>3, TopsEarliest
  <1> QED
    BY <1>2, <1>3, <1>4, TimeFrame

LEMMA ThrowTime ==
  ASSUME BaseInv, BaseInv', call.pc = "read", NEW i, i = call.it, DeliveryOK(i), TimeOK(i),
         NEW v, v.current = CallWrapper.current, Throw(v), Exclusive(i), Exclusive(i)'
  PROVE  TimeOK(i)'
  <1>1. /\ i \in Iterators /\ iter \in [Iterators -> Iterator] /\ query' = query
        /\ call.bag \notin iter[i].queue /\ iter[i].alone
        /\ iter[i].queue \subseteq Bags /\ SetWrapper(v)
    BY ReadBagFacts DEF Throw, BaseInv, Inv, TypeOK, Exclusive, Iterator
  <1>2. PICK t \in Tops(i, iter[i].queue) :
          iter' = [iter EXCEPT ![i].top = t, ![i].lost = @ \cup {call.bag}]
    <2>1. iter' # [iter EXCEPT ![i] = NoIterator]
      BY <1>1 DEF Exclusive, NoIterator
    <2> QED
      BY <2>1 DEF Throw
  <1>3. /\ iter'[i].query = iter[i].query /\ iter'[i].queue = iter[i].queue
        /\ iter'[i].out = iter[i].out /\ iter'[i].top = t
    BY <1>1, <1>2 DEF Iterator
  <1>4. \A b \in iter[i].queue :
          wrapper'[iter[i].query][b].current = wrapper[iter[i].query][b].current
    BY <1>1, ReadWrapper DEF BaseInv, CallQuery
  <1>5. TopOK(i)'
    BY <1>1, <1>2, <1>3, <1>4, TopsEarliest
  <1> QED
    BY <1>1, <1>3, <1>4, <1>5, TimeFrame

\* The message that is pushed comes after the last one that was shown, in its
\* own bag: it was not at the head before, and it is in order if the bag is.
LEMMA TakeMessageTime ==
  ASSUME BaseInv, BaseInv', TakeMessage, NEW i, i = call.it, DeliveryOK(i), TimeOK(i)
  PROVE  TimeOK(i)'
  <1>1. PICK b, q, w, m, v, out, Q :
          /\ b = call.bag /\ q = CallQuery /\ w = CallWrapper
          /\ m = [bag |-> b, chunk |-> w.current_buffer, off |-> Here]
          /\ v = [w EXCEPT !.processed_bytes = AfterRecord, !.current = m]
          /\ out = iter[i].out /\ Q = iter[i].queue
    OBVIOUS
  <1>2. /\ call.pc = "read" /\ SetWrapper(v) /\ query' = query
        /\ v.current = m /\ m.bag = b /\ m \in Requested(q, b)
        /\ \A n \in Requested(q, b) : Before(n, w) => FileBefore(n, m)
    BY <1>1, TakeFacts
  <1>3. /\ i \in Iterators /\ b \in Bags /\ q = iter[i].query /\ w = wrapper[q][b]
        /\ b \notin Q /\ Q \subseteq Bags /\ iter[i] \in Iterator /\ iter[i].st # "none"
        /\ out \in Seq(AllMessages)
    BY <1>1, <1>2, ReadBagFacts, CallFacts
       DEF BaseInv, CallQuery, CallWrapper, Inv, TypeOK, Iterator
  <1>4. \A n \in ShownOf(i, b) : n \in Requested(q, b) /\ FileBefore(n, m)
    <2>1. Passed(q, b) = ShownOf(i, b)
      BY <1>1, <1>2, ReadBagFacts DEF BaseInv
    <2> QED
      BY <1>2, <1>3, <2>1 DEF Passed
  <1>5. /\ iter'[i].queue = Q \cup {b} /\ iter'[i].out = out /\ iter'[i].query = q
        /\ call'.it = i
    <2>1. iter \in [Iterators -> Iterator] /\ call \in Call
      BY DEF BaseInv, Inv, TypeOK
    <2>2. iter' = [iter EXCEPT ![i].queue = @ \cup {b}]
          /\ call' = [call EXCEPT !.pc = "loop", !.bag = None]
      BY <1>1 DEF TakeMessage
    <2> QED
      BY <1>1, <1>3, <2>1, <2>2 DEF Iterator, Call
  <1>6. wrapper'[q][b].current = m /\ \A a \in Q : wrapper'[q][a] = wrapper[q][a]
    <2>1. /\ wrapper'[CallQuery][call.bag] = v
          /\ \A a \in Bags \ {call.bag} : wrapper'[CallQuery][a] = wrapper[CallQuery][a]
      BY <1>2, ReadWrapper DEF BaseInv
    <2> QED
      BY <1>1, <1>2, <1>3, <2>1
  <1>7. out = <<>> \/ /\ Len(out) \in DOMAIN out /\ out[Len(out)].bag = b
                      /\ out[Len(out)] \in Requested(q, b) /\ FileBefore(out[Len(out)], m)
    <2>1. CASE iter[i].st = "building"
      BY <1>1, <2>1 DEF DeliveryOK, StageOK
    <2>2. CASE iter[i].st = "live"
      <3>1. out # <<>> /\ out[Len(out)].bag = b
        BY <1>1, <1>2, <2>2 DEF DeliveryOK, StageOK
      <3>2. Len(out) \in DOMAIN out
        BY <1>3, <3>1
      <3>3. out[Len(out)] \in ShownOf(i, b)
        BY <1>1, <3>1, <3>2 DEF ShownOf, Shown
      <3> QED
        BY <1>4, <3>1, <3>2, <3>3
    <2> QED
      BY <1>3, <2>1, <2>2 DEF Iterator
  <1>8. TopOK(i)'
    BY <1>5 DEF TopOK, Resting
  <1>9. \A a : Requested(q, a)' = Requested(q, a) /\ SortedBag(q, a)' = SortedBag(q, a)
    BY <1>2 DEF Requested, SortedBag
  <1>10. \A k, n : WasHead(q, out, k, n)' = WasHead(q, out, k, n)
    BY <1>9 DEF WasHead
  <1>11. /\ DOMAIN out = 1..Len(out) /\ Len(out) \in Nat
         /\ \A k \in DOMAIN out : out[k] \in AllMessages
    BY <1>3
  <1>12. \A k \in DOMAIN out : ~WasHead(q, out, k, m)
    <2> SUFFICES ASSUME NEW k \in DOMAIN out, WasHead(q, out, k, m) PROVE FALSE
      OBVIOUS
    <2>1. /\ Len(out) \in DOMAIN out /\ out[Len(out)].bag = b
          /\ out[Len(out)] \in Requested(q, b) /\ FileBefore(out[Len(out)], m)
      BY <1>7
    <2>2. PICK l \in 1..k-1 : out[l] = out[Len(out)]
      BY <1>2, <2>1 DEF WasHead
    <2>3. l \in DOMAIN out /\ l < Len(out)
      BY <1>11
    <2>4. FileBefore(out[l], out[Len(out)])
      BY <1>1, <2>1, <2>2, <2>3 DEF DeliveryOK, OutOK
    <2> QED
      BY <1>11, <2>1, <2>2, <2>4, FileBeforeIrreflexive
  <1>13. HeadsOK(i)'
    <2>1. HeadsOK(i)
      BY DEF TimeOK
    <2>2. ASSUME NEW k \in DOMAIN out
          PROVE  /\ \A l \in DOMAIN out :
                      k < l /\ WasHead(q, out, k, out[l]) => NotAfter(out[k], out[l])
                 /\ \A a \in Q \cup {b} :
                      LET n == wrapper'[q][a].current IN
                      WasHead(q, out, k, n) => NotAfter(out[k], n)
      <3>1. /\ \A l \in DOMAIN out :
                 k < l /\ WasHead(q, out, k, out[l]) => NotAfter(out[k], out[l])
            /\ \A a \in Q : WasHead(q, out, k, wrapper[q][a].current)
                              => NotAfter(out[k], wrapper[q][a].current)
        BY <1>1, <1>3, <2>1 DEF HeadsOK
      <3> QED
        BY <1>6, <1>12, <3>1
    <2> QED
      BY <1>5, <1>10, <2>2 DEF HeadsOK
  <1>14. ASSUME SortedBag(q, b), SortedOK(i), \A a \in query[q].bags : SortedBag(q, a),
                NEW k \in DOMAIN out
         PROVE  NotAfter(out[k], m)
    <2>1. /\ Len(out) \in DOMAIN out /\ out[Len(out)] \in Requested(q, b)
          /\ FileBefore(out[Len(out)], m)
      BY <1>7
    <2>2. NotAfter(out[Len(out)], m)
      BY <1>2, <1>14, <2>1 DEF SortedBag, NotAfter
    <2>3. m \in AllMessages /\ out[k] \in AllMessages /\ out[Len(out)] \in AllMessages
      BY <1>2, <1>3, <1>11, <2>1 DEF Requested, AllMessages
    <2>4. NotAfter(out[k], out[Len(out)])
      <3>1. CASE k < Len(out)
        BY <1>1, <1>3, <1>14, <2>1, <3>1 DEF SortedOK
      <3>2. CASE k = Len(out)
        BY <2>3, <3>2, NotAfterOrder
      <3> QED
        BY <1>11, <3>1, <3>2
    <2> QED
      BY <2>2, <2>3, <2>4, NotAfterOrder
  <1>15. SortedOK(i)'
    <2>1. SortedOK(i) /\ b \in query[q].bags
      BY <1>1, <1>2, ReadBagFacts DEF TimeOK, BaseInv
    <2>2. ASSUME \A a \in query[q].bags : SortedBag(q, a), NEW k \in DOMAIN out
          PROVE  /\ \A l \in DOMAIN out : k < l => NotAfter(out[k], out[l])
                 /\ \A a \in Q \cup {b} : NotAfter(out[k], wrapper'[q][a].current)
      <3>1. /\ \A l \in DOMAIN out : k < l => NotAfter(out[k], out[l])
            /\ \A a \in Q : NotAfter(out[k], wrapper[q][a].current)
        BY <1>1, <1>3, <2>1, <2>2 DEF SortedOK
      <3>2. NotAfter(out[k], m)
        BY <1>14, <2>1, <2>2
      <3> QED
        BY <1>6, <3>1, <3>2
    <2>3. (\A a \in query'[q].bags : SortedBag(q, a)') => \A a \in query[q].bags : SortedBag(q, a)
      BY <1>2, <1>9
    <2> QED
      BY <1>5, <2>2, <2>3 DEF SortedOK
  <1> QED
    BY <1>8, <1>13, <1>15 DEF TimeOK

\* ++ shows one of the earliest of the messages that are held.
LEMMA IncrementTime ==
  ASSUME BaseInv, NEW i \in Iterators, Increment(i), Exclusive(i), DeliveryOK(i), TimeOK(i)
  PROVE  TimeOK(i)'
  <1>1. PICK q, b, m, out, Q, new :
          /\ q = iter[i].query /\ b = iter[i].top /\ m = wrapper[q][b].current
          /\ out = iter[i].out /\ Q = iter[i].queue /\ new = Append(out, m)
    OBVIOUS
  <1>2. /\ call.pc = "idle" /\ iter[i].st = "live" /\ iter[i].queue # {}
        /\ UNCHANGED <<query, wrapper>>
        /\ iter'[i].query = q /\ iter'[i].queue = Q \ {b} /\ iter'[i].out = new
        /\ call'.it = i
    BY <1>1, IncrementFacts
  <1>3. b \in Q /\ m \in AllMessages /\ Resting(i)
    <2>1. /\ iter[i].top \in iter[i].queue /\ Resting(i)
          /\ wrapper[iter[i].query][iter[i].top].current \in AllMessages
      BY <1>2, TopFacts
    <2> QED
      BY <1>1, <2>1
  <1>4. out \in Seq(AllMessages)
    BY <1>1 DEF BaseInv, Inv, TypeOK, Iterator
  <1>5. /\ DOMAIN new = 1..Len(out) + 1 /\ DOMAIN out = 1..Len(out) /\ Len(out) \in Nat
        /\ \A k \in 1..Len(out) : new[k] = out[k]
        /\ new[Len(out) + 1] = m
    BY <1>1, <1>3, <1>4
  <1>6. TopOK(i)'
    BY <1>2 DEF TopOK, Resting
  <1>7. ASSUME NEW a \in Q PROVE NotAfter(m, wrapper[q][a].current)
    BY <1>1, <1>3 DEF TimeOK, TopOK, ComesAfter, NotAfter
  <1>8. /\ \A a : Requested(q, a)' = Requested(q, a) /\ SortedBag(q, a)' = SortedBag(q, a)
        /\ \A k, n : WasHead(q, new, k, n)' = WasHead(q, new, k, n)
    <2>1. \A a : Requested(q, a)' = Requested(q, a) /\ SortedBag(q, a)' = SortedBag(q, a)
      BY <1>2 DEF Requested, SortedBag
    <2> QED
      BY <2>1 DEF WasHead
  <1>9. ASSUME NEW k \in 1..Len(out), NEW n, WasHead(q, new, k, n) PROVE WasHead(q, out, k, n)
    <2> SUFFICES ASSUME NEW p \in Requested(q, n.bag), FileBefore(p, n)
                 PROVE  \E l \in 1..k-1 : out[l] = p
      BY DEF WasHead
    <2>1. PICK l \in 1..k-1 : new[l] = p
      BY <1>9 DEF WasHead
    <2>2. l \in 1..Len(out)
      BY <1>5
    <2> QED
      BY <1>5, <2>1, <2>2
  <1>10. HeadsOK(i)'
    <2>1. ASSUME NEW k \in DOMAIN out
          PROVE  /\ \A l \in DOMAIN out :
                      k < l /\ WasHead(q, out, k, out[l]) => NotAfter(out[k], out[l])
                 /\ \A a \in Q : WasHead(q, out, k, wrapper[q][a].current)
                                   => NotAfter(out[k], wrapper[q][a].current)
      BY <1>1 DEF TimeOK, HeadsOK
    <2>2. ASSUME NEW k \in DOMAIN new
          PROVE  /\ \A l \in DOMAIN new :
                      k < l /\ WasHead(q, new, k, new[l]) => NotAfter(new[k], new[l])
                 /\ \A a \in Q \ {b} : WasHead(q, new, k, wrapper[q][a].current)
                                         => NotAfter(new[k], wrapper[q][a].current)
      <3>1. CASE k = Len(out) + 1
        BY <1>5, <1>7, <3>1
      <3>2. CASE k \in 1..Len(out)
        <4>1. ASSUME NEW l \in DOMAIN new, k < l, WasHead(q, new, k, new[l])
              PROVE  NotAfter(new[k], new[l])
          <5>1. WasHead(q, out, k, new[l])
            BY <1>9, <3>2, <4>1
          <5>2. CASE l = Len(out) + 1
            <6>1. new[k] = out[k] /\ new[l] = wrapper[q][b].current /\ k \in DOMAIN out
              BY <1>1, <1>5, <3>2, <5>2
            <6> QED
              BY <1>3, <2>1, <5>1, <6>1
          <5>3. CASE l \in 1..Len(out)
            BY <1>5, <2>1, <3>2, <4>1, <5>1, <5>3
          <5> QED
            BY <1>5, <5>2, <5>3
        <4>2. \A a \in Q \ {b} : WasHead(q, new, k, wrapper[q][a].current)
                                   => NotAfter(new[k], wrapper[q][a].current)
          BY <1>5, <1>9, <2>1, <3>2
        <4> QED
          BY <4>1, <4>2
      <3> QED
        BY <1>5, <3>1, <3>2
    <2> QED
      BY <1>2, <1>8, <2>2 DEF HeadsOK
  <1>11. SortedOK(i)'
    <2>1. ASSUME \A a \in query[q].bags : SortedBag(q, a), NEW k \in DOMAIN out
          PROVE  /\ \A l \in DOMAIN out : k < l => NotAfter(out[k], out[l])
                 /\ \A a \in Q : NotAfter(out[k], wrapper[q][a].current)
      BY <1>1, <2>1 DEF TimeOK, SortedOK
    <2>2. ASSUME \A a \in query[q].bags : SortedBag(q, a), NEW k \in DOMAIN new
          PROVE  /\ \A l \in DOMAIN new : k < l => NotAfter(new[k], new[l])
                 /\ \A a \in Q \ {b} : NotAfter(new[k], wrapper[q][a].current)
      <3>1. CASE k = Len(out) + 1
        BY <1>5, <1>7, <3>1
      <3>2. CASE k \in 1..Len(out)
        <4>1. /\ \A l \in DOMAIN out : k < l => NotAfter(out[k], out[l])
              /\ \A a \in Q : NotAfter(out[k], wrapper[q][a].current)
          BY <1>5, <2>1, <2>2, <3>2
        <4>2. ASSUME NEW l \in DOMAIN new, k < l PROVE NotAfter(new[k], new[l])
          <5>1. CASE l = Len(out) + 1
            <6>1. NotAfter(out[k], wrapper[q][b].current)
              BY <1>3, <4>1
            <6> QED
              BY <1>1, <1>5, <3>2, <5>1, <6>1
          <5>2. CASE l \in 1..Len(out)
            BY <1>5, <3>2, <4>1, <4>2, <5>2
          <5> QED
            BY <1>5, <5>1, <5>2
        <4> QED
          BY <1>5, <3>2, <4>1, <4>2
      <3> QED
        BY <1>5, <3>1, <3>2
    <2>3. (\A a \in query'[q].bags : SortedBag(q, a)') => \A a \in query[q].bags : SortedBag(q, a)
      BY <1>2, <1>8
    <2> QED
      BY <1>2, <2>2, <2>3 DEF SortedOK
  <1> QED
    BY <1>6, <1>10, <1>11 DEF TimeOK

LEMMA QuietTime ==
  ASSUME BaseInv, BaseInv', call.pc = "read", NEW i, i = call.it, DeliveryOK(i), TimeOK(i),
         NEW v, SetWrapper(v), UNCHANGED <<query, iter, call>>
  PROVE  TimeOK(i)'
  <1>1. i \in Iterators /\ iter[i].queue \subseteq Bags /\ call.bag \notin iter[i].queue
    BY ReadBagFacts DEF BaseInv, Inv, TypeOK, Iterator
  <1>2. \A b \in iter[i].queue : wrapper'[iter[i].query][b] = wrapper[iter[i].query][b]
    BY <1>1, ReadWrapper DEF BaseInv, CallQuery
  <1>3. TopOK(i)'
    BY DEF TopOK, Resting
  <1> QED
    BY <1>1, <1>2, <1>3, TimeFrame

LEMMA ReadTime ==
  ASSUME BaseInv, BaseInv', ReadStep, NEW i, i = call.it, DeliveryOK(i), TimeOK(i),
         Exclusive(i), Exclusive(i)'
  PROVE  TimeOK(i)'
  <1> DEFINE w == CallWrapper
  <1>1. call.pc = "read"
    BY DEF ReadStep, LoadChunk, SkipRecord, TakeMessage, UnknownRecord, UnreadableRecord,
           FinishChunk, AtRecord, Reading
  <1>2. w \in BagWrapper(call.bag)
    BY <1>1, CallFacts DEF BaseInv
  <1>3. CASE LoadChunk
    <2>1. PICK c : \/ SetWrapper(Loaded(c)) /\ UNCHANGED <<query, iter, call>>
                   \/ Throw(Broken(c))
                   \/ Throw(Spoiled(c))
      BY <1>3, LoadChunkFirst
    <2>2. Broken(c).current = w.current /\ Spoiled(c).current = w.current
      BY <1>2 DEF Broken, Spoiled, BagWrapper
    <2> QED
      BY <1>1, <2>1, <2>2, QuietTime, ThrowTime
  <1>4. CASE SkipRecord \/ FinishChunk
    <2>1. \E v : SetWrapper(v) /\ UNCHANGED <<query, iter, call>>
      BY <1>4 DEF SkipRecord, FinishChunk
    <2> QED
      BY <1>1, <2>1, QuietTime
  <1>5. CASE UnknownRecord \/ UnreadableRecord
    <2>1. \E p : Throw([w EXCEPT !.processed_bytes = p])
      BY <1>5 DEF UnknownRecord, UnreadableRecord
    <2>2. \A p : [w EXCEPT !.processed_bytes = p].current = w.current
      BY <1>2 DEF BagWrapper
    <2> QED
      BY <1>1, <2>1, <2>2, ThrowTime
  <1> QED
    BY <1>3, <1>4, <1>5, TakeMessageTime DEF ReadStep

LEMMA TimeNext ==
  ASSUME MergeInv, BaseInv', [Next]_vars, NEW j \in Iterators, Exclusive(j)'
  PROVE  TimeOK(j)'
  <1>1. /\ BaseInv
        /\ \A i \in Iterators : Exclusive(i) => DeliveryOK(i)
        /\ \A i \in Iterators : Exclusive(i) => TimeOK(i)
    BY DEF MergeInv, OrderInv
  <1>2. CASE \E k \in Iterators : Exclusive(k) /\ Same(k, j)
    BY <1>1, <1>2, FrameTime
  <1>3. CASE UNCHANGED vars
    <2>1. query' = query /\ iter' = iter /\ wrapper' = wrapper /\ call' = call
      BY <1>3 DEF vars
    <2>2. TimeOK(j)
      BY <1>1, <2>1 DEF Exclusive
    <2>3. TopOK(j)'
      BY <2>1, <2>2 DEF TimeOK, TopOK, Resting, ComesAfter
    <2> QED
      BY <2>1, <2>2, <2>3, TimeFrame
  <1>4. CASE CallStep /\ call.it = j /\ Exclusive(j)
    <2>1. DeliveryOK(j) /\ TimeOK(j)
      BY <1>1, <1>4
    <2>2. CASE ReadStep
      BY <1>1, <1>4, <2>1, <2>2, ReadTime
    <2>3. CASE Return
      BY <1>1, <1>4, <2>1, <2>3, ReturnTime DEF Exclusive
    <2>4. ASSUME UNCHANGED <<query, iter>>, call'.it = j,
                 \A q \in Queries, b \in Bags : wrapper'[q][b].current = wrapper[q][b].current
          PROVE  TimeOK(j)'
      <3>1. TopOK(j)'
        BY <2>4 DEF TopOK, Resting
      <3>2. iter[j].query \in Queries /\ iter[j].queue \subseteq Bags
        BY <1>1, <1>4 DEF BaseInv, Inv, TypeOK, StructureOK, IteratorOK, Exclusive, Iterator
      <3> QED
        BY <2>1, <2>4, <3>1, <3>2, TimeFrame
    <2>5. CASE ReadEnd
      BY <1>1, <1>4, <2>4, <2>5 DEF ReadEnd, BaseInv, Inv, TypeOK, Call
    <2>6. ASSUME NEW b \in Bags, BeginBag(b) PROVE TimeOK(j)'
      <3> DEFINE w == wrapper[CallQuery][b]
                 v == [w EXCEPT !.chunk_iter = w.chunks_to_parse]
      <3>1. /\ call.pc = "loop" /\ UNCHANGED <<query, iter>>
            /\ wrapper' = [wrapper EXCEPT ![CallQuery][b] = v]
            /\ call' = [call EXCEPT !.pc = "read", !.bag = b, !.todo = @ \ {b}]
        BY <2>6 DEF BeginBag
      <3>2. CallQuery \in Queries
        BY <1>1, <3>1, CallFacts DEF BaseInv
      <3>3. w \in BagWrapper(b) /\ call'.it = j
        BY <1>1, <1>4, <3>1, <3>2 DEF BaseInv, Inv, TypeOK, Call
      <3>4. v.current = w.current
        BY <3>3 DEF BagWrapper
      <3> HIDE DEF v
      <3>5. \A q \in Queries, a \in Bags : wrapper'[q][a].current = wrapper[q][a].current
        BY <1>1, <3>1, <3>2, <3>4 DEF BaseInv, Inv, TypeOK
      <3> QED
        BY <2>4, <3>1, <3>3, <3>5
    <2> QED
      BY <1>4, <2>2, <2>3, <2>5, <2>6 DEF CallStep, ReadStep
  <1>5. ASSUME NEW q \in Queries, Begin(j, q) PROVE TimeOK(j)'
    <2>1. iter'[j].out = <<>> /\ iter'[j].st = "building"
      <3>1. j \in DOMAIN Disturb(j, q)
        BY DEF Disturb
      <3> QED
        BY <1>5, <3>1 DEF Begin, NoIterator
    <2> QED
      BY <2>1 DEF TimeOK, TopOK, Resting, HeadsOK, SortedOK
  <1>6. CASE Increment(j) /\ Exclusive(j)
    BY <1>1, <1>6, IncrementTime
  <1> QED
    BY <1>1, <1>2, <1>3, <1>4, <1>5, <1>6, WhoMoves

LEMMA MergeHolds == Spec => []MergeInv
  <1>1. Init => MergeInv
    <2> SUFFICES ASSUME Init PROVE MergeInv
      OBVIOUS
    <2>1. \A i \in Iterators : ~Exclusive(i)
      BY DEF Init, NoIterator, Exclusive
    <2> QED
      BY <2>1, OrderInit DEF MergeInv
  <1>2. MergeInv /\ [Next]_vars => MergeInv'
    <2> SUFFICES ASSUME MergeInv, [Next]_vars PROVE MergeInv'
      OBVIOUS
    <2>1. OrderInv /\ Inv'
      BY NextOK DEF MergeInv, OrderInv, BaseInv
    <2>2. BaseInv'
      BY <2>1, BaseNext DEF OrderInv
    <2> QED
      BY <2>1, <2>2, DeliveryNext, TimeNext DEF OrderInv, MergeInv
  <1> QED
    BY <1>1, <1>2, PTL DEF Spec

\* Of two messages that were both at the head of their bags, the earlier one
\* is shown first, for all bags and filters and whatever other iterators do
\* (view.h, timestamp_compare_t).
THEOREM HeadsInOrder == Spec => []EarlierHeadFirst
  <1>1. MergeInv => EarlierHeadFirst
    <2> SUFFICES ASSUME MergeInv, NEW i \in Iterators, Exclusive(i),
                        NEW k \in DOMAIN iter[i].out, NEW l \in DOMAIN iter[i].out, k < l,
                        WasHead(iter[i].query, iter[i].out, k, iter[i].out[l])
                 PROVE  NotLater(iter[i].out[k], iter[i].out[l])
      BY DEF EarlierHeadFirst
    <2>1. NotAfter(iter[i].out[k], iter[i].out[l])
      BY DEF MergeInv, TimeOK, HeadsOK
    <2>2. iter[i].out \in Seq(AllMessages)
      BY DEF MergeInv, OrderInv, BaseInv, Inv, TypeOK, Iterator
    <2> QED
      BY <2>1, <2>2, NotAfterNotLater
  <1> QED
    BY <1>1, MergeHolds, PTL

\* Bags that are in order come out in order of time (view.cc, operator++).
THEOREM MergedInTimeOrder == Spec => []TimeOrdered
  <1>1. MergeInv => TimeOrdered
    <2> SUFFICES ASSUME MergeInv, NEW i \in Iterators, Exclusive(i),
                        \A b \in query[iter[i].query].bags : SortedBag(iter[i].query, b),
                        NEW k \in DOMAIN iter[i].out, NEW l \in DOMAIN iter[i].out, k < l
                 PROVE  NotLater(iter[i].out[k], iter[i].out[l])
      BY DEF TimeOrdered
    <2>1. NotAfter(iter[i].out[k], iter[i].out[l])
      BY DEF MergeInv, TimeOK, SortedOK
    <2>2. iter[i].out \in Seq(AllMessages)
      BY DEF MergeInv, OrderInv, BaseInv, Inv, TypeOK, Iterator
    <2> QED
      BY <2>1, <2>2, NotAfterNotLater
  <1> QED
    BY <1>1, MergeHolds, PTL

LEMMA ToNsecType ==
  ASSUME NEW t \in ros_time_t
  PROVE  to_nsec(t) \in Nat
  <1>1. t.secs \in Nat /\ t.nsecs \in Nat /\ NsecsPerSec \in Nat
    BY TimeAssumption DEF ros_time_t
  <1>2. t.secs * NsecsPerSec \in Nat
    BY <1>1
  <1> QED
    BY <1>1, <1>2 DEF to_nsec

-----------------------------------------------------------------------------
(* The refinement.  What an iterator that rests shows is what Merge allows. *)

\* What lies before the cursor precedes what does not.
LEMMA CursorSplits ==
  ASSUME NEW b \in Bags, NEW w \in BagWrapper(b), UpwardClosed(b, w),
         w.current_buffer # None => IsFirstChunk(b, w.current_buffer, w.chunk_iter),
         NEW m \in Messages(b), m.chunk \in w.chunks_to_parse, Before(m, w),
         NEW n \in Messages(b), n.chunk \in w.chunks_to_parse, ~Before(n, w)
  PROVE  FileBefore(m, n)
  <1>1. /\ m.bag = b /\ n.bag = b /\ m.off \in Nat /\ n.off \in Nat
        /\ m.chunk \in Chunks(b) /\ n.chunk \in Chunks(b) /\ m.chunk # None
    BY MessageParts, SentinelAssumption
  <1>2. n.chunk \in w.chunk_iter /\ w.processed_bytes \in Nat
    BY DEF Before, BagWrapper
  <1>3. CASE m.chunk \notin w.chunk_iter
    <2>1. m.chunk # n.chunk /\ ~ChunkBefore(b, n.chunk, m.chunk)
      BY <1>2, <1>3 DEF UpwardClosed
    <2> QED
      BY <1>1, <2>1, ChunkOrder DEF FileBefore
  <1>4. CASE m.chunk = w.current_buffer /\ m.off < w.processed_bytes
    <2>1. CASE n.chunk = m.chunk
      <3>1. ~(n.off < w.processed_bytes)
        BY <1>4, <2>1 DEF Before
      <3> QED
        BY <1>1, <1>2, <1>4, <2>1, <3>1 DEF FileBefore
    <2>2. CASE n.chunk # m.chunk
      BY <1>1, <1>2, <1>4, <2>2 DEF IsFirstChunk, FileBefore
    <2> QED
      BY <2>1, <2>2
  <1> QED
    BY <1>3, <1>4 DEF Before

\* The order of the file is a strict order.
LEMMA FileBeforeAsymmetric ==
  ASSUME NEW b \in Bags, NEW m \in Messages(b), NEW n \in Messages(b)
  PROVE  ~(FileBefore(m, n) /\ FileBefore(n, m))
  <1>1. /\ m.bag = b /\ n.bag = b /\ m.off \in Nat /\ n.off \in Nat
        /\ m.chunk \in Chunks(b) /\ n.chunk \in Chunks(b)
    BY MessageParts
  <1> QED
    BY <1>1, ChunkOrder DEF FileBefore

\* What a resting iterator has left of a bag: nothing, if the bag is not in the
\* queue; else the message it holds comes before all the rest.
LEMMA LeftFacts ==
  ASSUME BaseInv, NEW i \in Iterators, Exclusive(i), Resting(i), DeliveryOK(i), NEW b \in Bags
  PROVE  LET x == iter[i]
             m == wrapper[x.query][b].current IN
         /\ b \notin x.queue => Left(x, b) = {}
         /\ b \in x.queue =>
              /\ m \in Left(x, b) /\ m \in Messages(b)
              /\ \A n \in Left(x, b) : n \in Messages(b) /\ (n # m => FileBefore(m, n))
  <1> DEFINE x == iter[i]
             q == x.query
             w == wrapper[q][b]
             m == w.current
  <1>1. /\ q \in Queries /\ query[q].made /\ w \in BagWrapper(b) /\ UpwardClosed(b, w)
        /\ Requested(q, b) \subseteq Messages(b)
    BY DEF BaseInv, Inv, TypeOK, StructureOK, IteratorOK, Exclusive, PositionOK, UpwardClosed,
           Requested
  <1>2. Waiting(i) = {} /\ ~ReadsBag(i, b)
    BY DEF Resting, Waiting, ReadsBag
  <1>3. ASSUME b \notin query[q].bags \ x.lost
        PROVE  Left(x, b) = {} /\ b \notin x.queue
    BY <1>3 DEF Left, DeliveryOK, StageOK
  <1>4. ASSUME b \in query[q].bags \ x.lost
        PROVE  /\ Left(x, b) = Requested(q, b) \ Shown(x)
               /\ Passed(q, b) = ShownOf(i, b) \cup Held(i, b)
               /\ w.current_buffer # None => IsFirstChunk(b, w.current_buffer, w.chunk_iter)
               /\ b \in x.queue => \A n \in ShownOf(i, b) : FileBefore(n, m)
               /\ b \notin x.queue => w.chunk_iter = {}
    <2>1. Left(x, b) = Requested(q, b) \ Shown(x)
      BY <1>4 DEF Left
    <2>2. CursorOK(i, b)
      BY <1>4 DEF DeliveryOK
    <2> QED
      BY <1>2, <1>4, <2>1, <2>2 DEF CursorOK
  <1>5. ASSUME b \in query[q].bags \ x.lost, b \notin x.queue
        PROVE  Left(x, b) = {}
    <2>1. Passed(q, b) = Requested(q, b)
      BY <1>4, <1>5 DEF Passed, Before
    <2>2. Passed(q, b) = ShownOf(i, b)
      BY <1>4, <1>5 DEF Held
    <2> QED
      BY <1>4, <1>5, <2>1, <2>2 DEF ShownOf
  <1>6. ASSUME b \in query[q].bags \ x.lost, b \in x.queue
        PROVE  /\ m \in Left(x, b) /\ m \in Messages(b)
               /\ \A n \in Left(x, b) : n \in Messages(b) /\ (n # m => FileBefore(m, n))
    <2>1. Passed(q, b) = ShownOf(i, b) \cup {m}
      BY <1>4, <1>6 DEF Held
    <2>2. m \in Requested(q, b) /\ Before(m, w) /\ m \in Messages(b)
      BY <1>1, <2>1 DEF Passed
    <2>3. m \notin Shown(x)
      <3>1. m.bag = b /\ ~FileBefore(m, m)
        BY <2>2, MessageParts, MessageFacts, FileBeforeIrreflexive
      <3> QED
        BY <1>4, <1>6, <3>1 DEF ShownOf
    <2>4. ASSUME NEW n \in Left(x, b), n # m PROVE FileBefore(m, n)
      <3>1. n \in Requested(q, b) /\ n \notin Shown(x)
        BY <1>4, <1>6
      <3>2. ~Before(n, w)
        BY <2>1, <2>4, <3>1 DEF Passed, ShownOf
      <3>3. m.chunk \in w.chunks_to_parse /\ n.chunk \in w.chunks_to_parse
        BY <1>1, <2>2, <3>1, RequestedFacts
      <3> QED
        BY <1>1, <1>4, <1>6, <2>2, <3>1, <3>2, <3>3, CursorSplits
    <2> QED
      BY <1>1, <1>4, <1>6, <2>2, <2>3, <2>4
  <1> QED
    BY <1>3, <1>5, <1>6

\* The messages that an iterator has left.
LeftOf(i) == [b \in Bags |-> Left(iter[i], b)]

EarliestShown ==
  \A i \in Iterators :
    Exclusive(i) /\ Resting(i) => Shows(i) \in Abstract!Earliest(LeftOf(i))

LEMMA ShowsEarliest == MergeInv => EarliestShown
  <1> SUFFICES ASSUME MergeInv, NEW i \in Iterators, Exclusive(i), Resting(i)
               PROVE  Shows(i) \in Abstract!Earliest(LeftOf(i))
    BY DEF EarliestShown
  <1> DEFINE x == iter[i]
             q == x.query
             cur(b) == wrapper[q][b].current
  <1>1. BaseInv /\ DeliveryOK(i) /\ TopOK(i) /\ x.queue \subseteq Bags
    BY DEF MergeInv, OrderInv, TimeOK, BaseInv, Inv, TypeOK, Iterator
  <1>2. ASSUME NEW b \in Bags, b \notin x.queue PROVE Left(x, b) = {}
    BY <1>1, <1>2, LeftFacts
  <1>3. ASSUME NEW b \in x.queue
        PROVE  /\ b \in Bags /\ cur(b) \in Left(x, b) /\ cur(b) \in Messages(b)
               /\ \A n \in Left(x, b) : n \in Messages(b) /\ (n # cur(b) => FileBefore(cur(b), n))
    BY <1>1, LeftFacts
  <1>4. CASE x.queue = {}
    <2>1. LeftOf(i) = Abstract!Nothing
      BY <1>2, <1>4 DEF LeftOf, Abstract!Nothing
    <2>2. Shows(i) = None
      BY <1>4 DEF Shows
    <2> QED
      BY <2>1, <2>2 DEF Abstract!Earliest
  <1>5. CASE x.queue # {}
    <2>1. x.top \in x.queue
      BY <1>1, <1>5 DEF Resting, BaseInv, Inv, StructureOK, IteratorOK
    <2>2. Shows(i) = cur(x.top)
      BY <1>5 DEF Shows
    <2>3. LeftOf(i) # Abstract!Nothing
      <3>1. LeftOf(i)[x.top] # {} /\ Abstract!Nothing[x.top] = {}
        BY <1>3, <2>1 DEF LeftOf, Abstract!Nothing
      <3> QED
        BY <3>1
    <2>4. cur(x.top) \in Abstract!Heads(LeftOf(i))
      <3>1. \A n \in Left(x, x.top) : ~FileBefore(n, cur(x.top))
        BY <1>3, <2>1, FileBeforeAsymmetric, FileBeforeIrreflexive, MessageFacts
      <3>2. x.top \in Bags /\ LeftOf(i)[x.top] = Left(x, x.top)
        BY <1>3, <2>1 DEF LeftOf
      <3> QED
        BY <1>3, <2>1, <3>1, <3>2 DEF Abstract!Heads
    <2>5. ASSUME NEW n \in Abstract!Heads(LeftOf(i)) PROVE ~Earlier(n, cur(x.top))
      <3>1. PICK b \in Bags : n \in Left(x, b) /\ \A p \in Left(x, b) : ~FileBefore(p, n)
        BY <2>5 DEF Abstract!Heads, LeftOf
      <3>2. b \in x.queue
        BY <1>2, <3>1
      <3>3. n = cur(b)
        BY <1>3, <3>1, <3>2
      <3>4. NotAfter(cur(x.top), n)
        BY <1>1, <3>2, <3>3 DEF TopOK, ComesAfter, NotAfter
      <3>5. cur(x.top) \in AllMessages /\ n \in AllMessages
        BY <1>3, <2>1, <3>2, <3>3, MessageFacts
      <3>6. NotLater(cur(x.top), n)
        BY <3>4, <3>5, NotAfterNotLater
      <3>7. to_nsec(TimeOf(n)) \in Nat /\ to_nsec(TimeOf(cur(x.top))) \in Nat
        BY <3>5, TimeFacts, ToNsecType
      <3> QED
        BY <3>6, <3>7 DEF NotLater, Earlier
    <2> QED
      BY <2>2, <2>3, <2>4, <2>5 DEF Abstract!Earliest
  <1> QED
    BY <1>4, <1>5

-----------------------------------------------------------------------------
(* The refinement, step by step.                                           *)

Iterations == [i \in Iterators |-> Iteration(i)]

\* One iteration changes as Merge says, and the others stay or are off.
LEMMA AbstractStep ==
  ASSUME NEW i \in Iterators,
         \A j \in Iterators \ {i} : Iteration(j)' \in {Iteration(j), Abstract!Off},
         \/ Abstract!Stopped(Iteration(i)')
         \/ \E j \in Iterators \ {i} : Iteration(j).st = "ready" /\ Iteration(i)' = Iteration(j)
         \/ Abstract!Ready(Iteration(i), Iteration(i)')
         \/ Abstract!Step(Iteration(i), Iteration(i)')
         \/ Abstract!GiveUp(Iteration(i), Iteration(i)')
         \/ Abstract!Started(Iteration(i)')
  PROVE  Abstract!Next
  BY DEF Abstract!Next, Abstract!Copied

LEMMA NoStep ==
  ASSUME \A j \in Iterators : Iteration(j)' = Iteration(j)
  PROVE  UNCHANGED Iterations
  BY DEF Iterations

\* An iterator that is not exclusive is off.
LEMMA OffFacts ==
  ASSUME NEW i \in Iterators
  PROVE  /\ ~Exclusive(i) => Iteration(i) = Abstract!Off
         /\ ~Exclusive(i)' => Iteration(i)' = Abstract!Off
  BY DEF Iteration, Abstract!Off, Abstract!Nothing

\* What is left and shown of an iterator that stays the same.
LEMMA SameIteration ==
  ASSUME NEW k \in Iterators, NEW j \in Iterators, Same(k, j), Exclusive(k), Exclusive(j)'
  PROVE  Iteration(j)' = Iteration(k)
  <1>1. PICK q : q = iter[k].query
    OBVIOUS
  <1>2. /\ iter'[j] = iter[k] /\ query'[q] = query[q] /\ wrapper'[q] = wrapper[q]
        /\ call.it # k /\ call'.it # j
    BY <1>1 DEF Same
  <1>3. \A b : Left(iter[j], b)' = Left(iter[k], b)
    BY <1>1, <1>2 DEF Left, Requested, Shown
  <1>4. Resting(j)' = Resting(k)
    BY <1>2 DEF Resting
  <1>5. Shows(j)' = Shows(k)
    BY <1>1, <1>2, <1>4 DEF Shows
  <1> QED
    BY <1>3, <1>4, <1>5 DEF Iteration

LEMMA CallStepRuns == CallStep => call.pc # "idle"
  BY DEF CallStep, BeginBag, LoadChunk, SkipRecord, TakeMessage, UnknownRecord,
     UnreadableRecord, FinishChunk, AtRecord, Reading, ReadEnd, Return

LEMMA StutterIteration ==
  ASSUME UNCHANGED vars
  PROVE  \A j \in Iterators : Iteration(j)' = Iteration(j)
  <1>1. query' = query /\ iter' = iter /\ wrapper' = wrapper /\ call' = call
    BY DEF vars
  <1>2. \A x, b : Left(x, b)' = Left(x, b)
    BY <1>1 DEF Left, Requested, Shown
  <1>3. \A j : Shows(j)' = Shows(j) /\ Exclusive(j)' = Exclusive(j) /\ Resting(j)' = Resting(j)
    BY <1>1 DEF Shows, Resting, Exclusive
  <1> QED
    BY <1>1, <1>2, <1>3 DEF Iteration

\* The others in a step of iterator i.
LEMMA OthersStay ==
  ASSUME BaseInv, BaseInv', [Next]_vars, NEW i \in Iterators, NEW j \in Iterators \ {i},
         \/ CallStep /\ call.it = i
         \/ \E q \in Queries : Begin(i, q)
         \/ Increment(i)
         \/ \E k \in Iterators : CopyIterator(k, i)
  PROVE  Iteration(j)' \in {Iteration(j), Abstract!Off}
  <1>1. CASE ~Exclusive(j)'
    BY <1>1, OffFacts
  <1>3. \/ CallStep /\ call.it = i
        \/ call'.it = i
        \/ call' = call /\ \E k \in Iterators : CopyIterator(k, i)
    <2>1. ASSUME NEW q \in Queries, Begin(i, q) PROVE call'.it = i
      BY <2>1 DEF Begin
    <2>2. ASSUME Increment(i) PROVE call'.it = i
      BY <2>2 DEF Increment
    <2>3. ASSUME NEW k \in Iterators, CopyIterator(k, i) PROVE call' = call
      BY <2>3 DEF CopyIterator
    <2> QED
      BY <2>1, <2>2, <2>3
  <1>2. CASE Exclusive(j)'
    <2>1. CASE Exclusive(j) /\ Same(j, j)
      BY <1>2, <2>1, SameIteration
    <2>2. CASE UNCHANGED vars
      BY <2>2, StutterIteration
    <2>3. ~(CallStep /\ call.it = j)
      BY CallStepRuns DEF Begin, Increment, CopyIterator
    <2>4. ASSUME NEW q \in Queries, Begin(j, q) PROVE FALSE
      <3>1. call.pc = "idle" /\ call'.it = j
        BY <2>4 DEF Begin
      <3>2. ~CallStep /\ call.it = None
        BY <3>1, CallStepRuns DEF BaseInv, Inv, StructureOK, CallOK, Idle
      <3> QED
        BY <3>1, <3>2, <1>3, ViewAssumption
    <2>5. ~Increment(j)
      <3> SUFFICES ASSUME Increment(j) PROVE FALSE
        OBVIOUS
      <3>1. call.pc = "idle" /\ call'.it = j
        BY DEF Increment
      <3>2. ~CallStep /\ call.it = None
        BY <3>1, CallStepRuns DEF BaseInv, Inv, StructureOK, CallOK, Idle
      <3> QED
        BY <3>1, <3>2, <1>3, ViewAssumption
    <2>6. ASSUME NEW k \in Iterators, CopyIterator(k, j), Exclusive(k), Same(k, j)
          PROVE  Exclusive(j) /\ Same(j, j)
      <3>1. /\ call.pc = "idle" /\ UNCHANGED <<call, query, wrapper>>
            /\ iter' = [iter EXCEPT ![j] = iter[k]]
        BY <2>6 DEF CopyIterator
      <3>2. ~CallStep /\ call.it = None
        BY <3>1, CallStepRuns DEF BaseInv, Inv, StructureOK, CallOK, Idle
      <3>3. PICK n \in Iterators : CopyIterator(n, i)
        BY <1>3, <3>1, <3>2, ViewAssumption
      <3>4. iter' = [iter EXCEPT ![i] = iter[n]] /\ iter \in [Iterators -> Iterator]
        BY <3>3 DEF CopyIterator, BaseInv, Inv, TypeOK
      <3>5. iter'[j] = iter[j]
        BY <3>4
      <3> QED
        BY <1>2, <3>1, <3>2, <3>5, ViewAssumption DEF Same, Exclusive
    <2> QED
      BY <1>2, <2>1, <2>2, <2>3, <2>4, <2>5, <2>6, SameIteration, WhoMoves
  <1> QED
    BY <1>1, <1>2

\* A call that goes on shows nothing new, and leaves what it left.
LEMMA RunningIteration ==
  ASSUME NEW i \in Iterators, call.it = i, call'.it = i, query' = query,
         Exclusive(i), Exclusive(i)',
         iter'[i].query = iter[i].query, iter'[i].lost = iter[i].lost,
         iter'[i].out = iter[i].out
  PROVE  Iteration(i)' = Iteration(i)
  <1>1. PICK q : q = iter[i].query
    OBVIOUS
  <1>2. \A b : Left(iter[i], b)' = Left(iter[i], b)
    BY <1>1 DEF Left, Requested, Shown
  <1>3. ~Resting(i) /\ ~Resting(i)'
    BY DEF Resting
  <1>4. Shows(i)' = Shows(i)
    BY <1>3 DEF Shows
  <1> QED
    BY <1>2, <1>3, <1>4 DEF Iteration

\* The parts of an iteration.
LEMMA IterationParts ==
  ASSUME NEW i \in Iterators
  PROVE  /\ Exclusive(i) => /\ Iteration(i) = [st |-> IF Resting(i) THEN "ready" ELSE "busy",
                                               left |-> LeftOf(i), shows |-> Shows(i)]
                            /\ Iteration(i).left = LeftOf(i) /\ Iteration(i).shows = Shows(i)
                            /\ Iteration(i).st = IF Resting(i) THEN "ready" ELSE "busy"
         /\ Exclusive(i)' => Iteration(i)' = [st |-> IF Resting(i)' THEN "ready" ELSE "busy",
                                              left |-> LeftOf(i)', shows |-> Shows(i)']
  BY DEF Iteration, LeftOf

\* The steps of Merge when a call begins and returns, written out.
LEMMA MergeReady ==
  ASSUME NEW left, NEW m, NEW n \in Abstract!Earliest(left)
  PROVE  Abstract!Ready([st |-> "busy", left |-> left, shows |-> m],
                        [st |-> "ready", left |-> left, shows |-> n])
  <1>1. PICK x : x = [st |-> "busy", left |-> left, shows |-> m]
    OBVIOUS
  <1>2. PICK y : y = [x EXCEPT !.st = "ready"]
    OBVIOUS
  <1>3. y = [st |-> "ready", left |-> left, shows |-> m]
    BY <1>1, <1>2
  <1>4. PICK z : z = [y EXCEPT !.shows = n]
    OBVIOUS
  <1>5. z = [st |-> "ready", left |-> left, shows |-> n]
    BY <1>3, <1>4
  <1>6. x.st = "busy" /\ x.left = left /\ z.shows = n
    BY <1>1, <1>5
  <1>7. z = [x EXCEPT !.st = "ready", !.shows = n]
    BY <1>2, <1>4
  <1>8. \A s : s = n => z = [x EXCEPT !.st = "ready", !.shows = s]
    BY <1>7, Zenon
  <1>9. z = [x EXCEPT !.st = "ready", !.shows = z.shows]
    BY <1>6, <1>8, Zenon
  <1>10. Abstract!Ready(x, z)
    BY <1>6, <1>9 DEF Abstract!Ready
  <1> QED
    BY <1>1, <1>5, <1>10

LEMMA MergeStep ==
  ASSUME NEW left, NEW m, m # None
  PROVE  Abstract!Step([st |-> "ready", left |-> left, shows |-> m],
                       [st |-> "busy", left |-> [left EXCEPT ![m.bag] = @ \ {m}], shows |-> m])
  <1>1. PICK x : x = [st |-> "ready", left |-> left, shows |-> m]
    OBVIOUS
  <1>2. PICK y : y = [x EXCEPT !.st = "busy"]
    OBVIOUS
  <1>3. y = [st |-> "busy", left |-> left, shows |-> m]
    BY <1>1, <1>2
  <1>4. PICK k : k = [left EXCEPT ![m.bag] = @ \ {m}]
    OBVIOUS
  <1>5. PICK z : z = [y EXCEPT !.left = k]
    OBVIOUS
  <1>6. z = [st |-> "busy", left |-> k, shows |-> m]
    BY <1>3, <1>5
  <1>7. x.st = "ready" /\ x.shows = m
    BY <1>1
  <1>8. k = [x.left EXCEPT ![m.bag] = x.left[m.bag] \ {m}]
    BY <1>1, <1>4
  <1>9. z = [x EXCEPT !.st = "busy", !.left = k]
    BY <1>2, <1>5
  <1>10. z = [x EXCEPT !.st = "busy", !.left[m.bag] = @ \ {m}]
    BY <1>8, <1>9
  <1>11. Abstract!Step(x, z)
    BY <1>7, <1>10 DEF Abstract!Step
  <1> QED
    BY <1>1, <1>4, <1>6, <1>11

LEMMA MergeGiveUp ==
  ASSUME NEW left, NEW m, m # None, NEW n \in Abstract!Earliest([left EXCEPT ![m.bag] = {}])
  PROVE  Abstract!GiveUp([st |-> "busy", left |-> left, shows |-> m],
                         [st |-> "ready", left |-> [left EXCEPT ![m.bag] = {}], shows |-> n])
  <1>1. PICK k : k = [left EXCEPT ![m.bag] = {}]
    OBVIOUS
  <1>2. PICK x, y : /\ x = [st |-> "busy", left |-> left, shows |-> m]
                    /\ y = [st |-> "ready", left |-> k, shows |-> n]
    OBVIOUS
  <1>3. x.st = "busy" /\ x.shows = m /\ x.left = left /\ y.shows = n /\ y.left = k
    BY <1>2
  <1>4. y = [st |-> "ready", left |-> [x.left EXCEPT ![x.shows.bag] = {}], shows |-> y.shows]
    BY <1>1, <1>2, <1>3
  <1>5. Abstract!GiveUp(x, y)
    BY <1>1, <1>3, <1>4 DEF Abstract!GiveUp
  <1> QED
    BY <1>1, <1>2, <1>5

LEMMA ReturnReady ==
  ASSUME BaseInv, EarliestShown', Return, NEW i, i = call.it, Exclusive(i), Exclusive(i)'
  PROVE  Abstract!Ready(Iteration(i), Iteration(i)')
  <1>1. PICK q, out : q = iter[i].query /\ out = iter[i].out
    OBVIOUS
  <1>2. /\ UNCHANGED <<query, wrapper>> /\ call' = Idle
        /\ \E t : iter' = [iter EXCEPT ![i].st = "live", ![i].top = t]
    BY DEF Return
  <1>3. i \in Iterators /\ iter \in [Iterators -> Iterator] /\ call'.it # i
    BY <1>2, CallFacts, ViewAssumption DEF BaseInv, Inv, TypeOK, Return, Idle
  <1>4. /\ iter'[i].st = "live" /\ iter'[i].query = q /\ iter'[i].out = out
        /\ iter'[i].lost = iter[i].lost
    BY <1>1, <1>2, <1>3 DEF Iterator
  <1>5. ~Resting(i) /\ Resting(i)'
    BY <1>3, <1>4 DEF Resting
  <1>6. LeftOf(i)' = LeftOf(i)
    <2>1. \A b : Requested(q, b)' = Requested(q, b)
      BY <1>2 DEF Requested
    <2>2. Shown(iter[i])' = Shown(iter[i])
      BY <1>1, <1>4 DEF Shown
    <2>3. \A b : Left(iter[i], b)' = Left(iter[i], b)
      BY <1>1, <1>2, <1>4, <2>1, <2>2 DEF Left
    <2> QED
      BY <2>3 DEF LeftOf
  <1>7. Shows(i)' \in Abstract!Earliest(LeftOf(i)')
    BY <1>3, <1>5 DEF EarliestShown
  <1>8. Iteration(i) = [st |-> "busy", left |-> LeftOf(i), shows |-> Shows(i)]
    BY <1>3, <1>5, IterationParts
  <1>9. Iteration(i)' = [st |-> "ready", left |-> LeftOf(i), shows |-> Shows(i)']
    BY <1>3, <1>5, <1>6, IterationParts
  <1> QED
    BY <1>6, <1>7, <1>8, <1>9, MergeReady

\* An exception in ++ gives up the bag of the message that was shown last.
LEMMA ThrowGivesUp ==
  ASSUME BaseInv, BaseInv', EarliestShown', call.pc = "read", NEW i, i = call.it,
         DeliveryOK(i), NEW v, Throw(v), Exclusive(i), Exclusive(i)'
  PROVE  Abstract!GiveUp(Iteration(i), Iteration(i)')
  <1>1. PICK q, c, out : q = iter[i].query /\ c = call.bag /\ out = iter[i].out
    OBVIOUS
  <1>2. /\ i \in Iterators /\ c \in Bags /\ iter \in [Iterators -> Iterator]
        /\ query' = query /\ call' = Idle /\ call'.it # i
    BY <1>1, CallFacts, ViewAssumption DEF BaseInv, Inv, TypeOK, Throw, Idle
  <1>3. iter[i].st = "live" /\ \E t :
          iter' = [iter EXCEPT ![i].top = t, ![i].lost = @ \cup {c}]
    <2>1. iter' # [iter EXCEPT ![i] = NoIterator]
      BY <1>2 DEF Exclusive, NoIterator
    <2>2. iter[i].st \in {"building", "live"}
      BY <1>2, CallFacts DEF BaseInv, Iterator
    <2> QED
      BY <1>1, <2>1, <2>2 DEF Throw
  <1>4. /\ iter'[i].st = "live" /\ iter'[i].query = q /\ iter'[i].out = out
        /\ iter'[i].lost = iter[i].lost \cup {c}
    BY <1>1, <1>2, <1>3 DEF Iterator
  <1>5. ~Resting(i) /\ Resting(i)'
    BY <1>2, <1>4 DEF Resting
  <1>6. /\ Shows(i) # None /\ Shows(i).bag = c
    <2>1. out # <<>> /\ out[Len(out)].bag = c
      BY <1>1, <1>3 DEF DeliveryOK, StageOK
    <2>2. out \in Seq(AllMessages)
      BY <1>1, <1>2 DEF Iterator
    <2>3. out[Len(out)] # None
      BY <2>1, <2>2, SentinelAssumption
    <2> QED
      BY <1>1, <1>5, <2>1, <2>3 DEF Shows
  <1>7. LeftOf(i)' = [LeftOf(i) EXCEPT ![c] = {}]
    <2>1. \A b : Left(iter[i], b)' = IF b = c THEN {} ELSE Left(iter[i], b)
      <3>1. \A b : Requested(q, b)' = Requested(q, b)
        BY <1>2 DEF Requested
      <3>2. Shown(iter[i])' = Shown(iter[i])
        BY <1>1, <1>4 DEF Shown
      <3> QED
        BY <1>1, <1>2, <1>4, <3>1, <3>2 DEF Left
    <2> QED
      BY <1>2, <2>1 DEF LeftOf
  <1>8. Shows(i)' \in Abstract!Earliest(LeftOf(i)')
    BY <1>2, <1>5 DEF EarliestShown
  <1>9. Iteration(i) = [st |-> "busy", left |-> LeftOf(i), shows |-> Shows(i)]
    BY <1>2, <1>5, IterationParts
  <1>10. Iteration(i)' = [st |-> "ready", left |-> LeftOf(i)', shows |-> Shows(i)']
    BY <1>2, <1>5, IterationParts
  <1> QED
    BY <1>6, <1>7, <1>8, <1>9, <1>10, MergeGiveUp

\* begin() on untouched wrappers starts on all that was asked for.
LEMMA BeginStarts ==
  ASSUME BaseInv, NEW i \in Iterators, NEW q \in Queries, Begin(i, q), Exclusive(i)'
  PROVE  Abstract!Started(Iteration(i)')
  <1> DEFINE x == [NoIterator EXCEPT !.st = "building", !.query = q,
                                     !.fresh = Untouched(q), !.alone = TRUE]
  <1>1. UNCHANGED query /\ iter' = [Disturb(i, q) EXCEPT ![i] = x]
    BY DEF Begin
  <1>2. /\ iter'[i].st = "building" /\ iter'[i].query = q
        /\ iter'[i].out = <<>> /\ iter'[i].lost = {}
    <2>1. i \in DOMAIN Disturb(i, q)
      BY DEF Disturb
    <2> QED
      BY <1>1, <2>1 DEF NoIterator
  <1>3. ~Resting(i)'
    BY <1>2 DEF Resting
  <1>4. Shows(i)' = None
    BY <1>2, <1>3 DEF Shows
  <1>5. LeftOf(i)' = Request(query[q].bags, query[q].filter)
    <2>1. Shown(iter[i])' = {}
      BY <1>2 DEF Shown
    <2>2. \A b : Left(iter[i], b)' = IF b \in query[q].bags THEN Requested(q, b) ELSE {}
      BY <1>1, <1>2, <2>1 DEF Left, Requested
    <2> QED
      BY <2>2 DEF LeftOf, Request, Requested
  <1>6. query[q].bags \in SUBSET Bags /\ query[q].filter \in Filter
    BY DEF BaseInv, Inv, TypeOK
  <1> QED
    BY <1>3, <1>4, <1>5, <1>6, IterationParts DEF Abstract!Started

\* ++ is done with the message that was shown.
LEMMA IncrementSteps ==
  ASSUME BaseInv, NEW i \in Iterators, Increment(i), Exclusive(i), Exclusive(i)', DeliveryOK(i)
  PROVE  Abstract!Step(Iteration(i), Iteration(i)')
  <1>1. PICK q, b, m, out :
          /\ q = iter[i].query /\ b = iter[i].top /\ m = wrapper[q][b].current
          /\ out = iter[i].out
    OBVIOUS
  <1>2. /\ call.pc = "idle" /\ iter[i].st = "live" /\ iter[i].queue # {}
        /\ UNCHANGED <<query, wrapper>>
        /\ iter'[i].query = q /\ iter'[i].lost = iter[i].lost /\ iter'[i].out = Append(out, m)
        /\ call'.it = i
    BY <1>1, IncrementFacts
  <1>3. b \in Bags /\ m.bag = b /\ m \in AllMessages /\ Resting(i)
    <2>1. LET n == wrapper[iter[i].query][iter[i].top].current IN
          /\ iter[i].top \in Bags /\ n.bag = iter[i].top /\ n \in AllMessages /\ Resting(i)
      BY <1>2, TopFacts
    <2> QED
      BY <1>1, <2>1
  <1>4. Shows(i) = m /\ m # None
    BY <1>1, <1>2, <1>3, SentinelAssumption DEF Shows
  <1>5. out \in Seq(AllMessages)
    BY <1>1 DEF BaseInv, Inv, TypeOK, Iterator
  <1>6. ~Resting(i)'
    BY <1>2 DEF Resting
  <1>7. Shows(i)' = m
    <2>1. Append(out, m) # <<>> /\ Append(out, m)[Len(Append(out, m))] = m
      BY <1>3, <1>5
    <2> QED
      BY <1>2, <1>6, <2>1 DEF Shows
  <1>8. LeftOf(i)' = [LeftOf(i) EXCEPT ![b] = @ \ {m}]
    <2>1. Shown(iter[i])' = Shown(iter[i]) \cup {m}
      <3>1. Shown(iter[i])' = {Append(out, m)[k] : k \in DOMAIN Append(out, m)}
        BY <1>2 DEF Shown
      <3>2. Shown(iter[i]) = {out[k] : k \in DOMAIN out}
        BY <1>1 DEF Shown
      <3> QED
        BY <1>3, <1>5, <3>1, <3>2, AppendShown
    <2>2. \A a \in Bags : \A n \in Requested(q, a) : n.bag = a
      BY MessageParts DEF Requested
    <2>3. \A a : Requested(q, a)' = Requested(q, a)
      BY <1>2 DEF Requested
    <2>4. \A a \in Bags : Left(iter[i], a)' =
            IF a = b THEN Left(iter[i], a) \ {m} ELSE Left(iter[i], a)
      <3> TAKE a \in Bags
      <3>1. CASE a \in query[q].bags \ iter[i].lost
        <4>1. Left(iter[i], a)' = Requested(q, a) \ (Shown(iter[i]) \cup {m})
          BY <1>2, <2>1, <2>3, <3>1 DEF Left
        <4>2. Left(iter[i], a) = Requested(q, a) \ Shown(iter[i])
          BY <1>1, <3>1 DEF Left
        <4>3. a # b => m \notin Requested(q, a)
          BY <1>3, <2>2
        <4> QED
          BY <4>1, <4>2, <4>3
      <3>2. CASE a \notin query[q].bags \ iter[i].lost
        BY <1>1, <1>2, <3>2 DEF Left
      <3> QED
        BY <3>1, <3>2
    <2> QED
      BY <1>3, <2>4 DEF LeftOf
  <1>9. Iteration(i) = [st |-> "ready", left |-> LeftOf(i), shows |-> m]
    BY <1>3, <1>4, IterationParts
  <1>10. Iteration(i)' = [st |-> "busy", left |-> LeftOf(i)', shows |-> m]
    BY <1>6, <1>7, IterationParts
  <1> QED
    BY <1>3, <1>4, <1>8, <1>9, <1>10, MergeStep

LEMMA OthersRun ==
  ASSUME BaseInv, BaseInv', CallStep, NEW j \in Iterators \ {call.it}
  PROVE  Iteration(j)' = Iteration(j)
  <1>1. CallGoesOn /\ call.pc # "idle"
    BY StepGoesOn, CallStepRuns DEF BaseInv
  <1>2. iter'[j] = iter[j] /\ query' = query /\ call'.it # j
    BY <1>1, ViewAssumption DEF CallGoesOn, Idle
  <1>3. CASE ~Exclusive(j)
    BY <1>2, <1>3, OffFacts DEF Exclusive
  <1>4. CASE Exclusive(j)
    <2>1. iter[j].query \in Queries \ {CallQuery}
      BY <1>1, <1>4 DEF BaseInv, AloneOK, Exclusive, Inv, StructureOK, IteratorOK
    <2>2. Same(j, j) /\ Exclusive(j)'
      BY <1>1, <1>2, <1>4, <2>1 DEF Same, CallGoesOn, Exclusive
    <2> QED
      BY <1>4, <2>2, SameIteration
  <1> QED
    BY <1>3, <1>4

LEMMA IncrementAlone ==
  ASSUME BaseInv, NEW i \in Iterators, Increment(i), Exclusive(i)'
  PROVE  Exclusive(i)
  <1>1. Disturb(i, iter[i].query)[i] = iter[i] /\ DOMAIN Disturb(i, iter[i].query) = Iterators
    BY DEF Disturb
  <1>2. \E r, s : iter' = [Disturb(i, iter[i].query) EXCEPT ![i].queue = r, ![i].out = s]
    BY DEF Increment
  <1>3. iter[i] \in Iterator
    BY DEF BaseInv, Inv, TypeOK
  <1>4. iter'[i].fresh = iter[i].fresh /\ iter'[i].alone = iter[i].alone /\ iter'[i].st = iter[i].st
    BY <1>1, <1>2, <1>3 DEF Iterator
  <1> QED
    BY <1>4 DEF Exclusive

\* A copy is another iterator that shows the same.
LEMMA CopyCopies ==
  ASSUME BaseInv, NEW k \in Iterators, NEW i \in Iterators, CopyIterator(k, i), Exclusive(i)'
  PROVE  k # i /\ Iteration(k).st = "ready" /\ Iteration(i)' = Iteration(k)
  <1>1. /\ call.pc = "idle" /\ k # i /\ iter[k].st = "live"
        /\ iter' = [iter EXCEPT ![i] = iter[k]] /\ UNCHANGED <<query, wrapper, call>>
    BY DEF CopyIterator
  <1>2. call.it = None /\ iter'[i] = iter[k]
    BY <1>1 DEF BaseInv, Inv, TypeOK, StructureOK, CallOK, Idle
  <1>3. Exclusive(k) /\ Resting(k) /\ Same(k, i)
    BY <1>1, <1>2, ViewAssumption DEF Exclusive, Resting, Same
  <1> QED
    BY <1>1, <1>3, SameIteration, IterationParts

\* What the running call does to its own iterator.
LEMMA OwnCallStep ==
  ASSUME MergeInv, BaseInv', EarliestShown', CallStep, NEW i, i = call.it,
         Exclusive(i), Exclusive(i)'
  PROVE  \/ Iteration(i)' = Iteration(i)
         \/ Abstract!Ready(Iteration(i), Iteration(i)')
         \/ Abstract!GiveUp(Iteration(i), Iteration(i)')
  <1>1. /\ BaseInv /\ Inv /\ Inv' /\ i \in Iterators /\ DeliveryOK(i)
        /\ iter \in [Iterators -> Iterator] /\ call \in Call
    BY CallStepRuns, CallFacts DEF MergeInv, OrderInv, BaseInv, Inv, TypeOK
  <1>2. ASSUME UNCHANGED <<query, iter>>, call'.it = i PROVE Iteration(i)' = Iteration(i)
    BY <1>1, <1>2, RunningIteration
  <1>3. ASSUME NEW v, call.pc = "read", Throw(v)
        PROVE  Abstract!GiveUp(Iteration(i), Iteration(i)')
    BY <1>1, <1>3, ThrowGivesUp
  <1>4. CASE Return
    BY <1>1, <1>4, ReturnReady
  <1>5. CASE TakeMessage
    <2>1. /\ iter' = [iter EXCEPT ![i].queue = @ \cup {call.bag}] /\ query' = query
          /\ call' = [call EXCEPT !.pc = "loop", !.bag = None]
      BY <1>5 DEF TakeMessage
    <2>2. /\ iter'[i].query = iter[i].query /\ iter'[i].lost = iter[i].lost
          /\ iter'[i].out = iter[i].out /\ call'.it = i
      BY <1>1, <2>1 DEF Iterator, Call
    <2> QED
      BY <1>1, <2>1, <2>2, RunningIteration
  <1>6. CASE LoadChunk
    <2>1. call.pc = "read"
      BY <1>6 DEF LoadChunk, Reading
    <2> QED
      BY <1>2, <1>3, <1>6, <2>1, LoadChunkFirst
  <1>7. CASE UnknownRecord \/ UnreadableRecord
    BY <1>3, <1>7 DEF UnknownRecord, UnreadableRecord, AtRecord, Reading
  <1>8. CASE SkipRecord \/ FinishChunk
    BY <1>2, <1>8 DEF SkipRecord, FinishChunk
  <1>9. ASSUME NEW b \in Bags, BeginBag(b) PROVE Iteration(i)' = Iteration(i)
    BY <1>1, <1>2, <1>9 DEF BeginBag, Call
  <1>10. CASE ReadEnd
    BY <1>1, <1>2, <1>10 DEF ReadEnd, Call
  <1> QED
    BY <1>4, <1>5, <1>6, <1>7, <1>8, <1>9, <1>10 DEF CallStep

LEMMA RefinementStep ==
  MergeInv /\ MergeInv' /\ [Next]_vars => [Abstract!Next]_Iterations
  <1> SUFFICES ASSUME MergeInv, MergeInv', [Next]_vars
               PROVE  Abstract!Next \/ UNCHANGED Iterations
    OBVIOUS
  <1>1. /\ BaseInv /\ BaseInv'
        /\ \A i \in Iterators : Exclusive(i) => DeliveryOK(i)
    BY DEF MergeInv, OrderInv
  <1>2. EarliestShown'
    BY ShowsEarliest, PTL
  <1>3. ASSUME NEW i \in Iterators, ~Exclusive(i)',
               \/ CallStep /\ call.it = i
               \/ \E q \in Queries : Begin(i, q)
               \/ Increment(i)
               \/ \E k \in Iterators : CopyIterator(k, i)
        PROVE  Abstract!Next
    <2>1. Abstract!Stopped(Iteration(i)')
      BY <1>3, OffFacts DEF Abstract!Stopped
    <2> QED
      BY <1>1, <1>3, <2>1, OthersStay, AbstractStep
  <1>4. CASE CallStep
    <2>1. PICK i \in Iterators : i = call.it
      BY <1>1, <1>4, CallStepRuns, CallFacts DEF BaseInv
    <2>2. CASE ~Exclusive(i)'
      BY <1>3, <1>4, <2>1, <2>2
    <2>3. CASE Exclusive(i)'
      <3>1. Exclusive(i)
        BY <1>1, <1>4, <2>1, <2>3, WhoMoves, CallStepRuns DEF CopyIterator, Begin, vars, Exclusive
      <3>2. CASE Iteration(i)' = Iteration(i)
        <4>1. ASSUME NEW j \in Iterators \ {i} PROVE Iteration(j)' = Iteration(j)
          BY <1>1, <1>4, <2>1, OthersRun
        <4> QED
          BY <2>1, <3>2, <4>1, NoStep
      <3>3. CASE \/ Abstract!Ready(Iteration(i), Iteration(i)')
                 \/ Abstract!GiveUp(Iteration(i), Iteration(i)')
        BY <1>1, <1>4, <2>1, <3>3, OthersStay, AbstractStep
      <3> QED
        BY <1>1, <1>2, <1>4, <2>1, <2>3, <3>1, <3>2, <3>3, OwnCallStep
    <2> QED
      BY <2>2, <2>3
  <1>5. ASSUME NEW i \in Iterators, NEW q \in Queries, Begin(i, q) PROVE Abstract!Next
    <2>1. CASE Exclusive(i)'
      <3>1. Abstract!Started(Iteration(i)')
        BY <1>1, <1>5, <2>1, BeginStarts
      <3> QED
        BY <1>1, <1>5, <3>1, OthersStay, AbstractStep
    <2> QED
      BY <1>3, <1>5, <2>1
  <1>6. ASSUME NEW i \in Iterators, Increment(i) PROVE Abstract!Next
    <2>1. CASE Exclusive(i)'
      <3>1. Exclusive(i)
        BY <1>1, <1>6, <2>1, IncrementAlone
      <3>2. Abstract!Step(Iteration(i), Iteration(i)')
        BY <1>1, <1>6, <2>1, <3>1, IncrementSteps
      <3> QED
        BY <1>1, <1>6, <3>2, OthersStay, AbstractStep
    <2> QED
      BY <1>3, <1>6, <2>1
  <1>7. ASSUME NEW k \in Iterators, NEW i \in Iterators, CopyIterator(k, i) PROVE Abstract!Next
    <2>1. CASE Exclusive(i)'
      <3>1. k # i /\ Iteration(k).st = "ready" /\ Iteration(i)' = Iteration(k)
        BY <1>1, <1>7, <2>1, CopyCopies
      <3> QED
        BY <1>1, <1>7, <3>1, OthersStay, AbstractStep
    <2> QED
      BY <1>3, <1>7, <2>1
  <1>8. ASSUME NEW q \in Queries, NEW f, GetMessages(q, f) PROVE UNCHANGED Iterations
    <2>1. call.pc = "idle" /\ UNCHANGED <<iter, call>> /\ ~query[q].made
          /\ \A p \in Queries \ {q} : query'[p] = query[p] /\ wrapper'[p] = wrapper[p]
      BY <1>1, <1>8 DEF GetMessages, BaseInv, Inv, TypeOK
    <2>2. ASSUME NEW j \in Iterators PROVE Iteration(j)' = Iteration(j)
      <3>1. CASE ~Exclusive(j)
        BY <2>1, <3>1, OffFacts DEF Exclusive
      <3>2. CASE Exclusive(j)
        <4>1. iter[j].query \in Queries \ {q}
          BY <1>1, <2>1, <3>2 DEF Exclusive, BaseInv, Inv, StructureOK, IteratorOK
        <4>2. call.it = None
          BY <1>1, <2>1 DEF BaseInv, Inv, StructureOK, CallOK, Idle
        <4> QED
          BY <2>1, <3>2, <4>1, <4>2, SameIteration, ViewAssumption DEF Same, Exclusive
      <3> QED
        BY <3>1, <3>2
    <2> QED
      BY <2>2, NoStep
  <1>9. ASSUME NEW b \in Bags, AddBag(b) PROVE UNCHANGED Iterations
    <2>1. call.pc = "idle" /\ UNCHANGED <<iter, call, query, wrapper>> /\ call.it = None
      BY <1>1, <1>9 DEF AddBag, BaseInv, Inv, StructureOK, CallOK, Idle
    <2>2. ASSUME NEW j \in Iterators PROVE Iteration(j)' = Iteration(j)
      BY <2>1, OffFacts, SameIteration, ViewAssumption DEF Same, Exclusive
    <2> QED
      BY <2>2, NoStep
  <1>10. CASE UserCall
    <2>1. CASE \E q \in Queries : \E f : GetMessages(q, f)
      BY <1>8, <2>1
    <2>2. CASE ~\E q \in Queries : \E f : GetMessages(q, f)
      BY <1>5, <1>6, <1>7, <1>9, <1>10, <2>2 DEF UserCall, GetAllMessages, GetTopicMessages
    <2> QED
      BY <2>1, <2>2
  <1>11. CASE UNCHANGED vars
    BY <1>11, StutterIteration, NoStep
  <1> QED
    BY <1>4, <1>10, <1>11 DEF Next

\* The View implements the merge: every begin(), ++ and copy, with any number
\* of bags, chunks, queries and iterators and whatever throws, does what Merge
\* allows, and all other steps are invisible (view.cc, begin and operator++).
THEOREM MergeRefined == Spec => ImplementsMerge
  <1>1. Init => Abstract!Init
    <2>1. Init => \A i \in Iterators : Iteration(i) = Abstract!Off
      BY DEF Init, Iteration, Exclusive, NoIterator, Abstract!Off, Abstract!Nothing
    <2> QED
      BY <2>1 DEF Abstract!Init
  <1>2. MergeInv /\ MergeInv' /\ [Next]_vars
          => [Abstract!Next]_([i \in Iterators |-> Iteration(i)])
    BY RefinementStep DEF Iterations
  <1> QED
    BY <1>1, <1>2, MergeHolds, PTL DEF Spec, ImplementsMerge, Abstract!Spec

=============================================================================
