-------------------------------- MODULE View --------------------------------
(***************************************************************************)
(* The View of lib/view.h and lib/view.cc: a set of bags, queries over     *)
(* them (getMessages) and iterators that merge the messages of the bags of *)
(* a query by time.                                                        *)
(*                                                                         *)
(* A query is one call of getMessages.  It creates one bag_wrapper_t per   *)
(* bag, which holds the position of the iteration in that bag.  The View   *)
(* and its copies share the wrappers of a query, and so do all iterators   *)
(* that begin() returns for it: an iterator keeps only a priority queue of *)
(* pointers to wrappers.                                                   *)
(*                                                                         *)
(* The code is sequential.  A call of the user (AddBag, GetMessages, Begin,*)
(* Increment, CopyIterator) starts when no call is running; begin() and    *)
(* operator++ then run readMessage, one action per step of its loops.      *)
(***************************************************************************)
EXTENDS RosBagTypes, Sequences

CONSTANTS
  Queries,   \* the calls of getMessages; its size bounds their number
  Iterators, \* the iterator variables of the program
  MaxBags    \* bound on the calls of addBag

ASSUME ViewAssumption ==
  /\ MaxBags \in Nat
  /\ None \notin Queries
  /\ None \notin Iterators

VARIABLES
  bags_,     \* the vector of bags added to the view
  query,     \* query[q]: what getMessages was asked for, over which bags
  wrapper,   \* wrapper[q][b]: the bag_wrapper_t of bag b in query q
  iter,      \* iter[i]: the iterator i
  call,      \* the call that is running
  lz4_ctx,   \* the chunk on which the shared lz4 context failed, or None
  failure    \* where the last exception was thrown

vars == <<bags_, query, wrapper, iter, call, lz4_ctx, failure>>

-----------------------------------------------------------------------------
(* Queries and their wrappers.                                             *)

\* getMessages() or getMessages(topics)
Filter == [all : BOOLEAN, topics : SUBSET Topics]

\* Connections of the empty topic are not in topic_connection_map_.
ConnectionIds(b, f) ==
  IF f.all
  THEN DOMAIN connections_[b]
  ELSE {id \in DOMAIN connections_[b] : connections_[b][id].topic \in f.topics}

ChunksToParse(b, f) ==
  IF f.all
  THEN Chunks(b)
  ELSE UNION {connections_[b][id].blocks : id \in ConnectionIds(b, f)}

(***************************************************************************)
(* bag_wrapper_t.  chunk_iter, a position in the ordered set               *)
(* chunks_to_parse, is the set of chunks from that position on.            *)
(* current_buffer is the chunk that was decompressed into the buffer.      *)
(* spoiled is the chunk whose failure spoiled what is in the buffer.       *)
(* current is the message in the fields current_*: its timestamp,          *)
(* connection, data offset and length are those of the record.             *)
(***************************************************************************)
BagWrapper(b) ==
  [chunks_to_parse   : SUBSET Chunks(b),
   connection_ids    : SUBSET DOMAIN connections_[b],
   chunk_iter        : SUBSET Chunks(b),
   current_buffer    : Chunks(b) \cup {None},
   spoiled           : ChunkNames \cup {None},
   uncompressed_size : Nat,
   processed_bytes   : Nat,
   current           : Messages(b) \cup {None}]

\* make_shared<bag_wrapper_t>() with the chunks and connections of a filter
NewWrapper(chunkset, ids) ==
  [chunks_to_parse   |-> chunkset,
   connection_ids    |-> ids,
   chunk_iter        |-> {},
   current_buffer    |-> None,
   spoiled           |-> None,
   uncompressed_size |-> 0,
   processed_bytes   |-> 0,
   current           |-> None]

NoQuery == [made |-> FALSE, bags |-> {}, filter |-> [all |-> FALSE, topics |-> {}]]

\* No message of these wrappers is half way through being read.
Untouched(q) ==
  \A b \in query[q].bags :
    /\ wrapper[q][b].current_buffer = None
    /\ wrapper[q][b].processed_bytes = 0

-----------------------------------------------------------------------------
(***************************************************************************)
(* Iterators.  queue is the set of bags whose wrappers are in msg_queue_,  *)
(* top the one std::priority_queue::top() returns.  The rest is history:   *)
(* lost is the set of bags whose read threw, fresh says that begin() found *)
(* untouched wrappers, alone that no other iterator has moved them since,  *)
(* and out is the sequence of messages that operator* showed before each   *)
(* ++, kept while the iterator is alone.                                   *)
(***************************************************************************)
Iterator ==
  [st    : {"none", "building", "live"},
   query : Queries \cup {None},
   queue : SUBSET Bags,
   top   : Bags \cup {None},
   out   : Seq(AllMessages),
   lost  : SUBSET Bags,
   fresh : BOOLEAN,
   alone : BOOLEAN]

NoIterator ==
  [st |-> "none", query |-> None, queue |-> {}, top |-> None, out |-> <<>>,
   lost |-> {}, fresh |-> FALSE, alone |-> FALSE]

Idle == [pc |-> "idle", it |-> None, bag |-> None, todo |-> {}]

Call ==
  [pc   : {"idle", "loop", "read"},
   it   : Iterators \cup {None},
   bag  : Bags \cup {None},
   todo : SUBSET Bags]

\* The query, and the wrapper, that the running call works on.
CallQuery == iter[call.it].query
CallWrapper == wrapper[CallQuery][call.bag]
SetWrapper(w) == wrapper' = [wrapper EXCEPT ![CallQuery][call.bag] = w]

\* Mutants: a comparison of seconds only, and one of the wrong sense.
ComesAfterBySecs(q, a, b) ==
  TimeOf(wrapper[q][a].current).secs > TimeOf(wrapper[q][b].current).secs
ComesBefore(q, a, b) ==
  Less(TimeOf(wrapper[q][a].current), TimeOf(wrapper[q][b].current))

\* timestamp_compare_t: the wrapper of bag a comes out after the one of b.
ComesAfter(q, a, b) ==
  Greater(TimeOf(wrapper[q][a].current), TimeOf(wrapper[q][b].current))

(***************************************************************************)
(* The wrappers that top() may return for the queue Q of iterator i.  The  *)
(* queue compares the wrappers where they are: if another iterator changed *)
(* their time stamps, the order of the heap is void and any of its         *)
(* elements may be at the top.                                             *)
(***************************************************************************)
Tops(i, Q) ==
  IF Q = {}
  THEN {None}
  ELSE IF iter[i].alone
  THEN {b \in Q : \A a \in Q : ~ComesAfter(iter[i].query, b, a)}
  ELSE Q

\* Iterator i moves the wrappers of query q: no other iterator is alone there.
Disturb(i, q) ==
  [j \in Iterators |->
     IF j # i /\ iter[j].query = q
     THEN [iter[j] EXCEPT !.alone = FALSE, !.out = <<>>]
     ELSE iter[j]]

-----------------------------------------------------------------------------
Init ==
  /\ bags_ = <<>>
  /\ query = [q \in Queries |-> NoQuery]
  /\ wrapper = [q \in Queries |-> [b \in Bags |-> NewWrapper({}, {})]]
  /\ iter = [i \in Iterators |-> NoIterator]
  /\ call = Idle
  /\ lz4_ctx = None
  /\ failure = None

AddBag(b) ==
  /\ call.pc = "idle"
  /\ Len(bags_) < MaxBags
  /\ bags_' = Append(bags_, b)
  /\ UNCHANGED <<query, wrapper, iter, call, lz4_ctx, failure>>

(***************************************************************************)
(* getMessages: new wrappers for every bag of the view.  The iterators of  *)
(* earlier queries keep theirs.                                            *)
(***************************************************************************)
GetMessages(q, f) ==
  /\ call.pc = "idle"
  /\ ~query[q].made
  /\ query' = [query EXCEPT ![q] =
       [made |-> TRUE, bags |-> {bags_[k] : k \in DOMAIN bags_}, filter |-> f]]
  /\ wrapper' = [wrapper EXCEPT ![q] =
       [b \in Bags |-> NewWrapper(ChunksToParse(b, f), ConnectionIds(b, f))]]
  /\ UNCHANGED <<bags_, iter, call, lz4_ctx, failure>>

\* The two overloads: every message, or the messages of some topics.
GetAllMessages(q) == GetMessages(q, [all |-> TRUE, topics |-> {}])
GetTopicMessages(q, topics) == GetMessages(q, [all |-> FALSE, topics |-> topics])

\* begin(): the constructor of the iterator, up to its loop over the bags.
Begin(i, q) ==
  /\ call.pc = "idle"
  /\ query[q].made
  /\ iter' = [Disturb(i, q) EXCEPT ![i] =
       [NoIterator EXCEPT !.st = "building", !.query = q,
                          !.fresh = Untouched(q), !.alone = TRUE]]
  /\ call' = [pc |-> "loop", it |-> i, bag |-> None, todo |-> query[q].bags]
  /\ UNCHANGED <<bags_, query, wrapper, lz4_ctx, failure>>

\* Mutant: chunk_iter is not restarted.
BeginBagWhereItIs(b) ==
  /\ call.pc = "loop"
  /\ b \in call.todo
  /\ wrapper' = IF wrapper[CallQuery][b].current = None
                THEN [wrapper EXCEPT ![CallQuery][b].chunk_iter =
                        wrapper[CallQuery][b].chunks_to_parse]
                ELSE wrapper
  /\ call' = [call EXCEPT !.pc = "read", !.bag = b, !.todo = @ \ {b}]
  /\ UNCHANGED <<bags_, query, iter, lz4_ctx, failure>>

\* One turn of that loop, over an unordered_map: any bag may be next.
\* chunk_iter restarts; the buffer and the position in it stay.
BeginBag(b) ==
  /\ call.pc = "loop"
  /\ b \in call.todo
  /\ wrapper' = [wrapper EXCEPT ![CallQuery][b].chunk_iter =
                   wrapper[CallQuery][b].chunks_to_parse]
  /\ call' = [call EXCEPT !.pc = "read", !.bag = b, !.todo = @ \ {b}]
  /\ UNCHANGED <<bags_, query, iter, lz4_ctx, failure>>

\* operator++: pop the top and read the next message of its bag.
Increment(i) ==
  /\ call.pc = "idle"
  /\ iter[i].st = "live"
  /\ iter[i].queue # {}
  /\ LET b == iter[i].top IN
     /\ iter' = [Disturb(i, iter[i].query) EXCEPT
                   ![i].queue = @ \ {b},
                   ![i].out = IF iter[i].alone
                              THEN Append(@, wrapper[iter[i].query][b].current)
                              ELSE @]
     /\ call' = [pc |-> "read", it |-> i, bag |-> b, todo |-> {}]
  /\ UNCHANGED <<bags_, query, wrapper, lz4_ctx, failure>>

\* The copy constructor and the assignment of an iterator.
CopyIterator(i, j) ==
  /\ call.pc = "idle"
  /\ i # j
  /\ iter[i].st = "live"
  /\ iter' = [iter EXCEPT ![j] = iter[i]]
  /\ UNCHANGED <<bags_, query, wrapper, call, lz4_ctx, failure>>

-----------------------------------------------------------------------------
(* The steps of readMessage on the wrapper of bag call.bag.                *)

Reading == call.pc = "read" /\ CallWrapper.chunk_iter # {}

\* An exception leaves readMessage with the wrapper w.  It leaves the
\* constructor, and there is no iterator, or it leaves operator++ after pop().
Throw(w) ==
  LET i == call.it IN
  /\ SetWrapper(w)
  /\ failure' = [query |-> CallQuery, bag |-> call.bag, chunk |-> w.current_buffer,
                 cause |-> IF w.spoiled = None
                           THEN [bag |-> call.bag, chunk |-> w.current_buffer]
                           ELSE w.spoiled]
  /\ call' = Idle
  /\ IF iter[i].st = "building"
     THEN iter' = [iter EXCEPT ![i] = NoIterator]
     ELSE \E t \in Tops(i, iter[i].queue) :
            iter' = [iter EXCEPT ![i].top = t, ![i].lost = @ \cup {call.bag}]
  /\ UNCHANGED <<bags_, query>>

\* Mutant: a chunk that cannot be decompressed is passed over.
LoadOrSkipChunk ==
  LET w == CallWrapper IN
  /\ Reading
  /\ w.current_buffer = None
  /\ \E c \in w.chunk_iter :
     /\ IsFirstChunk(call.bag, c, w.chunk_iter)
     /\ IF chunks_[call.bag][c].ok
        THEN SetWrapper([w EXCEPT !.current_buffer = c,
                                  !.uncompressed_size = chunks_[call.bag][c].size])
        ELSE SetWrapper([w EXCEPT !.chunk_iter = @ \ {c}])
     /\ UNCHANGED <<bags_, query, iter, call, lz4_ctx, failure>>

(***************************************************************************)
(* Decompress the chunk at chunk_iter into a new buffer.  When that throws,*)
(* the buffer stays and uncompressed_size is the one of an earlier chunk.  *)
(* All lz4 chunks share a context, which is not reset after an error: then *)
(* the next one may fail as well; one that succeeds resets the context.    *)
(***************************************************************************)
LoadChunk ==
  LET w == CallWrapper IN
  /\ Reading
  /\ w.current_buffer = None
  /\ \E c \in w.chunk_iter :
     /\ IsFirstChunk(call.bag, c, w.chunk_iter)
     /\ LET ch == chunks_[call.bag][c]
            with_lz4 == ch.compression = "lz4" /\ ch.size > 0 IN
        \/ /\ ch.ok
           /\ SetWrapper([w EXCEPT !.current_buffer = c, !.uncompressed_size = ch.size])
           /\ lz4_ctx' = IF with_lz4 THEN None ELSE lz4_ctx
           /\ UNCHANGED <<bags_, query, iter, call, failure>>
        \/ /\ ~ch.ok
           /\ Throw([w EXCEPT !.current_buffer = c])
           /\ lz4_ctx' = IF with_lz4 THEN [bag |-> call.bag, chunk |-> c] ELSE lz4_ctx
        \/ /\ with_lz4
           /\ lz4_ctx # None
           /\ Throw([w EXCEPT !.current_buffer = c, !.spoiled = lz4_ctx])
           /\ UNCHANGED lz4_ctx

\* The loop over the records of the buffer is at a record.
AtRecord ==
  /\ Reading
  /\ CallWrapper.current_buffer # None
  /\ CallWrapper.processed_bytes < CallWrapper.uncompressed_size

Buffer == chunks_[call.bag][CallWrapper.current_buffer]

\* How much of its buffer a wrapper of bag b has from the chunk.
Filled(b, w) == IF w.spoiled = None THEN chunks_[b][w.current_buffer].good ELSE 0
BufferFilled == Filled(call.bag, CallWrapper)
Here == CallWrapper.processed_bytes

\* Mutant: one unit of data is not enough.
ReadableWithin ==
  /\ Here < BufferFilled
  /\ DataStart(call.bag, CallWrapper.current_buffer, Here) + 1 < Buffer.size

\* The record at this position was decompressed, and vector::at finds its data.
Readable ==
  /\ Here < BufferFilled
  /\ DataStart(call.bag, CallWrapper.current_buffer, Here) < Buffer.size

HereRecord == RecordAt(call.bag, CallWrapper.current_buffer, Here)
AfterRecord == NextRecord(call.bag, CallWrapper.current_buffer, Here)

\* Mutant: no look at the connection.
IsMessage == HereRecord.op = "MESSAGE_DATA"

IsWanted ==
  HereRecord.op = "MESSAGE_DATA" /\ HereRecord.conn \in CallWrapper.connection_ids

\* Mutant: the record is not passed.
SkipNothing ==
  /\ AtRecord
  /\ Readable
  /\ HereRecord.op # "OTHER"
  /\ ~IsWanted
  /\ UNCHANGED vars

\* A message of another topic, or a connection record.
SkipRecord ==
  /\ AtRecord
  /\ Readable
  /\ HereRecord.op # "OTHER"
  /\ ~IsWanted
  /\ SetWrapper([CallWrapper EXCEPT !.processed_bytes = AfterRecord])
  /\ UNCHANGED <<bags_, query, iter, call, lz4_ctx, failure>>

\* Mutant: the offset is noted after the record was passed.
TakeMessageLate ==
  /\ AtRecord
  /\ Readable
  /\ IsWanted
  /\ SetWrapper([CallWrapper EXCEPT
       !.processed_bytes = AfterRecord,
       !.current = [bag |-> call.bag, chunk |-> CallWrapper.current_buffer,
                    off |-> AfterRecord]])
  /\ iter' = [iter EXCEPT ![call.it].queue = @ \cup {call.bag}]
  /\ call' = [call EXCEPT !.pc = "loop", !.bag = None]
  /\ UNCHANGED <<bags_, query, lz4_ctx, failure>>

\* A message that was asked for: note it in the wrapper, push the wrapper.
TakeMessage ==
  LET b == call.bag IN
  /\ AtRecord
  /\ Readable
  /\ IsWanted
  /\ SetWrapper([CallWrapper EXCEPT
       !.processed_bytes = AfterRecord,
       !.current = [bag |-> b, chunk |-> CallWrapper.current_buffer, off |-> Here]])
  /\ iter' = [iter EXCEPT ![call.it].queue = @ \cup {b}]
  /\ call' = [call EXCEPT !.pc = "loop", !.bag = None]
  /\ UNCHANGED <<bags_, query, lz4_ctx, failure>>

\* A record of another kind is an error, found after the record was passed.
UnknownRecord ==
  /\ AtRecord
  /\ Readable
  /\ HereRecord.op = "OTHER"
  /\ Throw([CallWrapper EXCEPT !.processed_bytes = AfterRecord])
  /\ UNCHANGED lz4_ctx

\* vector::at throws: past the end of the buffer, or for the data of a record
\* without data at the end of it.  Zeros read as a record of no known kind.
UnreadableRecord ==
  /\ AtRecord
  /\ ~Readable
  /\ Throw([CallWrapper EXCEPT !.processed_bytes =
       IF Here >= Buffer.size THEN Here
       ELSE IF Here >= BufferFilled THEN Here + LengthWords
       ELSE AfterRecord])
  /\ UNCHANGED lz4_ctx

\* Mutant: the position is not reset.
FinishChunkInPlace ==
  /\ Reading
  /\ CallWrapper.current_buffer # None
  /\ CallWrapper.processed_bytes >= CallWrapper.uncompressed_size
  /\ \E c \in CallWrapper.chunk_iter :
     /\ IsFirstChunk(call.bag, c, CallWrapper.chunk_iter)
     /\ SetWrapper([CallWrapper EXCEPT !.chunk_iter = @ \ {c}, !.current_buffer = None])
  /\ UNCHANGED <<bags_, query, iter, call, lz4_ctx, failure>>

\* The buffer is used up: on to the next chunk.
FinishChunk ==
  LET w == CallWrapper IN
  /\ Reading
  /\ w.current_buffer # None
  /\ w.processed_bytes >= w.uncompressed_size
  /\ \E c \in w.chunk_iter :
     /\ IsFirstChunk(call.bag, c, w.chunk_iter)
     /\ SetWrapper([w EXCEPT !.chunk_iter = @ \ {c}, !.current_buffer = None,
                             !.spoiled = None, !.processed_bytes = 0])
  /\ UNCHANGED <<bags_, query, iter, call, lz4_ctx, failure>>

\* No chunk is left: the wrapper is not pushed.
ReadEnd ==
  /\ call.pc = "read"
  /\ CallWrapper.chunk_iter = {}
  /\ call' = [call EXCEPT !.pc = "loop", !.bag = None]
  /\ UNCHANGED <<bags_, query, wrapper, iter, lz4_ctx, failure>>

\* The constructor, or operator++, returns to the user.
Return ==
  LET i == call.it IN
  /\ call.pc = "loop"
  /\ call.todo = {}
  /\ \E t \in Tops(i, iter[i].queue) :
       iter' = [iter EXCEPT ![i].st = "live", ![i].top = t]
  /\ call' = Idle
  /\ UNCHANGED <<bags_, query, wrapper, lz4_ctx, failure>>

-----------------------------------------------------------------------------
\* What a running call does next, and what the user may call.
CallStep ==
  \/ \E b \in Bags : BeginBag(b)
  \/ LoadChunk
  \/ SkipRecord
  \/ TakeMessage
  \/ UnknownRecord
  \/ UnreadableRecord
  \/ FinishChunk
  \/ ReadEnd
  \/ Return

UserCall ==
  \/ \E b \in Bags : AddBag(b)
  \/ \E q \in Queries : GetAllMessages(q)
  \/ \E q \in Queries, topics \in SUBSET Topics : GetTopicMessages(q, topics)
  \/ \E i \in Iterators, q \in Queries : Begin(i, q)
  \/ \E i \in Iterators : Increment(i)
  \/ \E i, j \in Iterators : CopyIterator(i, j)

Next == CallStep \/ UserCall

Spec == Init /\ [][Next]_vars

\* A running call goes on: the code never blocks.
Fairness == WF_vars(CallStep)

FairSpec == Spec /\ Fairness

-----------------------------------------------------------------------------
(* Properties.                                                             *)

\* The variables have their types; in particular a wrapper holds chunks,
\* connections and messages of its own bag only.
TypeOK ==
  /\ bags_ \in Seq(Bags)
  /\ query \in [Queries -> [made : BOOLEAN, bags : SUBSET Bags, filter : Filter]]
  /\ DOMAIN wrapper = Queries
  /\ \A q \in Queries :
       /\ DOMAIN wrapper[q] = Bags
       /\ \A b \in Bags : wrapper[q][b] \in BagWrapper(b)
  /\ iter \in [Iterators -> Iterator]
  /\ call \in Call
  /\ lz4_ctx \in ChunkNames \cup {None}
  /\ failure = None
     \/ \E b \in Bags :
          failure \in [query : Queries, bag : {b}, chunk : Chunks(b), cause : ChunkNames]

\* Who is running: the iterator of the call, and the bag it reads.
CallOK ==
  /\ call.pc = "idle" => call = Idle
  /\ call.pc # "idle" => call.it \in Iterators /\ iter[call.it].st # "none"
  /\ call.pc = "read" <=> call.bag \in Bags

\* An iterator points to wrappers that exist and hold a message.
IteratorOK(i) ==
  LET x == iter[i] IN
  /\ x.st = "none" => x.queue = {}
  /\ x.st # "none" => x.query \in Queries /\ query[x.query].made
  /\ x.st = "building" => call.it = i
  /\ \A b \in x.queue : wrapper[x.query][b].current # None
  /\ x.queue # {} /\ call.it # i => x.top \in x.queue

\* Decompression of the chunk named n failed, and left the lz4 context so.
Culprit(n) == Faulty(n.bag, n.chunk) /\ chunks_[n.bag][n.chunk].compression = "lz4"

\* The position of a wrapper is at a record of its buffer, or in a part of it
\* that was not decompressed.
WrapperOK(b, w) ==
  LET c == w.current_buffer IN
  /\ w.chunk_iter \subseteq w.chunks_to_parse
  /\ c = None => w.processed_bytes = 0 /\ w.spoiled = None
  /\ c # None =>
       /\ c \in w.chunks_to_parse
       /\ w.processed_bytes \in Records(b, c) \/ w.processed_bytes >= Filled(b, w)
       /\ ~Faulty(b, c) /\ w.spoiled = None => w.uncompressed_size = chunks_[b][c].size
       /\ w.spoiled # None => Culprit(w.spoiled) /\ chunks_[b][c].compression = "lz4"

\* An exception comes from a query that was made, a spoiled context from a
\* chunk that cannot be decompressed.
FailureOK ==
  /\ failure # None => query[failure.query].made
  /\ lz4_ctx # None => Culprit(lz4_ctx)

(***************************************************************************)
(* The bookkeeping of the shared wrappers is sound, whichever iterators    *)
(* share them and whatever was thrown: the position of a wrapper is at a   *)
(* record, what is in a queue holds a message, and only live queries are   *)
(* iterated (view.h, bag_wrapper_t and iterator; view.cc, readMessage).    *)
(***************************************************************************)
StructureOK ==
  /\ CallOK
  /\ \A i \in Iterators : IteratorOK(i)
  /\ \A q \in Queries, b \in Bags : WrapperOK(b, wrapper[q][b])
  /\ FailureOK

\* What the user asked of query q, in bag b.
Requested(q, b) ==
  {m \in Messages(b) :
     query[q].filter.all \/ TopicOf(m) \in query[q].filter.topics}

\* The iterator began on untouched wrappers and nobody else moved them.
Exclusive(i) == iter[i].st # "none" /\ iter[i].fresh /\ iter[i].alone

\* i is between two calls.
Resting(i) == iter[i].st = "live" /\ call.it # i

(***************************************************************************)
(* An iterator shows only messages that were asked for, those of a bag in  *)
(* the order of the file, and so none twice: whatever other queries and    *)
(* their iterators do in between (view.cc, readMessage and getMessages).   *)
(***************************************************************************)
RequestedInFileOrder ==
  \A i \in Iterators : Exclusive(i) =>
    LET out == iter[i].out IN
    /\ \A k \in DOMAIN out : out[k] \in Requested(iter[i].query, out[k].bag)
    /\ \A k, l \in DOMAIN out :
         k < l /\ out[k].bag = out[l].bag => FileBefore(out[k], out[l])

\* m was the next message of its bag when the k-th message was shown.
WasHead(q, out, k, m) ==
  \A n \in Requested(q, m.bag) : FileBefore(n, m) => \E l \in 1..k-1 : out[l] = n

\* m is no later than n, in nanoseconds.
NotLater(m, n) ==
  Normalised(TimeOf(m)) /\ Normalised(TimeOf(n)) =>
    to_nsec(TimeOf(m)) <= to_nsec(TimeOf(n))

(***************************************************************************)
(* The merge: of two messages that were both at the head of their bags,    *)
(* the earlier one is shown first (view.h, timestamp_compare_t).           *)
(***************************************************************************)
EarlierHeadFirst ==
  \A i \in Iterators : Exclusive(i) =>
    LET x == iter[i] IN
    \A k, l \in DOMAIN x.out :
      k < l /\ WasHead(x.query, x.out, k, x.out[l]) => NotLater(x.out[k], x.out[l])

\* The messages of bag b that query q asks for are recorded in the order that
\* the view compares by, which is the time order of normalised time stamps.
SortedBag(q, b) ==
  \A m, n \in Requested(q, b) : FileBefore(m, n) => ~Greater(TimeOf(m), TimeOf(n))

(***************************************************************************)
(* When the messages of every bag are recorded in that order, those of the *)
(* view come out in time order, whatever lies between them (embag_test.cc  *)
(* compares time stamps of successive messages).                           *)
(***************************************************************************)
TimeOrdered ==
  \A i \in Iterators :
    Exclusive(i) /\ (\A b \in query[iter[i].query].bags : SortedBag(iter[i].query, b)) =>
      \A k, l \in DOMAIN iter[i].out : k < l => NotLater(iter[i].out[k], iter[i].out[l])

(***************************************************************************)
(* An exception is always the fault of a chunk that the query has to read, *)
(* or, for an lz4 chunk, of another lz4 chunk that failed before: reading  *)
(* never loses its place in a sound chunk, even when iterators share       *)
(* wrappers, begin() finds them half way through, or an earlier read       *)
(* threw; and damage in chunks without requested topics does no harm.      *)
(***************************************************************************)
FailureExplained ==
  failure # None =>
    LET own == [bag |-> failure.bag, chunk |-> failure.chunk] IN
    /\ failure.chunk \in wrapper[failure.query][failure.bag].chunks_to_parse
    /\ Faulty(failure.cause.bag, failure.cause.chunk)
    /\ \/ failure.cause = own
       \/ \A n \in {own, failure.cause} : chunks_[n.bag][n.chunk].compression = "lz4"

\* "initialize: fill the queue with a message from each bag" (view.cc:77):
\* after begin() the first requested message of each bag is in the queue.
BeginFillsQueue ==
  \A i \in Iterators :
    iter[i].alone /\ Resting(i) /\ iter[i].out = <<>> =>
      \A b \in query[iter[i].query].bags :
        \A m \in Requested(iter[i].query, b) :
          (~\E n \in Requested(iter[i].query, b) : FileBefore(n, m)) =>
            b \in iter[i].queue /\ wrapper[iter[i].query][b].current = m

\* Every call returns: readMessage passes a record or a chunk at each turn.
CallReturns == call.pc # "idle" ~> call.pc = "idle"

=============================================================================
