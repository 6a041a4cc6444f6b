# Verification of embag

embag reads ROS bag files: it maps a file into memory, reads its index, and
hands out the messages of one or several bags in time order, parsed by the
message definitions that the bags carry. This directory holds TLA+ models of
that code, the TLC configurations that check them on small instances, and
proofs that TLAPS checks for every instance. Paths such as `lib/view.cc` are
relative to the root of the repository (`src/` in `PROJECT.json`).

`PROJECT.json` maps every definition to the source lines it models and lists
the runs, the findings, the hazards and the theorems.

## 1. Inventory

| Component | State it keeps | Operations | Talks to |
|---|---|---|---|
| View and its iterators (`lib/view.{h,cc}`) | `bags_`; per query one `bag_wrapper_t` per bag (chunk list and place in it, buffer, place in the buffer, current message); per iterator a priority queue of pointers to wrappers | `addBag`, `getMessages` (three overloads), `begin`, `end`, `++`, `*`, copies; `getStartTime`, `getEndTime`, `topics`, `connectionsByTopicMap` | reads `chunks_`, `connections_`, `topic_connection_map_` of Bag (it is a friend class); calls `chunk_t::decompress` and `Bag::msgDefForTopic`; makes `RosMessage` |
| Bag (`lib/embag.{h,cc}`) | the mapped file; `connections_`, `topic_connection_map_`, `chunk_infos_`, `chunks_`, `message_schemata_` | constructor (`open`, `readRecords`), `topics`, `topicInBag`, `connectionsForTopic`, `msgDefForTopic`, `close` | calls `parseMsgDef` |
| Bag types (`lib/ros_bag_types.h`) | chunks, chunk infos, connections, blocks, record headers | `chunk_t::decompress` | calls Decompression |
| Decompression (`lib/decompression.h`) | one lz4 context shared by every chunk | lz4 loop, bz2 | |
| Message parser (`lib/message_parser.{h,cc}`) | a vector of values per message, offset in the buffer | `parse`, `initObject`, `initArray`, `initPrimitive` | reads the chunk buffer by a `RosMsgTypes` definition |
| Message definitions (`lib/message_def_parser.cc`, `lib/ros_msg_types.h`) | member list and embedded definitions of a topic | `parseMsgDef`, `resolve`, `setTypeDefinition` | |
| Values (`lib/ros_value.{h,cc}`) | offsets into the vector of values and the buffer; shares of both, weak pointers between values | field and element access, iterators, conversions, printing, copies and assignments, time stamps | shares buffers with View and Messages |
| Messages (`lib/ros_message.h`) | raw data and, after the first access, parsed data | `data`, lazy `hydrate` | Message parser |
| Python binding (`python/`) | the iterator, the end and a flag in a Python iterator; a schema tree | `read_messages`, iteration over views and values, `dict`, buffers, `getSchema`, `close` | View, Bag, Values |
| `embag_echo` | none of its own | a demo: one loop over a view | View |
| `lib/span.hpp` | none | a vendored header that no code uses | |

The library has no threads and no locks. What makes it hard is the following.

* **Sharing.** `getMessages` returns a copy of the view, and a copy shares the
  wrappers. So two iterators of one query, an iterator and its copy, and a
  second `begin()` all move the same position, under a priority queue that
  assumes that keys do not change.
* **Exceptions half way.** `readMessage` changes the wrapper before it calls
  what may throw: the buffer is installed before it is filled, the size is set
  after, `operator++` has popped the bag already. The iteration can be continued.
* **Order.** Chunks are read by offset and not in index order; several bags are
  merged by a hand-written comparison of two words; a chunk of the index and
  the messages in it are related only through connection ids.
* **Pointers into vectors.** Blocks of a connection point to elements of
  `chunks_` that are pushed later.
* **Sequences of legal calls** that change an answer: `connectionsForTopic` of
  an unknown topic, `msgDefForTopic` after it threw, `close()` under a live view,
  `__next__` once more after an exception.
* **Lifetimes.** Buffers, vectors of values and Pointers into them are shared;
  values refer to each other weakly; the binding hands out iterators and memory
  views that share nothing and rely on `keep_alive`.
* **Many ways to one value.** By name, by position, by iterator, as text, as
  Python objects, described by a schema: each in code of its own.
* **Edges.** A record without data at the end of a buffer, bz2 that fills only a
  part of it, an unindexed file.

What makes each part correct:

* *View*: an iteration shows exactly the requested messages, each once, those of
  a bag in file order, and of the bags' next messages the earliest first; it
  throws only when a chunk it has to read is damaged; every call returns; the
  bookkeeping stays sound however wrappers are shared.
* *Bag*: after loading, topics lead to their connections and connections to
  exactly the chunks that hold their messages, no pointer dangles, counts agree,
  complete files open, and questions do not change the answers.
* *Decompression*: the buffer is filled with the whole chunk or the call
  throws.
* *Message parser*: values, offsets of children and the position in the buffer
  agree with the layout that the definition prescribes.
* *Definitions*: a type name resolves to the definition that ROS means.
* *Values, Messages*: an accessor returns the value that the parser placed;
  parsing happens once.
* *Programs*: a loop gets each message once, with the definition of its
  connection; what the view says of times and counts is true of what the loop gets;
  only a program that closes a file, goes on after an exception, or has a bag without
  chunks in its view can run into undefined behaviour.
* *Lifetimes*: use counts are right, but for assignments between types; what can be
  reached is alive and has the bytes it was read from, the rest is freed.

The list of hazards in `PROJECT.json` gives each of these at its line, with the
properties that would catch it going wrong.

## 2. Modules

| Module | Models | Kind |
|---|---|---|
| `RosTime` | time stamps, their comparisons, `to_nsec` | operators |
| `RosBagTypes` | contents of open bags as the View reads them: chunks, records, connections, blocks | constants, assumptions |
| `View` | `lib/view.{h,cc}` | state machine |
| `Merge` | what an iteration promises, without chunks, buffers and queues | abstract specification |
| `ViewRefinement` | the mapping from `View` to `Merge` | refinement |
| `MCView` | contents of small bags for `View` | model checking |
| `View_proofs` | types, structure and failures of `View`, delivery and order; it implements `Merge` | proofs |
| `ReadMessages` | the loops of `python/embag.cc` and `embag_echo` over a View, with `operator*`, schema lookup and `close`; times, topics and connections of a View | state machine, on top of `View` |
| `MCReadMessages` | contents and definitions of four bags | model checking |
| `ReadMessages_proofs` | what loops are given, what the view says of it, and undefined behaviour | proofs |
| `Decompress` | `chunk_t::decompress` and the shared lz4 context | state machine |
| `MCDecompress` | all short sequences of compressed symbols | model checking |
| `Decompress_proofs` | outcomes of `Decompress` | proofs |
| `Bag` | the constructor of Bag and questions to an open one | state machine |
| `MCBag` | complete and damaged files for `Bag` | model checking |
| `Bag_proofs` | pointers, index, counts and schemata of `Bag` | proofs |
| `MessageParser` | `lib/message_parser.cc`, `hydrate` of `lib/ros_message.h`, access to values in `lib/ros_value.{h,cc}` | state machine |
| `MessageParser_proofs` | types of `MessageParser`, that values do not overlap, that what is parsed is what is laid out and what the schema says, and that it is read from the message only | proofs |
| `MessageLayout` | how a ROS message is laid out, and the properties that compare the parser with it | reference definition |
| `SchemaBuilder` | `python/schema_builder.cc`, and what a schema says of parsed values | operators, compared with the parser |
| `ValueAccess` | accessors, iterators and printing of `lib/ros_value.{h,cc}`, conversions of `python/adapters.h` | operators, compared with `MessageLayout` |
| `MCMessageParser` | definitions that nest, and all short buffers | model checking |
| `Handles` | who shares buffers and vectors: `RosValue`, `RosValue::Pointer`, `RosMessage`, iterators of the binding | state machine |
| `MCHandles` | small heaps | model checking |
| `Handles_proofs` | counts, lifetimes and bytes of `Handles` | proofs |
| `MsgDef` | `parseMsgDef`, the constructors of `lib/ros_msg_types.h` | state machine |
| `MCMsgDef` | short definitions with up to two embedded ones | model checking |
| `MsgDef_proofs` | fields and definitions of `MsgDef` | proofs |
| `Sums` | sums and cardinalities of finite sets, for the proofs that count | lemmas |

`ReadMessages EXTENDS View EXTENDS RosBagTypes EXTENDS RosTime`,
`View_proofs EXTENDS ViewRefinement`, `ReadMessages_proofs EXTENDS ReadMessages` and
`View_proofs`, and
`MCMessageParser EXTENDS ValueAccess EXTENDS SchemaBuilder EXTENDS MessageLayout EXTENDS MessageParser`.
The other components meet in assumptions that one module makes and another
checks:

* `RosBagTypes` assumes of an open bag (`ConnectionAssumption`, `ConnectionIds`,
  `ChunksToParse`), and `ReadMessages` of its topics (`ProgramAssumption`), what
  `Bag` establishes for complete files (`IndexExact`).
* `RosBagTypes` and `View` take the outcome of `decompress()` for granted
  (`ChunkAssumption`, `lz4_ctx`, `spoiled`); `Decompress` gets it from the loop
  (`AsTheViewAssumes`).
* `MessageParser` assumes of a definition what `MsgDef!NoFieldForgotten`
  establishes: each field of an embedded type leads to its definition.
* `ReadMessages` has of a schema lookup what `Bag!SchemataSound` is about.

`ValueAccess` needs `RECURSIVE` operators. `MessageLayout` and `SchemaBuilder`, whose
definitions are recursive by nature, have them as functions of a number of steps instead, and
the state machines do without, so that they can be proved about.

### View

The code is sequential, but a call of the user runs as several steps, one per
turn of the loops of `readMessage`, so that each place where an exception
leaves the state half changed is a state of the model.

| Variable | In the code |
|---|---|
| `bags_` | `View::bags_` |
| `query[q]` | one call of `getMessages`: the bags of the view then, and the filter |
| `wrapper[q][b]` | `*bag_wrappers_[b]` of the views that share that query |
| `iter[i]` | an `iterator`: `queue` is the content of `msg_queue_`, `top` its top |
| `call` | the call that runs: its iterator, the bag it reads, the bags that the constructor's loop has still to visit |
| `lz4_ctx` | the state of the one `Lz4DecompressionCtx`: clean, or the chunk whose decompression failed and left it in the middle of a frame |
| `failure` | history: query, bag and chunk of the last exception, and the chunk whose fault it was |

A wrapper's `chunk_iter`, a position in an ordered set, is the set of chunks
from there on (empty at the end); `current` stands for the five `current_*`
fields, which are those of one record; `current_buffer` is named by the chunk
that was decompressed into it. `spoiled` is history: the chunk that had spoiled the
lz4 context when the buffer was filled.

| Action | In the code |
|---|---|
| `AddBag`, `GetAllMessages`, `GetTopicMessages` | `addBag`; `getMessages()`; `getMessages(topics)` |
| `Begin`, `BeginBag` | `iterator(view, begin_cond)`: before its loop, and one turn of it up to `readMessage`. The loop is over an `unordered_map`, so any bag may be next |
| `Increment` | `operator++` up to `readMessage` |
| `CopyIterator` | copy construction and assignment of an iterator |
| `LoadChunk` | the first branch of `readMessage`, with or without an exception |
| `SkipRecord`, `TakeMessage`, `UnknownRecord`, `UnreadableRecord` | one turn of the inner loop: record passed over, message found, `default:` of the switch, `vector::at` out of range or a header of zeros |
| `FinishChunk`, `ReadEnd` | the tail of the outer loop, and its end |
| `Return` | return of the constructor or of `operator++` |

History fields of an iterator serve the properties only: `out` (what `operator*`
showed before each `++`), `lost` (bags whose read threw), `fresh` (`begin()`
found untouched wrappers) and `alone` (nobody else has moved them since).

Abstractions:

* Bytes are counted in units of the two length words of a record
  (`LengthWords`). A record has `head` units before its data and `len` of data.
* `std::priority_queue` is modelled by its contract: `top` is an element that no
  other one precedes. While another iterator has changed keys in place, the
  heap order is void, and `top` is any element.
* `decompress()` is its outcome per chunk: it throws (`ok` false) or fills the
  first `good` units of the buffer with zeros behind them, `good` rounded to
  the start of a record. Only bz2 can fill a part and return; an uncompressed
  chunk never throws. An error of lz4 leaves the shared context where it was
  (`LZ4F_resetDecompressionContext` is never called): the next lz4 chunk, of
  whichever bag and query, may then throw as well, and its buffer is left as
  zeros. When it succeeds, the context is clean again. `Decompress` derives this
  from the loop, for every chunk but two kinds that the View's bags do not have: see
  there.
* Records tile a chunk (`RecordAssumption`): lengths that point outside the
  buffer are undefined behaviour in the code and stay outside the model.
* Header fields of a record (`op`, `conn`, `time`) are in the record; finding
  them by their first letter (`readHeader`) is left out.
* A view on which `getMessages` was never called has no wrappers and an empty
  iteration; it is not modelled. `++` and `*` on an iterator that equals `end()`
  are undefined and guarded against; `ReadMessages` looks at who may call them.

### Merge and ViewRefinement

`Merge` is the specification a user of a View relies on. An iteration has a set
of messages left per bag; `Ready` shows one that is the next of its bag and that no
other bag's next message precedes in time, and shows nothing only when nothing
is left; `Step` is done with it; `GiveUp` is `++` that throws, which drops
the rest of that bag and can be continued. `ViewRefinement` maps an iterator that
began on untouched wrappers and has them to itself to such an iteration: what is
left is what was requested and not shown of the bags that no exception took away,
what it shows is the current message of the top of its queue. Any other iterator
is mapped to `Off`, about which nothing is promised. Loading and leaving chunks,
passing records and whatever happens to other queries are stuttering steps.

### ReadMessages

A program is one thread that makes and runs loops over iterators of a View:
`read_messages` of a Bag, `__iter__` of a View, and the range-for of `embag_echo`.
The state is that of `View` and

| Variable | In the code |
|---|---|
| `loop[p]` | the Python iterator over iterator `p`, or the loop of `embag_echo`: its kind, the call it is in, and `first_or_done` of pybind11 |
| `read[p]` | history: messages and schemata given, exceptions, whether the end came |
| `local` | queries of the views that `read_messages` makes for itself, which no other code can name |
| `message_schemata_[b]` | `Bag::message_schemata_` |
| `closed` | bags that were closed |
| `raised`, `undefined` | history: an exception reached the program; from here on C++ promises nothing |

| Action | In the code |
|---|---|
| `Setup` | `addBag` and `getMessages` |
| `Iter`, `read_messages`, `Echo` | a loop begins, with `begin()`; `embag_echo` asks for the start and end times first |
| `AskTimes` | `getStartTime` or `getEndTime` of a view with a bag without chunks: `front()` or `back()` of an empty vector, undefined |
| `close` | `Bag::close` |
| `GoesOn`, `Returns`, `Throws` | the steps of `begin()` and `++` of `View`, seen from the loop |
| `LoadUnmapped` | `readMessage` is about to decompress bytes of a file that was closed: undefined |
| `next` | `__next__` up to the comparison with the end: the first call does not increment |
| `Stop` | `StopIteration`, or the end of the range-for |
| `GiveKnown`, `GiveParsed`, `RaiseLookup` | `operator*`: the schema was looked up before, is parsed now, or cannot be had |

pybind11's `make_iterator` is external: it is modelled by its contract with the
type it wraps. `++` that throws leaves `first_or_done` unset, so the next
`__next__` increments again; with an empty queue that is `top()` of an empty
`priority_queue`, and undefined. `Give` parses the message where the code does
(the tuple of `read_messages`, `print()`): with the null schema that a failed
lookup may have left behind it is undefined. A bag made of bytes is unharmed by
`close`. Values are not parsed here; a message is given with its schema.

A file whose recorder crashed has no index and opens without an error as a bag without
chunks (`lib/embag.cc:166`). A view of it gives no messages, but asking the view for its
times is undefined (`lib/view.cc:209`, `226`), and `embag_echo` asks before its loop. That
is the third cause in `UndefinedExplained`, besides exceptions and closed files.

`getStartTime`, `getEndTime`, `topics` and `connectionsByTopicMap` are operators on
the bags of a view. `connection_data_t::operator==` compares everything but the
scope, the definition and the count; `sender` stands for the fields it compares
besides the topic.

### Bag

A file is described by its records: those of the index section in order, and at
each position of a CHUNK record the INDEX_DATA records behind it. `Bag` has one
action per turn of the loops of `readRecords` and each action that reads has a
branch that throws. `std::vector` is modelled where it matters, for `chunks_`:
a name for the memory of its elements, the capacity, and `push_back` that moves
to new memory when the capacity is used up, which makes dangling pointers
visible. `msgDefForTopic` reflects that in
`message_schemata_[topic] = parseMsgDef(...)` C++11 leaves open whether the key is
inserted before the call that may throw. Connection ids below `conn_count` are
assumed; `connectionsForTopic` inserts an unknown topic, as `operator[]` does; the grammar of message definitions is an operator that fails for the
definitions in `Unparsable`. Compression, md5 sums and the rest of the
connection header are left out.

### Decompress

Compressed data is a sequence of symbols: the head of a frame, units that decompress
to themselves, its end, and anything else, which is an error. `LZ4F_decompress` and
`BZ2_bzBuffToBuffDecompress` are external and modelled by their manuals: lz4 goes on
from the state of its context and stops at the end of a frame, of the input or
of the room in the output; bz2 takes one whole stream and reports success when
its end comes before the output is full.

`Lz4Turn` is a turn of the loop of `decompressLz4Chunk`, `Lz4End` the code behind the
loop, `Bz2` and `Copy` the other compressions (`Bag` refuses any other), `Call` the
next chunk, of whichever bag, through the same context. `before` is history: the
state of the context at the call.

`AsTheViewAssumes` states what the View builds on, and where that ends. The loop passes
`dst` and `record.data` themselves on each turn, not the places reached so far. For
one frame that does no harm, since lz4 finishes it in one turn. Data that goes on
behind its first frame (`GoesOn`) is the exception, whether a second frame follows or
anything else: the next turn decompresses the beginning again, over the
beginning, and the call may return with wrong bytes or with the context inside
the frame. And data that lacks only the
mark at the end of its frame fills the buffer and is accepted, but the context
stays inside the frame, and the next sound lz4 chunk throws. `rosbag` writes one
complete frame per chunk, so both need a damaged or a foreign file; the bags of `View`
have neither.

### MessageParser and MessageLayout

The parser writes the values of a message into one vector in which the children of
a value are neighbours, while the buffer holds them depth first. So `initObject`
appends all its fields before it visits the first, and an offset handed out early
has to agree with what is appended late.

| Variable | In the code |
|---|---|
| `message` | the `RosMessage`: buffer, place in it, definition |
| `ros_values_`, `ros_values_offset_`, `message_buffer_offset_` | the members of `MessageParser` |
| `stack` | the calls of `initObject` and `initArray` in progress, with their loop and its place |
| `parsed_`, `data_` | the members of `RosMessage` |
| `outcome` | history: how the last parse ended |

| Action | In the code |
|---|---|
| `Hydrate` | `data()` of a message not parsed yet, `parse()` up to the loops of `initObject` |
| `EmplaceField`, `AllEmplaced` | the first loop of `initObject` and its end |
| `SkipConstant`, `InitObject`, `InitPrimitive`, `InitString`, `InitPrimitiveArray`, `InitArray` | one turn of the second loop, or of the loop of `initArray`, by the case of the switch |
| `ReadPastEnd` | `vector::at` throws at a length: the message stays unparsed and the next access parses it again |
| `Return`, `Finish` | a call returns; `parse()` returns |

`SizeOf`, `At`, `Get` and `BufferAccessible` are the accessors of a `RosValue`; `Extent` and
`Blob` are the bytes behind `as<T>()` and behind the buffer of an array, only the first of
which is looked up with `vector::at`. `ReadsWithinMessage` is about all of them.
`Tree` of `MessageLayout` is a user who walks through the whole message with
them, and `Reference` is what should be found. `MessageLayout` knows three kinds of
`Part`: a value, the elements of an array, the members of a definition from one of
them on. `LayPart` says how a part is made of others, and `Layout(buf)[n]` is what
that gives in `n` steps. A layout that needs more steps than `Depth` is not `ok`, as is one
that the buffer cuts off; a definition that contains itself has none. More steps only find
more: for the theorems `Depth` is any number, and the run shows with `Reference.ok` in
`DictAsLaidOut` that its `Depth` is enough for all its messages.

The properties of the layout have hypotheses on the definitions. `ArraysSized`: no array
has length 0 in its type, see below. `NamesApart`: the fields of a definition have names of
their own, without which the object that a user finds has fewer members than the message.

Abstractions: a length takes one unit of the buffer (`LengthSize`) and is there or
not; a length of which only some bytes are left, which the code reads past the end
of the buffer, is left out, as are lengths that overflow an offset. The fields that
a constructor of `RosValue` leaves uninitialised until the parser sets them are 0.
Arrays of length 0 in a type (`type[0]`) are parsed as in the code, which takes
them for single values (`ArraySize` is 0 for both); no definition of the runs
has one, and the properties exclude them by `ArraysSized`. Lengths of strings are looked for by `vector::at` as the code does, their
text is not.

### SchemaBuilder

`generateSchema[n]` has for each definition the nested dicts that `python/schema_builder.cc`
makes of it in `n` steps, field by field (`schemaForField`), and looks a field up by its name
(`FieldNamed`). `Conforms` says of one parsed value that it looks as a schema says, and
`SchemaDescribes` says so of all fields of all objects of a message: the builder reads a
definition in code of its own, by which the parser is not bound. A schema names the
definitions nested in it by those of one step less, so `SchemaDescribes` holds of a schema
to any depth when it holds of the fields at each number of steps.

### ValueAccess

What users make of a parsed message, as operators on the vector of values. A value
that was read is named by the bytes it was read from, so two ways to read it can be
compared, and so can what is read and what was written.

* `rosValueToDict`, `rosValueToList`, `primitiveArrayToPyObject`, `castValue`,
  `castRosTime` and `BufferInfo` are the functions of `adapters.h` and the buffer protocol,
  with the options of `dict()`: which arrays become blobs, of which kind, and what a
  time becomes.
* `Items` are the fields of an object by name (`items`, `keys`, `__iter__`), `Values` what is
  found by position (`values` of an object, `__iter__` of an array); `Walk` goes through a
  message by the items of objects and the elements of arrays, and `WaysAgree` compares
  `values` of each object with its items, in the order of the definition (`FieldSeq`).
  `toString` yields one line, a path and a value, per leaf; `Follow` goes along such a
  path by name and position.

A conversion that may throw returns `Ok(result)` or `Raised`. Encodings and number
formats are left out: `py` objects are named by kind and bytes.

### Handles

| Variable | In the code |
|---|---|
| `heap.share[o]` | the block that the `shared_ptr` in place `o` points to: `current_buffer` of a wrapper, `raw_buffer` and `data_` of a message, `info_` of a Pointer, the buffer of the values in a vector |
| `heap.count[x]` | the use count of block `x`, kept by the same steps as in the code |
| `heap.miscounted[x]` | history: how often an assignment between types let go of one share of `x` twice |
| `at[p]` | what Pointer `p` points to: the root of a message, an array in it, or an element of an array of primitives, which is a value of its own |
| `named`, `borrow` | what the user can still name, and what an iterator or memory view of the binding was made from |
| `content`, `origin` | which chunk is in a buffer; history: from which one what an owner of a share leads to was read |

`NextChunk` is `readMessage` going on; `Dereference` is `operator*`; `Data` is `data()`
with `hydrate`; `Child`, `Element`, `Copy`, `Assign`, `Yield` make Pointers from Pointers;
`Borrow` and `EndBorrow` are an iterator or memory view and its end; `Drop`,
`DropMessage` and `DropView` are destructors, in any order. `AssignAcross` is
`RosValue::operator=` between types, which lets go of a share twice (see the findings). A
step that frees a block which somebody still has leaves the heap `Dangling`. What follows
is undefined, and the model stops there; also in the middle of such an assignment, or of a
message whose members go one after the other.

The count is maintained, not computed from the shares: `CountsExact` compares the two. The
count is one short for each assignment between types, and no other operation
miscounts. `LiveIffReachable` has that as the one reason for something to dangle.
`MessageKeepsItsBytes` is about every owner, so about Pointers and elements of messages that
are gone as much as about the messages: a buffer that were used again as soon as no
message has it would violate it (the mutant `NextChunkPooled`).
The values of one vector share one buffer and are destroyed together, so they are
one owner. Weak pointers have no share and need none.

### MsgDef

A text is the list of its lines: constants and fields of the topic's type, and the
embedded definitions. A name has a package, `""` where it is left out. `EmplaceAll`
fills the map of embedded definitions, under names without `std_msgs/`;
`SkipMember`, `SetTypeDefinition` and `NotFound` are one turn of
`initializeFieldTypeDefinitions`, and `NextDefinition` takes any of the embedded
definitions left, since they are in an `unordered_map`. The properties compare
the pointers set with what ROS means by a name (`Meant`): a name with a package
means that, a bare `Header` is the one of `std_msgs`, and any other bare name is of
the package of the definition it is in. The Spirit grammar is reduced to
what it does to names and to the member it demands of an embedded definition.

## 3. What is checked

| Run | Bounds | Shows |
|---|---|---|
| `MCViewMerge` | 6 bags, one of them damaged, one with odd records and one with a time stamp that is not normalised, views of up to 2, any filter, 1 query, 1 iterator, fairness | types; requested messages only, in file order; the earlier head first; time order for bags recorded in time order; every behaviour is one of `Merge`: nothing is skipped and everything delivered; every `begin()` and `++` returns |
| `MCViewShared` | 3 bags, two of them damaged, 2 queries, 2 iterators, 1 bag per view | `Merge` for an iterator that nobody disturbed, while other iterators are made, copied, begun again, run into exceptions or run on another query of the same bag; sound bookkeeping under sharing and exceptions; exceptions only from faulty chunks that were selected |
| `MCViewRebegin` | 1 bag, 1 iterator | violated, see the findings |
| `MCReadMessages` | 4 bags, one from bytes with a definition that does not parse, one file with a connection without a topic, one damaged file, one without chunks; views of up to 2, 1 query, 1 iterator | exceptions cost what they should; each message has the definition of its connection; start and end time enclose every message; counts of connections are those of an iteration, if those in the index are right; undefined behaviour only by a closed file, after an exception, or from the times of a bag without chunks |
| `MCDecompress` | all lz4 data of up to 4 symbols, bz2 data of up to 3, frames of 3 units, pairs of frames and frames with up to three other symbols behind them, any two chunks and more in sequence | the outcomes that View takes for granted |
| `MCBag` | 3 complete files, 11 damaged ones | types; pointers valid; index, counts and topic map exact; complete files open; schemata sound; loading ends |
| `MCMessageParser` | 6 definitions, all buffers of 5 units with values up to 2, messages of 3 or 5 units; `Depth` 12; all options of `dict()` | types; no value has two parents; what a user finds is what the layout says; exceptions only for messages that are cut; the parser stays in its message, and so do all bytes that users read; Python objects are the message, blobs included; every way to a value agrees; the schema is true; parsing ends |
| `MCHandles` | 2 buffers, 2 vectors, 2 messages, 3 Pointers | types; use counts; live exactly when reachable; messages and what was made of them keep their bytes |
| `MCHandlesAcross` | 1 buffer, 1 vector, 1 message, 3 Pointers | violated, see the findings |
| `MCMsgDef` | topics with up to 2 fields and 2 embedded definitions, 7 field types | types; fields get the definition ROS means; none is forgotten; complete texts are accepted |
| `MCMsgDefClash` | the same, a package with a `Header` of its own | violated, see the findings |
| `MCMsgDefEmpty` | as `MCMsgDef` | violated, see the findings |

**Bounds.** `MaxBags` bounds calls of `addBag`, `Queries` calls of `getMessages`,
`Iterators` the iterator variables. A bag of `MCView` has up to three chunks and
five messages, which is enough for each path of `readMessage` and each pair of
them in sequence: two messages in a chunk, a chunk boundary with and without a
message to skip at it, chunks in an order that is not that of the index, chunks
without a requested topic, ties within and across bags, equal seconds with
different nanoseconds, damage behind and before sound chunks. Two bags suffice
for the merge since its properties compare two messages; two iterators suffice
for sharing since what others do to a wrapper is what one other can do.
`NsecsPerSec = 4` and `MaxWord = 7` keep the carry between the words visible.
Comparing words equals comparing `to_nsec` only for normalised stamps, so the bag
`raw` has one that is not between two that are: a bag may be recorded in the
order of `to_nsec` and still come out in another order. `SortedBag` is therefore
about the order that the code compares by, and `TimeOrdered` promises `to_nsec` only
of normalised stamps.
`SYMMETRY` is used over names that no constant mentions: of queries and iterators in
`MCViewShared`, of everything in `MCHandles`. All properties there are
invariants or, in `ImplementsMerge`, conditions on single steps that treat all
iterators alike, which symmetry preserves. In `MCBag` two connections
share a topic with different definitions, one has no topic, one has a
definition that does not parse; each damaged file has one defect.
`CHECK_DEADLOCK FALSE` in `MCBag`: a constructor that threw has no object and no
next step. In `MCMessageParser`: a parsed message is not parsed again. In
`MCMsgDef`: `parseMsgDef` returns. In `MCReadMessages` and `MCHandles`: undefined
behaviour has no next step, and a program may be done.

In `MCReadMessages` one iterator suffices: what a second one does to the wrappers
is in `MCViewShared`, and schemata, closed bags and exceptions pass from one loop to
the next through the state. Two bags in a view are needed for an exception that
leaves something to go on with. In `MCDecompress` a sequence of four symbols has
every way a frame can be wrong: no head, an error at any place, no end,
something behind the end; the longer ones fill buffers in several turns, and three
symbols behind a frame of one unit are what it takes for a second turn to return success. In
`MCHandles` two buffers let the view go on while a message holds the first, and three
Pointers are a value, a copy, and what is made from either; the use counts see the
owners of one block only, so more blocks add nothing.

In `MCMessageParser` a buffer of five units holds a length, the lengths of two
elements and their content, so every pair of the parser's cases is reached inside
an array, and each message is also there cut at any place. The definitions nest
an object in an object, arrays of objects in each other, arrays of strings of
either kind, constants before and between fields, and objects without fields. In
`MCMsgDef` two embedded definitions of at most one field suffice: a field is
resolved by itself, from the map and the package of the definition it is in.
Definitions are acyclic and no two have one name, as in recorded bags.

**Fairness.** `View!FairSpec` has weak fairness of `CallStep`, `Bag!FairSpec` of
`Load` and `MessageParser!FairSpec` of `ParseStep`: the code is sequential and never blocks, so a call that has started goes
on. There is no fairness for what the user calls; nothing says that anybody
increments an iterator.

## 4. Findings

Runs that TLC finds violated, each by what the code does against what a comment says:

* `begin()` on a query that was partly iterated (`lib/view.cc:19`) restarts the list
  of chunks but not the buffer and the place in it. The rest of the old buffer
  is then read in place of the first chunk: messages of the first chunk are
  missing, others come again. Run `MCViewRebegin`.
* `RosValue::operator=` between values of different types (`lib/ros_value.h:257`)
  destroys the old member of the union and then assigns to it, so it lets go of the
  message buffer twice, and a later use of another Pointer reads freed memory. The
  Python binding never assigns values. Run `MCHandlesAcross`.
* An embedded definition without members (`lib/message_def_parser.cc:94`), such as
  the one of `std_msgs/Empty`, makes the whole definition fail to parse. Run
  `MCMsgDefEmpty`.
* Removing `std_msgs/` from names (`lib/message_def_parser.cc:92`) merges
  `std_msgs/Header` with a `Header` of the package at hand: the latter is taken
  for both. A `foo/Header` with a field `std_msgs/Header` then contains itself, and
  parsing a message by it does not end. Run `MCMsgDefClash`.

Behaviour that the properties describe as it is, where a reader may expect other:

* A record without data that ends a chunk (`lib/view.cc:105`) makes
  `vector::at` throw, although the chunk is intact: the address of the data is
  taken before anybody looks at its length. `std_msgs/Empty` messages have no
  data. `FailureExplained` counts such a chunk among the faulty ones.
* An array of primitives without elements whose message ends the chunk
  (`lib/ros_value.cc:47`) has no buffer: the address of its first element is taken
  with `vector::at`, and `dict()` throws. `DictAsLaidOut` has this as the one
  reason besides a bad option.
* `connectionsForTopic` of an unknown topic (`lib/embag.h:64`) inserts the topic:
  afterwards `topics()` and `topicInBag()` report it, without connections.
* `__next__` after an exception (`python/embag.cc:37`) costs a message that nobody saw
  when it was the lookup of its schema that threw, and takes the top of an empty
  queue when the exception was about the last bag. `ExceptionCostsOne` and
  `UndefinedExplained` say how far this goes.
* lz4 data that goes on behind its first frame, or lacks the mark at its end
  (`lib/ros_bag_types.h:104`): see Decompress above.

## 5. What is proved

Each theorem holds for every value of the constants that satisfies the
assumptions of the modules it extends: any number of bags, queries and iterators,
any contents, any files, texts, definitions and buffers. The proofs have the
same shape throughout. An invariant that is a conjunction of named parts is shown to
hold at first (`InitOK` or its like) and to be preserved by each action, one
lemma per action; a last lemma goes through the actions, and each theorem is the
invariant, what it implies, and `PTL`.

| Module | Theorem | States |
|---|---|---|
| `View_proofs` | `TypeCorrect` | `TypeOK` |
| | `StructureSound` | `StructureOK` |
| | `FailuresExplained` | `FailureExplained` |
| | `DeliveredInFileOrder` | `RequestedInFileOrder` |
| | `HeadsInOrder` | `EarlierHeadFirst` |
| | `MergedInTimeOrder` | `TimeOrdered` |
| | `MergeRefined` | `Spec => ImplementsMerge` |
| `ReadMessages_proofs` | `EachExceptionCostsOne` | `ExceptionCostsOne` |
| | `GivenOwnDefinition` | `OwnDefinition` |
| | `UndefinedHasCause` | `UndefinedExplained` |
| | `GivenWithinTimes` | `WithinStartAndEnd` |
| | `CountsAreIterated` | `CountsAsIterated` |
| `Decompress_proofs` | `DecompressInvariance`, `DecompressesAsAssumed` | `AsTheViewAssumes` |
| `Bag_proofs` | `TypeCorrect` | `TypeOK` |
| | `BlocksNeverDangle` | `BlocksPointToChunks` |
| | `IndexIsExact` | `IndexExact` |
| | `WellFormedFilesOpen` | `WellFormedOpens` |
| | `SchemataAreSound` | `SchemataSound` |
| | `CountsAreEqual` | `CountsAgree` |
| `MessageParser_proofs` | `TypeCorrect` | `TypeOK` |
| | `ChildrenStayApart` | `ChildrenApart` |
| | `StaysOnCourse`, `WholeIsParsed` | `ThrowsOnlyWhenCut` |
| | `NeverLeavesMessage` | `StaysInMessage` |
| | `DecodesMessages` | `DecodedAsLaidOut` |
| | `ReadsPassedData`, `ReadsOnlyTheMessage` | `ReadsWithinMessage` |
| | `SchemasAreTrue` | `SchemaDescribes` |
| `MsgDef_proofs` | `TypeCorrect` | `TypeOK` |
| | `NoneForgotten` | `NoFieldForgotten` |
| | `ResolvedRight` | `ResolvedAsMeant` |
| | `CompleteIsAccepted` | `CompleteAccepted` |
| `Handles_proofs` | `TypeCorrect` | `TypeOK` |
| | `CountsAreExact` | `CountsExact` |
| | `NothingDanglesOrLeaks` | `LiveIffReachable` |
| | `BytesAreKept` | `MessageKeepsItsBytes` |

### View: structure

The inductive invariant is `Inv == TypeOK /\ StructureOK`. Neither part is
inductive alone: that a wrapper's fields keep their types needs that its place is
at a record, and that needs that the buffer is one of the wrapper's own chunks.
`StructureOK` carries more than a user sees for that reason: that a wrapper
without a buffer is at position 0, that the size it remembers is that of its
buffer unless decompression threw, that a dirty lz4 context is the work of a chunk
that cannot be decompressed, that an iterator under construction belongs
to the call that runs. Most lemmas about actions go through `QuietStep` (a
step that moves one wrapper) or `ThrowStep` (an exception).
`FailureExplained` is inductive relative to `Inv`: the lemma
`SoundChunk` shows that in a chunk without a fault no guard of an exception holds
at any record, and `SelectionStable` that a failure recorded earlier keeps its
explanation.

### View: delivery, order and refinement

`BaseInv` adds to `Inv` what is true of all wrappers: they have the chunks and
connections of their filter (`SelectionOK`), `chunk_iter` is a position, so behind a
chunk that is left all others are left (`PositionOK`), and a call that moves
wrappers has them to itself or nobody has (`AloneOK`).

`OrderInv` adds `DeliveryOK` for the iterators that are exclusive, that is, that
began on untouched wrappers and were not disturbed. Its heart is `CursorOK`: what
was requested of a bag and lies before its cursor (buffer and position) is exactly
what was shown of it, together with the message that it holds in the queue. The
equality makes this inductive. From one inclusion follows that nothing is shown
twice or that was not asked for; from the other, once the cursor is at the end,
that nothing was skipped. `StageOK` says that a bag is in one place only: in the
queue, being read, waiting for `begin()`, or lost to an exception.

`MergeInv` adds `TimeOK`: the top of the queue is one of the earliest heads
(`TopOK`), and what was shown came no later than what was at that time, or is now, the
next message of another bag (`HeadsOK`). For bags in order that gives the order of
everything shown and held (`SortedOK`). `MergeRefined` is the refinement, step by
step: `begin()`, `++`, copies and exceptions map to `Ready`, `Step` and `GiveUp` of `Merge`,
or to a move to or from `Off`, everything else to a stutter. Here
`CursorOK` yields what is left, and `TopOK` that what is shown may be shown next.

### Programs

`ProgramInv == ViewInv /\ ProgramOK /\ BudgetsOK`. `ViewInv` is `OrderInv`, with queries of
finitely many bags. `ProgramOK` ties each loop to its iterator: which call it is in, that
only one loop is in a call at a time (`LoopOK`), that until something was thrown a loop
that goes on has a message at the top of its queue (`ReadyOK`), and that a schema
which is kept is the one of its topic (`SchemataOK`). `BudgetsOK` is the accounting
behind `ExceptionCostsOne`: of what the iterator has shown, and of the message
that the next `++` adds to it, the loop was given each once, but for at most as
many as it met exceptions. The conditions in
`OwnDefinition` (the connections of the topic agree) and `WithinStartAndEnd` (chunk
infos are in order and cover their messages) are parts of these properties, since the code
relies on them; recorded bags need not meet them. `GivenWithinTimes` needs no more than `OrderInv` and lemmas about the two loops
of `getStartTime` and `getEndTime`.

`CountsAreIterated` compares a number of messages with a sum over senders of sums
over the entries of several bags. `LostOK` says that an iterator has lost a bag only
when its loop has met an exception, so without one `AllGiven` holds: what was given is
all that was asked for. These messages are then grouped twice by `SumOfGroups`: by the
entry (bag and connection) they came on (`SumOfEntries`), whose number is the count in
the index by `CountsSound`, and the entries by the sender that `==` calls
equal (`TotalOfEntries`), which is how `connectionsByTopicMap` adds them. The hypothesis
`CountsSound` is on the bags of the view only: the index of a file may lie, and the
view believes it.

### Bag

`Inv` of `Bag_proofs` follows the constructor through its sections (`StageOK`, `InfosOK`).
`BlocksOK` is the strengthening that matters: at any time the blocks of a connection
are the addresses of exactly those chunks in whose INDEX_DATA it was found so
far, in the storage that the vector still has, which is so because space for all
chunks was reserved before. `TopicsOK` does the same for topics. `WellFormedOpens`
is proved from the other parts: each place that throws contradicts a record of
a complete index. `IndexIsExact` holds for any order of the chunk infos, and after any
questions to the open bag.

`CountsAreEqual` has an invariant of its own, `CountsOK`: at every step of the
constructor the counts of the connections add up to those of the chunk infos, since
each INDEX_DATA is added on both sides, and the copies in the chunks pushed so far are
those infos, since a copy is made when none is left to be read. It holds of files that list
a chunk twice as well.

### Decompression

`DecompressInv` follows one call through the shared context. A call is `Fresh`, or it has made
its turns of the loop: with nothing behind the frame one turn is all there is, and
`DoneInOne` says what it left behind; for other data only `Filled` can be said, that the buffer
begins with a first part of the contents, however often it was overwritten: each
turn writes the same units again, so a prefix stays a prefix. `RunIs` characterises how
far a turn gets.

### Sums

`MapThenSumSet` and `Cardinality` are recursive over finite sets. The induction theorems of the
library take a predicate as parameter and cannot be used here, so `Sums` states
induction over subsets as a fact about a set: a family of subsets that has each
one of which it has all with an element less, has all (`AllSubsets`). This follows from the
well-foundedness of the numbers (`LeastNatural`). From it come the sum of a set with one more element,
of two disjoint sets, and of a set in groups (`SumOfGroups`, `CardinalityOfGroups`), whatever order the fold takes.

### Message parser

`Inv == Arranged(ros_values_, stack) /\ RestOK`. Each call in progress owns an interval of
the vector, a part of which is not visited yet (`FrameOK`). These intervals meet neither each
other nor the children of any finished value (`CallsApart`), and only
the innermost call appends (`EmplacesLast`), so the offset handed out to a child
early is the place where it is put late. `Apart` follows for every vector in
between, and `ChildrenApart` from that.

`CourseInv` relates the calls in progress to the layout. What is left to a call is a part
again (`Rest`): the members from the next one on, or the elements that are left. For a message
that has a layout there are offsets, one more than calls, such that the part of each call is
laid out from one to the next, the innermost one begins where the parser is, and the
outermost ends where the message does (`Course`). A turn takes a step of the innermost layout
off, a call splits it in two, and a return leaves an empty one behind. An exception
would need a length behind the buffer, at an offset where the layout has found it
(`ReadPastEndOffCourse`).

`TreeInv` adds what the values are. It assigns a tree and a number of steps to each place in
the vector (`Grown`). A place that was visited has the shape of its tree without its
children: a leaf with its type and offset, so many elements, these names (`Shaped`). If child
and parent are both visited, the child's tree is that part of the parent's, and takes fewer steps
(`KeysGrow`). The tree that the layout gives for what is left to a call agrees with the one
assigned to its value where fields or elements are left (`Agrees`). Places that wait have
no tree yet: they get one at their turn, from the layout of their part, while
the trees of all others stay. When the first call is through nothing waits, and by induction
over steps (`TreesGrown`) what a user finds at each place is its tree, at the first
place `Reference.tree`. That needs `ChildrenApart`: a child with two parents would have to have two
trees.

`BehindOffset` says that what was visited is read from bytes that the parser has passed, of the
value itself or of all elements of a blob: the offset only grows, and a turn leaves its value's
bytes behind it (`TurnBehind`). When the parser finishes, everything was visited and, in a
message that is whole, it is at the message's end (`StaysInMessage`), which gives
`ReadsWithinMessage`.

`StackMade` says what values were made for, apart from any bytes: there is an assignment of a
member to each place of the vector such that the field `k` of an object is at the place
that its offset and the number of fields before it give, and is a value of the kind that its
member asks for (`FieldsMade`), as are the elements of an array (`ElementsMade`). Only the innermost
call has fields not appended yet (`Has`). Values change after that, and so do offsets
and lengths in them, but never their kind (`SameKind`). At the end every field is there, and
`SchemaDescribes` compares member by member what the schema builder writes with what
`emplace_back` made (`ValueConforms`). It holds of messages that are cut at the end of the
buffer too, of definitions that contain themselves, and of arrays of length 0, which both sides
take for single values.

### Definitions

The invariant says of the fields that were passed that they have a definition
(`PassedOK`), that it is the one `Lookup` yields (`ResolvedOK`), which names the map
knows (`MapOK`), and, as a part of its own, `CompleteAccepted`. `ResolvedAsMeant`
then is a fact about `Lookup` and `Meant`, for texts in which removing `std_msgs/` does not
merge two names.

### Handles

`Inv == Heap(heap, None, None) /\ RestTyped /\ PlacesOK /\ MessagesOK /\ BytesOK`.
`Heap(h, y, v)` says that
the counts of `h` are the numbers of owners less what was miscounted, except one use of block
`y` that is about to go, that no vector is miscounted, since only elements are values of
their own, and that a vector has values exactly when it is in use, except vector `v` that is
about to get its first owner. The two exceptions make a sequence of
shares gained and lost, which one step of the program is, provable one after the
other. `LiveIffReachable` follows from these counts and owners that are named.

`BytesOK` makes `MessageKeepsItsBytes` inductive: each step notes which owners come to lead to
which chunk (`AsNoted`), and what a step puts into a buffer is put into one that is not in
use. A buffer without a count may still have an owner when it was miscounted, and would be
overwritten under it. That is why the theorem needs the model to stop at `Dangling`, as
the code's meaning does. `MessagesOK` says that the values of a message are of its own buffer.

### Assumptions

The constants are restricted by named assumptions, which TLC evaluates on each run:

* `TimeAssumption`, `ChunkAssumption`, `RecordAssumption`, `OffsetAssumption`,
  `ConnectionAssumption`, `SentinelAssumption`, `ViewAssumption` for the View (section 2),
  and for programs `ProgramAssumption` (what the maps of an open bag contain) and
  `VectorAssumption` (`chunks_` is a vector of chunks). `Bag` establishes what they say of
  complete files.
* `FilesAssumption`: counts are unsigned, and ids of connections are below `conn_count`, since
  another id indexes the vector of connections out of its bounds (`lib/embag.cc:210`), which is
  undefined. Counts and positions may be wrong, and records missing.
* `DefinitionAssumption`, `MessageAssumption`: definitions and buffers of the parser are sequences,
  and a message starts inside its buffer or at its end. `DepthAssumption`: `Depth` is a natural
  number, of any size.
* `TextAssumption`, `PrimitiveAssumption`, `MainAssumption`: no two definitions of a text have the
  same name, no type has the name of a primitive, and `Main`, which stands for the
  topic's own definition, is none of the type names.
* `HandlesAssumption`: buffers are not vectors, and vectors, messages and Pointers are finitely
  many, so that owners can be counted.

### What is model-checked only

* Liveness: `CallReturns`, `LoadEnds`, `ParseEnds`. They rest on fairness, which the
  provers cannot handle.
* The properties of `ValueAccess`: `DictAsLaidOut` and `WaysAgree`. Conversions and printing go
  through a parsed message by recursive operators, of which the provers cannot be told. What
  they start from is proved: the vector holds the message as it is laid out (`DecodesMessages`),
  and its values are read from the message only (`ReadsOnlyTheMessage`).

### What the proofs changed in the models

* `TimeOrdered` was false as first stated: it assumed bags recorded in the order of
  `to_nsec`, and an un-normalised stamp between normalised ones refutes it (bag `raw`
  shows it). `SortedBag` now is about the order that the view compares by.
* `AsTheViewAssumes` was false for data longer than the run had: a frame of one unit with more
  than a frame behind it, such as `head x end x x` for a buffer of two, returns success with the
  context inside the frame. What was excepted were two whole frames; the exception now is any data
  that goes on behind its first frame, and `MCDecompress` has such data.
* `DecodedAsLaidOut`, `ThrowsOnlyWhenCut` and `StaysInMessage` said nothing of arrays of
  length 0 in a type, which refutes all three, and `DecodedAsLaidOut` nothing of fields with one
  name, which leave open the field a name means; no definition of the run had either.
  `ArraysSized` and, for `DecodedAsLaidOut` and `SchemaDescribes`, `NamesApart` are hypotheses now, and `MessageLayout` has a bound
  on its steps, since the definitions of the theorems may contain themselves.
* `CountsAsIterated` held in the run because the indexes of its bags count right. That is
  now stated as the condition `CountsSound`.
* `ReadMessages`, `Bag` and `MsgDef` state as assumptions what their constants are (sequences,
  finite sets, ids in range, a name for the topic's own definition). Before, only the values in
  the runs said so.

## 6. What is left

All modules of section 2 are written, and every safety property but those of
`ValueAccess` is proved. What a reader has to connect by hand, and what could be done about it:

1. That a complete file, opened by `Bag`, satisfies the assumptions of `RosBagTypes` about
   its connections and chunks is `IndexExact` and a comparison by eye. The two modules name
   chunks differently; a module that instantiates both could state it as a theorem.
2. That a definition accepted by `MsgDef` satisfies `DefinitionAssumption` of the parser is
   `NoFieldForgotten`, in the same way.
3. `ValueAccess` could be given functions of a number of steps for its recursive operators, as
   `MessageLayout` was, and `DictAsLaidOut` then be proved on top of `DecodesMessages`.

Not modelled, and why: `lib/span.hpp` is vendored and not used by any code here; the
command line and the output of `embag_echo`, number formats and text encodings are
formatting; the registration of Python classes is declarations; the Spirit grammar
of a definition line is a library's parser configured by declarations; mapping
the file into memory is an operating system call, and lz4, bz2, `std::shared_ptr` and
pybind11 are libraries, of which the contract is modelled.
