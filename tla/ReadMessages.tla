---------------------------- MODULE ReadMessages ----------------------------
(***************************************************************************)
(* Whole programs: the Python loops of python/embag.cc and the loop of     *)
(* embag_echo, over the iterators of a View, with the schema lookup of     *)
(* operator* and with bags that are closed in between.                     *)
(*                                                                         *)
(* pybind11's make_iterator (external) keeps the iterator, the end and a   *)
(* flag first_or_done.  __next__ calls ++ unless the flag is set, raises   *)
(* StopIteration when the iterator equals the end, and else returns what   *)
(* operator* does.  The loop of embag_echo makes the same calls in the     *)
(* same order, but an exception or the end is the last thing it sees.      *)
(***************************************************************************)
EXTENDS View, FiniteSetsExt, SequencesExt

CONSTANTS
  FileBags,              \* the bags opened from a file; others are from bytes
  topic_connection_map_, \* [b][topic]: the ids of its connections, first to last
  connection_data_,      \* [b][id]: connection_data_t, see below
  Definitions,           \* the message definitions
  Unparsable,            \* those that parseMsgDef rejects
  Null                   \* a null pointer to a schema

(***************************************************************************)
(* connection_data_t: the definition, the count of messages from the       *)
(* index, and sender for the fields that == compares besides the topic.    *)
(* The map is the one of an open bag (Bag.tla, IndexExact).                *)
(***************************************************************************)
ASSUME ProgramAssumption ==
  /\ FileBags \subseteq Bags
  /\ Unparsable \subseteq Definitions
  /\ Null \notin Definitions
  /\ \A b \in Bags :
       /\ DOMAIN connection_data_[b] = DOMAIN connections_[b]
       /\ \A id \in DOMAIN connections_[b] :
            /\ connection_data_[b][id].message_definition \in Definitions
            /\ connection_data_[b][id].message_count \in Nat
       /\ DOMAIN topic_connection_map_[b] =
            {connections_[b][id].topic : id \in DOMAIN connections_[b]} \ {NoTopic}
       /\ \A t \in DOMAIN topic_connection_map_[b] :
            /\ topic_connection_map_[b][t] \in Seq(DOMAIN connections_[b])
            /\ ToSet(topic_connection_map_[b][t]) =
                 {id \in DOMAIN connections_[b] : connections_[b][id].topic = t}

\* The chunks of a bag are a vector.
ASSUME VectorAssumption ==
  \A b \in Bags : chunks_[b] \in Seq({chunks_[b][c] : c \in Chunks(b)})

VARIABLES
  loop,             \* loop[p]: the program's loop over iterator p
  read,             \* history: read[p], what that loop was given
  local,             \* the queries of views that read_messages made for itself
  message_schemata_, \* [b]: topic -> schema
  closed,           \* the bags that were closed
  raised,           \* history: an exception reached the program
  undefined         \* the behaviour of the program is undefined

program == <<loop, read, local, message_schemata_, closed, raised, undefined>>
allvars == <<vars, program>>

NoLoop == [kind |-> "none", at |-> "rest", first_or_done |-> TRUE]

Loop ==
  [kind : {"none", "read_messages", "view", "echo"},
   at : {"begin", "rest", "increment", "compare"},
   first_or_done : BOOLEAN]

NothingRead == [messages |-> <<>>, errors |-> 0, stopped |-> FALSE]

-----------------------------------------------------------------------------
ProgramInit ==
  /\ Init
  /\ loop = [p \in Iterators |-> NoLoop]
  /\ read = [p \in Iterators |-> NothingRead]
  /\ local = {}
  /\ message_schemata_ = [b \in Bags |-> <<>>]
  /\ closed = {}
  /\ raised = FALSE
  /\ undefined = FALSE

\* The program, one thread of Python or C++, may call something.
MayCall == call.pc = "idle" /\ ~undefined /\ \A p \in Iterators : loop[p].at = "rest"

\* A loop of this kind starts on iterator p with begin().
StartLoop(p, kind) ==
  /\ loop' = [loop EXCEPT ![p] = [kind |-> kind, at |-> "begin", first_or_done |-> TRUE]]
  /\ read' = [read EXCEPT ![p] = NothingRead]
  /\ UNCHANGED <<message_schemata_, closed, raised, undefined>>

\* The behaviour is undefined from here on.
Undefine ==
  /\ undefined' = TRUE
  /\ UNCHANGED <<vars, loop, read, local, message_schemata_, closed, raised>>

\* Every bag of the view has a first and a last chunk.
HaveTimes == \A k \in DOMAIN bags_ : chunks_[bags_[k]] # <<>>

\* getStartTime or getEndTime takes front() or back() of no chunks; otherwise
\* they change nothing.
AskTimes == MayCall /\ ~HaveTimes /\ Undefine

\* A loop over what getMessages returns.
Iterate(p, q, kind) ==
  /\ MayCall
  /\ q \notin local
  /\ Begin(p, q)
  /\ StartLoop(p, kind)
  /\ UNCHANGED local

\* View.__iter__.
Iter(p, q) == Iterate(p, q, "view")

\* embag_echo asks for the start and end times, and then loops.
Echo(p, q) == (HaveTimes /\ Iterate(p, q, "echo")) \/ AskTimes

(***************************************************************************)
(* Bag.read_messages: a View of its own with this bag, getMessages for     *)
(* None, a string or a list, and begin().                                  *)
(***************************************************************************)
read_messages(p, q, b, f) ==
  /\ MayCall
  /\ ~query[q].made
  /\ query' = [query EXCEPT ![q] = [made |-> TRUE, bags |-> {b}, filter |-> f]]
  /\ wrapper' = [wrapper EXCEPT ![q] =
       [a \in Bags |-> NewWrapper(ChunksToParse(a, f), ConnectionIds(a, f))]]
  /\ iter' = [iter EXCEPT ![p] =
       [NoIterator EXCEPT !.st = "building", !.query = q, !.fresh = TRUE, !.alone = TRUE]]
  /\ call' = [pc |-> "loop", it |-> p, bag |-> None, todo |-> {b}]
  /\ local' = local \cup {q}
  /\ StartLoop(p, "read_messages")
  /\ UNCHANGED <<bags_, lz4_ctx, failure>>

\* Bag::close.  Closing an open stream on bytes changes nothing that is read.
close(b) ==
  /\ MayCall
  /\ closed' = closed \cup {b}
  /\ UNCHANGED <<vars, loop, read, local, message_schemata_, raised, undefined>>

-----------------------------------------------------------------------------
(* The calls of the View, as the loops see them.                           *)

\* Mutant: close() lets go of the bytes as well.
LoadsAnyClosed ==
  /\ Reading
  /\ CallWrapper.current_buffer = None
  /\ call.bag \in closed

\* readMessage is about to decompress from a file that is not mapped any more.
LoadsClosed ==
  /\ Reading
  /\ CallWrapper.current_buffer = None
  /\ call.bag \in closed \cap FileBags

LoadUnmapped == LoadsClosed /\ ~undefined /\ Undefine

\* begin() or ++ goes on.
GoesOn ==
  /\ ~undefined
  /\ ~LoadsClosed
  /\ CallStep
  /\ call' # Idle
  /\ UNCHANGED program

\* begin() or ++ returns: now the iterator is at rest, or compared.
Returns ==
  LET p == call.it IN
  /\ ~undefined
  /\ Return
  /\ loop' = [loop EXCEPT ![p].at = IF @ = "begin" THEN "rest" ELSE "compare"]
  /\ UNCHANGED <<read, local, message_schemata_, closed, raised, undefined>>

\* Loop p is told of an exception; embag_echo ends, and what begin() threw
\* leaves no iterator behind.
Raise(p, over) ==
  /\ raised' = TRUE
  /\ IF over \/ loop[p].kind = "echo"
     THEN loop' = [loop EXCEPT ![p] = NoLoop] /\ read' = [read EXCEPT ![p] = NothingRead]
     ELSE loop' = [loop EXCEPT ![p].at = "rest"] /\ read' = [read EXCEPT ![p].errors = @ + 1]
  /\ UNCHANGED <<local, closed, undefined>>

\* begin() or ++ throws; first_or_done stays as it was.
Throws ==
  /\ ~undefined
  /\ ~LoadsClosed
  /\ LoadChunk \/ UnknownRecord \/ UnreadableRecord
  /\ call' = Idle
  /\ Raise(call.it, loop[call.it].at = "begin")
  /\ UNCHANGED message_schemata_

(***************************************************************************)
(* __next__ up to the comparison.  After an exception first_or_done is not *)
(* set, so ++ is called once more, on top() of a queue that may be empty.  *)
(***************************************************************************)
next(p) ==
  /\ MayCall
  /\ loop[p].kind # "none"
  /\ \/ /\ loop[p].first_or_done
        /\ loop' = [loop EXCEPT ![p].first_or_done = FALSE, ![p].at = "compare"]
        /\ UNCHANGED <<vars, read, local, message_schemata_, closed, raised, undefined>>
     \/ /\ ~loop[p].first_or_done
        /\ Increment(p)
        /\ loop' = [loop EXCEPT ![p].at = "increment"]
        /\ UNCHANGED <<read, local, message_schemata_, closed, raised, undefined>>
     \/ /\ ~loop[p].first_or_done
        /\ iter[p].queue = {}
        /\ Undefine

\* == compares the sizes of the queues, and the one of end() is empty.
EqualsEnd(p) == iter[p].queue = {}

\* StopIteration, or the end of the loop of embag_echo.
Stop(p) ==
  /\ loop[p].at = "compare" /\ ~undefined
  /\ EqualsEnd(p)
  /\ loop' = IF loop[p].kind = "echo"
             THEN [loop EXCEPT ![p] = NoLoop]
             ELSE [loop EXCEPT ![p].at = "rest", ![p].first_or_done = TRUE]
  /\ read' = [read EXCEPT ![p].stopped = TRUE]
  /\ UNCHANGED <<vars, local, message_schemata_, closed, raised, undefined>>

-----------------------------------------------------------------------------
(* operator*.                                                              *)

\* The message at the top.
Top(p) == wrapper[iter[p].query][iter[p].top].current

\* Mutant: the schema of another bag of the view will do.
KnownInAnyBag(b, t) ==
  LET others == {a \in Bags : t \in DOMAIN message_schemata_[a]} IN
  IF others = {} THEN {} ELSE {message_schemata_[CHOOSE a \in others : TRUE][t]}

\* The schema that the bag has for this topic, if it was asked for before.
Known(b, t) ==
  IF t \in DOMAIN message_schemata_[b] THEN {message_schemata_[b][t]} ELSE {}

SetSchema(b, t, s) ==
  message_schemata_' = [message_schemata_ EXCEPT ![b] =
    [u \in DOMAIN @ \cup {t} |-> IF u = t THEN s ELSE @[u]]]

\* The definition of a topic is the one of its first connection.
FirstDefinition(b, t) ==
  connection_data_[b][topic_connection_map_[b][t][1]].message_definition

\* The message goes to the program.  The tuple of read_messages and print()
\* parse it first, with a schema that must not be null.
Give(p, s) ==
  IF s = Null /\ loop[p].kind # "view"
  THEN /\ undefined' = TRUE
       /\ UNCHANGED <<loop, read, local, closed, raised>>
  ELSE /\ loop' = [loop EXCEPT ![p].at = "rest"]
       /\ read' = [read EXCEPT ![p].messages = Append(@, [message |-> Top(p), schema |-> s])]
       /\ UNCHANGED <<local, closed, raised, undefined>>

\* The loop is at a message: operator* looks up its schema by the topic.
AtMessage(p) == loop[p].at = "compare" /\ ~undefined /\ ~EqualsEnd(p)

GiveKnown(p) ==
  /\ AtMessage(p)
  /\ \E s \in Known(Top(p).bag, TopicOf(Top(p))) : Give(p, s)
  /\ UNCHANGED <<vars, message_schemata_>>

GiveParsed(p) ==
  LET b == Top(p).bag  t == TopicOf(Top(p)) IN
  /\ AtMessage(p)
  /\ Known(b, t) = {}
  /\ t # NoTopic /\ FirstDefinition(b, t) \notin Unparsable
  /\ SetSchema(b, t, FirstDefinition(b, t))
  /\ Give(p, FirstDefinition(b, t))
  /\ UNCHANGED vars

\* The topic is not in the map, or parseMsgDef throws; C++11 leaves open
\* whether operator[] has entered a null pointer by then.
RaiseLookup(p) ==
  LET b == Top(p).bag  t == TopicOf(Top(p)) IN
  /\ AtMessage(p)
  /\ Known(b, t) = {}
  /\ \/ t = NoTopic /\ UNCHANGED message_schemata_
     \/ /\ t # NoTopic /\ FirstDefinition(b, t) \in Unparsable
        /\ UNCHANGED message_schemata_ \/ SetSchema(b, t, Null)
  /\ Raise(p, FALSE)
  /\ UNCHANGED vars

-----------------------------------------------------------------------------
Setup ==
  /\ MayCall
  /\ \/ \E b \in Bags : AddBag(b)
     \/ \E q \in Queries : GetAllMessages(q)
     \/ \E q \in Queries, topics \in SUBSET Topics : GetTopicMessages(q, topics)
  /\ UNCHANGED program

ProgramNext ==
  \/ Setup
  \/ \E p \in Iterators, q \in Queries : Iter(p, q) \/ Echo(p, q)
  \/ \E p \in Iterators, q \in Queries, b \in Bags, f \in Filter : read_messages(p, q, b, f)
  \/ \E b \in Bags : close(b)
  \/ AskTimes
  \/ GoesOn \/ Returns \/ Throws \/ LoadUnmapped
  \/ \E p \in Iterators : next(p) \/ Stop(p) \/ GiveKnown(p) \/ GiveParsed(p) \/ RaiseLookup(p)

ProgramSpec == ProgramInit /\ [][ProgramNext]_allvars

-----------------------------------------------------------------------------
(* What the view and the bag say of their contents (vec is bags_).         *)

Maximum == [secs |-> MaxWord, nsecs |-> MaxWord]
Zero == [secs |-> 0, nsecs |-> 0]

\* Mutant: the seconds are compared, not the nanoseconds.
getStartTimeBySecs(vec) ==
  LET starts == {chunks_[vec[k]][1].start_time : k \in DOMAIN vec} \cup {Maximum} IN
  CHOOSE t \in starts :
    /\ \A u \in starts : t.secs <= u.secs
    /\ \A u \in starts : t.secs = u.secs => t.nsecs >= u.nsecs

\* The start of the first chunk info of each bag, and the end of its last.
getStartTime(vec) ==
  LET starts == {chunks_[vec[k]][1].start_time : k \in DOMAIN vec} \cup {Maximum} IN
  CHOOSE t \in starts : \A u \in starts : ~Less(u, t)

getEndTime(vec) ==
  LET ends == {chunks_[b][Len(chunks_[b])].end_time : b \in ToSet(vec)} \cup {Zero} IN
  CHOOSE t \in ends : \A u \in ends : ~Less(t, u)

topics(vec) == UNION {DOMAIN topic_connection_map_[b] : b \in ToSet(vec)}

\* The connections of topic t in each element of vec.
Entries(vec, t) ==
  {e \in (DOMAIN vec) \X (UNION {DOMAIN connections_[b] : b \in Bags}) :
     LET recordings == connections_[vec[e[1]]] IN
     e[2] \in DOMAIN recordings /\ recordings[e[2]].topic = t}

Sender(vec, e) == connection_data_[vec[e[1]]][e[2]].sender
CountOf(vec, e) == connection_data_[vec[e[1]]][e[2]].message_count

\* Mutant: an equal connection of another bag is passed over.
MergedOnce(vec, entries) ==
  [s \in {Sender(vec, e) : e \in entries} |->
     Max({CountOf(vec, e) : e \in {d \in entries : Sender(vec, d) = s}})]

\* Connections that == calls equal become one, with the sum of their counts.
Merged(vec, entries) ==
  [s \in {Sender(vec, e) : e \in entries} |->
     MapThenSumSet(LAMBDA e : CountOf(vec, e), {d \in entries : Sender(vec, d) = s})]

connectionsByTopicMap(vec) == [t \in topics(vec) |-> Merged(vec, Entries(vec, t))]

-----------------------------------------------------------------------------
(* Properties.                                                             *)

\* Loop p ran to its end, with an iterator that nobody else disturbed.
RanToEnd(p) == read[p].stopped /\ Exclusive(p)

Given(p) == {read[p].messages[k].message : k \in DOMAIN read[p].messages}

(***************************************************************************)
(* A loop that runs to its end was given every message that was asked for, *)
(* once, and no others; and when the program goes on after exceptions,     *)
(* each of them costs the rest of the bag that could not be read, or else  *)
(* at most one message: closing bags on bytes, or calling __next__ after   *)
(* the end, costs none (python/embag.cc, python/ros_compat.h).             *)
(***************************************************************************)
ExceptionCostsOne ==
  \A p \in Iterators : RanToEnd(p) =>
    LET q == iter[p].query
        readable == query[q].bags \ iter[p].lost
        due == UNION {Requested(q, b) : b \in readable} IN
    /\ Len(read[p].messages) = Cardinality(Given(p))
    /\ Given(p) \subseteq UNION {Requested(q, b) : b \in query[q].bags}
    /\ Cardinality(due \ Given(p)) <= read[p].errors

(***************************************************************************)
(* A message comes with the definition of its own connection when the      *)
(* connections of its topic agree on one, and without a schema only when   *)
(* that definition cannot be parsed (embag.h, msgDefForTopic).             *)
(***************************************************************************)
OwnDefinition ==
  \A p \in Iterators : \A k \in DOMAIN read[p].messages :
    LET m == read[p].messages[k].message
        own == connection_data_[m.bag][ConnectionOf(m)].message_definition
        agreed == \A id \in DOMAIN connections_[m.bag] :
          connections_[m.bag][id].topic = TopicOf(m) =>
            connection_data_[m.bag][id].message_definition = own IN
    agreed => read[p].messages[k].schema = IF own \in Unparsable THEN Null ELSE own

\* The chunk infos of bag b are in time order and cover their messages.
TimesSound(b) ==
  /\ chunks_[b] # <<>>
  /\ \A c \in Chunks(b) :
       /\ ~Less(chunks_[b][c].start_time, chunks_[b][1].start_time)
       /\ ~Less(chunks_[b][Len(chunks_[b])].end_time, chunks_[b][c].end_time)
       /\ \A m \in MessagesIn(b, c) :
            ~Less(TimeOf(m), chunks_[b][c].start_time) /\ ~Less(chunks_[b][c].end_time, TimeOf(m))

(***************************************************************************)
(* The time of every message that a view gives lies between its start and  *)
(* its end time, which look at one chunk of each bag only (view.cc:209).   *)
(***************************************************************************)
WithinStartAndEnd ==
  \A p \in Iterators : iter[p].st = "live" =>
    LET bags == query[iter[p].query].bags IN
    (\A b \in bags : TimesSound(b)) =>
      \A m \in Given(p) : /\ ~Less(TimeOf(m), getStartTime(SetToSeq(bags)))
                          /\ ~Less(getEndTime(SetToSeq(bags)), TimeOf(m))

\* The counts of all connections of topic t.
TotalCount(vec, t) ==
  LET counts == connectionsByTopicMap(vec)[t] IN
  MapThenSumSet(LAMBDA s : counts[s], DOMAIN counts)

\* The message counts in the index of bag b are the numbers of its messages.
CountsSound(b) ==
  \A id \in DOMAIN connections_[b] :
    connection_data_[b][id].message_count =
      Cardinality({m \in Messages(b) : ConnectionOf(m) = id})

(***************************************************************************)
(* When the index of every bag counts right, the counts of                 *)
(* connectionsByTopicMap are the numbers of messages that a loop over      *)
(* these topics gives, if no bag was added twice and nothing was thrown    *)
(* (view.h, connectionsByTopicMap).                                        *)
(***************************************************************************)
CountsAsIterated ==
  \A p \in Iterators : RanToEnd(p) /\ read[p].errors = 0 =>
    LET q == iter[p].query
        vec == SetToSeq(query[q].bags) IN
    (\A b \in query[q].bags : CountsSound(b)) =>
      \A t \in topics(vec) :
        query[q].filter.all \/ t \in query[q].filter.topics =>
          Cardinality({m \in Given(p) : TopicOf(m) = t}) = TotalCount(vec, t)

(***************************************************************************)
(* Undefined behaviour has one of three causes: the program went on after  *)
(* an exception, it closed a bag on a file, or its view has a bag without  *)
(* chunks, of which getStartTime and getEndTime take the first and the     *)
(* last (view.cc:209 and 226), as embag_echo does before its loop          *)
(* (embag_echo.cc:38).                                                     *)
(***************************************************************************)
UndefinedExplained ==
  undefined => raised \/ closed \cap FileBags # {} \/ ~HaveTimes

=============================================================================
