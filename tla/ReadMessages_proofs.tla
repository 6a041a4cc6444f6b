------------------------- MODULE ReadMessages_proofs -------------------------
(***************************************************************************)
(* What the loops of a program are given, and when its behaviour is        *)
(* undefined: proofs over those of the View.                               *)
(***************************************************************************)
EXTENDS ReadMessages, View_proofs, SequenceTheorems, Sums

-----------------------------------------------------------------------------
(***************************************************************************)
(* The invariant: that of the View, and how the loops stand to it.         *)
(***************************************************************************)

\* What a loop has been given.
LoopRead ==
  [messages : Seq([message : AllMessages, schema : Definitions \cup {Null}]),
   errors : Nat, stopped : BOOLEAN]

ProgramTypeOK ==
  /\ loop \in [Iterators -> Loop]
  /\ read \in [Iterators -> LoopRead]
  /\ closed \subseteq Bags
  /\ raised \in BOOLEAN /\ undefined \in BOOLEAN

\* One loop is in a call at a time; what runs or rests is what it says it is.
LoopOK(p) ==
  LET l == loop[p] IN
  /\ l.at # "rest" => \A r \in Iterators \ {p} : loop[r].at = "rest"
  /\ l.at \in {"begin", "increment"} <=> call.it = p
  /\ l.at = "begin" <=> iter[p].st = "building"
  /\ l.at = "begin" => l.first_or_done
  /\ l.at \in {"increment", "compare"} => ~l.first_or_done
  /\ l.kind = "none" => l = NoLoop
  /\ l.kind # "none" => iter[p].st # "none"

\* Without an iterator there is nothing.
OffOK == \A p \in Iterators : iter[p].st = "none" => iter[p] = NoIterator

\* A query has finitely many bags, and an iterator stays within them.
BagsOK ==
  /\ \A q \in Queries : IsFiniteSet(query[q].bags)
  /\ \A p \in Iterators : iter[p].st # "none" =>
       LET bags == query[iter[p].query].bags IN
       /\ iter[p].queue \subseteq bags
       /\ call.it = p => call.todo \subseteq bags
       /\ call.it = p /\ call.pc = "read" => call.bag \in bags

\* The definition of topic t as operator* finds it.
Schema(b, t) ==
  IF FirstDefinition(b, t) \in Unparsable THEN Null ELSE FirstDefinition(b, t)

\* What is noted for a topic is its definition, and null only after an exception.
SchemataOK ==
  /\ DOMAIN message_schemata_ = Bags
  /\ \A b \in Bags : \A t \in DOMAIN message_schemata_[b] :
       /\ t \in DOMAIN topic_connection_map_[b]
       /\ message_schemata_[b][t] = Schema(b, t)
       /\ message_schemata_[b][t] = Null => raised

\* What a loop was given is of the bags it iterates, with the definition.
GivenOK(p) ==
  \A k \in DOMAIN read[p].messages :
    LET m == read[p].messages[k].message IN
    /\ iter[p].st # "none" /\ m.bag \in query[iter[p].query].bags
    /\ TopicOf(m) # NoTopic
    /\ read[p].messages[k].schema = Schema(m.bag, TopicOf(m))

\* As long as nothing was thrown, ++ finds a message at the top.
ReadyOK(p) ==
  loop[p].at = "rest" /\ ~loop[p].first_or_done /\ iter[p].queue = {} => raised

ProgramOK ==
  /\ ProgramTypeOK
  /\ SchemataOK
  /\ \A p \in Iterators : LoopOK(p) /\ ReadyOK(p) /\ GivenOK(p)
  /\ UndefinedExplained

\* What the next ++ adds to what iterator p has shown.
Pending(p) ==
  IF loop[p].at = "rest" /\ ~loop[p].first_or_done /\ iter[p].queue # {} THEN {Top(p)} ELSE {}

\* A loop that was given ms was given, once each, all of S but for one each error.
MessagesOf(ms) == {ms[k].message : k \in DOMAIN ms}

Balanced(S, ms, errors) ==
  /\ MessagesOf(ms) \subseteq S
  /\ \A k, l \in DOMAIN ms : ms[k].message = ms[l].message => k = l
  /\ Cardinality(S \ MessagesOf(ms)) <= errors

\* Of what was shown, and of what the next ++ adds, a loop misses one each error;
\* after the end it calls ++ no more.
BudgetOK(p) ==
  Exclusive(p) /\ (loop[p].kind # "none" \/ read[p].stopped) =>
    /\ Balanced(Shown(iter[p]) \cup Pending(p), read[p].messages, read[p].errors)
    /\ read[p].stopped => /\ iter[p].queue = {} /\ iter[p].st = "live" /\ call.it # p
                          /\ loop[p].at = "rest" => loop[p].first_or_done

ViewInv == OrderInv /\ OffOK /\ BagsOK

BudgetsOK == \A p \in Iterators : BudgetOK(p)

ProgramInv == ViewInv /\ ProgramOK /\ BudgetsOK

-----------------------------------------------------------------------------
(* The view of read_messages: getMessages and begin() in one.              *)

Opened(p, q, b, f) ==
  /\ call = Idle /\ call.it # p
  /\ ~query[q].made /\ query'[q] = [made |-> TRUE, bags |-> {b}, filter |-> f]
  /\ \A r \in Queries \ {q} : query'[r] = query[r] /\ wrapper'[r] = wrapper[r]
  /\ query' \in [Queries -> [made : BOOLEAN, bags : SUBSET Bags, filter : Filter]]
  /\ DOMAIN wrapper' = Queries
  /\ wrapper'[q] = [a \in Bags |-> NewWrapper(ChunksToParse(a, f), ConnectionIds(a, f))]
  /\ iter'[p] = [NoIterator EXCEPT !.st = "building", !.query = q,
                                   !.fresh = TRUE, !.alone = TRUE]
  /\ iter' \in [Iterators -> Iterator]
  /\ \A j \in Iterators \ {p} : iter'[j] = iter[j]
  /\ call' = [pc |-> "loop", it |-> p, bag |-> None, todo |-> {b}]
  /\ UNCHANGED <<bags_, lz4_ctx, failure>>

LEMMA OpenFacts ==
  ASSUME Inv, NEW p \in Iterators, NEW q \in Queries, NEW b \in Bags, NEW f \in Filter,
         read_messages(p, q, b, f)
  PROVE  Opened(p, q, b, f)
  <1> DEFINE x == [NoIterator EXCEPT !.st = "building", !.query = q,
                                     !.fresh = TRUE, !.alone = TRUE]
             new == [a \in Bags |-> NewWrapper(ChunksToParse(a, f), ConnectionIds(a, f))]
             made == [made |-> TRUE, bags |-> {b}, filter |-> f]
  <1>1. /\ call.pc = "idle" /\ ~query[q].made
        /\ query' = [query EXCEPT ![q] = made]
        /\ wrapper' = [wrapper EXCEPT ![q] = new]
        /\ iter' = [iter EXCEPT ![p] = x]
        /\ call' = [pc |-> "loop", it |-> p, bag |-> None, todo |-> {b}]
        /\ UNCHANGED <<bags_, lz4_ctx, failure>>
    BY DEF read_messages, MayCall
  <1>2. call = Idle /\ call.it # p
    BY <1>1, ViewAssumption DEF Inv, StructureOK, CallOK, Idle
  <1>3. x \in Iterator
    <2>1. NoIterator \in Iterator
      BY DEF NoIterator, Iterator
    <2> QED
      BY <2>1 DEF Iterator
  <1>4. made \in [made : BOOLEAN, bags : SUBSET Bags, filter : Filter]
    OBVIOUS
  <1> HIDE DEF x, new, made
  <1>5. /\ query' \in [Queries -> [made : BOOLEAN, bags : SUBSET Bags, filter : Filter]]
        /\ DOMAIN wrapper' = Queries
        /\ query'[q] = made /\ wrapper'[q] = new
        /\ \A r \in Queries \ {q} : query'[r] = query[r] /\ wrapper'[r] = wrapper[r]
    BY <1>1, <1>4 DEF Inv, TypeOK
  <1>6. /\ iter' \in [Iterators -> Iterator] /\ iter'[p] = x
        /\ \A j \in Iterators \ {p} : iter'[j] = iter[j]
    BY <1>1, <1>3 DEF Inv, TypeOK
  <1> QED
    BY <1>1, <1>2, <1>5, <1>6 DEF x, new, made, Opened

LEMMA OpenOK ==
  ASSUME Inv, NEW p \in Iterators, NEW q \in Queries, NEW b \in Bags, NEW f \in Filter,
         read_messages(p, q, b, f)
  PROVE  Inv'
  <1> DEFINE made == [made |-> TRUE, bags |-> {b}, filter |-> f]
             new == [a \in Bags |-> NewWrapper(ChunksToParse(a, f), ConnectionIds(a, f))]
             x == [NoIterator EXCEPT !.st = "building", !.query = q,
                                     !.fresh = TRUE, !.alone = TRUE]
  <1>1. /\ call = Idle /\ call.it # p
        /\ ~query[q].made /\ query'[q] = made
        /\ \A r \in Queries \ {q} : query'[r] = query[r] /\ wrapper'[r] = wrapper[r]
        /\ query' \in [Queries -> [made : BOOLEAN, bags : SUBSET Bags, filter : Filter]]
        /\ DOMAIN wrapper' = Queries
        /\ wrapper'[q] = new
        /\ iter'[p] = x
        /\ iter' \in [Iterators -> Iterator]
        /\ \A j \in Iterators \ {p} : iter'[j] = iter[j]
        /\ call' = [pc |-> "loop", it |-> p, bag |-> None, todo |-> {b}]
        /\ UNCHANGED <<bags_, lz4_ctx, failure>>
    BY OpenFacts DEF Opened
  <1>2. DOMAIN new = Bags /\ \A a \in Bags : new[a] \in BagWrapper(a) /\ WrapperOK(a, new[a])
    BY FilterFacts DEF WrapperOK, NewWrapper
  <1>3. made \in [made : BOOLEAN, bags : SUBSET Bags, filter : Filter] /\ made.made
    OBVIOUS
  <1>4. x.st = "building" /\ x.query = q /\ x.queue = {}
    BY DEF NoIterator
  <1> HIDE DEF made, new, x
  <1>5. TypeOK'
    <2>1. \A r \in Queries :
            /\ DOMAIN wrapper'[r] = Bags
            /\ \A a \in Bags : wrapper'[r][a] \in BagWrapper(a)
      BY <1>1, <1>2 DEF Inv, TypeOK
    <2>2. call' \in Call
      BY <1>1 DEF Call
    <2> QED
      BY <1>1, <2>1, <2>2 DEF Inv, TypeOK
  <1>6. CallOK' /\ FailureOK'
    <2>1. CallOK'
      BY <1>1, <1>4, SentinelAssumption DEF CallOK
    <2>2. failure # None => failure.query \in Queries
      BY DEF Inv, TypeOK
    <2> QED
      BY <1>1, <1>3, <2>1, <2>2 DEF Inv, StructureOK, FailureOK
  <1>7. \A r \in Queries, a \in Bags : WrapperOK(a, wrapper'[r][a])
    BY <1>1, <1>2 DEF Inv, StructureOK
  <1>8. ASSUME NEW j \in Iterators PROVE IteratorOK(j)'
    <2>1. IteratorOK(j)
      BY DEF Inv, StructureOK
    <2>2. CASE j = p
      BY <1>1, <1>3, <1>4, <2>2 DEF IteratorOK
    <2>3. CASE j # p
      <3>1. call.it # j /\ (iter[j].st # "none" => iter[j].query # q)
        BY <1>1, <2>1, ViewAssumption DEF IteratorOK, Idle
      <3> QED
        BY <1>1, <2>1, <2>3, <3>1 DEF IteratorOK
    <2> QED
      BY <2>2, <2>3
  <1> QED
    BY <1>5, <1>6, <1>7, <1>8 DEF Inv, StructureOK

LEMMA OpenBase ==
  ASSUME BaseInv, OffOK, Inv', NEW p \in Iterators, NEW q \in Queries, NEW b \in Bags,
         NEW f \in Filter, read_messages(p, q, b, f)
  PROVE  BaseInv'
  <1> DEFINE new == [a \in Bags |-> NewWrapper(ChunksToParse(a, f), ConnectionIds(a, f))]
  <1>0. Opened(p, q, b, f)
    BY OpenFacts DEF BaseInv
  <1>1. /\ ~query[q].made /\ query'[q] = [made |-> TRUE, bags |-> {b}, filter |-> f]
        /\ \A r \in Queries \ {q} : query'[r] = query[r] /\ wrapper'[r] = wrapper[r]
        /\ wrapper'[q] = new
        /\ iter'[p] = [NoIterator EXCEPT !.st = "building", !.query = q,
                                         !.fresh = TRUE, !.alone = TRUE]
        /\ \A j \in Iterators \ {p} : iter'[j] = iter[j]
        /\ call' = [pc |-> "loop", it |-> p, bag |-> None, todo |-> {b}]
    BY <1>0 DEF Opened
  <1>2. \A a \in Bags : /\ new[a].chunks_to_parse = ChunksToParse(a, f)
                        /\ new[a].connection_ids = ConnectionIds(a, f)
                        /\ new[a].chunk_iter = {}
    BY DEF NewWrapper
  <1>3. query'[q].filter = f /\ iter'[p].query = q /\ call'.it = p
    BY <1>1 DEF NoIterator
  <1> HIDE DEF new
  <1>4. SelectionOK'
    BY <1>1, <1>2, <1>3 DEF BaseInv, SelectionOK
  <1>5. PositionOK'
    BY <1>1, <1>2 DEF BaseInv, PositionOK
  <1>6. AloneOK'
    <2> SUFFICES ASSUME NEW j \in Iterators \ {p}, iter'[j].query = q PROVE ~iter'[j].alone
      BY <1>3 DEF AloneOK, CallQuery
    <2>1. iter[j].query = q /\ iter'[j] = iter[j]
      BY <1>1
    <2>2. iter[j].st = "none"
      BY <1>1, <2>1 DEF BaseInv, Inv, StructureOK, IteratorOK
    <2> QED
      BY <2>1, <2>2 DEF OffOK, NoIterator
  <1> QED
    BY <1>4, <1>5, <1>6 DEF BaseInv

LEMMA OpenDelivery ==
  ASSUME BaseInv, NEW p \in Iterators, NEW q \in Queries, NEW b \in Bags, NEW f \in Filter,
         read_messages(p, q, b, f)
  PROVE  DeliveryOK(p)'
  <1>0. Opened(p, q, b, f)
    BY OpenFacts DEF BaseInv
  <1>1. /\ query'[q] = [made |-> TRUE, bags |-> {b}, filter |-> f]
        /\ wrapper'[q] = [a \in Bags |-> NewWrapper(ChunksToParse(a, f), ConnectionIds(a, f))]
        /\ iter'[p] = [NoIterator EXCEPT !.st = "building", !.query = q,
                                         !.fresh = TRUE, !.alone = TRUE]
        /\ call' = [pc |-> "loop", it |-> p, bag |-> None, todo |-> {b}]
    BY <1>0 DEF Opened
  <1>2. /\ iter'[p].st = "building" /\ iter'[p].query = q /\ iter'[p].queue = {}
        /\ iter'[p].out = <<>> /\ iter'[p].lost = {} /\ query'[q].bags = {b}
        /\ call'.pc = "loop" /\ wrapper'[q][b].current_buffer = None
    BY <1>1 DEF NoIterator, NewWrapper
  <1>3. Waiting(p)' = {b}
    BY <1>1 DEF Waiting
  <1>4. StageOK(p)'
    BY <1>2, <1>3 DEF StageOK
  <1>5. OutOK(p)'
    BY <1>2 DEF OutOK
  <1>6. CursorOK(p, b)'
    BY <1>2, <1>3 DEF CursorOK
  <1> QED
    BY <1>2, <1>4, <1>5, <1>6 DEF DeliveryOK

\* The other iterators stay as they are.
LEMMA OpenOthers ==
  ASSUME Inv, NEW p \in Iterators, NEW q \in Queries, NEW b \in Bags, NEW f \in Filter,
         read_messages(p, q, b, f), NEW j \in Iterators \ {p}, iter[j].st # "none"
  PROVE  Same(j, j)
  <1>0. Opened(p, q, b, f)
    BY OpenFacts
  <1>1. iter[j].query \in Queries /\ iter[j].query # q
    BY <1>0 DEF Inv, StructureOK, IteratorOK, Opened
  <1>2. call.it # j /\ call'.it # j
    BY <1>0, ViewAssumption DEF Idle, Opened
  <1> QED
    BY <1>0, <1>1, <1>2 DEF Same, Opened

LEMMA OpenOrder ==
  ASSUME OrderInv, OffOK, NEW p \in Iterators, NEW q \in Queries, NEW b \in Bags,
         NEW f \in Filter, read_messages(p, q, b, f)
  PROVE  OrderInv'
  <1>1. BaseInv /\ Inv /\ \A i \in Iterators : Exclusive(i) => DeliveryOK(i)
    BY DEF OrderInv, BaseInv
  <1>2. BaseInv'
    BY <1>1, OpenOK, OpenBase
  <1>3. ASSUME NEW j \in Iterators, Exclusive(j)' PROVE DeliveryOK(j)'
    <2>1. CASE j = p
      BY <1>1, <2>1, OpenDelivery
    <2>2. CASE j # p
      <3>0. Opened(p, q, b, f)
        BY <1>1, OpenFacts
      <3>1. iter'[j] = iter[j]
        BY <2>2, <3>0 DEF Opened
      <3>2. Exclusive(j) /\ iter[j].st # "none"
        BY <1>3, <3>1 DEF Exclusive
      <3> QED
        BY <1>1, <2>2, <3>2, OpenOthers, FrameDelivery
    <2> QED
      BY <2>1, <2>2
  <1> QED
    BY <1>2, <1>3 DEF OrderInv

-----------------------------------------------------------------------------
(* What the steps of the View do to the iterators.                         *)

\* A call that runs: it comes to nothing, goes on, or returns or throws.
LEMMA RunFacts ==
  ASSUME Inv, Inv', CallStep
  PROVE  LET i == call.it IN
         /\ call.pc # "idle" /\ i \in Iterators /\ query' = query
         /\ \A j \in Iterators \ {i} : iter'[j] = iter[j]
         /\ \/ iter'[i] = NoIterator /\ call' = Idle /\ iter[i].st = "building"
            \/ /\ iter'[i].query = iter[i].query /\ iter'[i].out = iter[i].out
               /\ iter'[i].fresh = iter[i].fresh /\ iter'[i].alone = iter[i].alone
               /\ \/ iter'[i].queue = iter[i].queue
                  \/ call.pc = "read" /\ iter'[i].queue = iter[i].queue \cup {call.bag}
               /\ \/ /\ call'.pc # "idle" /\ call'.it = i /\ iter'[i].st = iter[i].st
                     /\ call'.todo \subseteq call.todo
                     /\ call'.pc = "read" =>
                          call'.bag \in call.todo \/ (call.pc = "read" /\ call'.bag = call.bag)
                  \/ call' = Idle /\ iter'[i].st = "live"
  <1> DEFINE i == call.it
  <1>1. call.pc # "idle"
    BY DEF CallStep, BeginBag, LoadChunk, SkipRecord, TakeMessage, UnknownRecord,
       UnreadableRecord, FinishChunk, AtRecord, Reading, ReadEnd, Return
  <1>2. /\ i \in Iterators /\ iter[i] \in Iterator /\ iter[i].st # "none"
        /\ iter \in [Iterators -> Iterator] /\ call \in Call
    BY <1>1, CallFacts DEF Inv, TypeOK
  <1>3. query' = query /\ \A j \in Iterators \ {i} : iter'[j] = iter[j]
    BY StepGoesOn DEF CallGoesOn
  <1>4. ASSUME NEW w, Throw(w)
        PROVE  /\ call' = Idle
               /\ \/ iter'[i] = NoIterator /\ iter[i].st = "building"
                  \/ /\ iter'[i].query = iter[i].query /\ iter'[i].out = iter[i].out
                     /\ iter'[i].fresh = iter[i].fresh /\ iter'[i].alone = iter[i].alone
                     /\ iter'[i].queue = iter[i].queue /\ iter'[i].st = "live"
    <2>1. CASE iter[i].st = "building"
      BY <1>2, <1>4, <2>1 DEF Throw
    <2>2. CASE iter[i].st # "building"
      <3>1. iter[i].st = "live"
        BY <1>2, <2>2 DEF Iterator
      <3>2. PICK t : iter' = [iter EXCEPT ![i].top = t, ![i].lost = @ \cup {call.bag}]
        BY <1>4, <2>2 DEF Throw
      <3>3. iter'[i] = [iter[i] EXCEPT !.top = t, !.lost = @ \cup {call.bag}]
        BY <1>2, <3>2
      <3> QED
        BY <1>2, <1>4, <3>1, <3>3 DEF Throw, Iterator
    <2> QED
      BY <2>1, <2>2
  <1>5. CASE \E b \in Bags : BeginBag(b)
    <2>1. PICK b \in Bags : BeginBag(b)
      BY <1>5
    <2>2. /\ iter' = iter /\ b \in call.todo
          /\ call'.pc = "read" /\ call'.it = i /\ call'.bag = b /\ call'.todo \subseteq call.todo
      BY <1>2, <2>1 DEF BeginBag, Call
    <2> QED
      BY <1>1, <1>2, <1>3, <2>2
  <1>6. CASE LoadChunk
    <2>1. (iter' = iter /\ call' = call) \/ \E w : Throw(w)
      BY <1>6 DEF LoadChunk
    <2> QED
      BY <1>1, <1>2, <1>3, <1>4, <2>1
  <1>7. CASE SkipRecord \/ FinishChunk
    BY <1>1, <1>2, <1>3, <1>7 DEF SkipRecord, FinishChunk
  <1>8. CASE TakeMessage
    <2>1. /\ iter' = [iter EXCEPT ![i].queue = @ \cup {call.bag}]
          /\ call' = [call EXCEPT !.pc = "loop", !.bag = None] /\ call.pc = "read"
      BY <1>8 DEF TakeMessage, AtRecord, Reading
    <2>2. iter'[i] = [iter[i] EXCEPT !.queue = @ \cup {call.bag}]
      BY <1>2, <2>1
    <2>3. /\ iter'[i].query = iter[i].query /\ iter'[i].out = iter[i].out
          /\ iter'[i].fresh = iter[i].fresh /\ iter'[i].alone = iter[i].alone
          /\ iter'[i].queue = iter[i].queue \cup {call.bag} /\ iter'[i].st = iter[i].st
      BY <1>2, <2>2 DEF Iterator
    <2>4. call'.pc = "loop" /\ call'.it = i /\ call'.todo = call.todo
      BY <1>2, <2>1 DEF Call
    <2> QED
      BY <1>1, <1>2, <1>3, <2>1, <2>3, <2>4
  <1>9. CASE UnknownRecord \/ UnreadableRecord
    <2>1. \E w : Throw(w)
      BY <1>9 DEF UnknownRecord, UnreadableRecord
    <2> QED
      BY <1>1, <1>2, <1>3, <1>4, <2>1
  <1>10. CASE ReadEnd
    <2>1. iter' = iter /\ call'.pc = "loop" /\ call'.it = i /\ call'.todo = call.todo
      BY <1>2, <1>10 DEF ReadEnd, Call
    <2> QED
      BY <1>1, <1>2, <1>3, <2>1
  <1>11. CASE Return
    <2>1. PICK t : iter' = [iter EXCEPT ![i].st = "live", ![i].top = t]
      BY <1>11 DEF Return
    <2>2. iter'[i] = [iter[i] EXCEPT !.st = "live", !.top = t] /\ call' = Idle
      BY <1>2, <1>11, <2>1 DEF Return
    <2>3. /\ iter'[i].query = iter[i].query /\ iter'[i].out = iter[i].out
          /\ iter'[i].fresh = iter[i].fresh /\ iter'[i].alone = iter[i].alone
          /\ iter'[i].queue = iter[i].queue /\ iter'[i].st = "live"
      BY <1>2, <2>2 DEF Iterator
    <2> QED
      BY <1>1, <1>2, <1>3, <2>2, <2>3
  <1> QED
    BY <1>5, <1>6, <1>7, <1>8, <1>9, <1>10, <1>11 DEF CallStep

-----------------------------------------------------------------------------
(* Whom a step of the View concerns.                                       *)

\* Iterator j is where it was; if it is Exclusive, nothing happened to it.
Undisturbed(j) ==
  /\ iter'[j].st = iter[j].st /\ iter'[j].query = iter[j].query
  /\ iter'[j].queue = iter[j].queue
  /\ iter[j].st = "none" => iter'[j] = iter[j]
  /\ iter[j].st # "none" => query'[iter[j].query] = query[iter[j].query]
  /\ call.it # j /\ call'.it # j
  /\ Exclusive(j)' => Exclusive(j) /\ Same(j, j)

\* An iterator that the step leaves alone.
LEMMA LeftAlone ==
  ASSUME NEW j, iter'[j] = iter[j], call.it # j, call'.it # j,
         iter[j].st # "none" => /\ query'[iter[j].query] = query[iter[j].query]
                                /\ Exclusive(j) => wrapper'[iter[j].query] = wrapper[iter[j].query]
  PROVE  Undisturbed(j)
  BY DEF Undisturbed, Same, Exclusive

\* addBag and getMessages.
Prepare ==
  \/ \E b \in Bags : AddBag(b)
  \/ \E q \in Queries : GetAllMessages(q)
  \/ \E q \in Queries, some \in SUBSET Topics : GetTopicMessages(q, some)

LEMMA PrepareKinds ==
  ASSUME Prepare
  PROVE  (\E b \in Bags : AddBag(b)) \/ \E q \in Queries, f \in Filter : GetMessages(q, f)
  <1>1. /\ [all |-> TRUE, topics |-> {}] \in Filter
        /\ \A some \in SUBSET Topics : [all |-> FALSE, topics |-> some] \in Filter
    BY DEF Filter
  <1> QED
    BY <1>1 DEF Prepare, GetAllMessages, GetTopicMessages

LEMMA PrepareFacts ==
  ASSUME Inv, Prepare
  PROVE  call = Idle /\ call' = call /\ \A j \in Iterators : Undisturbed(j)
  <1>1. call.pc = "idle" /\ call' = call /\ iter' = iter
    BY PrepareKinds DEF AddBag, GetMessages
  <1>2. call = Idle /\ \A j \in Iterators : call.it # j
    BY <1>1, ViewAssumption DEF Inv, StructureOK, CallOK, Idle
  <1>3. ASSUME NEW j \in Iterators, iter[j].st # "none"
        PROVE  /\ query'[iter[j].query] = query[iter[j].query]
               /\ wrapper'[iter[j].query] = wrapper[iter[j].query]
    <2>1. iter[j].query \in Queries /\ query[iter[j].query].made
      BY <1>3 DEF Inv, StructureOK, IteratorOK
    <2>2. CASE \E b \in Bags : AddBag(b)
      BY <2>2 DEF AddBag
    <2>3. ASSUME NEW q \in Queries, NEW f, GetMessages(q, f)
          PROVE  query'[iter[j].query] = query[iter[j].query]
                 /\ wrapper'[iter[j].query] = wrapper[iter[j].query]
      <3>1. \A r \in Queries \ {q} : query'[r] = query[r] /\ wrapper'[r] = wrapper[r]
        BY <2>3 DEF GetMessages, Inv, TypeOK
      <3>2. iter[j].query # q
        BY <2>1, <2>3 DEF GetMessages
      <3> QED
        BY <2>1, <3>1, <3>2
    <2> QED
      BY <2>2, <2>3, PrepareKinds
  <1> QED
    BY <1>1, <1>2, <1>3, LeftAlone

\* begin() and ++ disturb those that share the wrappers.
LEMMA DisturbLeaves ==
  ASSUME Inv, OffOK, NEW i \in Iterators, NEW q \in Queries, NEW j \in Iterators \ {i},
         iter'[j] = Disturb(i, q)[j], UNCHANGED <<query, wrapper>>,
         call = Idle, call'.it = i
  PROVE  Undisturbed(j)
  <1>1. call.it # j /\ call'.it # j
    BY ViewAssumption DEF Idle
  <1>2. CASE iter[j].query = q
    <2>1. iter'[j] = [iter[j] EXCEPT !.alone = FALSE, !.out = <<>>] /\ iter[j] \in Iterator
      BY <1>2 DEF Disturb, Inv, TypeOK
    <2>2. /\ iter'[j].st = iter[j].st /\ iter'[j].query = iter[j].query
          /\ iter'[j].queue = iter[j].queue /\ ~iter'[j].alone
      BY <2>1 DEF Iterator
    <2>3. iter[j].st # "none"
      BY <1>2, ViewAssumption DEF NoIterator, OffOK
    <2> QED
      BY <1>1, <2>2, <2>3 DEF Undisturbed, Exclusive
  <1>3. CASE iter[j].query # q
    <2>1. iter'[j] = iter[j]
      BY <1>3 DEF Disturb
    <2> QED
      BY <1>1, <2>1, LeftAlone
  <1> QED
    BY <1>2, <1>3

LEMMA BeginFacts ==
  ASSUME Inv, OffOK, NEW p \in Iterators, NEW q \in Queries, Begin(p, q)
  PROVE  /\ call = Idle /\ query[q].made /\ UNCHANGED <<query, wrapper>>
         /\ iter'[p].st = "building" /\ iter'[p].query = q /\ iter'[p].queue = {}
         /\ iter'[p].out = <<>>
         /\ call'.pc = "loop" /\ call'.it = p /\ call'.todo = query[q].bags
         /\ \A j \in Iterators \ {p} : Undisturbed(j)
  <1> DEFINE d == Disturb(p, q)
             x == [NoIterator EXCEPT !.st = "building", !.query = q,
                                     !.fresh = Untouched(q), !.alone = TRUE]
  <1>1. /\ call.pc = "idle" /\ query[q].made
        /\ iter' = [d EXCEPT ![p] = x]
        /\ call' = [pc |-> "loop", it |-> p, bag |-> None, todo |-> query[q].bags]
        /\ UNCHANGED <<query, wrapper>>
    BY DEF Begin
  <1>2. x.st = "building" /\ x.query = q /\ x.queue = {} /\ x.out = <<>>
    BY DEF NoIterator
  <1>3. DOMAIN d = Iterators
    BY DEF Disturb
  <1> HIDE DEF x, d
  <1>4. iter'[p] = x /\ \A j \in Iterators \ {p} : iter'[j] = d[j]
    BY <1>1, <1>3
  <1>5. call = Idle
    BY <1>1 DEF Inv, StructureOK, CallOK
  <1>6. \A j \in Iterators \ {p} : Undisturbed(j)
    BY <1>1, <1>4, <1>5, DisturbLeaves DEF d
  <1> QED
    BY <1>1, <1>2, <1>4, <1>5, <1>6

LEMMA AdvanceFacts ==
  ASSUME Inv, OffOK, NEW p \in Iterators, Increment(p)
  PROVE  /\ call = Idle /\ UNCHANGED <<query, wrapper>>
         /\ iter[p].st = "live" /\ iter[p].queue # {} /\ iter[p].top \in iter[p].queue
         /\ iter'[p].st = "live" /\ iter'[p].query = iter[p].query
         /\ iter'[p].queue = iter[p].queue \ {iter[p].top}
         /\ call'.pc = "read" /\ call'.it = p /\ call'.bag = iter[p].top /\ call'.todo = {}
         /\ iter'[p].fresh = iter[p].fresh /\ iter'[p].alone = iter[p].alone
         /\ \A j \in Iterators \ {p} : Undisturbed(j)
  <1> DEFINE q == iter[p].query
             b == iter[p].top
             d == Disturb(p, q)
             o == IF iter[p].alone THEN Append(iter[p].out, wrapper[q][b].current)
                                   ELSE iter[p].out
  <1>1. DOMAIN d = Iterators /\ d[p] = iter[p] /\ iter[p] \in Iterator
    BY DEF Disturb, Inv, TypeOK
  <1>2. /\ iter' = [d EXCEPT ![p].queue = iter[p].queue \ {b}, ![p].out = o]
        /\ call.pc = "idle" /\ iter[p].st = "live" /\ iter[p].queue # {}
        /\ UNCHANGED <<query, wrapper>>
        /\ call' = [pc |-> "read", it |-> p, bag |-> b, todo |-> {}]
    BY <1>1 DEF Increment
  <1>3. call = Idle /\ call.it # p
    BY <1>2, ViewAssumption DEF Inv, StructureOK, CallOK, Idle
  <1>4. q \in Queries /\ b \in iter[p].queue
    BY <1>2, <1>3 DEF Inv, StructureOK, IteratorOK
  <1> HIDE DEF d, o, b, q
  <1>5. /\ iter'[p] = [iter[p] EXCEPT !.queue = iter[p].queue \ {b}, !.out = o]
        /\ \A j \in Iterators \ {p} : iter'[j] = d[j]
    BY <1>1, <1>2
  <1>6. /\ iter'[p].st = iter[p].st /\ iter'[p].query = iter[p].query
        /\ iter'[p].queue = iter[p].queue \ {b}
        /\ iter'[p].fresh = iter[p].fresh /\ iter'[p].alone = iter[p].alone
    BY <1>1, <1>5 DEF Iterator
  <1>7. \A j \in Iterators \ {p} : Undisturbed(j)
    BY <1>2, <1>3, <1>4, <1>5, DisturbLeaves DEF d
  <1> QED
    BY <1>2, <1>3, <1>4, <1>6, <1>7 DEF b

LEMMA RunLeaves ==
  ASSUME BaseInv, Inv', CallStep, NEW j \in Iterators \ {call.it}
  PROVE  Undisturbed(j)
  <1>1. /\ call.pc # "idle" /\ call.it \in Iterators /\ query' = query /\ iter'[j] = iter[j]
        /\ call' = Idle \/ call'.it = call.it
    BY RunFacts DEF BaseInv
  <1>2. call.it # j /\ call'.it # j
    BY <1>1, ViewAssumption DEF Idle
  <1>3. ASSUME iter[j].st # "none", Exclusive(j)
        PROVE  wrapper'[iter[j].query] = wrapper[iter[j].query]
    <2>1. iter[j].query \in Queries
      BY <1>3 DEF BaseInv, Inv, StructureOK, IteratorOK
    <2>2. iter[j].query # CallQuery
      BY <1>1, <1>3 DEF BaseInv, AloneOK, Exclusive
    <2>3. \A q \in Queries \ {CallQuery} : wrapper'[q] = wrapper[q]
      BY StepGoesOn DEF BaseInv, CallGoesOn
    <2> QED
      BY <2>1, <2>2, <2>3
  <1> QED
    BY <1>1, <1>2, <1>3, LeftAlone

LEMMA OpenLeaves ==
  ASSUME Inv, NEW p \in Iterators, NEW q \in Queries, NEW b \in Bags, NEW f \in Filter,
         read_messages(p, q, b, f)
  PROVE  /\ call = Idle /\ query'[q].bags = {b}
         /\ \A r \in Queries \ {q} : query'[r] = query[r]
         /\ iter'[p].st = "building" /\ iter'[p].query = q /\ iter'[p].queue = {}
         /\ iter'[p].out = <<>>
         /\ call'.pc = "loop" /\ call'.it = p /\ call'.todo = {b}
         /\ \A j \in Iterators \ {p} : Undisturbed(j)
  <1>0. Opened(p, q, b, f)
    BY OpenFacts
  <1>1. /\ call = Idle /\ query'[q].bags = {b}
        /\ \A r \in Queries \ {q} : query'[r] = query[r]
        /\ call'.pc = "loop" /\ call'.it = p /\ call'.todo = {b}
        /\ \A j \in Iterators \ {p} : iter'[j] = iter[j]
    BY <1>0 DEF Opened
  <1>2. /\ iter'[p].st = "building" /\ iter'[p].query = q /\ iter'[p].queue = {}
        /\ iter'[p].out = <<>>
    BY <1>0 DEF Opened, NoIterator
  <1>3. ASSUME NEW j \in Iterators \ {p} PROVE Undisturbed(j)
    <2>1. call.it # j /\ call'.it # j /\ iter'[j] = iter[j]
      BY <1>1, ViewAssumption DEF Idle
    <2>2. iter[j].st # "none" => Same(j, j)
      BY OpenOthers
    <2> QED
      BY <2>1, <2>2, LeftAlone DEF Same
  <1> QED
    BY <1>1, <1>2, <1>3

-----------------------------------------------------------------------------
(* The part of the invariant that is about the View.                       *)

Opens ==
  \E p \in Iterators, q \in Queries, b \in Bags, f \in Filter : read_messages(p, q, b, f)

\* What a step of the program is to the View.
LEMMA StepKinds ==
  ASSUME [ProgramNext]_allvars
  PROVE  \/ UNCHANGED vars
         \/ Prepare
         \/ \E p \in Iterators, q \in Queries : Begin(p, q)
         \/ Opens
         \/ \E p \in Iterators : Increment(p)
         \/ CallStep
  <1>1. CASE UNCHANGED allvars
    BY <1>1 DEF allvars
  <1>2. CASE Setup
    BY <1>2 DEF Setup, Prepare
  <1>3. CASE \E p \in Iterators, q \in Queries : Iter(p, q) \/ Echo(p, q)
    BY <1>3 DEF Iter, Echo, Iterate, AskTimes, Undefine
  <1>4. CASE \E p \in Iterators, q \in Queries, b \in Bags, f \in Filter : read_messages(p, q, b, f)
    BY <1>4 DEF Opens
  <1>5. CASE (\E b \in Bags : close(b)) \/ AskTimes \/ LoadUnmapped
    BY <1>5 DEF close, AskTimes, LoadUnmapped, Undefine
  <1>6. CASE GoesOn \/ Returns \/ Throws
    BY <1>6 DEF GoesOn, Returns, Throws, CallStep
  <1>7. CASE \E p \in Iterators : next(p) \/ Stop(p) \/ GiveKnown(p) \/ GiveParsed(p) \/ RaiseLookup(p)
    BY <1>7 DEF next, Stop, GiveKnown, GiveParsed, RaiseLookup, Undefine
  <1> QED
    BY <1>1, <1>2, <1>3, <1>4, <1>5, <1>6, <1>7 DEF ProgramNext

LEMMA KindsOfView ==
  ASSUME Prepare \/ (\E p \in Iterators, q \in Queries : Begin(p, q))
           \/ (\E p \in Iterators : Increment(p)) \/ CallStep
  PROVE  Next
  BY DEF Next, UserCall, Prepare

LEMMA BagsFinite ==
  ASSUME Inv, NEW q \in Queries, NEW f, GetMessages(q, f)
  PROVE  /\ IsFiniteSet(query'[q].bags)
         /\ \A r \in Queries \ {q} : query'[r] = query[r]
  <1>1. /\ query'[q].bags = {bags_[k] : k \in DOMAIN bags_}
        /\ \A r \in Queries \ {q} : query'[r] = query[r]
    BY DEF GetMessages, Inv, TypeOK
  <1>2. bags_ \in Surjection(1..Len(bags_), {bags_[k] : k \in DOMAIN bags_})
    BY DEF Surjection, Inv, TypeOK
  <1>3. Len(bags_) \in Nat
    BY DEF Inv, TypeOK
  <1>4. ExistsSurjection(1..Len(bags_), {bags_[k] : k \in DOMAIN bags_})
    BY <1>2 DEF ExistsSurjection
  <1> QED
    BY <1>1, <1>3, <1>4, FS_NatSurjection

\* An iterator that is undisturbed stays within its bags.
Within(p) ==
  iter[p].st # "none" =>
    LET bags == query[iter[p].query].bags IN
    /\ iter[p].queue \subseteq bags
    /\ call.it = p => call.todo \subseteq bags
    /\ call.it = p /\ call.pc = "read" => call.bag \in bags

LEMMA WithinStays ==
  ASSUME NEW j, Undisturbed(j), Within(j)
  PROVE  Within(j)'
  <1>1. PICK q : q = iter[j].query
    OBVIOUS
  <1> QED
    BY <1>1 DEF Undisturbed, Within

LEMMA BagsNext ==
  ASSUME ViewInv, Inv', [ProgramNext]_allvars
  PROVE  BagsOK'
  <1>1. /\ BaseInv /\ Inv /\ OffOK
        /\ \A q \in Queries : IsFiniteSet(query[q].bags)
        /\ \A j \in Iterators : Within(j)
    BY DEF ViewInv, OrderInv, BaseInv, BagsOK, Within
  <1>2. SUFFICES /\ \A q \in Queries : IsFiniteSet(query'[q].bags)
                 /\ \A j \in Iterators : Within(j)'
    BY DEF BagsOK, Within
  <1>3. CASE UNCHANGED vars
    <2>1. query' = query /\ iter' = iter /\ call' = call
      BY <1>3 DEF vars
    <2> QED
      BY <1>1, <2>1 DEF Within
  <1>4. CASE Prepare
    <2>1. \A q \in Queries : IsFiniteSet(query'[q].bags)
      <3>1. CASE \E b \in Bags : AddBag(b)
        BY <1>1, <3>1 DEF AddBag
      <3>2. ASSUME NEW q \in Queries, NEW f \in Filter, GetMessages(q, f)
            PROVE  \A r \in Queries : IsFiniteSet(query'[r].bags)
        BY <1>1, <3>2, BagsFinite
      <3> QED
        BY <1>4, <3>1, <3>2, PrepareKinds
    <2>2. \A j \in Iterators : Undisturbed(j)
      BY <1>1, <1>4, PrepareFacts
    <2> QED
      BY <1>1, <2>1, <2>2, WithinStays
  <1>5. ASSUME NEW p \in Iterators, NEW q \in Queries, Begin(p, q)
        PROVE  \A j \in Iterators : Within(j)' /\ query' = query
    <2>1. /\ query' = query /\ iter'[p].query = q /\ iter'[p].queue = {}
          /\ call'.pc = "loop" /\ call'.todo = query[q].bags
          /\ \A j \in Iterators \ {p} : Undisturbed(j)
      BY <1>1, <1>5, BeginFacts
    <2>2. Within(p)'
      BY <2>1 DEF Within
    <2> QED
      BY <1>1, <2>1, <2>2, WithinStays
  <1>6. ASSUME NEW p \in Iterators, NEW q \in Queries, NEW b \in Bags, NEW f \in Filter,
               read_messages(p, q, b, f)
        PROVE  /\ \A j \in Iterators : Within(j)'
               /\ \A r \in Queries : IsFiniteSet(query'[r].bags)
    <2>1. /\ query'[q].bags = {b} /\ \A r \in Queries \ {q} : query'[r] = query[r]
          /\ iter'[p].query = q /\ iter'[p].queue = {}
          /\ call'.pc = "loop" /\ call'.todo = {b}
          /\ \A j \in Iterators \ {p} : Undisturbed(j)
      BY <1>1, <1>6, OpenLeaves
    <2>2. Within(p)'
      BY <2>1 DEF Within
    <2>3. IsFiniteSet({b})
      BY FS_Singleton
    <2> QED
      BY <1>1, <2>1, <2>2, <2>3, WithinStays
  <1>7. ASSUME NEW p \in Iterators, Increment(p)
        PROVE  \A j \in Iterators : Within(j)' /\ query' = query
    <2>1. PICK q : q = iter[p].query
      OBVIOUS
    <2>2. /\ query' = query /\ iter[p].st = "live" /\ iter[p].top \in iter[p].queue
          /\ iter'[p].query = q /\ iter'[p].queue = iter[p].queue \ {iter[p].top}
          /\ call'.bag = iter[p].top /\ call'.todo = {}
          /\ \A j \in Iterators \ {p} : Undisturbed(j)
      BY <1>1, <1>7, <2>1, AdvanceFacts
    <2>3. Within(p)'
      BY <1>1, <2>1, <2>2 DEF Within
    <2> QED
      BY <1>1, <2>2, <2>3, WithinStays
  <1>8. CASE CallStep
    <2>1. PICK i, q : i = call.it /\ q = iter[i].query
      OBVIOUS
    <2>2. /\ call.pc # "idle" /\ i \in Iterators /\ query' = query
          /\ \/ iter'[i] = NoIterator
             \/ /\ iter'[i].query = q
                /\ \/ iter'[i].queue = iter[i].queue
                   \/ call.pc = "read" /\ iter'[i].queue = iter[i].queue \cup {call.bag}
                /\ \/ /\ call'.it = i
                      /\ call'.todo \subseteq call.todo
                      /\ call'.pc = "read" =>
                           call'.bag \in call.todo \/ (call.pc = "read" /\ call'.bag = call.bag)
                   \/ call' = Idle
      BY <1>1, <1>8, <2>1, RunFacts
    <2>3. /\ iter[i].queue \subseteq query[q].bags /\ call.todo \subseteq query[q].bags
          /\ call.pc = "read" => call.bag \in query[q].bags
      BY <1>1, <2>1, <2>2, CallFacts DEF Within
    <2>4. Within(i)'
      <3>1. CASE iter'[i] = NoIterator
        BY <3>1 DEF Within, NoIterator
      <3>2. CASE iter'[i] # NoIterator
        <4>1. iter'[i].query = q /\ iter'[i].queue \subseteq query'[q].bags
          BY <2>2, <2>3, <3>2
        <4>2. CASE call' = Idle
          BY <4>1, <4>2, <2>2, ViewAssumption DEF Idle, Within
        <4>3. CASE call' # Idle
          BY <4>1, <4>3, <2>2, <2>3, <3>2 DEF Within
        <4> QED
          BY <4>2, <4>3
      <3> QED
        BY <3>1, <3>2
    <2>5. \A j \in Iterators \ {i} : Undisturbed(j)
      BY <1>1, <1>8, <2>1, RunLeaves
    <2> QED
      BY <1>1, <2>2, <2>4, <2>5, WithinStays
  <1> QED
    BY <1>1, <1>3, <1>4, <1>5, <1>6, <1>7, <1>8, StepKinds DEF Opens

LEMMA OffNext ==
  ASSUME ViewInv, Inv', [ProgramNext]_allvars
  PROVE  OffOK'
  <1>1. BaseInv /\ Inv /\ OffOK
    BY DEF ViewInv, OrderInv, BaseInv
  <1>2. ASSUME NEW p, \A j \in Iterators \ {p} : Undisturbed(j),
               iter'[p].st # "none" \/ iter'[p] = NoIterator
        PROVE  OffOK'
    BY <1>1, <1>2 DEF OffOK, Undisturbed
  <1>3. CASE UNCHANGED vars
    BY <1>1, <1>3 DEF vars, OffOK
  <1>4. CASE Prepare
    BY <1>1, <1>4, PrepareFacts DEF OffOK, Undisturbed
  <1>5. ASSUME NEW p \in Iterators, NEW q \in Queries, Begin(p, q) PROVE OffOK'
    <2>1. iter'[p].st = "building" /\ \A j \in Iterators \ {p} : Undisturbed(j)
      BY <1>1, <1>5, BeginFacts
    <2> QED
      BY <1>2, <2>1
  <1>6. ASSUME NEW p \in Iterators, NEW q \in Queries, NEW b \in Bags, NEW f \in Filter,
               read_messages(p, q, b, f)
        PROVE  OffOK'
    <2>1. iter'[p].st = "building" /\ \A j \in Iterators \ {p} : Undisturbed(j)
      BY <1>1, <1>6, OpenLeaves
    <2> QED
      BY <1>2, <2>1
  <1>7. ASSUME NEW p \in Iterators, Increment(p) PROVE OffOK'
    <2>1. iter'[p].st = "live" /\ \A j \in Iterators \ {p} : Undisturbed(j)
      BY <1>1, <1>7, AdvanceFacts
    <2> QED
      BY <1>2, <2>1
  <1>8. CASE CallStep
    <2>1. PICK i : i = call.it
      OBVIOUS
    <2>2. /\ call.pc # "idle"
          /\ iter'[i] = NoIterator \/ iter'[i].st = iter[i].st \/ iter'[i].st = "live"
      BY <1>1, <1>8, <2>1, RunFacts
    <2>3. iter[i].st # "none"
      BY <1>1, <2>1, <2>2, CallFacts
    <2>4. \A j \in Iterators \ {i} : Undisturbed(j)
      BY <1>1, <1>8, <2>1, RunLeaves
    <2>5. iter'[i].st # "none" \/ iter'[i] = NoIterator
      BY <2>2, <2>3
    <2> QED
      BY <1>2, <2>4, <2>5
  <1> QED
    BY <1>3, <1>4, <1>5, <1>6, <1>7, <1>8, StepKinds DEF Opens

LEMMA ViewNext ==
  ASSUME ViewInv, [ProgramNext]_allvars
  PROVE  ViewInv'
  <1>1. OrderInv'
    <2>1. CASE UNCHANGED vars
      BY <2>1, OrderNext DEF ViewInv
    <2>2. CASE Opens
      BY <2>2, OpenOrder DEF ViewInv, Opens
    <2>3. CASE Next
      BY <2>3, OrderNext DEF ViewInv
    <2> QED
      BY <2>1, <2>2, <2>3, StepKinds, KindsOfView
  <1>2. Inv'
    BY <1>1 DEF OrderInv, BaseInv
  <1> QED
    BY <1>1, <1>2, OffNext, BagsNext DEF ViewInv

LEMMA ViewInit == Init => ViewInv
  <1> SUFFICES ASSUME Init PROVE ViewInv
    OBVIOUS
  <1>1. /\ \A i \in Iterators : iter[i] = NoIterator
        /\ \A q \in Queries : query[q].bags = {}
    BY DEF Init, NoQuery
  <1>2. OffOK
    BY <1>1 DEF OffOK
  <1>3. BagsOK
    <2>1. \A q \in Queries : IsFiniteSet(query[q].bags)
      BY <1>1, FS_EmptySet
    <2>2. \A p \in Iterators : iter[p].st = "none"
      BY <1>1 DEF NoIterator
    <2> QED
      BY <2>1, <2>2 DEF BagsOK
  <1> QED
    BY <1>2, <1>3, OrderInit DEF ViewInv

-----------------------------------------------------------------------------
(* What operator* finds.                                                   *)

\* The definition of a topic is the one of a connection of this topic.
LEMMA DefinitionFacts ==
  ASSUME NEW b \in Bags, NEW t \in DOMAIN topic_connection_map_[b]
  PROVE  /\ t # NoTopic
         /\ FirstDefinition(b, t) \in Definitions /\ FirstDefinition(b, t) # Null
         /\ \E id \in DOMAIN connections_[b] :
              /\ connections_[b][id].topic = t
              /\ FirstDefinition(b, t) = connection_data_[b][id].message_definition
  <1> DEFINE ids == topic_connection_map_[b][t]
  <1>1. /\ t # NoTopic /\ ids \in Seq(DOMAIN connections_[b])
        /\ {ids[k] : k \in DOMAIN ids} =
             {id \in DOMAIN connections_[b] : connections_[b][id].topic = t}
        /\ \E id \in DOMAIN connections_[b] : connections_[b][id].topic = t
    BY ProgramAssumption DEF ToSet
  <1>2. 1 \in DOMAIN ids
    BY <1>1
  <1>3. ids[1] \in DOMAIN connections_[b] /\ connections_[b][ids[1]].topic = t
    BY <1>1, <1>2
  <1>4. connection_data_[b][ids[1]].message_definition \in Definitions /\ Null \notin Definitions
    BY <1>3, ProgramAssumption
  <1> QED
    BY <1>1, <1>3, <1>4 DEF FirstDefinition

\* A message whose topic is not empty has a definition.
LEMMA TopicMapped ==
  ASSUME NEW b \in Bags, NEW m \in Messages(b), TopicOf(m) # NoTopic
  PROVE  TopicOf(m) \in DOMAIN topic_connection_map_[b]
  <1>1. /\ m.bag = b /\ ConnectionOf(m) \in DOMAIN connections_[b]
    BY MessageParts
  <1>2. TopicOf(m) = connections_[b][ConnectionOf(m)].topic
    BY <1>1 DEF TopicOf
  <1>3. DOMAIN topic_connection_map_[b] =
          {connections_[b][id].topic : id \in DOMAIN connections_[b]} \ {NoTopic}
    BY ProgramAssumption
  <1> QED
    BY <1>1, <1>2, <1>3

\* The message at the top of an iterator at rest.
LEMMA TopIsMessage ==
  ASSUME Inv, BagsOK, NEW p \in Iterators, iter[p].queue # {}, call.it # p
  PROVE  /\ iter[p].st # "none" /\ iter[p].query \in Queries
         /\ iter[p].top \in iter[p].queue /\ iter[p].top \in Bags
         /\ Top(p) \in Messages(iter[p].top) /\ Top(p) \in AllMessages
         /\ Top(p).bag = iter[p].top /\ Top(p).bag \in query[iter[p].query].bags
  <1>1. /\ IteratorOK(p) /\ iter[p] \in Iterator
    BY DEF Inv, TypeOK, StructureOK
  <1>2. /\ iter[p].st # "none" /\ iter[p].query \in Queries
        /\ iter[p].top \in iter[p].queue /\ iter[p].top \in Bags
        /\ Top(p) # None
    BY <1>1 DEF IteratorOK, Iterator, Top
  <1>3. Top(p) \in Messages(iter[p].top)
    BY <1>2 DEF Inv, TypeOK, BagWrapper, Top
  <1>4. Top(p) \in AllMessages /\ Top(p).bag = iter[p].top
    BY <1>2, <1>3, MessageFacts, MessageParts
  <1>5. iter[p].top \in query[iter[p].query].bags
    BY <1>2 DEF BagsOK
  <1> QED
    BY <1>2, <1>3, <1>4, <1>5

-----------------------------------------------------------------------------
(* The loops.                                                              *)

\* Loop j rests, and the step concerns neither it nor its iterator.
LoopStays(j) ==
  Undisturbed(j) /\ loop'[j] = loop[j] /\ read'[j] = read[j] /\ loop[j].at = "rest"

LEMMA LoopsStay ==
  ASSUME NEW j, LoopStays(j), LoopOK(j), ReadyOK(j), GivenOK(j), raised => raised'
  PROVE  LoopOK(j)' /\ ReadyOK(j)' /\ GivenOK(j)'
  <1>1. LoopOK(j)'
    BY DEF LoopStays, Undisturbed, LoopOK
  <1>2. ReadyOK(j)'
    BY DEF LoopStays, Undisturbed, ReadyOK
  <1>3. GivenOK(j)'
    <2>1. PICK q : q = iter[j].query
      OBVIOUS
    <2> QED
      BY <2>1 DEF LoopStays, Undisturbed, GivenOK
  <1> QED
    BY <1>1, <1>2, <1>3

\* A step of loop p.
LEMMA LoopMoves ==
  ASSUME ProgramOK, NEW p, \A j \in Iterators \ {p} : LoopStays(j), raised => raised',
         ProgramTypeOK', SchemataOK', UndefinedExplained',
         p \in Iterators => LoopOK(p)' /\ ReadyOK(p)' /\ GivenOK(p)'
  PROVE  ProgramOK'
  <1>1. ASSUME NEW j \in Iterators PROVE LoopOK(j)' /\ ReadyOK(j)' /\ GivenOK(j)'
    <2>1. CASE j = p
      BY <2>1
    <2>2. CASE j # p
      BY <2>2, LoopsStay DEF ProgramOK
    <2> QED
      BY <2>1, <2>2
  <1> QED
    BY <1>1 DEF ProgramOK

\* The schemata and the explanation of what is undefined stay.
LEMMA SchemataStay ==
  ASSUME SchemataOK, message_schemata_' = message_schemata_, raised => raised'
  PROVE  SchemataOK'
  BY DEF SchemataOK

LEMMA ExplainedStays ==
  ASSUME UndefinedExplained, undefined' = undefined, raised => raised', closed \subseteq closed',
         ~undefined \/ bags_' = bags_
  PROVE  UndefinedExplained'
  BY DEF UndefinedExplained, HaveTimes

\* While the program may call something, everything rests.
LEMMA RestFacts ==
  ASSUME Inv, MayCall
  PROVE  call = Idle /\ ~undefined /\ \A j \in Iterators : loop[j].at = "rest" /\ call.it # j
  BY ViewAssumption DEF Inv, StructureOK, CallOK, MayCall, Idle

\* While loop p is in a call or at its comparison, the others rest.
LEMMA OthersRest ==
  ASSUME ProgramOK, NEW p \in Iterators, loop[p].at # "rest"
  PROVE  \A j \in Iterators \ {p} : loop[j].at = "rest" /\ call.it # j
  <1>1. \A j \in Iterators \ {p} : loop[j].at = "rest"
    BY DEF ProgramOK, LoopOK
  <1> QED
    BY <1>1 DEF ProgramOK, LoopOK

\* What the View does not see leaves its iterators alone.
LEMMA ViewSame ==
  ASSUME UNCHANGED vars, NEW j, call.it # j
  PROVE  Undisturbed(j)
  <1>1. iter' = iter /\ query' = query /\ wrapper' = wrapper /\ call' = call
    BY DEF vars
  <1> QED
    BY <1>1, LeftAlone

\* A loop is set, with what it was given.
LEMMA SetLoop ==
  ASSUME ProgramTypeOK, NEW p \in Iterators, NEW l \in Loop, NEW r \in LoopRead,
         loop' = [loop EXCEPT ![p] = l], read' = [read EXCEPT ![p] = r]
  PROVE  /\ loop' \in [Iterators -> Loop] /\ read' \in [Iterators -> LoopRead]
         /\ loop'[p] = l /\ read'[p] = r
         /\ \A j \in Iterators \ {p} : loop'[j] = loop[j] /\ read'[j] = read[j]
  BY DEF ProgramTypeOK

LEMMA StartTypes ==
  /\ NothingRead \in LoopRead /\ NothingRead.messages = <<>>
  /\ NoLoop \in Loop
  /\ \A kind \in {"read_messages", "view", "echo"} :
       [kind |-> kind, at |-> "begin", first_or_done |-> TRUE] \in Loop
  BY DEF NothingRead, LoopRead, NoLoop, Loop

\* A loop starts.
LEMMA StartOK ==
  ASSUME ProgramOK, Inv, MayCall, NEW p \in Iterators,
         NEW kind \in {"read_messages", "view", "echo"}, StartLoop(p, kind),
         iter'[p].st = "building", call'.it = p, \A j \in Iterators \ {p} : Undisturbed(j)
  PROVE  ProgramOK'
  <1> DEFINE l == [kind |-> kind, at |-> "begin", first_or_done |-> TRUE]
  <1>1. /\ loop' = [loop EXCEPT ![p] = l] /\ read' = [read EXCEPT ![p] = NothingRead]
        /\ UNCHANGED <<message_schemata_, closed, raised, undefined>>
    BY DEF StartLoop
  <1>2. l \in Loop /\ l.kind = kind /\ l.at = "begin" /\ l.first_or_done
    BY StartTypes
  <1>3. \A j \in Iterators : loop[j].at = "rest"
    BY RestFacts
  <1> HIDE DEF l
  <1>4. /\ loop' \in [Iterators -> Loop] /\ read' \in [Iterators -> LoopRead]
        /\ loop'[p] = l /\ read'[p] = NothingRead
        /\ \A j \in Iterators \ {p} : loop'[j] = loop[j] /\ read'[j] = read[j]
    BY <1>1, <1>2, StartTypes, SetLoop DEF ProgramOK
  <1>5. ProgramTypeOK'
    BY <1>1, <1>4 DEF ProgramOK, ProgramTypeOK
  <1>6. SchemataOK' /\ UndefinedExplained'
    BY <1>1, RestFacts, SchemataStay, ExplainedStays DEF ProgramOK
  <1>7. LoopOK(p)' /\ ReadyOK(p)'
    BY <1>2, <1>3, <1>4 DEF LoopOK, ReadyOK
  <1>8. GivenOK(p)'
    BY <1>4, StartTypes DEF GivenOK
  <1>9. \A j \in Iterators \ {p} : LoopStays(j)
    BY <1>3, <1>4 DEF LoopStays
  <1> QED
    BY <1>1, <1>5, <1>6, <1>7, <1>8, <1>9, LoopMoves

LEMMA IterateOK ==
  ASSUME ProgramOK, Inv, OffOK, NEW p \in Iterators, NEW q \in Queries,
         NEW kind \in {"view", "echo"}, Iterate(p, q, kind)
  PROVE  ProgramOK'
  <1>2. MayCall /\ Begin(p, q) /\ StartLoop(p, kind)
    BY DEF Iterate
  <1> QED
    BY <1>2, BeginFacts, StartOK

LEMMA ReadMessagesOK ==
  ASSUME ProgramOK, Inv, NEW p \in Iterators, NEW q \in Queries, NEW b \in Bags,
         NEW f \in Filter, read_messages(p, q, b, f)
  PROVE  ProgramOK'
  <1>1. MayCall /\ StartLoop(p, "read_messages")
    BY DEF read_messages
  <1> QED
    BY <1>1, OpenLeaves, StartOK

\* The loops stay, and so do the iterators they stand on.
LEMMA AllStay ==
  ASSUME ProgramOK, UNCHANGED <<loop, read, message_schemata_, raised>>,
         \A j \in Iterators : LoopStays(j), closed \subseteq closed', closed' \subseteq Bags,
         undefined' = undefined, ~undefined
  PROVE  ProgramOK'
  <1>1. ProgramTypeOK'
    BY DEF ProgramOK, ProgramTypeOK
  <1>2. SchemataOK' /\ UndefinedExplained'
    BY SchemataStay, ExplainedStays DEF ProgramOK
  <1>3. \A j \in Iterators : LoopOK(j)' /\ ReadyOK(j)' /\ GivenOK(j)'
    BY LoopsStay DEF ProgramOK
  <1> QED
    BY <1>1, <1>2, <1>3 DEF ProgramOK

LEMMA SetupOK == ProgramOK /\ Inv /\ Setup => ProgramOK'
  <1> SUFFICES ASSUME ProgramOK, Inv, Setup PROVE ProgramOK'
    OBVIOUS
  <1>1. MayCall /\ Prepare /\ UNCHANGED program
    BY DEF Setup, Prepare
  <1>2. UNCHANGED <<loop, read, message_schemata_, raised, closed, undefined>>
    BY <1>1 DEF program
  <1>3. \A j \in Iterators : LoopStays(j)
    BY <1>1, <1>2, RestFacts, PrepareFacts DEF LoopStays
  <1>4. closed \subseteq Bags /\ ~undefined
    BY <1>1 DEF ProgramOK, ProgramTypeOK, MayCall
  <1> QED
    BY <1>2, <1>3, <1>4, AllStay

LEMMA CloseOK == ASSUME NEW b \in Bags PROVE ProgramOK /\ Inv /\ close(b) => ProgramOK'
  <1> SUFFICES ASSUME ProgramOK, Inv, close(b) PROVE ProgramOK'
    OBVIOUS
  <1>1. /\ MayCall /\ closed' = closed \cup {b} /\ UNCHANGED vars
        /\ UNCHANGED <<loop, read, message_schemata_, raised, undefined>>
    BY DEF close
  <1>2. \A j \in Iterators : LoopStays(j)
    BY <1>1, RestFacts, ViewSame DEF LoopStays
  <1>3. closed \subseteq Bags /\ ~undefined
    BY <1>1 DEF ProgramOK, ProgramTypeOK, MayCall
  <1> QED
    BY <1>1, <1>2, <1>3, AllStay

\* The behaviour becomes undefined, for a reason.
LEMMA UndefineOK ==
  ASSUME ProgramOK, Undefine, raised \/ closed \cap FileBags # {} \/ ~HaveTimes
  PROVE  ProgramOK'
  <1>1. /\ undefined' = TRUE
        /\ UNCHANGED <<loop, read, message_schemata_, closed, raised>>
        /\ iter' = iter /\ call' = call /\ query' = query /\ bags_' = bags_
    BY DEF Undefine, vars
  <1>2. ProgramTypeOK' /\ SchemataOK' /\ UndefinedExplained'
    BY <1>1, SchemataStay DEF ProgramOK, ProgramTypeOK, UndefinedExplained, HaveTimes
  <1>3. ASSUME NEW j \in Iterators PROVE LoopOK(j)' /\ ReadyOK(j)' /\ GivenOK(j)'
    <2>1. LoopOK(j)'
      BY <1>1 DEF ProgramOK, LoopOK
    <2>2. ReadyOK(j)' /\ GivenOK(j)'
      BY <1>1 DEF ProgramOK, ReadyOK, GivenOK
    <2> QED
      BY <2>1, <2>2
  <1> QED
    BY <1>2, <1>3 DEF ProgramOK

LEMMA AskTimesOK == ProgramOK /\ AskTimes => ProgramOK'
  BY UndefineOK DEF AskTimes

LEMMA LoadUnmappedOK == ProgramOK /\ LoadUnmapped => ProgramOK'
  BY UndefineOK DEF LoadUnmapped, LoadsClosed

LEMMA StutterOK == ProgramOK /\ UNCHANGED allvars => ProgramOK'
  <1> SUFFICES ASSUME ProgramOK, UNCHANGED allvars PROVE ProgramOK'
    OBVIOUS
  <1>1. /\ UNCHANGED <<loop, read, message_schemata_, closed, raised, undefined>>
        /\ iter' = iter /\ call' = call /\ query' = query /\ bags_' = bags_
    BY DEF allvars, program, vars
  <1>2. ProgramTypeOK' /\ SchemataOK' /\ UndefinedExplained'
    BY <1>1, SchemataStay, ExplainedStays DEF ProgramOK, ProgramTypeOK
  <1>3. ASSUME NEW j \in Iterators PROVE LoopOK(j)' /\ ReadyOK(j)' /\ GivenOK(j)'
    <2>1. LoopOK(j)'
      BY <1>1 DEF ProgramOK, LoopOK
    <2>2. ReadyOK(j)' /\ GivenOK(j)'
      BY <1>1 DEF ProgramOK, ReadyOK, GivenOK
    <2> QED
      BY <2>1, <2>2
  <1> QED
    BY <1>2, <1>3 DEF ProgramOK

\* The loop whose call runs.
LEMMA Runner ==
  ASSUME ProgramOK, BaseInv, Inv', CallStep
  PROVE  LET p == call.it IN
         /\ p \in Iterators /\ call.pc # "idle" /\ query' = query
         /\ loop[p].at \in {"begin", "increment"}
         /\ loop[p].kind # "none"
         /\ \A j \in Iterators \ {p} : loop[j].at = "rest" /\ Undisturbed(j)
  <1>1. PICK p : p = call.it
    OBVIOUS
  <1>2. p \in Iterators /\ call.pc # "idle" /\ query' = query
    BY <1>1, RunFacts DEF BaseInv
  <1>3. loop[p].at \in {"begin", "increment"}
    BY <1>1, <1>2 DEF ProgramOK, LoopOK
  <1>4. loop[p].kind # "none"
    BY <1>2, <1>3 DEF ProgramOK, LoopOK, NoLoop
  <1>5. \A j \in Iterators \ {p} : loop[j].at = "rest" /\ Undisturbed(j)
    BY <1>1, <1>2, <1>3, OthersRest, RunLeaves
  <1> QED
    BY <1>1, <1>2, <1>3, <1>4, <1>5

LEMMA GoesOnOK == ProgramOK /\ BaseInv /\ Inv' /\ GoesOn => ProgramOK'
  <1> SUFFICES ASSUME ProgramOK, BaseInv, Inv', GoesOn PROVE ProgramOK'
    OBVIOUS
  <1>1. /\ CallStep /\ call' # Idle /\ ~undefined
        /\ UNCHANGED <<loop, read, message_schemata_, closed, raised, undefined>>
    BY DEF GoesOn, program
  <1>2. PICK p : p = call.it
    OBVIOUS
  <1>3. /\ p \in Iterators /\ call.pc # "idle" /\ query' = query
        /\ loop[p].at \in {"begin", "increment"}
        /\ \A j \in Iterators \ {p} : loop[j].at = "rest" /\ Undisturbed(j)
    BY <1>1, <1>2, Runner
  <1>4. call'.it = p /\ iter'[p].st = iter[p].st /\ iter'[p].query = iter[p].query
    BY <1>1, <1>2, RunFacts DEF BaseInv
  <1>5. ProgramTypeOK' /\ SchemataOK' /\ UndefinedExplained'
    BY <1>1, SchemataStay, ExplainedStays DEF ProgramOK, ProgramTypeOK
  <1>6. LoopOK(p)'
    BY <1>1, <1>2, <1>3, <1>4 DEF ProgramOK, LoopOK
  <1>7. ReadyOK(p)'
    BY <1>1, <1>3 DEF ReadyOK
  <1>8. GivenOK(p)'
    BY <1>1, <1>3, <1>4 DEF ProgramOK, GivenOK
  <1>9. \A j \in Iterators \ {p} : LoopStays(j)
    BY <1>1, <1>3 DEF LoopStays
  <1> QED
    BY <1>1, <1>5, <1>6, <1>7, <1>8, <1>9, LoopMoves

LEMMA ReturnFacts ==
  ASSUME ProgramOK, BaseInv, Inv', Returns
  PROVE  LET p == call.it IN
         /\ p \in Iterators /\ call.pc # "idle" /\ call' = Idle
         /\ query' = query /\ loop[p].kind # "none"
         /\ iter'[p].st = "live" /\ iter'[p].query = iter[p].query
         /\ iter'[p].queue = iter[p].queue /\ iter'[p].out = iter[p].out
         /\ loop' \in [Iterators -> Loop]
         /\ loop'[p].kind = loop[p].kind /\ loop'[p].first_or_done = loop[p].first_or_done
         /\ \/ loop[p].at = "begin" /\ loop'[p].at = "rest"
            \/ loop[p].at = "increment" /\ loop'[p].at = "compare"
         /\ UNCHANGED <<read, message_schemata_, closed, raised, undefined>>
         /\ \A j \in Iterators \ {p} : LoopStays(j)
  <1>1. PICK p : p = call.it
    OBVIOUS
  <1>2. CallStep /\ Return
    BY DEF Returns, CallStep
  <1>3. /\ p \in Iterators /\ call.pc # "idle" /\ query' = query
        /\ loop[p].at \in {"begin", "increment"} /\ loop[p].kind # "none"
        /\ \A j \in Iterators \ {p} : loop[j].at = "rest" /\ Undisturbed(j)
    BY <1>1, <1>2, Runner
  <1>4. PICK t : iter' = [iter EXCEPT ![p].st = "live", ![p].top = t] /\ call' = Idle
    BY <1>1, <1>2 DEF Return
  <1>5. iter'[p] = [iter[p] EXCEPT !.st = "live", !.top = t] /\ iter[p] \in Iterator
    BY <1>3, <1>4 DEF BaseInv, Inv, TypeOK
  <1>6. /\ iter'[p].st = "live" /\ iter'[p].query = iter[p].query
        /\ iter'[p].queue = iter[p].queue /\ iter'[p].out = iter[p].out
    BY <1>5 DEF Iterator
  <1> DEFINE at == IF loop[p].at = "begin" THEN "rest" ELSE "compare"
             l == [loop[p] EXCEPT !.at = at]
  <1>7. /\ loop' = [loop EXCEPT ![p] = l]
        /\ UNCHANGED <<read, message_schemata_, closed, raised, undefined>>
    BY <1>1 DEF Returns
  <1>8. loop[p] \in Loop /\ loop \in [Iterators -> Loop]
    BY <1>3 DEF ProgramOK, ProgramTypeOK
  <1>9. /\ l \in Loop /\ l.at = at /\ l.kind = loop[p].kind
        /\ l.first_or_done = loop[p].first_or_done
    BY <1>8 DEF Loop
  <1> HIDE DEF l
  <1>10. /\ loop' \in [Iterators -> Loop] /\ loop'[p] = l
         /\ \A j \in Iterators \ {p} : loop'[j] = loop[j]
    BY <1>3, <1>7, <1>8, <1>9
  <1>11. \A j \in Iterators \ {p} : LoopStays(j)
    BY <1>3, <1>7, <1>10 DEF LoopStays
  <1> QED
    BY <1>1, <1>3, <1>4, <1>6, <1>7, <1>9, <1>10, <1>11

LEMMA ReturnsOK == ProgramOK /\ BaseInv /\ Inv' /\ Returns => ProgramOK'
  <1> SUFFICES ASSUME ProgramOK, BaseInv, Inv', Returns PROVE ProgramOK'
    OBVIOUS
  <1>1. PICK p : p = call.it
    OBVIOUS
  <1>2. /\ p \in Iterators /\ call.pc # "idle" /\ call' = Idle
        /\ query' = query /\ loop[p].kind # "none"
        /\ iter'[p].st = "live" /\ iter'[p].query = iter[p].query
        /\ loop' \in [Iterators -> Loop]
        /\ loop'[p].kind = loop[p].kind /\ loop'[p].first_or_done = loop[p].first_or_done
        /\ \/ loop[p].at = "begin" /\ loop'[p].at = "rest"
           \/ loop[p].at = "increment" /\ loop'[p].at = "compare"
        /\ UNCHANGED <<read, message_schemata_, closed, raised, undefined>>
        /\ \A j \in Iterators \ {p} : LoopStays(j)
    BY <1>1, ReturnFacts
  <1>3. ProgramTypeOK' /\ SchemataOK' /\ UndefinedExplained'
    <2>1. ~undefined
      BY DEF Returns
    <2> QED
      BY <1>2, <2>1, SchemataStay, ExplainedStays DEF ProgramOK, ProgramTypeOK
  <1>4. \A j \in Iterators \ {p} : loop'[j].at = "rest"
    BY <1>2 DEF LoopStays
  <1>5. call'.it # p
    BY <1>2, ViewAssumption DEF Idle
  <1>6. /\ loop[p].at = "begin" => loop[p].first_or_done
        /\ loop[p].at = "increment" => ~loop[p].first_or_done
    BY <1>2 DEF ProgramOK, LoopOK
  <1>7. LoopOK(p)' /\ ReadyOK(p)'
    BY <1>2, <1>4, <1>5, <1>6 DEF LoopOK, ReadyOK
  <1>8. GivenOK(p)'
    <2>1. iter[p].st # "none"
      BY <1>1, <1>2, CallFacts DEF BaseInv
    <2> QED
      BY <1>2, <2>1 DEF ProgramOK, GivenOK
  <1> QED
    BY <1>2, <1>3, <1>7, <1>8, LoopMoves

\* What a loop is after it was told of an exception.
LEMMA RaiseFacts ==
  ASSUME ProgramTypeOK, NEW p \in Iterators, NEW over, Raise(p, over)
  PROVE  /\ raised' = TRUE /\ UNCHANGED <<closed, undefined>>
         /\ loop' \in [Iterators -> Loop] /\ read' \in [Iterators -> LoopRead]
         /\ \A j \in Iterators \ {p} : loop'[j] = loop[j] /\ read'[j] = read[j]
         /\ \/ /\ over \/ loop[p].kind = "echo"
               /\ loop'[p] = NoLoop /\ read'[p] = NothingRead
            \/ /\ ~over /\ loop[p].kind # "echo"
               /\ loop'[p].at = "rest" /\ loop'[p].kind = loop[p].kind
               /\ loop'[p].first_or_done = loop[p].first_or_done
               /\ read'[p].messages = read[p].messages /\ read'[p].stopped = read[p].stopped
               /\ read'[p].errors = read[p].errors + 1
  <1>1. loop[p] \in Loop /\ read[p] \in LoopRead
    BY DEF ProgramTypeOK
  <1>2. raised' = TRUE /\ UNCHANGED <<closed, undefined>>
    BY DEF Raise
  <1>3. CASE over \/ loop[p].kind = "echo"
    <2>1. loop' = [loop EXCEPT ![p] = NoLoop] /\ read' = [read EXCEPT ![p] = NothingRead]
      BY <1>3 DEF Raise
    <2> QED
      BY <1>2, <1>3, <2>1, StartTypes, SetLoop
  <1>4. CASE ~(over \/ loop[p].kind = "echo")
    <2> DEFINE l == [loop[p] EXCEPT !.at = "rest"]
               r == [read[p] EXCEPT !.errors = @ + 1]
    <2>1. loop' = [loop EXCEPT ![p] = l] /\ read' = [read EXCEPT ![p] = r]
      BY <1>4 DEF Raise
    <2>2. /\ l \in Loop /\ l.at = "rest" /\ l.kind = loop[p].kind
          /\ l.first_or_done = loop[p].first_or_done
      BY <1>1 DEF Loop
    <2>3. /\ r \in LoopRead /\ r.messages = read[p].messages /\ r.stopped = read[p].stopped
          /\ r.errors = read[p].errors + 1
      BY <1>1 DEF LoopRead
    <2> HIDE DEF l, r
    <2> QED
      BY <1>2, <1>4, <2>1, <2>2, <2>3, SetLoop
  <1> QED
    BY <1>3, <1>4

\* A loop that was told of an exception, by an iterator that is not running.
LEMMA RaiseOK ==
  ASSUME ProgramOK, NEW p \in Iterators, NEW over, Raise(p, over), loop[p].at # "rest",
         \A j \in Iterators \ {p} : Undisturbed(j),
         SchemataOK', call'.it # p, iter'[p].st # "building",
         ~over => /\ iter'[p].st # "none" /\ iter[p].st # "none"
                  /\ iter'[p].query = iter[p].query
                  /\ query'[iter[p].query] = query[iter[p].query]
  PROVE  ProgramOK'
  <1>1. /\ raised' = TRUE /\ UNCHANGED <<closed, undefined>>
        /\ loop' \in [Iterators -> Loop] /\ read' \in [Iterators -> LoopRead]
        /\ \A j \in Iterators \ {p} : loop'[j] = loop[j] /\ read'[j] = read[j]
    BY RaiseFacts DEF ProgramOK
  <1>2. ProgramTypeOK' /\ UndefinedExplained'
    BY <1>1 DEF ProgramOK, ProgramTypeOK, UndefinedExplained
  <1>3. \A j \in Iterators \ {p} : LoopStays(j)
    BY <1>1, OthersRest DEF LoopStays
  <1>4. loop[p].kind # "none"
    BY DEF ProgramOK, LoopOK, NoLoop
  <1>5. ReadyOK(p)'
    BY <1>1 DEF ReadyOK
  <1>6. CASE loop'[p] = NoLoop /\ read'[p] = NothingRead
    <2>1. LoopOK(p)'
      BY <1>6 DEF LoopOK, NoLoop
    <2>2. GivenOK(p)'
      BY <1>6, StartTypes DEF GivenOK
    <2> QED
      BY <1>1, <1>2, <1>3, <1>5, <2>1, <2>2, LoopMoves
  <1>7. CASE ~(loop'[p] = NoLoop /\ read'[p] = NothingRead)
    <2>1. /\ ~over /\ loop'[p].at = "rest" /\ loop'[p].kind = loop[p].kind
          /\ read'[p].messages = read[p].messages
      BY <1>7, RaiseFacts DEF ProgramOK
    <2>2. LoopOK(p)'
      BY <1>4, <2>1 DEF LoopOK
    <2>3. GivenOK(p)'
      <3>1. PICK q : q = iter[p].query
        OBVIOUS
      <3> QED
        BY <2>1, <3>1 DEF ProgramOK, GivenOK
    <2> QED
      BY <1>1, <1>2, <1>3, <1>5, <2>2, <2>3, LoopMoves
  <1> QED
    BY <1>6, <1>7

\* What throws is one of these steps.
LEMMA ThrowsFacts ==
  ASSUME ProgramOK, BaseInv, Inv', Throws
  PROVE  LET p == call.it
             over == loop[p].at = "begin" IN
         /\ p \in Iterators /\ CallStep /\ call.pc # "idle" /\ call' = Idle
         /\ query' = query /\ Raise(p, over) /\ message_schemata_' = message_schemata_
         /\ loop[p].at \in {"begin", "increment"}
         /\ iter[p].st # "none" /\ iter'[p].st # "building"
         /\ ~over => /\ iter'[p].st = "live" /\ iter'[p].query = iter[p].query
                     /\ iter'[p].queue \subseteq iter[p].queue \cup {call.bag}
                     /\ iter'[p].out = iter[p].out
         /\ \A j \in Iterators \ {p} : Undisturbed(j)
  <1>1. PICK p : p = call.it
    OBVIOUS
  <1>2. PICK over : over = (loop[p].at = "begin")
    OBVIOUS
  <1>3. /\ CallStep /\ call' = Idle /\ Raise(p, over) /\ message_schemata_' = message_schemata_
    BY <1>1, <1>2 DEF Throws, CallStep
  <1>4. /\ p \in Iterators /\ call.pc # "idle" /\ query' = query
        /\ loop[p].at \in {"begin", "increment"}
        /\ \A j \in Iterators \ {p} : Undisturbed(j)
    BY <1>1, <1>3, Runner
  <1>5. iter[p].st # "none"
    BY <1>1, <1>4, CallFacts DEF BaseInv
  <1>6. over <=> iter[p].st = "building"
    BY <1>2, <1>4 DEF ProgramOK, LoopOK
  <1>7. \/ iter'[p] = NoIterator /\ iter[p].st = "building"
        \/ /\ iter'[p].st = "live" /\ iter'[p].query = iter[p].query
           /\ iter'[p].queue \subseteq iter[p].queue \cup {call.bag}
           /\ iter'[p].out = iter[p].out
    BY <1>1, <1>3, RunFacts DEF BaseInv, Idle
  <1>8. iter'[p].st # "building"
    BY <1>7 DEF NoIterator
  <1> QED
    BY <1>1, <1>2, <1>3, <1>4, <1>5, <1>6, <1>7, <1>8

LEMMA ThrowsOK == ProgramOK /\ BaseInv /\ Inv' /\ Throws => ProgramOK'
  <1> SUFFICES ASSUME ProgramOK, BaseInv, Inv', Throws PROVE ProgramOK'
    OBVIOUS
  <1>1. PICK p : p = call.it
    OBVIOUS
  <1>2. PICK over : over = (loop[p].at = "begin")
    OBVIOUS
  <1>3. /\ p \in Iterators /\ call' = Idle
        /\ query' = query /\ Raise(p, over) /\ message_schemata_' = message_schemata_
        /\ loop[p].at \in {"begin", "increment"}
        /\ iter[p].st # "none" /\ iter'[p].st # "building"
        /\ ~over => iter'[p].st = "live" /\ iter'[p].query = iter[p].query
        /\ \A j \in Iterators \ {p} : Undisturbed(j)
    BY <1>1, <1>2, ThrowsFacts
  <1>4. call'.it # p
    BY <1>3, ViewAssumption DEF Idle
  <1>5. SchemataOK'
    BY <1>3, RaiseFacts, SchemataStay DEF ProgramOK
  <1> QED
    BY <1>3, <1>4, <1>5, RaiseOK

\* __next__ sets the flag, or calls ++.
LEMMA NextFacts ==
  ASSUME ProgramOK, Inv, OffOK, NEW p \in Iterators, next(p)
  PROVE  /\ MayCall /\ loop[p].kind # "none"
         /\ \/ /\ loop[p].first_or_done /\ UNCHANGED vars
               /\ loop'[p].at = "compare"
               /\ iter[p].st = "live"
            \/ /\ ~loop[p].first_or_done /\ Increment(p)
               /\ loop'[p].at = "increment"
            \/ /\ ~loop[p].first_or_done /\ iter[p].queue = {}
               /\ Undefine
         /\ \/ Undefine
            \/ /\ ~loop'[p].first_or_done /\ loop'[p].kind = loop[p].kind
               /\ loop' \in [Iterators -> Loop]
               /\ \A j \in Iterators \ {p} : loop'[j] = loop[j]
               /\ UNCHANGED <<read, message_schemata_, closed, raised, undefined>>
  <1> DEFINE set == [loop[p] EXCEPT !.first_or_done = FALSE, !.at = "compare"]
             runs == [loop[p] EXCEPT !.at = "increment"]
  <1>1. MayCall /\ loop[p].kind # "none" /\ loop[p].at = "rest"
    BY DEF next, MayCall
  <1>2. loop[p] \in Loop /\ loop \in [Iterators -> Loop]
    BY DEF ProgramOK, ProgramTypeOK
  <1>3. set \in Loop /\ set.at = "compare" /\ ~set.first_or_done /\ set.kind = loop[p].kind
    BY <1>2 DEF Loop
  <1>4. /\ runs \in Loop /\ runs.at = "increment" /\ runs.kind = loop[p].kind
        /\ runs.first_or_done = loop[p].first_or_done
    BY <1>2 DEF Loop
  <1>5. CASE /\ loop[p].first_or_done
             /\ loop' = [loop EXCEPT ![p].first_or_done = FALSE, ![p].at = "compare"]
             /\ UNCHANGED <<vars, read, local, message_schemata_, closed, raised, undefined>>
    <2>1. loop' = [loop EXCEPT ![p] = set]
      BY <1>2, <1>5
    <2>2. iter[p].st # "building" /\ iter[p].st # "none"
      BY <1>1 DEF ProgramOK, LoopOK
    <2>3. iter[p].st = "live"
      BY <2>2 DEF Inv, TypeOK, Iterator
    <2> HIDE DEF set
    <2> QED
      BY <1>1, <1>2, <1>3, <1>5, <2>1, <2>3
  <1>6. CASE /\ ~loop[p].first_or_done
             /\ Increment(p)
             /\ loop' = [loop EXCEPT ![p].at = "increment"]
             /\ UNCHANGED <<read, local, message_schemata_, closed, raised, undefined>>
    <2>1. loop' = [loop EXCEPT ![p] = runs]
      BY <1>2, <1>6
    <2> HIDE DEF runs
    <2> QED
      BY <1>1, <1>2, <1>4, <1>6, <2>1
  <1>7. CASE ~loop[p].first_or_done /\ iter[p].queue = {} /\ Undefine
    BY <1>1, <1>7
  <1> QED
    BY <1>5, <1>6, <1>7 DEF next

LEMMA NextOfLoopOK ==
  ASSUME ProgramOK, Inv, OffOK, NEW p \in Iterators, next(p)
  PROVE  ProgramOK'
  <1>1. MayCall /\ loop[p].kind # "none"
    BY NextFacts
  <1>2. \A j \in Iterators : loop[j].at = "rest" /\ call.it # j
    BY <1>1, RestFacts
  <1>3. ~loop[p].first_or_done /\ iter[p].queue = {} => raised
    BY <1>2 DEF ProgramOK, ReadyOK
  <1>4. CASE Undefine
    <2>1. CASE loop[p].first_or_done
      <3>1. loop'[p].at = "compare" /\ loop' = loop
        BY <1>4, <2>1, NextFacts DEF Undefine
      <3> QED
        BY <1>2, <3>1
    <2>2. CASE ~loop[p].first_or_done
      <3>1. (Increment(p) /\ loop'[p].at = "increment") \/ iter[p].queue = {}
        BY <2>2, NextFacts
      <3>2. iter[p].queue = {}
        BY <1>2, <1>4, <3>1 DEF Undefine
      <3> QED
        BY <1>3, <1>4, <2>2, <3>2, UndefineOK
    <2> QED
      BY <2>1, <2>2
  <1>5. CASE ~Undefine
    <2>1. /\ ~loop'[p].first_or_done /\ loop'[p].kind = loop[p].kind
          /\ loop' \in [Iterators -> Loop]
          /\ \A j \in Iterators \ {p} : loop'[j] = loop[j]
          /\ UNCHANGED <<read, message_schemata_, closed, raised, undefined>>
      BY <1>5, NextFacts
    <2>2. ProgramTypeOK' /\ SchemataOK' /\ UndefinedExplained'
      <3>1. ~undefined
        BY <1>1 DEF MayCall
      <3> QED
        BY <2>1, <3>1, SchemataStay, ExplainedStays DEF ProgramOK, ProgramTypeOK
    <2>3. CASE UNCHANGED vars /\ loop'[p].at = "compare" /\ iter[p].st = "live"
      <3>1. iter' = iter /\ query' = query /\ call' = call
        BY <2>3 DEF vars
      <3>2. \A j \in Iterators \ {p} : LoopStays(j)
        BY <1>2, <2>1, <2>3, ViewSame DEF LoopStays
      <3>3. LoopOK(p)'
        BY <1>1, <1>2, <2>1, <2>3, <3>1 DEF LoopOK
      <3>4. ReadyOK(p)' /\ GivenOK(p)'
        BY <2>1, <2>3, <3>1 DEF ProgramOK, ReadyOK, GivenOK
      <3> QED
        BY <2>1, <2>2, <3>2, <3>3, <3>4, LoopMoves
    <2>4. CASE Increment(p) /\ loop'[p].at = "increment"
      <3>1. /\ query' = query /\ iter[p].st = "live" /\ iter'[p].st = "live"
            /\ iter'[p].query = iter[p].query
            /\ call'.it = p /\ \A j \in Iterators \ {p} : Undisturbed(j)
        BY <2>4, AdvanceFacts
      <3>2. \A j \in Iterators \ {p} : LoopStays(j)
        BY <1>2, <2>1, <3>1 DEF LoopStays
      <3>3. LoopOK(p)'
        BY <1>1, <1>2, <2>1, <2>4, <3>1 DEF LoopOK
      <3>4. ReadyOK(p)' /\ GivenOK(p)'
        BY <2>1, <2>4, <3>1 DEF ProgramOK, ReadyOK, GivenOK
      <3> QED
        BY <2>1, <2>2, <3>2, <3>3, <3>4, LoopMoves
    <2> QED
      BY <1>5, <2>3, <2>4, NextFacts
  <1> QED
    BY <1>4, <1>5

LEMMA StopFacts ==
  ASSUME ProgramOK, NEW p \in Iterators, Stop(p)
  PROVE  /\ loop[p].at = "compare" /\ iter[p].queue = {} /\ UNCHANGED vars
         /\ UNCHANGED <<message_schemata_, closed, raised, undefined>>
         /\ loop' \in [Iterators -> Loop] /\ read' \in [Iterators -> LoopRead]
         /\ loop'[p] = NoLoop \/ loop'[p].kind = loop[p].kind
         /\ loop'[p].at = "rest" /\ loop'[p].first_or_done
         /\ read'[p].messages = read[p].messages /\ read'[p].errors = read[p].errors
         /\ read'[p].stopped
         /\ \A j \in Iterators \ {p} : loop'[j] = loop[j] /\ read'[j] = read[j]
  <1> DEFINE rests == [loop[p] EXCEPT !.at = "rest", !.first_or_done = TRUE]
             l == IF loop[p].kind = "echo" THEN NoLoop ELSE rests
             r == [read[p] EXCEPT !.stopped = TRUE]
  <1>1. loop[p] \in Loop /\ read[p] \in LoopRead
    BY DEF ProgramOK, ProgramTypeOK
  <1>2. /\ rests \in Loop /\ rests.at = "rest" /\ rests.first_or_done
        /\ rests.kind = loop[p].kind
    BY <1>1 DEF Loop
  <1>3. NoLoop \in Loop /\ NoLoop.at = "rest" /\ NoLoop.first_or_done
    BY StartTypes DEF NoLoop
  <1>4. /\ r \in LoopRead /\ r.messages = read[p].messages /\ r.stopped
        /\ r.errors = read[p].errors
    BY <1>1 DEF LoopRead
  <1>5. loop' = [loop EXCEPT ![p] = l]
    <2>1. [loop EXCEPT ![p].at = "rest", ![p].first_or_done = TRUE] = [loop EXCEPT ![p] = rests]
      BY <1>1 DEF ProgramOK, ProgramTypeOK
    <2> QED
      BY <2>1 DEF Stop
  <1>6. /\ read' = [read EXCEPT ![p] = r] /\ loop[p].at = "compare" /\ iter[p].queue = {}
        /\ UNCHANGED vars /\ UNCHANGED <<message_schemata_, closed, raised, undefined>>
    BY DEF Stop, EqualsEnd
  <1> HIDE DEF rests, r
  <1>7. l \in Loop /\ (l = NoLoop \/ l.kind = loop[p].kind) /\ l.at = "rest" /\ l.first_or_done
    BY <1>2, <1>3
  <1> HIDE DEF l
  <1> QED
    BY <1>4, <1>5, <1>6, <1>7, SetLoop DEF ProgramOK

LEMMA StopOK ==
  ASSUME ProgramOK, NEW p \in Iterators, Stop(p)
  PROVE  ProgramOK'
  <1>1. /\ loop[p].at = "compare" /\ UNCHANGED vars
        /\ UNCHANGED <<message_schemata_, closed, raised, undefined>>
        /\ loop' \in [Iterators -> Loop] /\ read' \in [Iterators -> LoopRead]
        /\ loop'[p] = NoLoop \/ loop'[p].kind = loop[p].kind
        /\ loop'[p].at = "rest" /\ loop'[p].first_or_done
        /\ read'[p].messages = read[p].messages
        /\ \A j \in Iterators \ {p} : loop'[j] = loop[j] /\ read'[j] = read[j]
    BY StopFacts
  <1>2. iter' = iter /\ query' = query /\ call' = call
    BY <1>1 DEF vars
  <1>3. ProgramTypeOK' /\ SchemataOK' /\ UndefinedExplained'
    <2>1. ~undefined
      BY DEF Stop
    <2> QED
      BY <1>1, <2>1, SchemataStay, ExplainedStays DEF ProgramOK, ProgramTypeOK
  <1>4. /\ call.it # p /\ iter[p].st # "building" /\ iter[p].st # "none"
        /\ loop[p].kind # "none"
    BY <1>1 DEF ProgramOK, LoopOK, NoLoop
  <1>5. \A j \in Iterators \ {p} : LoopStays(j)
    BY <1>1, OthersRest, ViewSame DEF LoopStays
  <1>6. LoopOK(p)'
    BY <1>1, <1>2, <1>4 DEF LoopOK, NoLoop
  <1>7. ReadyOK(p)' /\ GivenOK(p)'
    BY <1>1, <1>2 DEF ProgramOK, ReadyOK, GivenOK
  <1> QED
    BY <1>1, <1>3, <1>5, <1>6, <1>7, LoopMoves

\* operator* with a schema: the behaviour is undefined, or the loop is given the message.
LEMMA GiveFacts ==
  ASSUME ProgramTypeOK, NEW p \in Iterators, NEW s \in Definitions \cup {Null}, Give(p, s),
         Top(p) \in AllMessages
  PROVE  /\ UNCHANGED <<closed, raised>>
         /\ \/ s = Null /\ undefined' = TRUE /\ UNCHANGED <<loop, read>>
            \/ /\ undefined' = undefined
               /\ loop' \in [Iterators -> Loop] /\ read' \in [Iterators -> LoopRead]
               /\ loop'[p].at = "rest" /\ loop'[p].kind = loop[p].kind
               /\ loop'[p].first_or_done = loop[p].first_or_done
               /\ read'[p].messages = Append(read[p].messages, [message |-> Top(p), schema |-> s])
               /\ read'[p].errors = read[p].errors /\ read'[p].stopped = read[p].stopped
               /\ \A j \in Iterators \ {p} : loop'[j] = loop[j] /\ read'[j] = read[j]
  <1> DEFINE g == [message |-> Top(p), schema |-> s]
             l == [loop[p] EXCEPT !.at = "rest"]
             r == [read[p] EXCEPT !.messages = Append(@, g)]
  <1>1. loop[p] \in Loop /\ read[p] \in LoopRead
    BY DEF ProgramTypeOK
  <1>2. g \in [message : AllMessages, schema : Definitions \cup {Null}]
    OBVIOUS
  <1>3. l \in Loop /\ l.at = "rest" /\ l.kind = loop[p].kind
        /\ l.first_or_done = loop[p].first_or_done
    BY <1>1 DEF Loop
  <1>4. UNCHANGED <<closed, raised>>
    BY DEF Give
  <1>5. CASE s = Null /\ loop[p].kind # "view"
    BY <1>4, <1>5 DEF Give
  <1>6. CASE ~(s = Null /\ loop[p].kind # "view")
    <2>1. loop' = [loop EXCEPT ![p] = l] /\ read' = [read EXCEPT ![p] = r] /\ undefined' = undefined
      BY <1>6 DEF Give
    <2> HIDE DEF g, l
    <2>2. /\ r \in LoopRead /\ r.messages = Append(read[p].messages, g)
          /\ r.errors = read[p].errors /\ r.stopped = read[p].stopped
      <3> DEFINE G == [message : AllMessages, schema : Definitions \cup {Null}]
                 more == Append(read[p].messages, g)
      <3>1. read[p] \in [messages : Seq(G), errors : Nat, stopped : BOOLEAN]
        BY <1>1 DEF LoopRead
      <3>2. g \in G
        BY <1>2
      <3> HIDE DEF G
      <3>3. more \in Seq(G)
        BY <3>1, <3>2
      <3> HIDE DEF more
      <3>4. [read[p] EXCEPT !.messages = more] \in [messages : Seq(G), errors : Nat, stopped : BOOLEAN]
        BY <3>1, <3>3
      <3>5. r = [read[p] EXCEPT !.messages = more]
        BY DEF more
      <3>6. r.messages = more /\ r.errors = read[p].errors /\ r.stopped = read[p].stopped
        BY <3>1, <3>5
      <3>7. r \in LoopRead
        BY <3>4, <3>5 DEF LoopRead, G
      <3> QED
        BY <3>6, <3>7 DEF more
    <2> HIDE DEF r
    <2>3. /\ loop' \in [Iterators -> Loop] /\ read' \in [Iterators -> LoopRead]
          /\ loop'[p] = l /\ read'[p] = r
          /\ \A j \in Iterators \ {p} : loop'[j] = loop[j] /\ read'[j] = read[j]
      BY <1>3, <2>1, <2>2, SetLoop
    <2> QED
      BY <1>3, <1>4, <2>1, <2>2, <2>3 DEF g
  <1> QED
    BY <1>5, <1>6

\* What is given is of a bag that the loop iterates, with its definition.
LEMMA GiveOK ==
  ASSUME ProgramOK, Inv, BagsOK, NEW p \in Iterators, AtMessage(p), UNCHANGED vars,
         NEW s, Give(p, s), SchemataOK', TopicOf(Top(p)) # NoTopic,
         s = Schema(Top(p).bag, TopicOf(Top(p))), s \in Definitions \cup {Null},
         s = Null => raised
  PROVE  ProgramOK'
  <1> DEFINE m == Top(p)
  <1>1. loop[p].at = "compare" /\ iter[p].queue # {} /\ ~undefined
    BY DEF AtMessage, EqualsEnd
  <1>2. /\ call.it # p /\ iter[p].st # "building" /\ iter[p].st # "none"
        /\ loop[p].kind # "none"
    BY <1>1 DEF ProgramOK, LoopOK, NoLoop
  <1>3. m \in AllMessages /\ m.bag \in query[iter[p].query].bags
    BY <1>1, <1>2, TopIsMessage
  <1>4. iter' = iter /\ query' = query /\ call' = call
    BY DEF vars
  <1>5. ASSUME undefined' = TRUE, s = Null, UNCHANGED <<loop, read, closed, raised>>
        PROVE  ProgramOK'
    <2>1. ProgramTypeOK' /\ UndefinedExplained'
      BY <1>5 DEF ProgramOK, ProgramTypeOK, UndefinedExplained
    <2>2. \A j \in Iterators \ {p} : LoopStays(j)
      BY <1>1, <1>5, OthersRest, ViewSame DEF LoopStays
    <2>3. LoopOK(p)'
      BY <1>4, <1>5 DEF ProgramOK, LoopOK
    <2>4. ReadyOK(p)' /\ GivenOK(p)'
      BY <1>4, <1>5 DEF ProgramOK, ReadyOK, GivenOK
    <2> QED
      BY <1>5, <2>1, <2>2, <2>3, <2>4, LoopMoves
  <1> DEFINE g == [message |-> m, schema |-> s]
  <1>6. ASSUME undefined' = undefined, UNCHANGED <<closed, raised>>,
               loop' \in [Iterators -> Loop], read' \in [Iterators -> LoopRead],
               loop'[p].at = "rest", loop'[p].kind = loop[p].kind,
               loop'[p].first_or_done = loop[p].first_or_done,
               read'[p].messages = Append(read[p].messages, g),
               \A j \in Iterators \ {p} : loop'[j] = loop[j] /\ read'[j] = read[j]
        PROVE  ProgramOK'
    <2>1. ProgramTypeOK' /\ UndefinedExplained'
      BY <1>1, <1>6, ExplainedStays DEF ProgramOK, ProgramTypeOK
    <2>2. \A j \in Iterators \ {p} : LoopStays(j)
      BY <1>1, <1>6, OthersRest, ViewSame DEF LoopStays
    <2>3. LoopOK(p)'
      BY <1>2, <1>4, <1>6 DEF LoopOK
    <2>4. ReadyOK(p)'
      BY <1>1, <1>4 DEF ReadyOK
    <2>5. GivenOK(p)'
      <3>1. /\ g.message.bag \in query[iter[p].query].bags
            /\ TopicOf(g.message) # NoTopic
            /\ g.schema = Schema(g.message.bag, TopicOf(g.message))
        BY <1>3
      <3>2. read[p].messages \in Seq([message : AllMessages, schema : Definitions \cup {Null}])
        BY DEF ProgramOK, ProgramTypeOK, LoopRead
      <3> HIDE DEF g, m
      <3>3. \A k \in DOMAIN read'[p].messages :
              read'[p].messages[k] = g
              \/ (k \in DOMAIN read[p].messages /\ read'[p].messages[k] = read[p].messages[k])
        BY <1>6, <3>2
      <3>4. \A k \in DOMAIN read[p].messages :
              LET n == read[p].messages[k].message IN
              /\ n.bag \in query[iter[p].query].bags
              /\ TopicOf(n) # NoTopic
              /\ read[p].messages[k].schema = Schema(n.bag, TopicOf(n))
        BY <1>2 DEF ProgramOK, GivenOK
      <3> QED
        BY <1>2, <1>4, <3>1, <3>3, <3>4 DEF GivenOK
    <2> QED
      BY <1>6, <2>1, <2>2, <2>3, <2>4, <2>5, LoopMoves
  <1> HIDE DEF m, g
  <1>7. ProgramTypeOK
    BY DEF ProgramOK
  <1> QED
    BY <1>3, <1>5, <1>6, <1>7, GiveFacts DEF m, g

\* A schema is noted.
LEMMA SetSchemaFacts ==
  ASSUME SchemataOK, NEW b \in Bags, NEW t \in DOMAIN topic_connection_map_[b], NEW s,
         SetSchema(b, t, s), s = Schema(b, t), s = Null => raised', raised => raised'
  PROVE  SchemataOK'
  <1> DEFINE old == message_schemata_[b]
             new == [u \in DOMAIN old \cup {t} |-> IF u = t THEN s ELSE old[u]]
  <1>1. message_schemata_' = [message_schemata_ EXCEPT ![b] = new]
    BY DEF SetSchema
  <1>2. DOMAIN message_schemata_ = Bags
    BY DEF SchemataOK
  <1>3. DOMAIN new = DOMAIN old \cup {t} /\ \A u \in DOMAIN new : new[u] = IF u = t THEN s ELSE old[u]
    OBVIOUS
  <1> HIDE DEF new
  <1>4. /\ DOMAIN message_schemata_' = Bags /\ message_schemata_'[b] = new
        /\ \A a \in Bags \ {b} : message_schemata_'[a] = message_schemata_[a]
    BY <1>1, <1>2
  <1>5. ASSUME NEW a \in Bags, NEW u \in DOMAIN message_schemata_'[a]
        PROVE  /\ u \in DOMAIN topic_connection_map_[a]
               /\ message_schemata_'[a][u] = Schema(a, u)
               /\ message_schemata_'[a][u] = Null => raised'
    <2>1. CASE a = b
      BY <1>3, <1>4, <1>5, <2>1 DEF SchemataOK
    <2>2. CASE a # b
      BY <1>4, <1>5, <2>2 DEF SchemataOK
    <2> QED
      BY <2>1, <2>2
  <1> QED
    BY <1>4, <1>5 DEF SchemataOK

LEMMA SchemaIn ==
  ASSUME NEW b \in Bags, NEW t \in DOMAIN topic_connection_map_[b]
  PROVE  Schema(b, t) \in Definitions \cup {Null}
  BY DefinitionFacts DEF Schema

LEMMA GiveKnownOK ==
  ASSUME ProgramOK, Inv, BagsOK, NEW p \in Iterators, GiveKnown(p)
  PROVE  ProgramOK'
  <1> DEFINE b == Top(p).bag
             t == TopicOf(Top(p))
  <1>1. PICK s \in Known(b, t) : Give(p, s)
    BY DEF GiveKnown
  <1>2. AtMessage(p) /\ UNCHANGED vars /\ message_schemata_' = message_schemata_
    BY DEF GiveKnown
  <1>3. t \in DOMAIN message_schemata_[b] /\ s = message_schemata_[b][t]
    BY <1>1 DEF Known
  <1>4. b \in Bags
    <2>1. iter[p].queue # {} /\ call.it # p
      BY <1>2 DEF AtMessage, EqualsEnd, ProgramOK, LoopOK
    <2> QED
      BY <2>1, TopIsMessage
  <1>5. t \in DOMAIN topic_connection_map_[b] /\ s = Schema(b, t) /\ (s = Null => raised)
    BY <1>3, <1>4 DEF ProgramOK, SchemataOK
  <1>6. t # NoTopic /\ s \in Definitions \cup {Null}
    BY <1>4, <1>5, DefinitionFacts, SchemaIn
  <1>7. SchemataOK'
    <2>1. raised => raised'
      BY <1>1 DEF Give
    <2> QED
      BY <1>2, <2>1, SchemataStay DEF ProgramOK
  <1> QED
    BY <1>1, <1>2, <1>5, <1>6, <1>7, GiveOK

LEMMA GiveParsedOK ==
  ASSUME ProgramOK, Inv, BagsOK, NEW p \in Iterators, GiveParsed(p)
  PROVE  ProgramOK'
  <1> DEFINE b == Top(p).bag
             t == TopicOf(Top(p))
             s == FirstDefinition(b, t)
  <1>1. /\ AtMessage(p) /\ t # NoTopic /\ s \notin Unparsable /\ SetSchema(b, t, s)
        /\ Give(p, s) /\ UNCHANGED vars
    BY DEF GiveParsed
  <1>2. b \in Bags /\ Top(p) \in Messages(b)
    <2>1. iter[p].queue # {} /\ call.it # p
      BY <1>1 DEF AtMessage, EqualsEnd, ProgramOK, LoopOK
    <2> QED
      BY <2>1, TopIsMessage
  <1>3. t \in DOMAIN topic_connection_map_[b]
    BY <1>1, <1>2, TopicMapped
  <1>4. s \in Definitions /\ s # Null
    BY <1>2, <1>3, DefinitionFacts
  <1>5. s = Schema(b, t)
    BY <1>1 DEF Schema
  <1> HIDE DEF s
  <1>6. SchemataOK'
    <2>1. raised => raised'
      BY <1>1 DEF Give
    <2> HIDE DEF b, t
    <2> QED
      BY <1>1, <1>2, <1>3, <1>4, <1>5, <2>1, SetSchemaFacts DEF ProgramOK
  <1> QED
    BY <1>1, <1>4, <1>5, <1>6, GiveOK

LEMMA RaiseLookupOK ==
  ASSUME ProgramOK, Inv, BagsOK, NEW p \in Iterators, RaiseLookup(p)
  PROVE  ProgramOK'
  <1> DEFINE b == Top(p).bag
             t == TopicOf(Top(p))
  <1>1. /\ AtMessage(p) /\ Raise(p, FALSE) /\ UNCHANGED vars
        /\ \/ UNCHANGED message_schemata_
           \/ t # NoTopic /\ FirstDefinition(b, t) \in Unparsable /\ SetSchema(b, t, Null)
    BY DEF RaiseLookup
  <1>2. loop[p].at = "compare" /\ iter[p].queue # {}
    BY <1>1 DEF AtMessage, EqualsEnd
  <1>3. /\ call.it # p /\ iter[p].st # "building" /\ iter[p].st # "none"
    BY <1>2 DEF ProgramOK, LoopOK, NoLoop
  <1>4. b \in Bags /\ Top(p) \in Messages(b)
    BY <1>2, <1>3, TopIsMessage
  <1>5. iter' = iter /\ query' = query /\ call' = call
    BY <1>1 DEF vars
  <1>6. raised' = TRUE
    BY <1>1 DEF Raise
  <1>7. SchemataOK'
    <2>1. CASE UNCHANGED message_schemata_
      BY <1>6, <2>1, SchemataStay DEF ProgramOK
    <2>2. CASE t # NoTopic /\ FirstDefinition(b, t) \in Unparsable /\ SetSchema(b, t, Null)
      <3>1. t \in DOMAIN topic_connection_map_[b] /\ Null = Schema(b, t)
        BY <1>4, <2>2, TopicMapped DEF Schema
      <3> HIDE DEF b, t
      <3> QED
        BY <1>4, <1>6, <2>2, <3>1, SetSchemaFacts DEF ProgramOK
    <2> QED
      BY <1>1, <2>1, <2>2
  <1>8. \A j \in Iterators \ {p} : Undisturbed(j)
    BY <1>1, <1>2, OthersRest, ViewSame
  <1> QED
    BY <1>1, <1>2, <1>3, <1>5, <1>7, <1>8, RaiseOK

-----------------------------------------------------------------------------
(* The invariant of the program.                                           *)

LEMMA ProgramStart == ProgramInit => ViewInv /\ ProgramOK
  <1> SUFFICES ASSUME ProgramInit PROVE ViewInv /\ ProgramOK
    OBVIOUS
  <1>1. /\ \A p \in Iterators : loop[p] = NoLoop /\ read[p] = NothingRead /\ iter[p] = NoIterator
        /\ loop \in [Iterators -> Loop] /\ read \in [Iterators -> LoopRead]
        /\ closed = {} /\ raised = FALSE /\ undefined = FALSE /\ call = Idle
        /\ message_schemata_ = [b \in Bags |-> <<>>]
    BY StartTypes DEF ProgramInit, Init
  <1>2. ProgramTypeOK
    BY <1>1 DEF ProgramTypeOK
  <1>3. SchemataOK
    BY <1>1 DEF SchemataOK
  <1>4. ASSUME NEW p \in Iterators PROVE LoopOK(p) /\ ReadyOK(p) /\ GivenOK(p)
    <2>1. call.it # p
      BY <1>1, ViewAssumption DEF Idle
    <2>2. LoopOK(p)
      BY <1>1, <2>1 DEF LoopOK, NoLoop, NoIterator
    <2>3. ReadyOK(p) /\ GivenOK(p)
      BY <1>1, StartTypes DEF ReadyOK, GivenOK, NoLoop
    <2> QED
      BY <2>2, <2>3
  <1>5. UndefinedExplained
    BY <1>1 DEF UndefinedExplained
  <1>6. ViewInv
    BY ViewInit DEF ProgramInit
  <1> QED
    BY <1>2, <1>3, <1>4, <1>5, <1>6 DEF ProgramOK

LEMMA ProgramGoesOn ==
  ASSUME ViewInv, ProgramOK, ViewInv', [ProgramNext]_allvars
  PROVE  ProgramOK'
  <1>1. BaseInv /\ Inv /\ OffOK /\ BagsOK /\ Inv'
    BY DEF ViewInv, OrderInv, BaseInv
  <1>2. CASE UNCHANGED allvars
    BY <1>2, StutterOK
  <1>3. CASE Setup
    BY <1>1, <1>3, SetupOK
  <1>4. CASE \E p \in Iterators, q \in Queries : Iter(p, q) \/ Echo(p, q)
    BY <1>1, <1>4, IterateOK, AskTimesOK DEF Iter, Echo
  <1>5. CASE \E p \in Iterators, q \in Queries, b \in Bags, f \in Filter : read_messages(p, q, b, f)
    BY <1>1, <1>5, ReadMessagesOK
  <1>6. CASE \E b \in Bags : close(b)
    BY <1>1, <1>6, CloseOK
  <1>7. CASE GoesOn
    BY <1>1, <1>7, GoesOnOK
  <1>8. CASE Returns
    BY <1>1, <1>8, ReturnsOK
  <1>9. CASE Throws
    BY <1>1, <1>9, ThrowsOK
  <1>10. CASE LoadUnmapped \/ AskTimes
    BY <1>10, LoadUnmappedOK, AskTimesOK
  <1>11. ASSUME NEW p \in Iterators,
                next(p) \/ Stop(p) \/ GiveKnown(p) \/ GiveParsed(p) \/ RaiseLookup(p)
         PROVE  ProgramOK'
    BY <1>1, <1>11, NextOfLoopOK, StopOK, GiveKnownOK, GiveParsedOK, RaiseLookupOK
  <1> QED
    BY <1>2, <1>3, <1>4, <1>5, <1>6, <1>7, <1>8, <1>9, <1>10, <1>11 DEF ProgramNext

-----------------------------------------------------------------------------
(* What an exception costs.                                                *)

LEMMA BalancedStart == Balanced({}, <<>>, 0)
  <1>1. MessagesOf(<<>>) = {}
    BY DEF MessagesOf
  <1>2. Cardinality({} \ {}) <= 0
    BY FS_EmptySet
  <1> QED
    BY <1>1, <1>2 DEF Balanced

LEMMA BalancedGive ==
  ASSUME NEW S, NEW G, NEW ms \in Seq(G), NEW e, NEW g \in G, Balanced(S, ms, e),
         g.message \notin S
  PROVE  Balanced(S \cup {g.message}, Append(ms, g), e)
  <1> DEFINE new == Append(ms, g)
  <1>1. /\ DOMAIN new = 1..Len(ms) + 1 /\ DOMAIN ms = 1..Len(ms) /\ Len(ms) \in Nat
        /\ \A k \in 1..Len(ms) : new[k] = ms[k]
        /\ new[Len(ms) + 1] = g
    OBVIOUS
  <1> HIDE DEF new
  <1>2. \A k \in DOMAIN new : k \in DOMAIN ms \/ k = Len(ms) + 1
    BY <1>1
  <1>3. MessagesOf(new) = MessagesOf(ms) \cup {g.message}
    <2>1. ASSUME NEW n
          PROVE  (\E k \in DOMAIN new : n = new[k].message)
                   <=> (\E k \in DOMAIN ms : n = ms[k].message) \/ n = g.message
      BY <1>1
    <2> QED
      BY <2>1 DEF MessagesOf
  <1>4. \A k \in DOMAIN ms : ms[k].message # g.message
    BY DEF Balanced, MessagesOf
  <1>5. \A k, l \in DOMAIN new : new[k].message = new[l].message => k = l
    BY <1>1, <1>2, <1>4 DEF Balanced
  <1>6. (S \cup {g.message}) \ MessagesOf(new) = S \ MessagesOf(ms)
    BY <1>3
  <1>7. MessagesOf(new) \subseteq S \cup {g.message}
    BY <1>3 DEF Balanced
  <1> QED
    BY <1>5, <1>6, <1>7 DEF Balanced, new

LEMMA BalancedError ==
  ASSUME NEW S, NEW ms, NEW e \in Nat, NEW m, Balanced(S, ms, e), IsFiniteSet(S)
  PROVE  Balanced(S, ms, e + 1) /\ Balanced(S \cup {m}, ms, e + 1)
  <1> DEFINE M == MessagesOf(ms)
             rest == S \ M
  <1>1. IsFiniteSet(rest) /\ Cardinality(rest) \in Nat /\ Cardinality(rest) <= e
    BY FS_Difference, FS_CardinalityType DEF Balanced
  <1>2. IsFiniteSet(rest \cup {m}) /\ Cardinality(rest \cup {m}) <= Cardinality(rest) + 1
    <2> HIDE DEF rest
    <2>1. /\ IsFiniteSet(rest \cup {m})
          /\ Cardinality(rest \cup {m})
               = IF m \in rest THEN Cardinality(rest) ELSE Cardinality(rest) + 1
      BY <1>1, FS_AddElement
    <2> QED
      BY <1>1, <2>1
  <1>3. (S \cup {m}) \ M \in SUBSET (rest \cup {m})
    OBVIOUS
  <1>4. /\ Cardinality((S \cup {m}) \ M) <= Cardinality(rest \cup {m})
        /\ IsFiniteSet((S \cup {m}) \ M)
    BY <1>2, <1>3, FS_Subset
  <1>5. Cardinality((S \cup {m}) \ M) \in Nat /\ Cardinality(rest \cup {m}) \in Nat
    BY <1>2, <1>4, FS_CardinalityType
  <1>6. Cardinality((S \cup {m}) \ M) <= e + 1 /\ Cardinality(S \ M) <= e + 1
    BY <1>1, <1>2, <1>4, <1>5
  <1> HIDE DEF M
  <1>7. M \subseteq S /\ M \subseteq S \cup {m}
    BY DEF Balanced, M
  <1> QED
    BY <1>6, <1>7 DEF Balanced, M

\* A sequence shows finitely many messages.
LEMMA ShownFinite ==
  ASSUME Inv, NEW p \in Iterators
  PROVE  IsFiniteSet(Shown(iter[p]))
  <1> DEFINE out == iter[p].out
             S == {out[k] : k \in DOMAIN out}
  <1>1. out \in Seq(AllMessages)
    BY DEF Inv, TypeOK, Iterator
  <1>2. Len(out) \in Nat /\ DOMAIN out = 1..Len(out) /\ out \in [1..Len(out) -> S]
    BY <1>1
  <1>3. out \in Surjection(1..Len(out), S)
    BY <1>2 DEF Surjection
  <1>4. ExistsSurjection(1..Len(out), S)
    BY <1>3 DEF ExistsSurjection
  <1>5. IsFiniteSet(S)
    BY <1>2, <1>4, FS_NatSurjection
  <1> QED
    BY <1>5 DEF Shown

\* A loop that the step does not concern.
LEMMA BudgetStays ==
  ASSUME NEW j, LoopStays(j), BudgetOK(j)
  PROVE  BudgetOK(j)'
  <1> SUFFICES ASSUME Exclusive(j)', loop[j].kind # "none" \/ read[j].stopped
               PROVE  BudgetOK(j)'
    BY DEF LoopStays, BudgetOK
  <1>1. PICK q : q = iter[j].query
    OBVIOUS
  <1>2. Exclusive(j) /\ iter'[j] = iter[j] /\ wrapper'[q] = wrapper[q] /\ call'.it # j
    BY <1>1 DEF LoopStays, Undisturbed, Same
  <1>3. Pending(j)' = Pending(j)
    BY <1>1, <1>2 DEF LoopStays, Pending, Top
  <1>4. Shown(iter[j])' = Shown(iter[j])
    BY <1>2 DEF Shown
  <1>5. /\ Balanced(Shown(iter[j]) \cup Pending(j), read[j].messages, read[j].errors)
        /\ read[j].stopped => /\ iter[j].queue = {} /\ iter[j].st = "live" /\ call.it # j
                              /\ loop[j].at = "rest" => loop[j].first_or_done
    BY <1>2 DEF BudgetOK
  <1>6. loop'[j] = loop[j] /\ read'[j] = read[j]
    BY DEF LoopStays
  <1>7. Balanced(Shown(iter[j]) \cup Pending(j), read[j].messages, read[j].errors)'
    BY <1>3, <1>4, <1>5, <1>6 DEF Balanced, MessagesOf
  <1> QED
    BY <1>2, <1>5, <1>6, <1>7 DEF BudgetOK

\* Nothing is pending while a loop is in a call, or at its comparison.
LEMMA NonePending ==
  ASSUME NEW p, loop[p].at # "rest" \/ loop[p].first_or_done \/ iter[p].queue = {}
  PROVE  Pending(p) = {}
  BY DEF Pending

\* A step that shows nothing, gives nothing and throws nothing.
LEMMA BudgetKept ==
  ASSUME NEW p, BudgetOK(p), Exclusive(p)' => Exclusive(p), iter'[p].out = iter[p].out,
         loop[p].kind # "none", Pending(p) = {}, Pending(p)' = {},
         read'[p].messages = read[p].messages, read'[p].errors = read[p].errors,
         Exclusive(p) /\ read'[p].stopped =>
           /\ iter'[p].queue = {} /\ iter'[p].st = "live" /\ call'.it # p
           /\ loop'[p].at = "rest" => loop'[p].first_or_done
  PROVE  BudgetOK(p)'
  <1> SUFFICES ASSUME Exclusive(p)' PROVE BudgetOK(p)'
    BY DEF BudgetOK
  <1>1. PICK S : S = Shown(iter[p])
    OBVIOUS
  <1>2. Shown(iter[p])' = S
    BY <1>1 DEF Shown
  <1>3. Balanced(S, read[p].messages, read[p].errors)
    BY <1>1 DEF BudgetOK
  <1>4. Balanced(Shown(iter[p]) \cup Pending(p), read[p].messages, read[p].errors)'
    BY <1>2, <1>3 DEF Balanced, MessagesOf
  <1> QED
    BY <1>4 DEF BudgetOK

\* An exception reaches a loop.
LEMMA BudgetRaised ==
  ASSUME ProgramTypeOK, Inv, NEW p \in Iterators, BudgetOK(p), Exclusive(p)' => Exclusive(p),
         NEW over, Raise(p, over), ~over => iter'[p].out = iter[p].out,
         loop[p].kind # "none", Pending(p) = {}, Exclusive(p) => ~read[p].stopped
  PROVE  BudgetOK(p)'
  <1>1. CASE loop'[p] = NoLoop /\ read'[p] = NothingRead
    BY <1>1 DEF BudgetOK, NoLoop, NothingRead
  <1>2. CASE ~(loop'[p] = NoLoop /\ read'[p] = NothingRead)
    <2> SUFFICES ASSUME Exclusive(p)' PROVE BudgetOK(p)'
      BY DEF BudgetOK
    <2>1. PICK S, ms, e : S = Shown(iter[p]) /\ ms = read[p].messages /\ e = read[p].errors
      OBVIOUS
    <2>2. /\ ~over /\ read'[p].messages = ms /\ read'[p].stopped = read[p].stopped
          /\ read'[p].errors = e + 1
      BY <1>2, <2>1, RaiseFacts
    <2>3. e \in Nat
      BY <2>1 DEF ProgramTypeOK, LoopRead
    <2>4. Shown(iter[p])' = S
      BY <2>1, <2>2 DEF Shown
    <2>5. IsFiniteSet(S) /\ Balanced(S, ms, e)
      BY <2>1, ShownFinite DEF BudgetOK
    <2>6. PICK m : Pending(p)' = {} \/ Pending(p)' = {m}
      BY DEF Pending
    <2>7. Balanced(S, ms, e + 1) /\ Balanced(S \cup {m}, ms, e + 1)
      BY <2>3, <2>5, BalancedError
    <2>8. Balanced(Shown(iter[p]) \cup Pending(p), read[p].messages, read[p].errors)'
      <3>1. CASE Pending(p)' = {}
        BY <2>2, <2>4, <2>7, <3>1 DEF Balanced, MessagesOf
      <3>2. CASE Pending(p)' = {m}
        BY <2>2, <2>4, <2>7, <3>2 DEF Balanced, MessagesOf
      <3> QED
        BY <2>6, <3>1, <3>2
    <2> QED
      BY <2>2, <2>8 DEF BudgetOK
  <1> QED
    BY <1>1, <1>2

LEMMA StartBudget ==
  ASSUME ProgramOK, NEW p \in Iterators, NEW kind, StartLoop(p, kind),
         iter'[p].out = <<>>
  PROVE  BudgetOK(p)'
  <1>1. /\ loop'[p].at = "begin" /\ read'[p] = NothingRead
    BY DEF StartLoop, ProgramOK, ProgramTypeOK
  <1>2. Shown(iter[p])' = {} /\ Pending(p)' = {}
    BY <1>1 DEF Shown, Pending
  <1>3. /\ read'[p].messages = <<>> /\ read'[p].errors = 0 /\ ~read'[p].stopped
    BY <1>1 DEF NothingRead
  <1>4. Balanced(Shown(iter[p]) \cup Pending(p), read[p].messages, read[p].errors)'
    BY <1>2, <1>3, BalancedStart DEF Balanced, MessagesOf
  <1> QED
    BY <1>3, <1>4 DEF BudgetOK

\* A loop whose call runs was not told of the end.
LEMMA RunnerBudget ==
  ASSUME ProgramOK, BaseInv, Inv', CallStep, NEW p, p = call.it, BudgetOK(p)
  PROVE  /\ loop[p].kind # "none" /\ Pending(p) = {} /\ (Exclusive(p) => ~read[p].stopped)
         /\ iter'[p] = NoIterator
            \/ (iter'[p].out = iter[p].out /\ (Exclusive(p)' => Exclusive(p)))
  <1>1. loop[p].kind # "none" /\ loop[p].at # "rest"
    BY Runner
  <1>2. iter[p].st # "none"
    BY Runner, CallFacts DEF BaseInv
  <1>3. iter'[p] = NoIterator
          \/ (/\ iter'[p].out = iter[p].out
              /\ iter'[p].fresh = iter[p].fresh /\ iter'[p].alone = iter[p].alone)
    BY RunFacts DEF BaseInv
  <1> QED
    BY <1>1, <1>2, <1>3, NonePending DEF BudgetOK, Exclusive

LEMMA GoesOnBudget ==
  ASSUME ProgramOK, BaseInv, Inv', GoesOn, NEW p, p = call.it, BudgetOK(p)
  PROVE  BudgetOK(p)'
  <1>1. CallStep /\ call' # Idle /\ UNCHANGED <<loop, read>>
    BY DEF GoesOn, program
  <1>2. iter'[p] # NoIterator
    <2>1. call'.it = p /\ iter'[p].st = iter[p].st /\ call.pc # "idle"
      BY <1>1, RunFacts DEF BaseInv
    <2>2. iter[p].st # "none"
      BY <2>1, CallFacts DEF BaseInv
    <2> QED
      BY <2>1, <2>2 DEF NoIterator
  <1>3. loop'[p].at # "rest"
    BY <1>1, Runner
  <1>4. Pending(p)' = {}
    BY <1>3 DEF Pending
  <1>5. /\ loop[p].kind # "none" /\ Pending(p) = {} /\ (Exclusive(p) => ~read[p].stopped)
        /\ iter'[p].out = iter[p].out /\ (Exclusive(p)' => Exclusive(p))
    BY <1>1, <1>2, RunnerBudget
  <1>6. read'[p] = read[p]
    BY <1>1
  <1> QED
    BY <1>4, <1>5, <1>6, BudgetKept

LEMMA ReturnsBudget ==
  ASSUME ProgramOK, BaseInv, Inv', Returns, NEW p, p = call.it, BudgetOK(p)
  PROVE  BudgetOK(p)'
  <1>1. CallStep
    BY DEF Returns, CallStep
  <1>2. /\ p \in Iterators /\ iter'[p].st = "live" /\ read' = read
        /\ loop'[p].first_or_done = loop[p].first_or_done
        /\ \/ loop[p].at = "begin" /\ loop'[p].at = "rest"
           \/ loop[p].at = "increment" /\ loop'[p].at = "compare"
    BY ReturnFacts
  <1>3. loop[p].at = "begin" => loop[p].first_or_done
    BY <1>2 DEF ProgramOK, LoopOK
  <1>4. Pending(p)' = {}
    BY <1>2, <1>3 DEF Pending
  <1>5. iter'[p] # NoIterator
    BY <1>2 DEF NoIterator
  <1>6. /\ loop[p].kind # "none" /\ Pending(p) = {} /\ (Exclusive(p) => ~read[p].stopped)
        /\ iter'[p].out = iter[p].out /\ (Exclusive(p)' => Exclusive(p))
    BY <1>1, <1>5, RunnerBudget
  <1>7. read'[p] = read[p]
    BY <1>2
  <1> QED
    BY <1>4, <1>6, <1>7, BudgetKept

LEMMA ThrowsBudget ==
  ASSUME ProgramOK, BaseInv, Inv', Throws, NEW p, p = call.it, BudgetOK(p)
  PROVE  BudgetOK(p)'
  <1>1. PICK over : over = (loop[p].at = "begin")
    OBVIOUS
  <1>2. /\ p \in Iterators /\ CallStep /\ Raise(p, over)
        /\ ~over => iter'[p].st = "live" /\ iter'[p].out = iter[p].out
    BY <1>1, ThrowsFacts
  <1>3. CASE over
    <2>1. loop'[p] = NoLoop /\ read'[p] = NothingRead
      BY <1>2, <1>3, RaiseFacts DEF ProgramOK
    <2> QED
      BY <2>1 DEF BudgetOK, NoLoop, NothingRead
  <1>4. CASE ~over
    <2>1. iter'[p] # NoIterator
      BY <1>2, <1>4 DEF NoIterator
    <2>2. ProgramTypeOK /\ Inv
      BY DEF ProgramOK, BaseInv
    <2>3. /\ loop[p].kind # "none" /\ Pending(p) = {} /\ (Exclusive(p) => ~read[p].stopped)
          /\ iter'[p].out = iter[p].out /\ (Exclusive(p)' => Exclusive(p))
      BY <1>2, <2>1, RunnerBudget
    <2> QED
      BY <1>2, <1>4, <2>2, <2>3, BudgetRaised
  <1> QED
    BY <1>3, <1>4

\* Neither the View nor the loop changes.
LEMMA BudgetSame ==
  ASSUME UNCHANGED vars, NEW p, loop'[p] = loop[p], read'[p] = read[p], BudgetOK(p)
  PROVE  BudgetOK(p)'
  <1>1. iter' = iter /\ wrapper' = wrapper /\ call' = call
    BY DEF vars
  <1>2. Pending(p)' = Pending(p) /\ Shown(iter[p])' = Shown(iter[p])
    BY <1>1 DEF Pending, Top, Shown
  <1>3. Exclusive(p)' = Exclusive(p)
    BY <1>1 DEF Exclusive
  <1>4. Balanced(Shown(iter[p]) \cup Pending(p), read[p].messages, read[p].errors) =>
          Balanced(Shown(iter[p]) \cup Pending(p), read[p].messages, read[p].errors)'
    BY <1>2 DEF Balanced, MessagesOf
  <1> QED
    BY <1>1, <1>3, <1>4 DEF BudgetOK

\* ++ shows the message that was pending.
LEMMA AdvanceBudget ==
  ASSUME BaseInv, OffOK, BagsOK, NEW p \in Iterators, Increment(p), loop[p].at = "rest",
         ~loop[p].first_or_done, loop[p].kind # "none", loop'[p].at = "increment",
         read' = read, BudgetOK(p)
  PROVE  BudgetOK(p)'
  <1>1. /\ iter[p].queue # {} /\ call.pc = "idle"
        /\ iter'[p].fresh = iter[p].fresh /\ iter'[p].alone = iter[p].alone
        /\ iter[p].st = "live" /\ call.it # p
    <2>1. Inv
      BY DEF BaseInv
    <2>2. /\ call = Idle /\ iter[p].queue # {} /\ iter[p].st = "live"
          /\ iter'[p].fresh = iter[p].fresh /\ iter'[p].alone = iter[p].alone
      BY <2>1, AdvanceFacts
    <2> QED
      BY <2>2, ViewAssumption DEF Idle
  <1> SUFFICES ASSUME Exclusive(p) PROVE BudgetOK(p)'
    BY <1>1 DEF BudgetOK, Exclusive
  <1>2. iter'[p].out = Append(iter[p].out, Top(p))
    BY IncrementFacts DEF Top
  <1>3. Top(p) \in AllMessages
    BY <1>1, TopIsMessage DEF BaseInv
  <1>4. iter[p].out \in Seq(AllMessages)
    BY DEF BaseInv, Inv, TypeOK, Iterator
  <1>5. Shown(iter[p])' = Shown(iter[p]) \cup {Top(p)}
    BY SMTT(40), <1>2, <1>3, <1>4, AppendShown DEF Shown
  <1>6. Pending(p) = {Top(p)} /\ Pending(p)' = {}
    BY <1>1 DEF Pending
  <1>7. /\ Balanced(Shown(iter[p]) \cup Pending(p), read[p].messages, read[p].errors)
        /\ ~read[p].stopped
    BY DEF BudgetOK
  <1>8. Balanced(Shown(iter[p]) \cup Pending(p), read[p].messages, read[p].errors)'
    BY <1>5, <1>6, <1>7 DEF Balanced, MessagesOf
  <1> QED
    BY <1>7, <1>8 DEF BudgetOK

LEMMA NextBudget ==
  ASSUME ProgramOK, BaseInv, OffOK, BagsOK, NEW p \in Iterators, next(p), BudgetOK(p)
  PROVE  BudgetOK(p)'
  <1>1. MayCall /\ loop[p].kind # "none" /\ Inv
    BY NextFacts DEF BaseInv
  <1>2. loop[p].at = "rest"
    BY <1>1, RestFacts
  <1>3. CASE Undefine
    BY <1>3, BudgetSame DEF Undefine
  <1>4. CASE ~Undefine
    <2>1. /\ ~loop'[p].first_or_done /\ read' = read
          /\ \/ /\ loop[p].first_or_done /\ UNCHANGED vars /\ loop'[p].at = "compare"
             \/ /\ ~loop[p].first_or_done /\ Increment(p) /\ loop'[p].at = "increment"
      BY <1>1, <1>4, NextFacts
    <2>2. CASE loop[p].first_or_done /\ UNCHANGED vars /\ loop'[p].at = "compare"
      <3>1. iter' = iter /\ call' = call
        BY <2>2 DEF vars
      <3>2. Pending(p) = {} /\ Pending(p)' = {}
        BY <2>2 DEF Pending
      <3>3. Exclusive(p)' = Exclusive(p)
        BY <3>1 DEF Exclusive
      <3>4. Exclusive(p) /\ read[p].stopped =>
              iter[p].queue = {} /\ iter[p].st = "live" /\ call.it # p
        BY <1>1 DEF BudgetOK
      <3> QED
        BY <1>1, <2>1, <2>2, <3>1, <3>2, <3>3, <3>4, BudgetKept
    <2>3. CASE ~loop[p].first_or_done /\ Increment(p) /\ loop'[p].at = "increment"
      BY <1>1, <1>2, <2>1, <2>3, AdvanceBudget
    <2> QED
      BY <2>1, <2>2, <2>3
  <1> QED
    BY <1>3, <1>4

LEMMA StopBudget ==
  ASSUME ProgramOK, Inv, NEW p \in Iterators, Stop(p), BudgetOK(p)
  PROVE  BudgetOK(p)'
  <1>1. /\ loop[p].at = "compare" /\ iter[p].queue = {} /\ UNCHANGED vars
        /\ loop'[p].at = "rest" /\ loop'[p].first_or_done
        /\ read'[p].messages = read[p].messages /\ read'[p].errors = read[p].errors
    BY StopFacts
  <1>2. iter' = iter /\ call' = call
    BY <1>1 DEF vars
  <1>3. /\ call.it # p /\ loop[p].kind # "none" /\ iter[p].st # "building" /\ iter[p].st # "none"
    BY <1>1 DEF ProgramOK, LoopOK, NoLoop
  <1>4. iter[p].st = "live"
    BY <1>3 DEF Inv, TypeOK, Iterator
  <1>5. Pending(p) = {} /\ Pending(p)' = {}
    BY <1>1 DEF Pending
  <1>6. Exclusive(p)' = Exclusive(p)
    BY <1>2 DEF Exclusive
  <1> QED
    BY <1>1, <1>2, <1>3, <1>4, <1>5, <1>6, BudgetKept

\* A loop is at its comparison: nothing runs.
LEMMA CompareFacts ==
  ASSUME ProgramOK, Inv, NEW p \in Iterators, loop[p].at = "compare"
  PROVE  /\ call.pc = "idle" /\ call.it # p /\ iter[p].st = "live" /\ loop[p].kind # "none"
  <1>1. /\ call.it # p /\ loop[p].kind # "none" /\ iter[p].st # "building" /\ iter[p].st # "none"
    BY DEF ProgramOK, LoopOK, NoLoop
  <1>2. iter[p].st = "live"
    BY <1>1 DEF Inv, TypeOK, Iterator
  <1>3. call.pc = "idle"
    BY <1>1, OthersRest, CallFacts
  <1> QED
    BY <1>1, <1>2, <1>3

\* What the loop is given is not shown yet, and pending from now on.
LEMMA GiveBudget ==
  ASSUME ProgramOK, OrderInv, BagsOK, NEW p \in Iterators, AtMessage(p), UNCHANGED vars,
         NEW s \in Definitions \cup {Null}, Give(p, s), BudgetOK(p)
  PROVE  BudgetOK(p)'
  <1>1. loop[p].at = "compare" /\ iter[p].queue # {}
    BY DEF AtMessage, EqualsEnd
  <1>2. BaseInv /\ Inv /\ call.pc = "idle" /\ call.it # p /\ iter[p].st = "live"
        /\ loop[p].kind # "none"
    BY <1>1, CompareFacts DEF OrderInv, BaseInv
  <1>3. Top(p) \in AllMessages
    BY <1>1, <1>2, TopIsMessage
  <1> DEFINE g == [message |-> Top(p), schema |-> s]
             G == [message : AllMessages, schema : Definitions \cup {Null}]
  <1>4. CASE loop'[p] = loop[p] /\ read'[p] = read[p]
    BY <1>4, BudgetSame
  <1>5. CASE ~(loop'[p] = loop[p] /\ read'[p] = read[p])
    <2>1. /\ loop'[p].at = "rest" /\ loop'[p].first_or_done = loop[p].first_or_done
          /\ read'[p].messages = Append(read[p].messages, g)
          /\ read'[p].errors = read[p].errors /\ read'[p].stopped = read[p].stopped
      BY <1>3, <1>5, GiveFacts DEF ProgramOK
    <2>2. iter' = iter /\ wrapper' = wrapper /\ call' = call
      BY DEF vars
    <2> SUFFICES ASSUME Exclusive(p) PROVE BudgetOK(p)'
      BY <2>2 DEF BudgetOK, Exclusive
    <2>3. PICK S, ms, e, m : S = Shown(iter[p]) /\ ms = read[p].messages /\ e = read[p].errors
                             /\ m = Top(p)
      OBVIOUS
    <2>4. ~loop[p].first_or_done
      BY <1>1 DEF ProgramOK, LoopOK
    <2>5. Pending(p) = {} /\ Pending(p)' = {m} /\ Shown(iter[p])' = S
      BY <1>1, <2>1, <2>2, <2>3, <2>4 DEF Pending, Top, Shown
    <2>6. Balanced(S, ms, e) /\ ~read[p].stopped
      BY <1>1, <1>2, <2>3, <2>5 DEF BudgetOK
    <2>7. m \notin S
      <3>1. DeliveryOK(p)
        BY DEF OrderInv
      <3>2. \A n \in ShownOf(p, m.bag) : FileBefore(n, m)
        BY <1>1, <1>2, <2>3, <3>1, TopFacts DEF Top
      <3>3. m \in S => m \in ShownOf(p, m.bag)
        BY <2>3 DEF ShownOf
      <3>4. ~FileBefore(m, m)
        BY <1>3, <2>3, FileBeforeIrreflexive
      <3> QED
        BY <3>2, <3>3, <3>4
    <2>8. ms \in Seq(G) /\ g \in G /\ g.message = m
      BY <1>3, <2>3 DEF ProgramOK, ProgramTypeOK, LoopRead
    <2> HIDE DEF G, g
    <2>9. PICK T, ns : T = S \cup {m} /\ ns = Append(ms, g) /\ Balanced(T, ns, e)
      BY <2>6, <2>7, <2>8, BalancedGive
    <2>10. Balanced(Shown(iter[p]) \cup Pending(p), read[p].messages, read[p].errors)'
      <3>1. (Shown(iter[p]) \cup Pending(p))' = T
        BY <2>5, <2>9
      <3>2. read'[p].messages = ns /\ read'[p].errors = e
        BY <2>1, <2>3, <2>9
      <3> QED
        BY <2>9, <3>1, <3>2 DEF Balanced, MessagesOf
    <2> QED
      BY <2>1, <2>6, <2>10 DEF BudgetOK
  <1> QED
    BY <1>4, <1>5

LEMMA RaiseLookupBudget ==
  ASSUME ProgramOK, Inv, NEW p \in Iterators, RaiseLookup(p), BudgetOK(p)
  PROVE  BudgetOK(p)'
  <1>1. Raise(p, FALSE) /\ UNCHANGED vars /\ loop[p].at = "compare" /\ iter[p].queue # {}
    BY DEF RaiseLookup, AtMessage, EqualsEnd
  <1>2. iter' = iter
    BY <1>1 DEF vars
  <1>3. loop[p].kind # "none"
    BY <1>1, CompareFacts
  <1>4. Exclusive(p)' = Exclusive(p)
    BY <1>2 DEF Exclusive
  <1>5. Pending(p) = {}
    BY <1>1 DEF Pending
  <1>6. Exclusive(p) => ~read[p].stopped
    BY <1>1, <1>3 DEF BudgetOK
  <1>7. ProgramTypeOK
    BY DEF ProgramOK
  <1> QED
    BY <1>1, <1>2, <1>3, <1>4, <1>5, <1>6, <1>7, BudgetRaised

LEMMA StartBudgets ==
  ASSUME ProgramOK, Inv, BudgetsOK, MayCall, NEW p \in Iterators, NEW kind, StartLoop(p, kind),
         iter'[p].out = <<>>, \A j \in Iterators \ {p} : Undisturbed(j)
  PROVE  BudgetsOK'
  <1>1. BudgetOK(p)'
    BY StartBudget
  <1>2. \A j \in Iterators \ {p} : loop'[j] = loop[j] /\ read'[j] = read[j]
    BY DEF StartLoop, ProgramOK, ProgramTypeOK
  <1>3. \A j \in Iterators \ {p} : LoopStays(j)
    BY <1>2, RestFacts DEF LoopStays
  <1> QED
    BY <1>1, <1>3, BudgetStays DEF BudgetsOK

\* Only loop p moves, and the View not at all.
LEMMA ViewRests ==
  ASSUME BudgetsOK, UNCHANGED vars, NEW p \in Iterators, BudgetOK(p)',
         \A j \in Iterators \ {p} : loop'[j] = loop[j] /\ read'[j] = read[j]
  PROVE  BudgetsOK'
  BY BudgetSame DEF BudgetsOK

LEMMA RunBudgets ==
  ASSUME ProgramOK, BaseInv, Inv', BudgetsOK, GoesOn \/ Returns \/ Throws
  PROVE  BudgetsOK'
  <1>1. PICK p : p = call.it
    OBVIOUS
  <1>2. CallStep
    BY DEF GoesOn, Returns, Throws, CallStep
  <1>3. /\ p \in Iterators
        /\ \A j \in Iterators \ {p} : loop[j].at = "rest" /\ Undisturbed(j)
    BY <1>1, <1>2, Runner
  <1>4. BudgetOK(p)'
    BY <1>1, <1>3, GoesOnBudget, ReturnsBudget, ThrowsBudget DEF BudgetsOK
  <1>5. \A j \in Iterators \ {p} : loop'[j] = loop[j] /\ read'[j] = read[j]
    <2>1. CASE GoesOn
      BY <2>1 DEF GoesOn, program
    <2>2. CASE Returns
      BY <1>1, <2>2, ReturnFacts DEF LoopStays
    <2>3. CASE Throws
      <3>1. PICK over : over = (loop[p].at = "begin")
        OBVIOUS
      <3>2. Raise(p, over)
        BY <1>1, <2>3, <3>1, ThrowsFacts
      <3> QED
        BY <1>3, <3>2, RaiseFacts DEF ProgramOK
    <2> QED
      BY <2>1, <2>2, <2>3
  <1>6. \A j \in Iterators \ {p} : LoopStays(j)
    BY <1>3, <1>5 DEF LoopStays
  <1> QED
    BY <1>4, <1>6, BudgetStays DEF BudgetsOK

LEMMA GiveBudgets ==
  ASSUME ProgramOK, OrderInv, BagsOK, BudgetsOK, NEW p \in Iterators,
         GiveKnown(p) \/ GiveParsed(p)
  PROVE  BudgetsOK'
  <1> DEFINE b == Top(p).bag
             t == TopicOf(Top(p))
  <1>1. AtMessage(p) /\ UNCHANGED vars
    BY DEF GiveKnown, GiveParsed
  <1>2. iter[p].queue # {} /\ call.it # p /\ Inv
    BY <1>1, CompareFacts DEF AtMessage, EqualsEnd, OrderInv, BaseInv
  <1>3. b \in Bags /\ Top(p) \in Messages(b) /\ Top(p) \in AllMessages
    BY <1>2, TopIsMessage
  <1>4. PICK s \in Definitions \cup {Null} : Give(p, s)
    <2>1. CASE GiveKnown(p)
      <3>1. PICK s \in Known(b, t) : Give(p, s)
        BY <2>1 DEF GiveKnown
      <3>2. t \in DOMAIN message_schemata_[b] /\ s = message_schemata_[b][t]
        BY <3>1 DEF Known
      <3>3. t \in DOMAIN topic_connection_map_[b] /\ s = Schema(b, t)
        BY <1>3, <3>2 DEF ProgramOK, SchemataOK
      <3> QED
        BY <1>3, <3>1, <3>3, SchemaIn
    <2>2. CASE GiveParsed(p)
      <3>1. t # NoTopic /\ Give(p, FirstDefinition(b, t))
        BY <2>2 DEF GiveParsed
      <3>2. FirstDefinition(b, t) \in Definitions
        BY <1>3, <3>1, TopicMapped, DefinitionFacts
      <3> QED
        BY <3>1, <3>2
    <2> QED
      BY <2>1, <2>2
  <1>5. BudgetOK(p)'
    BY <1>1, <1>4, GiveBudget DEF BudgetsOK
  <1>6. \A j \in Iterators \ {p} : loop'[j] = loop[j] /\ read'[j] = read[j]
    BY <1>3, <1>4, GiveFacts DEF ProgramOK
  <1> QED
    BY <1>1, <1>5, <1>6, ViewRests

LEMMA BudgetNext ==
  ASSUME ViewInv, ProgramOK, BudgetsOK, ViewInv', [ProgramNext]_allvars
  PROVE  BudgetsOK'
  <1>1. OrderInv /\ BaseInv /\ Inv /\ OffOK /\ BagsOK /\ Inv'
    BY DEF ViewInv, OrderInv, BaseInv
  <1>2. CASE UNCHANGED vars /\ UNCHANGED <<loop, read>>
    BY <1>2, BudgetSame DEF BudgetsOK
  <1>3. CASE Setup
    <2>1. MayCall /\ Prepare /\ UNCHANGED <<loop, read>>
      BY <1>3 DEF Setup, Prepare, program
    <2>2. \A j \in Iterators : LoopStays(j)
      BY <1>1, <2>1, RestFacts, PrepareFacts DEF LoopStays
    <2> QED
      BY <2>2, BudgetStays DEF BudgetsOK
  <1>4. ASSUME NEW p \in Iterators, NEW q \in Queries, NEW kind, Iterate(p, q, kind)
        PROVE  BudgetsOK'
    <2>2. MayCall /\ Begin(p, q) /\ StartLoop(p, kind)
      BY <1>4 DEF Iterate
    <2> QED
      BY <1>1, <2>2, BeginFacts, StartBudgets
  <1>5. ASSUME NEW p \in Iterators, NEW q \in Queries, NEW b \in Bags, NEW f \in Filter,
               read_messages(p, q, b, f)
        PROVE  BudgetsOK'
    <2>1. MayCall /\ StartLoop(p, "read_messages")
      BY <1>5 DEF read_messages
    <2> QED
      BY <1>1, <1>5, <2>1, OpenLeaves, StartBudgets
  <1>6. CASE GoesOn \/ Returns \/ Throws
    BY <1>1, <1>6, RunBudgets
  <1>7. ASSUME NEW p \in Iterators, next(p) PROVE BudgetsOK'
    <2>1. BudgetOK(p)' /\ MayCall
      BY <1>1, <1>7, NextBudget, NextFacts DEF BudgetsOK
    <2>2. \A j \in Iterators \ {p} : loop'[j] = loop[j] /\ read'[j] = read[j]
      BY <1>1, <1>7, NextFacts DEF Undefine
    <2>3. CASE UNCHANGED vars
      BY <2>1, <2>2, <2>3, ViewRests
    <2>4. CASE Increment(p)
      <3>1. \A j \in Iterators \ {p} : LoopStays(j)
        BY <1>1, <2>1, <2>2, <2>4, AdvanceFacts, RestFacts DEF LoopStays
      <3> QED
        BY <2>1, <3>1, BudgetStays DEF BudgetsOK
    <2> QED
      BY <1>1, <1>7, <2>3, <2>4, NextFacts DEF Undefine
  <1>8. ASSUME NEW p \in Iterators, Stop(p) PROVE BudgetsOK'
    BY <1>1, <1>8, StopFacts, StopBudget, ViewRests DEF BudgetsOK
  <1>9. ASSUME NEW p \in Iterators, GiveKnown(p) \/ GiveParsed(p) PROVE BudgetsOK'
    BY <1>1, <1>9, GiveBudgets
  <1>10. ASSUME NEW p \in Iterators, RaiseLookup(p) PROVE BudgetsOK'
    <2>1. Raise(p, FALSE) /\ UNCHANGED vars
      BY <1>10 DEF RaiseLookup
    <2>2. \A j \in Iterators \ {p} : loop'[j] = loop[j] /\ read'[j] = read[j]
      BY <2>1, RaiseFacts DEF ProgramOK
    <2>3. BudgetOK(p)'
      BY <1>1, <1>10, RaiseLookupBudget DEF BudgetsOK
    <2> QED
      BY <2>1, <2>2, <2>3, ViewRests
  <1>11. CASE UNCHANGED allvars
    BY <1>2, <1>11 DEF allvars, program
  <1>12. CASE (\E b \in Bags : close(b)) \/ AskTimes \/ LoadUnmapped
    BY <1>2, <1>12 DEF close, AskTimes, LoadUnmapped, Undefine
  <1> QED
    BY <1>3, <1>4, <1>5, <1>6, <1>7, <1>8, <1>9, <1>10, <1>11, <1>12
    DEF ProgramNext, Iter, Echo

LEMMA BudgetStart == ProgramInit => BudgetsOK
  <1> SUFFICES ASSUME ProgramInit, NEW p \in Iterators PROVE BudgetOK(p)
    BY DEF BudgetsOK
  <1>1. ~Exclusive(p)
    BY DEF ProgramInit, Init, Exclusive, NoIterator
  <1> QED
    BY <1>1 DEF BudgetOK

LEMMA ProgramHolds == ProgramSpec => []ProgramInv
  <1>1. ProgramInit => ProgramInv
    BY ProgramStart, BudgetStart DEF ProgramInv
  <1>2. ProgramInv /\ [ProgramNext]_allvars => ProgramInv'
    BY ViewNext, ProgramGoesOn, BudgetNext DEF ProgramInv
  <1> QED
    BY <1>1, <1>2, PTL DEF ProgramSpec

-----------------------------------------------------------------------------
(* The theorems.                                                           *)

(***************************************************************************)
(* Undefined behaviour has one of three causes: the program went on after  *)
(* an exception, it closed a bag on a file, or its view has a bag without  *)
(* chunks, of which getStartTime and getEndTime take the first and the     *)
(* last, as embag_echo does before its loop.                               *)
(***************************************************************************)
THEOREM UndefinedHasCause == ProgramSpec => []UndefinedExplained
  <1>1. ProgramInv => UndefinedExplained
    BY DEF ProgramInv, ProgramOK
  <1> QED
    BY <1>1, ProgramHolds, PTL

(***************************************************************************)
(* Every message comes with the definition of its own connection, when the *)
(* connections of its topic agree: the schemata that operator* notes by    *)
(* bag and topic stay right, whatever was thrown in between.               *)
(***************************************************************************)
THEOREM GivenOwnDefinition == ProgramSpec => []OwnDefinition
  <1>1. ProgramInv => OwnDefinition
    <2> SUFFICES ASSUME ProgramInv, NEW p \in Iterators,
                        NEW k \in DOMAIN read[p].messages
                 PROVE  LET m == read[p].messages[k].message
                            own == connection_data_[m.bag][ConnectionOf(m)].message_definition
                            agreed == \A id \in DOMAIN connections_[m.bag] :
                              connections_[m.bag][id].topic = TopicOf(m) =>
                                connection_data_[m.bag][id].message_definition = own IN
                        agreed => read[p].messages[k].schema =
                                    IF own \in Unparsable THEN Null ELSE own
      BY DEF OwnDefinition
    <2> USE DEF ProgramInv
    <2> DEFINE m == read[p].messages[k].message
               b == m.bag
               t == TopicOf(m)
               own == connection_data_[b][ConnectionOf(m)].message_definition
    <2>1. m \in AllMessages /\ t # NoTopic /\ read[p].messages[k].schema = Schema(b, t)
      <3> DEFINE G == [message : AllMessages, schema : Definitions \cup {Null}]
      <3>1. read[p].messages \in Seq(G)
        BY DEF ProgramOK, ProgramTypeOK, LoopRead
      <3> HIDE DEF G
      <3>2. read[p].messages[k] \in G
        BY <3>1
      <3> USE DEF G
      <3> QED
        BY <3>2 DEF ProgramOK, GivenOK
    <2>2. b \in Bags /\ m \in Messages(b)
      BY <2>1, MessageParts DEF AllMessages
    <2>3. t \in DOMAIN topic_connection_map_[b]
      BY <2>1, <2>2, TopicMapped
    <2>4. PICK id \in DOMAIN connections_[b] :
            /\ connections_[b][id].topic = t
            /\ FirstDefinition(b, t) = connection_data_[b][id].message_definition
      BY <2>2, <2>3, DefinitionFacts
    <2> HIDE DEF b, t, own
    <2>5. ASSUME \A i \in DOMAIN connections_[b] :
                   connections_[b][i].topic = t => connection_data_[b][i].message_definition = own
          PROVE  Schema(b, t) = IF own \in Unparsable THEN Null ELSE own
      BY <2>4, <2>5 DEF Schema
    <2> QED
      BY <2>1, <2>5 DEF b, t, own
  <1> QED
    BY <1>1, ProgramHolds, PTL

\* What was requested of a bag that could be read has been shown at the end.
LEMMA AllShown ==
  ASSUME OrderInv, NEW p \in Iterators, Exclusive(p), iter[p].queue = {},
         iter[p].st = "live", call.it # p,
         NEW b \in query[iter[p].query].bags \ iter[p].lost
  PROVE  Requested(iter[p].query, b) \subseteq Shown(iter[p])
  <1> DEFINE q == iter[p].query
  <1>1. CursorOK(p, b)
    BY DEF OrderInv, DeliveryOK
  <1>2. Waiting(p) = {} /\ ~ReadsBag(p, b) /\ Held(p, b) = {}
    BY DEF Waiting, ReadsBag, Held
  <1>3. Passed(q, b) = ShownOf(p, b) /\ wrapper[q][b].chunk_iter = {}
    BY <1>1, <1>2 DEF CursorOK
  <1>4. Requested(q, b) \subseteq Passed(q, b)
    BY <1>3 DEF Passed, Before
  <1> QED
    BY <1>3, <1>4 DEF ShownOf

\* As many messages as there are, when none is there twice.
LEMMA LengthOfSet ==
  ASSUME NEW G, NEW ms \in Seq(G),
         \A k, l \in DOMAIN ms : ms[k].message = ms[l].message => k = l
  PROVE  Len(ms) = Cardinality(MessagesOf(ms))
  <1> DEFINE D == 1..Len(ms)
             M == MessagesOf(ms)
             f == [k \in D |-> ms[k].message]
  <1>1. Len(ms) \in Nat /\ DOMAIN ms = D
    OBVIOUS
  <1>2. M = {ms[k].message : k \in D}
    BY <1>1 DEF MessagesOf
  <1> HIDE DEF M
  <1>3. f \in [D -> M] /\ \A m \in M : \E k \in D : f[k] = m
    BY <1>2
  <1>4. \A k, l \in D : f[k] = f[l] => k = l
    BY <1>1
  <1> HIDE DEF f, D
  <1>5. f \in Bijection(D, M)
    <2>1. f \in Injection(D, M)
      BY <1>3, <1>4 DEF Injection, IsInjective
    <2>2. f \in Surjection(D, M)
      BY <1>3 DEF Surjection
    <2> QED
      BY <2>1, <2>2 DEF Bijection
  <1> USE DEF D
  <1>6. ExistsBijection(1..Len(ms), M)
    BY <1>5 DEF ExistsBijection
  <1> QED
    BY <1>1, <1>6, FS_CountingElements DEF M

(***************************************************************************)
(* A loop that ran to its end was given every message that was asked for   *)
(* of the bags that could be read, once, and no others, but for at most    *)
(* one message an exception; bags that were closed cost nothing else.      *)
(***************************************************************************)
THEOREM EachExceptionCostsOne == ProgramSpec => []ExceptionCostsOne
  <1>1. ProgramInv => ExceptionCostsOne
    <2> SUFFICES ASSUME ProgramInv, NEW p \in Iterators, RanToEnd(p)
                 PROVE  LET q == iter[p].query
                            readable == query[q].bags \ iter[p].lost
                            due == UNION {Requested(q, b) : b \in readable} IN
                        /\ Len(read[p].messages) = Cardinality(Given(p))
                        /\ Given(p) \subseteq UNION {Requested(q, b) : b \in query[q].bags}
                        /\ Cardinality(due \ Given(p)) <= read[p].errors
      BY DEF ExceptionCostsOne
    <2> DEFINE q == iter[p].query
               ms == read[p].messages
               readable == query[q].bags \ iter[p].lost
               due == UNION {Requested(q, b) : b \in readable}
               S == Shown(iter[p])
    <2>1. OrderInv /\ Inv /\ ProgramTypeOK
      BY DEF ProgramInv, ViewInv, OrderInv, BaseInv, ProgramOK
    <2>2. Exclusive(p) /\ read[p].stopped
      BY DEF RanToEnd
    <2>3. /\ Balanced(S \cup Pending(p), ms, read[p].errors)
          /\ iter[p].queue = {} /\ iter[p].st = "live" /\ call.it # p
      BY <2>2 DEF ProgramInv, BudgetsOK, BudgetOK
    <2>4. Pending(p) = {}
      BY <2>3 DEF Pending
    <2>5. Given(p) = MessagesOf(ms)
      BY DEF Given, MessagesOf
    <2>6. /\ Given(p) \subseteq S /\ Cardinality(S \ Given(p)) <= read[p].errors
          /\ \A k, l \in DOMAIN ms : ms[k].message = ms[l].message => k = l
      BY <2>3, <2>4, <2>5 DEF Balanced
    <2>7. Len(ms) = Cardinality(Given(p))
      <3> DEFINE G == [message : AllMessages, schema : Definitions \cup {Null}]
      <3>1. ms \in Seq(G)
        BY <2>1 DEF ProgramTypeOK, LoopRead
      <3> HIDE DEF G
      <3> QED
        BY <2>5, <2>6, <3>1, LengthOfSet
    <2>8. S \subseteq UNION {Requested(q, b) : b \in query[q].bags}
      BY <2>1, <2>2 DEF OrderInv, DeliveryOK, OutOK, Shown
    <2>9. due \subseteq S
      BY <2>1, <2>2, <2>3, AllShown
    <2>10. Cardinality(due \ Given(p)) <= read[p].errors
      <3> HIDE DEF due, S
      <3>1. IsFiniteSet(S \ Given(p))
        BY <2>1, ShownFinite, FS_Difference DEF S
      <3>2. due \ Given(p) \in SUBSET (S \ Given(p))
        BY <2>9
      <3>3. /\ Cardinality(due \ Given(p)) <= Cardinality(S \ Given(p))
            /\ IsFiniteSet(due \ Given(p))
        BY <3>1, <3>2, FS_Subset
      <3>4. Cardinality(due \ Given(p)) \in Nat /\ Cardinality(S \ Given(p)) \in Nat
        BY <3>1, <3>3, FS_CardinalityType
      <3>5. read[p].errors \in Nat
        BY <2>1 DEF ProgramTypeOK, LoopRead
      <3> QED
        BY <2>6, <3>3, <3>4, <3>5
    <2> QED
      BY <2>6, <2>7, <2>8, <2>10
  <1> QED
    BY <1>1, ProgramHolds, PTL

-----------------------------------------------------------------------------
(* The times of a view.                                                    *)

LEMMA EarliestTime ==
  ASSUME NEW T \in SUBSET ros_time_t, T # {}
  PROVE  \E t \in T : \A u \in T : ~Less(u, t)
  <1>0. \A t \in T : t.secs \in Nat /\ t.nsecs \in Nat
    BY TimeAssumption DEF ros_time_t
  <1> DEFINE S == {t.secs : t \in T}
  <1>1. S \in SUBSET Nat /\ S # {}
    BY <1>0
  <1>2. PICK s \in S : \A k \in S : s <= k
    BY <1>1, LeastNatural
  <1> DEFINE N == {t.nsecs : t \in {u \in T : u.secs = s}}
  <1>3. N \in SUBSET Nat /\ N # {}
    BY <1>0
  <1>4. PICK n \in N : \A k \in N : n <= k
    BY <1>3, LeastNatural
  <1>5. PICK t \in T : t.secs = s /\ t.nsecs = n
    OBVIOUS
  <1>6. ASSUME NEW u \in T PROVE ~Less(u, t)
    <2>1. t.secs <= u.secs
      BY <1>2, <1>5
    <2>2. u.secs = t.secs => t.nsecs <= u.nsecs
      BY <1>4, <1>5
    <2> QED
      BY <1>0, <2>1, <2>2 DEF Less
  <1> QED
    BY <1>6

LEMMA LatestTime ==
  ASSUME NEW T \in SUBSET ros_time_t, T # {}
  PROVE  \E t \in T : \A u \in T : ~Less(t, u)
  <1>0. MaxWord \in Nat /\ \A t \in T : t.secs \in 0..MaxWord /\ t.nsecs \in 0..MaxWord
    BY TimeAssumption DEF ros_time_t
  <1> DEFINE S == {MaxWord - t.secs : t \in T}
  <1>1. S \in SUBSET Nat /\ S # {}
    BY <1>0
  <1>2. PICK s \in S : \A k \in S : s <= k
    BY <1>1, LeastNatural
  <1> DEFINE N == {MaxWord - t.nsecs : t \in {u \in T : MaxWord - u.secs = s}}
  <1>3. N \in SUBSET Nat /\ N # {}
    BY <1>0
  <1>4. PICK n \in N : \A k \in N : n <= k
    BY <1>3, LeastNatural
  <1>5. PICK t \in T : MaxWord - t.secs = s /\ MaxWord - t.nsecs = n
    OBVIOUS
  <1>6. ASSUME NEW u \in T PROVE ~Less(t, u)
    <2>1. MaxWord - t.secs <= MaxWord - u.secs
      BY <1>2, <1>5
    <2>2. MaxWord - u.secs = MaxWord - t.secs => MaxWord - t.nsecs <= MaxWord - u.nsecs
      BY <1>4, <1>5
    <2> QED
      BY <1>0, <2>1, <2>2 DEF Less
  <1> QED
    BY <1>6

\* The comparison of time stamps is a total preorder.
LEMMA LessOrder ==
  ASSUME NEW s \in ros_time_t, NEW t \in ros_time_t, NEW u \in ros_time_t,
         ~Less(t, s), ~Less(u, t)
  PROVE  ~Less(u, s)
  BY TimeAssumption DEF ros_time_t, Less

\* A finite set as a sequence.
LEMMA SequenceOfSet ==
  ASSUME NEW S, IsFiniteSet(S)
  PROVE  ToSet(SetToSeq(S)) = S
  <1> DEFINE n == Cardinality(S)
             D == 1..n
             vec == SetToSeq(S)
  <1>1. n \in Nat /\ ExistsBijection(D, S)
    BY FS_CardinalityType
  <1>2. \E f \in [D -> S] : IsInjective(f)
    BY <1>1 DEF ExistsBijection, Bijection, Injection
  <1>3. vec \in [D -> S] /\ IsInjective(vec)
    BY <1>2 DEF SetToSeq
  <1>4. IsFiniteSet(D) /\ Cardinality(D) = n
    BY <1>1, FS_Interval
  <1> HIDE DEF vec, D
  <1>5. vec \in Injection(D, S)
    BY <1>3 DEF Injection
  <1>6. vec \in Surjection(D, S)
    BY <1>4, <1>5, FS_Injection
  <1>7. DOMAIN vec = D /\ (\A k \in D : vec[k] \in S) /\ \A x \in S : \E k \in D : vec[k] = x
    BY <1>3, <1>6 DEF Surjection
  <1> QED
    BY <1>7 DEF ToSet, vec

\* The first and the last chunk info of a bag that has one.
LEMMA ChunkTimes ==
  ASSUME NEW b \in Bags, chunks_[b] # <<>>
  PROVE  /\ 1 \in Chunks(b) /\ Len(chunks_[b]) \in Chunks(b)
         /\ chunks_[b][1].start_time \in ros_time_t
         /\ chunks_[b][Len(chunks_[b])].end_time \in ros_time_t
  <1>1. 1 \in Chunks(b) /\ Len(chunks_[b]) \in Chunks(b)
    <2> DEFINE v == chunks_[b]
    <2>1. PICK T : v \in Seq(T)
      BY VectorAssumption
    <2>2. v # <<>>
      OBVIOUS
    <2> HIDE DEF v
    <2>3. 1 \in DOMAIN v /\ Len(v) \in DOMAIN v
      BY <2>1, <2>2
    <2> QED
      BY <2>3 DEF v, Chunks
  <1> QED
    BY <1>1, ChunkAssumption

\* The extreme values of a time stamp.
LEMMA ExtremeTimes == Maximum \in ros_time_t /\ Zero \in ros_time_t
  BY TimeAssumption DEF Maximum, Zero, ros_time_t

\* The time of a message lies between those of its chunk info.
LEMMA WithinChunk ==
  ASSUME NEW b \in Bags, TimesSound(b), NEW m \in AllMessages, m.bag = b
  PROVE  /\ chunks_[b] # <<>>
         /\ ~Less(TimeOf(m), chunks_[b][1].start_time)
         /\ ~Less(chunks_[b][Len(chunks_[b])].end_time, TimeOf(m))
  <1> DEFINE c == m.chunk
             first == chunks_[b][1].start_time
             last == chunks_[b][Len(chunks_[b])].end_time
             start == chunks_[b][c].start_time
             end == chunks_[b][c].end_time
             t == TimeOf(m)
  <1>1. m \in Messages(b)
    BY MessageParts DEF AllMessages
  <1>2. c \in Chunks(b) /\ m \in MessagesIn(b, c)
    BY <1>1, MessageParts DEF MessagesIn
  <1>3. chunks_[b] # <<>> /\ ~Less(start, first) /\ ~Less(last, end)
        /\ ~Less(t, start) /\ ~Less(end, t)
    BY <1>2 DEF TimesSound
  <1>4. first \in ros_time_t /\ last \in ros_time_t
    BY <1>3, ChunkTimes
  <1>5. start \in ros_time_t /\ end \in ros_time_t
    BY <1>2, ChunkAssumption
  <1>6. t \in ros_time_t
    BY TimeFacts
  <1> HIDE DEF first, last, start, end, t
  <1>7. ~Less(t, first)
    BY <1>3, <1>4, <1>5, <1>6, LessOrder
  <1>8. ~Less(last, t)
    BY <1>3, <1>4, <1>5, <1>6, LessOrder
  <1> QED
    BY <1>3, <1>7, <1>8 DEF first, last, t

\* No bag of a view starts before the view, and none ends after it.
LEMMA ViewTimes ==
  ASSUME NEW B \in SUBSET Bags, IsFiniteSet(B), \A b \in B : chunks_[b] # <<>>
  PROVE  LET vec == SetToSeq(B) IN
         /\ getStartTime(vec) \in ros_time_t /\ getEndTime(vec) \in ros_time_t
         /\ \A b \in B : /\ ~Less(chunks_[b][1].start_time, getStartTime(vec))
                         /\ ~Less(getEndTime(vec), chunks_[b][Len(chunks_[b])].end_time)
  <1> DEFINE vec == SetToSeq(B)
             starts == {chunks_[vec[k]][1].start_time : k \in DOMAIN vec} \cup {Maximum}
             ends == {chunks_[b][Len(chunks_[b])].end_time : b \in ToSet(vec)} \cup {Zero}
  <1>1. ToSet(vec) = B
    BY SequenceOfSet
  <1>2. \A b \in B : chunks_[b][1].start_time \in ros_time_t
                     /\ chunks_[b][Len(chunks_[b])].end_time \in ros_time_t
    BY ChunkTimes
  <1>3. /\ getStartTime(vec) = CHOOSE t \in starts : \A u \in starts : ~Less(u, t)
        /\ getEndTime(vec) = CHOOSE t \in ends : \A u \in ends : ~Less(t, u)
    BY DEF getStartTime, getEndTime
  <1> HIDE DEF vec
  <1>4. \A k \in DOMAIN vec : vec[k] \in B
    BY <1>1 DEF ToSet
  <1>5. \A b \in B : \E k \in DOMAIN vec : vec[k] = b
    BY <1>1 DEF ToSet
  <1>6. starts \in SUBSET ros_time_t /\ starts # {}
    BY <1>2, <1>4, ExtremeTimes
  <1>7. ends \in SUBSET ros_time_t /\ ends # {}
    BY <1>1, <1>2, ExtremeTimes
  <1>8. \A b \in B : chunks_[b][1].start_time \in starts
    BY <1>5
  <1>9. \A b \in B : chunks_[b][Len(chunks_[b])].end_time \in ends
    BY <1>1
  <1> HIDE DEF starts, ends
  <1>10. getStartTime(vec) \in starts /\ \A u \in starts : ~Less(u, getStartTime(vec))
    BY <1>3, <1>6, EarliestTime
  <1>11. getEndTime(vec) \in ends /\ \A u \in ends : ~Less(getEndTime(vec), u)
    BY <1>3, <1>7, LatestTime
  <1> QED
    BY <1>6, <1>7, <1>8, <1>9, <1>10, <1>11 DEF vec

(***************************************************************************)
(* Every message that a loop is given lies between the start and the end   *)
(* time of its view, which look at the first chunk info and at the last of *)
(* each bag, when the chunk infos are in time order and cover their        *)
(* messages: view.cc:209 needs no more than that.                          *)
(***************************************************************************)
THEOREM GivenWithinTimes == ProgramSpec => []WithinStartAndEnd
  <1>1. ProgramInv => WithinStartAndEnd
    <2> SUFFICES ASSUME ProgramInv, NEW p \in Iterators, iter[p].st = "live",
                        \A b \in query[iter[p].query].bags : TimesSound(b),
                        NEW m \in Given(p)
                 PROVE  LET bags == query[iter[p].query].bags IN
                        /\ ~Less(TimeOf(m), getStartTime(SetToSeq(bags)))
                        /\ ~Less(getEndTime(SetToSeq(bags)), TimeOf(m))
      BY DEF WithinStartAndEnd
    <2> DEFINE B == query[iter[p].query].bags
               vec == SetToSeq(B)
    <2>1. B \in SUBSET Bags /\ IsFiniteSet(B)
      <3>1. Inv /\ BagsOK
        BY DEF ProgramInv, ViewInv, OrderInv, BaseInv
      <3>2. iter[p] \in Iterator /\ IteratorOK(p)
        BY <3>1 DEF Inv, TypeOK, StructureOK
      <3>3. iter[p].query \in Queries
        BY <3>2 DEF IteratorOK, Iterator
      <3> QED
        BY <3>1, <3>3 DEF Inv, TypeOK, BagsOK
    <2>2. PICK k \in DOMAIN read[p].messages : m = read[p].messages[k].message
      BY DEF Given
    <2>3. m.bag \in B
      BY <2>2 DEF ProgramInv, ProgramOK, GivenOK
    <2>4. m \in AllMessages
      <3> DEFINE G == [message : AllMessages, schema : Definitions \cup {Null}]
      <3>1. read[p].messages \in Seq(G)
        BY DEF ProgramInv, ProgramOK, ProgramTypeOK, LoopRead
      <3> HIDE DEF G
      <3>2. read[p].messages[k] \in G
        BY <3>1
      <3> USE DEF G
      <3> QED
        BY <2>2, <3>2
    <2>5. \A b \in B : TimesSound(b) /\ chunks_[b] # <<>>
      BY DEF TimesSound
    <2> HIDE DEF B
    <2> DEFINE b == m.bag
               first == chunks_[b][1].start_time
               last == chunks_[b][Len(chunks_[b])].end_time
               start == getStartTime(vec)
               end == getEndTime(vec)
               t == TimeOf(m)
    <2>6. ~Less(t, first) /\ ~Less(last, t)
      BY <2>1, <2>3, <2>4, <2>5, WithinChunk
    <2>7. start \in ros_time_t /\ end \in ros_time_t /\ ~Less(first, start) /\ ~Less(end, last)
      BY <2>1, <2>3, <2>5, ViewTimes
    <2>8. first \in ros_time_t /\ last \in ros_time_t
      BY <2>1, <2>3, <2>5, ChunkTimes
    <2>9. t \in ros_time_t
      BY <2>4, TimeFacts
    <2> HIDE DEF first, last, start, end, t
    <2>10. ~Less(t, start)
      BY <2>6, <2>7, <2>8, <2>9, LessOrder
    <2>11. ~Less(end, t)
      BY <2>6, <2>7, <2>8, <2>9, LessOrder
    <2> QED
      BY <2>10, <2>11 DEF start, end, t, B
  <1> QED
    BY <1>1, ProgramHolds, PTL

-----------------------------------------------------------------------------
(***************************************************************************)
(* The counts of connectionsByTopicMap: without an exception no bag is     *)
(* lost, so a loop was given all messages of its bags, and those of a      *)
(* topic are counted connection by connection.                             *)
(***************************************************************************)

\* A bag is lost only to an exception that the loop was told of.
LostCounted(p) ==
  (loop[p].kind # "none" \/ read[p].stopped) /\ iter[p].lost # {} => read[p].errors > 0

LostOK == \A p \in Iterators : LostCounted(p)

\* A step that loses no bag of iterator j.
LEMMA LostStays ==
  ASSUME NEW j, LostCounted(j), iter'[j].lost = iter[j].lost,
         read'[j].errors = read[j].errors,
         loop'[j].kind # "none" \/ read'[j].stopped => loop[j].kind # "none" \/ read[j].stopped
  PROVE  LostCounted(j)'
  BY DEF LostCounted

LEMMA LostAlike ==
  ASSUME LostOK, NEW j \in Iterators, iter'[j].lost = iter[j].lost,
         loop'[j] = loop[j], read'[j] = read[j]
  PROVE  LostCounted(j)'
  BY LostStays DEF LostOK

LEMMA DisturbLoses ==
  ASSUME Inv, NEW i \in Iterators, NEW q, NEW j \in Iterators
  PROVE  Disturb(i, q)[j].lost = iter[j].lost
  <1>1. iter[j] \in Iterator
    BY DEF Inv, TypeOK
  <1>2. [iter[j] EXCEPT !.alone = FALSE, !.out = <<>>].lost = iter[j].lost
    BY <1>1 DEF Iterator
  <1> QED
    BY <1>2 DEF Disturb

LEMMA BeginLoses ==
  ASSUME Inv, NEW p \in Iterators, NEW q \in Queries, Begin(p, q)
  PROVE  iter'[p].lost = {} /\ \A j \in Iterators \ {p} : iter'[j].lost = iter[j].lost
  <1> DEFINE d == Disturb(p, q)
             x == [NoIterator EXCEPT !.st = "building", !.query = q,
                                     !.fresh = Untouched(q), !.alone = TRUE]
  <1>1. iter' = [d EXCEPT ![p] = x]
    BY DEF Begin
  <1>2. x.lost = {}
    BY DEF NoIterator
  <1>3. DOMAIN d = Iterators
    BY DEF Disturb
  <1> HIDE DEF x, d
  <1>4. iter'[p] = x /\ \A j \in Iterators \ {p} : iter'[j] = d[j]
    BY <1>1, <1>3
  <1>5. \A j \in Iterators : d[j].lost = iter[j].lost
    BY DisturbLoses DEF d
  <1> QED
    BY <1>2, <1>4, <1>5

LEMMA OpenLoses ==
  ASSUME Inv, NEW p \in Iterators, NEW q \in Queries, NEW b \in Bags, NEW f \in Filter,
         read_messages(p, q, b, f)
  PROVE  iter'[p].lost = {} /\ \A j \in Iterators \ {p} : iter'[j].lost = iter[j].lost
  <1>1. Opened(p, q, b, f)
    BY OpenFacts
  <1> QED
    BY <1>1 DEF Opened, NoIterator

LEMMA AdvanceLoses ==
  ASSUME Inv, NEW p \in Iterators, Increment(p)
  PROVE  \A j \in Iterators : iter'[j].lost = iter[j].lost
  <1> DEFINE q == iter[p].query
             b == iter[p].top
             d == Disturb(p, q)
             o == IF iter[p].alone THEN Append(iter[p].out, wrapper[q][b].current)
                                   ELSE iter[p].out
  <1>1. DOMAIN d = Iterators /\ d[p] = iter[p] /\ iter[p] \in Iterator
    BY DEF Disturb, Inv, TypeOK
  <1>2. iter' = [d EXCEPT ![p].queue = iter[p].queue \ {b}, ![p].out = o]
    BY <1>1 DEF Increment
  <1>3. \A j \in Iterators : d[j].lost = iter[j].lost
    BY DisturbLoses DEF d
  <1> HIDE DEF d, o, b
  <1>4. /\ iter'[p] = [iter[p] EXCEPT !.queue = iter[p].queue \ {b}, !.out = o]
        /\ \A j \in Iterators \ {p} : iter'[j] = d[j]
    BY <1>1, <1>2
  <1>5. iter'[p].lost = iter[p].lost
    BY <1>1, <1>4 DEF Iterator
  <1> QED
    BY <1>3, <1>4, <1>5

\* A call that does not throw loses no bag.
LEMMA RunLoses ==
  ASSUME Inv, CallStep, call' # Idle \/ Return
  PROVE  LET p == call.it IN p \in Iterators => iter'[p].lost = iter[p].lost
  <1> SUFFICES ASSUME NEW p \in Iterators, p = call.it PROVE iter'[p].lost = iter[p].lost
    OBVIOUS
  <1>1. iter \in [Iterators -> Iterator] /\ iter[p] \in Iterator
    BY DEF Inv, TypeOK
  <1>2. CASE Return
    <2>1. PICK t : iter' = [iter EXCEPT ![p].st = "live", ![p].top = t]
      BY <1>2 DEF Return
    <2>2. iter'[p] = [iter[p] EXCEPT !.st = "live", !.top = t]
      BY <1>1, <2>1
    <2> QED
      BY <1>1, <2>2 DEF Iterator
  <1>3. CASE TakeMessage
    <2>1. iter' = [iter EXCEPT ![p].queue = @ \cup {call.bag}]
      BY <1>3 DEF TakeMessage
    <2>2. iter'[p] = [iter[p] EXCEPT !.queue = @ \cup {call.bag}]
      BY <1>1, <2>1
    <2> QED
      BY <1>1, <2>2 DEF Iterator
  <1>4. CASE (\E b \in Bags : BeginBag(b)) \/ SkipRecord \/ FinishChunk \/ ReadEnd
    <2>1. iter' = iter
      BY Zenon, <1>4 DEF BeginBag, SkipRecord, FinishChunk, ReadEnd
    <2> QED
      BY <2>1
  <1>5. CASE call' # Idle /\ (LoadChunk \/ UnknownRecord \/ UnreadableRecord)
    <2>1. \A w : ~Throw(w)
      BY <1>5 DEF Throw
    <2>2. CASE LoadChunk
      <3>1. iter' = iter \/ \E w : Throw(w)
        BY <2>2 DEF LoadChunk
      <3> QED
        BY <2>1, <3>1
    <2>3. CASE UnknownRecord \/ UnreadableRecord
      <3>1. \E w : Throw(w)
        BY <2>3 DEF UnknownRecord, UnreadableRecord
      <3> QED
        BY <2>1, <3>1
    <2> QED
      BY <1>5, <2>2, <2>3
  <1>6. CASE ~Return /\ (LoadChunk \/ UnknownRecord \/ UnreadableRecord)
    BY <1>5, <1>6
  <1> QED
    BY <1>2, <1>3, <1>4, <1>6 DEF CallStep

\* What an exception leaves is counted.
LEMMA RaiseCounts ==
  ASSUME ProgramTypeOK, NEW p \in Iterators, NEW over, Raise(p, over)
  PROVE  LostCounted(p)'
  <1>1. CASE loop'[p] = NoLoop /\ read'[p] = NothingRead
    BY <1>1 DEF LostCounted, NoLoop, NothingRead
  <1>2. CASE ~(loop'[p] = NoLoop /\ read'[p] = NothingRead)
    <2>1. read'[p].errors = read[p].errors + 1 /\ read[p].errors \in Nat
      BY <1>2, RaiseFacts DEF ProgramTypeOK, LoopRead
    <2>2. read'[p].errors > 0
      BY <2>1
    <2> QED
      BY <2>2 DEF LostCounted
  <1> QED
    BY <1>1, <1>2

LEMMA StartCounts ==
  ASSUME ProgramOK, LostOK, NEW p \in Iterators, NEW kind, StartLoop(p, kind),
         iter'[p].lost = {}, \A j \in Iterators \ {p} : iter'[j].lost = iter[j].lost
  PROVE  LostOK'
  <1>1. LostCounted(p)'
    BY DEF LostCounted
  <1>2. \A j \in Iterators \ {p} : loop'[j] = loop[j] /\ read'[j] = read[j]
    BY DEF StartLoop, ProgramOK, ProgramTypeOK
  <1>3. \A j \in Iterators \ {p} : LostCounted(j)'
    BY <1>2, LostAlike
  <1> QED
    BY <1>1, <1>3 DEF LostOK

LEMMA RunCounts ==
  ASSUME ProgramOK, BaseInv, Inv', LostOK, GoesOn \/ Returns \/ Throws
  PROVE  LostOK'
  <1>1. PICK p : p = call.it
    OBVIOUS
  <1>2. CallStep /\ Inv
    BY DEF GoesOn, Returns, Throws, CallStep, BaseInv
  <1>3. p \in Iterators /\ \A j \in Iterators \ {p} : iter'[j] = iter[j]
    BY <1>1, <1>2, RunFacts
  <1>4. LostCounted(p)' /\ \A j \in Iterators \ {p} : loop'[j] = loop[j] /\ read'[j] = read[j]
    <2>1. CASE GoesOn
      <3>1. call' # Idle /\ UNCHANGED <<loop, read>>
        BY <2>1 DEF GoesOn, program
      <3>2. iter'[p].lost = iter[p].lost
        BY <1>1, <1>2, <1>3, <3>1, RunLoses
      <3> QED
        BY <1>3, <3>1, <3>2, LostAlike
    <2>2. CASE Returns
      <3>1. /\ loop'[p].kind = loop[p].kind /\ read' = read
            /\ \A j \in Iterators \ {p} : LoopStays(j)
        BY <1>1, <2>2, ReturnFacts
      <3>2. Return
        BY <2>2 DEF Returns
      <3>3. iter'[p].lost = iter[p].lost
        BY <1>1, <1>2, <1>3, <3>2, RunLoses
      <3>4. LostCounted(p)
        BY <1>3 DEF LostOK
      <3>5. LostCounted(p)'
        BY <3>1, <3>3, <3>4 DEF LostCounted
      <3> QED
        BY <3>1, <3>5 DEF LoopStays
    <2>3. CASE Throws
      <3>1. PICK over : over = (loop[p].at = "begin")
        OBVIOUS
      <3>2. Raise(p, over) /\ ProgramTypeOK
        BY <1>1, <2>3, <3>1, ThrowsFacts DEF ProgramOK
      <3> QED
        BY <1>3, <3>2, RaiseFacts, RaiseCounts
    <2> QED
      BY <2>1, <2>2, <2>3
  <1>5. \A j \in Iterators \ {p} : LostCounted(j)'
    BY <1>3, <1>4, LostAlike
  <1> QED
    BY <1>4, <1>5 DEF LostOK

\* Only loop p moves, and the View not at all.
LEMMA CountsRest ==
  ASSUME LostOK, UNCHANGED vars, NEW p \in Iterators, LostCounted(p)',
         \A j \in Iterators \ {p} : loop'[j] = loop[j] /\ read'[j] = read[j]
  PROVE  LostOK'
  <1>1. iter' = iter
    BY DEF vars
  <1> QED
    BY <1>1, LostAlike DEF LostOK

LEMMA LostNext ==
  ASSUME ViewInv, ProgramOK, LostOK, ViewInv', [ProgramNext]_allvars
  PROVE  LostOK'
  <1>1. BaseInv /\ Inv /\ OffOK /\ BagsOK /\ Inv' /\ ProgramTypeOK
    BY DEF ViewInv, OrderInv, BaseInv, ProgramOK
  <1>2. CASE UNCHANGED <<iter, loop, read>>
    BY <1>2, LostAlike DEF LostOK
  <1>3. CASE Setup
    <2>1. Prepare /\ UNCHANGED <<loop, read>>
      BY <1>3 DEF Setup, Prepare, program
    <2>2. iter' = iter
      BY <2>1, PrepareKinds DEF AddBag, GetMessages
    <2> QED
      BY <1>2, <2>1, <2>2
  <1>4. ASSUME NEW p \in Iterators, NEW q \in Queries, NEW kind, Iterate(p, q, kind)
        PROVE  LostOK'
    <2>2. Begin(p, q) /\ StartLoop(p, kind)
      BY <1>4 DEF Iterate
    <2> QED
      BY <1>1, <2>2, BeginLoses, StartCounts
  <1>5. ASSUME NEW p \in Iterators, NEW q \in Queries, NEW b \in Bags, NEW f \in Filter,
               read_messages(p, q, b, f)
        PROVE  LostOK'
    <2>1. StartLoop(p, "read_messages")
      BY <1>5 DEF read_messages
    <2> QED
      BY <1>1, <1>5, <2>1, OpenLoses, StartCounts
  <1>6. CASE GoesOn \/ Returns \/ Throws
    BY <1>1, <1>6, RunCounts
  <1>7. ASSUME NEW p \in Iterators, next(p) PROVE LostOK'
    <2>1. /\ loop[p].kind # "none"
          /\ \A j \in Iterators \ {p} : loop'[j] = loop[j] /\ read'[j] = read[j]
      BY <1>1, <1>7, NextFacts DEF Undefine
    <2>2. read' = read /\ ((UNCHANGED vars) \/ Increment(p))
      BY <1>1, <1>7, NextFacts DEF Undefine
    <2>3. \A j \in Iterators : iter'[j].lost = iter[j].lost
      BY <1>1, <2>2, AdvanceLoses DEF vars
    <2>4. LostCounted(p)'
      BY <2>1, <2>2, <2>3 DEF LostOK, LostCounted
    <2> QED
      BY <2>1, <2>3, <2>4, LostAlike DEF LostOK
  <1>8. ASSUME NEW p \in Iterators, Stop(p) PROVE LostOK'
    <2>1. /\ loop[p].at = "compare" /\ UNCHANGED vars /\ read'[p].errors = read[p].errors
          /\ \A j \in Iterators \ {p} : loop'[j] = loop[j] /\ read'[j] = read[j]
      BY <1>1, <1>8, StopFacts
    <2>2. loop[p].kind # "none"
      BY <1>1, <2>1, CompareFacts
    <2>3. LostCounted(p)'
      BY <2>1, <2>2 DEF LostOK, LostCounted, vars
    <2> QED
      BY <2>1, <2>3, CountsRest
  <1>9. ASSUME NEW p \in Iterators, GiveKnown(p) \/ GiveParsed(p) PROVE LostOK'
    <2>1. PICK s : Give(p, s)
      BY <1>9 DEF GiveKnown, GiveParsed
    <2>2. UNCHANGED vars /\ loop[p].at = "compare"
      BY <1>9 DEF GiveKnown, GiveParsed, AtMessage
    <2>3. loop[p].kind # "none"
      BY <1>1, <2>2, CompareFacts
    <2>4. loop[p] \in Loop /\ read[p] \in LoopRead
      BY <1>1 DEF ProgramTypeOK
    <2>5. /\ read'[p].errors = read[p].errors
          /\ \A j \in Iterators \ {p} : loop'[j] = loop[j] /\ read'[j] = read[j]
      <3>1. CASE UNCHANGED <<loop, read>>
        BY <3>1
      <3>2. CASE /\ loop' = [loop EXCEPT ![p].at = "rest"]
                 /\ read' = [read EXCEPT ![p].messages = Append(@, [message |-> Top(p), schema |-> s])]
        <4>1. PICK ms : read' = [read EXCEPT ![p].messages = ms]
          BY <3>2
        <4>2. read'[p] = [read[p] EXCEPT !.messages = ms]
          BY <1>1, <4>1 DEF ProgramTypeOK
        <4>3. read'[p].errors = read[p].errors
          BY <2>4, <4>2 DEF LoopRead
        <4>4. \A j \in Iterators \ {p} : loop'[j] = loop[j] /\ read'[j] = read[j]
          BY <1>1, <3>2, <4>1 DEF ProgramTypeOK
        <4> QED
          BY <4>3, <4>4
      <3> QED
        BY <2>1, <3>1, <3>2 DEF Give
    <2>6. LostCounted(p)'
      BY <2>2, <2>3, <2>5 DEF LostOK, LostCounted, vars
    <2> QED
      BY <2>2, <2>5, <2>6, CountsRest
  <1>10. ASSUME NEW p \in Iterators, RaiseLookup(p) PROVE LostOK'
    <2>1. Raise(p, FALSE) /\ UNCHANGED vars
      BY <1>10 DEF RaiseLookup
    <2>2. \A j \in Iterators \ {p} : loop'[j] = loop[j] /\ read'[j] = read[j]
      BY <1>1, <2>1, RaiseFacts
    <2>3. LostCounted(p)'
      BY <1>1, <2>1, RaiseCounts
    <2> QED
      BY <2>1, <2>2, <2>3, CountsRest
  <1>11. CASE UNCHANGED allvars
    BY <1>2, <1>11 DEF allvars, vars, program
  <1>12. CASE (\E b \in Bags : close(b)) \/ AskTimes \/ LoadUnmapped
    BY <1>2, <1>12 DEF close, AskTimes, LoadUnmapped, Undefine, vars
  <1> QED
    BY <1>3, <1>4, <1>5, <1>6, <1>7, <1>8, <1>9, <1>10, <1>11, <1>12
    DEF ProgramNext, Iter, Echo

LEMMA LostHolds == ProgramSpec => []LostOK
  <1>1. ProgramInit => LostOK
    BY DEF ProgramInit, Init, NoIterator, LostOK, LostCounted
  <1>2. ProgramInv /\ ProgramInv' /\ LostOK /\ [ProgramNext]_allvars => LostOK'
    BY LostNext DEF ProgramInv
  <1> QED
    BY <1>1, <1>2, ProgramHolds, PTL DEF ProgramSpec

\* Without an exception a loop that ran to its end was given what was asked for.
LEMMA AllGiven ==
  ASSUME ProgramInv, LostOK, NEW p \in Iterators, RanToEnd(p), read[p].errors = 0
  PROVE  /\ Given(p) = UNION {Requested(iter[p].query, b) : b \in query[iter[p].query].bags}
         /\ IsFiniteSet(Given(p))
  <1> DEFINE q == iter[p].query
             bags == query[q].bags
             due == UNION {Requested(q, b) : b \in bags}
             S == Shown(iter[p])
  <1>1. OrderInv /\ Inv
    BY DEF ProgramInv, ViewInv, OrderInv, BaseInv
  <1>2. Exclusive(p) /\ read[p].stopped
    BY DEF RanToEnd
  <1>3. /\ Balanced(S \cup Pending(p), read[p].messages, 0)
        /\ iter[p].queue = {} /\ iter[p].st = "live" /\ call.it # p
    BY <1>2 DEF ProgramInv, BudgetsOK, BudgetOK
  <1>4. Pending(p) = {} /\ Given(p) = MessagesOf(read[p].messages)
    BY <1>3 DEF Pending, Given, MessagesOf
  <1>5. Given(p) \subseteq S /\ Cardinality(S \ Given(p)) <= 0
    BY <1>3, <1>4 DEF Balanced
  <1>6. IsFiniteSet(S)
    BY <1>1, ShownFinite
  <1>7. S = Given(p)
    <2> HIDE DEF S
    <2>1. IsFiniteSet(S \ Given(p))
      BY <1>6, FS_Difference
    <2>2. Cardinality(S \ Given(p)) \in Nat
      BY <2>1, FS_CardinalityType
    <2>3. Cardinality(S \ Given(p)) = 0
      BY <1>5, <2>2
    <2>4. S \ Given(p) = {}
      BY <2>1, <2>3, FS_EmptySet
    <2> QED
      BY <1>5, <2>4
  <1>8. iter[p].lost = {}
    BY <1>2 DEF LostOK, LostCounted
  <1>9. \A b \in bags : Requested(q, b) \subseteq S
    BY <1>1, <1>2, <1>3, <1>8, AllShown
  <1>10. S \subseteq due
    BY <1>1, <1>2 DEF OrderInv, DeliveryOK, OutOK, Shown
  <1> HIDE DEF S
  <1>11. S = due
    BY <1>9, <1>10
  <1> QED
    BY <1>6, <1>7, <1>11

\* The bags of a query, each once.
BagVector(vec, bags) ==
  /\ \E n \in Nat : DOMAIN vec = 1..n
  /\ \A k \in DOMAIN vec : vec[k] \in bags
  /\ \A b \in bags : \E k \in DOMAIN vec : vec[k] = b
  /\ \A k, l \in DOMAIN vec : vec[k] = vec[l] => k = l

LEMMA InVector ==
  ASSUME NEW vec, NEW bags, BagVector(vec, bags), NEW b \in ToSet(vec)
  PROVE  b \in bags
  BY DEF BagVector, ToSet

LEMMA VectorOfSet ==
  ASSUME NEW S, IsFiniteSet(S)
  PROVE  BagVector(SetToSeq(S), S)
  <1> DEFINE n == Cardinality(S)
             D == 1..n
             vec == SetToSeq(S)
  <1>1. n \in Nat /\ ExistsBijection(D, S)
    BY FS_CardinalityType
  <1>2. \E f \in [D -> S] : IsInjective(f)
    BY <1>1 DEF ExistsBijection, Bijection, Injection
  <1>3. vec \in [D -> S] /\ IsInjective(vec)
    BY <1>2 DEF SetToSeq
  <1>4. IsFiniteSet(D) /\ Cardinality(D) = n
    BY <1>1, FS_Interval
  <1> HIDE DEF vec, D
  <1>5. vec \in Injection(D, S)
    BY <1>3 DEF Injection
  <1>6. vec \in Surjection(D, S)
    BY <1>4, <1>5, FS_Injection
  <1>7. DOMAIN vec = D /\ (\A k \in D : vec[k] \in S) /\ \A x \in S : \E k \in D : vec[k] = x
    BY <1>3, <1>6 DEF Surjection
  <1>8. \A k, l \in DOMAIN vec : vec[k] = vec[l] => k = l
    BY <1>3, <1>7 DEF IsInjective
  <1>9. \E m \in Nat : DOMAIN vec = 1..m
    BY <1>1, <1>7 DEF D
  <1> QED
    BY <1>7, <1>8, <1>9 DEF BagVector, vec

\* The connections of topic t in the k-th bag.
IdsOf(vec, k, t) == {id \in DOMAIN connections_[vec[k]] : connections_[vec[k]][id].topic = t}

LEMMA IdsFinite ==
  ASSUME NEW bags \in SUBSET Bags, NEW vec, BagVector(vec, bags), NEW t, t # NoTopic, NEW k \in DOMAIN vec
  PROVE  IsFiniteSet(IdsOf(vec, k, t))
  <1> DEFINE b == vec[k]
             ids == topic_connection_map_[b][t]
  <1>1. b \in Bags
    BY DEF BagVector
  <1>2. CASE t \in DOMAIN topic_connection_map_[b]
    <2>1. ids \in Seq(DOMAIN connections_[b]) /\ ToSet(ids) = IdsOf(vec, k, t)
      BY <1>1, <1>2, ProgramAssumption DEF IdsOf
    <2> HIDE DEF b, ids
    <2>2. /\ Len(ids) \in Nat /\ DOMAIN ids = 1..Len(ids)
          /\ ids \in Surjection(1..Len(ids), ToSet(ids))
      BY <2>1 DEF Surjection, ToSet
    <2>3. ExistsSurjection(1..Len(ids), ToSet(ids))
      BY <2>2 DEF ExistsSurjection
    <2> QED
      BY <2>1, <2>2, <2>3, FS_NatSurjection
  <1>3. CASE t \notin DOMAIN topic_connection_map_[b]
    <2>1. DOMAIN topic_connection_map_[b] =
            {connections_[b][id].topic : id \in DOMAIN connections_[b]} \ {NoTopic}
      BY <1>1, ProgramAssumption
    <2>2. IdsOf(vec, k, t) = {}
      BY <1>3, <2>1 DEF IdsOf
    <2> QED
      BY <2>2, FS_EmptySet
  <1> QED
    BY <1>2, <1>3

\* A finite set paired with one value.
LEMMA PairsFinite ==
  ASSUME NEW S, IsFiniteSet(S), NEW k
  PROVE  IsFiniteSet({<<k, x>> : x \in S})
  <1> DEFINE T == {<<k, x>> : x \in S}
             f == [x \in S |-> <<k, x>>]
  <1>1. f \in Surjection(S, T)
    BY DEF Surjection
  <1> QED
    BY <1>1, FS_Surjection

LEMMA EntryFacts ==
  ASSUME NEW bags \in SUBSET Bags, NEW vec, BagVector(vec, bags), NEW t
  PROVE  /\ \A e \in Entries(vec, t) : /\ e = <<e[1], e[2]>> /\ e[1] \in DOMAIN vec
                                       /\ vec[e[1]] \in Bags /\ e[2] \in IdsOf(vec, e[1], t)
         /\ \A k \in DOMAIN vec : \A id \in IdsOf(vec, k, t) : <<k, id>> \in Entries(vec, t)
  <1>1. \A k \in DOMAIN vec : vec[k] \in Bags
    BY DEF BagVector
  <1> QED
    BY <1>1 DEF Entries, IdsOf

LEMMA EntriesFinite ==
  ASSUME NEW bags \in SUBSET Bags, NEW vec, BagVector(vec, bags), NEW t, t # NoTopic
  PROVE  IsFiniteSet(Entries(vec, t))
  <1> DEFINE G == DOMAIN vec
             E == [k \in G |-> {<<k, id>> : id \in IdsOf(vec, k, t)}]
  <1>1. IsFiniteSet(G)
    <2>1. \A n \in Nat : IsFiniteSet(1..n)
      BY FS_Interval
    <2> QED
      BY <2>1 DEF BagVector
  <1>2. \A k \in G : IsFiniteSet(E[k])
    BY IdsFinite, PairsFinite
  <1>3. Entries(vec, t) = InGroups(E, G)
    <2>1. ASSUME NEW e PROVE e \in Entries(vec, t) <=> \E k \in G : e \in E[k]
      BY EntryFacts
    <2> QED
      BY <2>1 DEF InGroups
  <1> HIDE DEF E, G
  <1> QED
    BY <1>1, <1>2, <1>3, GroupsFinite

\* The messages of each entry, and its count.
OfEntry(vec, t) ==
  [e \in Entries(vec, t) |-> {m \in Messages(vec[e[1]]) : ConnectionOf(m) = e[2]}]
CountsOfEntries(vec, t) == [e \in Entries(vec, t) |-> CountOf(vec, e)]

\* The messages of M on topic t are those of the entries, none of them twice.
SplitByEntry(M, vec, t) ==
  /\ {m \in M : TopicOf(m) = t} = InGroups(OfEntry(vec, t), Entries(vec, t))
  /\ \A e, f \in Entries(vec, t) : e # f => OfEntry(vec, t)[e] \cap OfEntry(vec, t)[f] = {}

\* What query q asks for of topic t.
Asks(q, t) == query[q].filter.all \/ t \in query[q].filter.topics

LEMMA MessagesOfTopic ==
  ASSUME NEW q, NEW bags \in SUBSET Bags, bags = query[q].bags, NEW vec, BagVector(vec, bags),
         NEW t, Asks(q, t), NEW M, M = UNION {Requested(q, b) : b \in bags}
  PROVE  SplitByEntry(M, vec, t)
  <1> DEFINE E == OfEntry(vec, t)
             G == Entries(vec, t)
  <1>2. \A k \in DOMAIN vec : vec[k] \in bags /\ vec[k] \in Bags
    BY DEF BagVector
  <1>3. /\ \A e \in G : /\ e = <<e[1], e[2]>> /\ e[1] \in DOMAIN vec
                        /\ vec[e[1]] \in bags /\ vec[e[1]] \in Bags
                        /\ e[2] \in DOMAIN connections_[vec[e[1]]]
                        /\ connections_[vec[e[1]]][e[2]].topic = t
        /\ \A k \in DOMAIN vec : \A id \in DOMAIN connections_[vec[k]] :
             connections_[vec[k]][id].topic = t => <<k, id>> \in G
    BY <1>2 DEF Entries
  <1>4. ASSUME NEW b \in Bags, NEW m \in Messages(b)
        PROVE  /\ m.bag = b /\ ConnectionOf(m) \in DOMAIN connections_[b]
               /\ TopicOf(m) = connections_[b][ConnectionOf(m)].topic
    BY MessageParts DEF TopicOf
  <1>5. ASSUME NEW m, m \in M, TopicOf(m) = t
        PROVE  \E e \in G : m \in E[e]
    <2>1. PICK b \in bags : m \in Requested(q, b)
      BY <1>5
    <2>2. b \in Bags /\ m \in Messages(b)
      BY <2>1 DEF Requested
    <2>3. PICK k \in DOMAIN vec : vec[k] = b
      BY <2>1 DEF BagVector
    <2>4. <<k, ConnectionOf(m)>> \in G
      BY <1>3, <1>4, <1>5, <2>2, <2>3
    <2>5. m \in E[<<k, ConnectionOf(m)>>]
      BY <2>2, <2>3, <2>4 DEF OfEntry
    <2> QED
      BY <2>4, <2>5
  <1>6. ASSUME NEW e \in G, NEW m \in E[e]
        PROVE  /\ m \in M /\ TopicOf(m) = t
               /\ m \in Messages(vec[e[1]]) /\ ConnectionOf(m) = e[2] /\ m.bag = vec[e[1]]
    <2>1. m \in Messages(vec[e[1]]) /\ ConnectionOf(m) = e[2]
      BY DEF OfEntry
    <2>2. m.bag = vec[e[1]] /\ TopicOf(m) = t
      BY <1>3, <1>4, <2>1
    <2>3. m \in Requested(q, vec[e[1]])
      BY <2>1, <2>2 DEF Requested, Asks
    <2> QED
      BY <1>3, <2>1, <2>2, <2>3
  <1>7. {m \in M : TopicOf(m) = t} = InGroups(E, G)
    <2> HIDE DEF E, G
    <2> QED
      BY <1>5, <1>6 DEF InGroups
  <1>8. ASSUME NEW e \in G, NEW f \in G, NEW m, m \in E[e], m \in E[f]
        PROVE  e = f
    <2>1. vec[e[1]] = vec[f[1]] /\ e[2] = f[2]
      BY <1>6, <1>8
    <2>2. e[1] = f[1]
      BY <1>3, <2>1 DEF BagVector
    <2> QED
      BY <1>3, <2>1, <2>2
  <1> QED
    BY <1>7, <1>8 DEF SplitByEntry

\* The sum in Merged.
LEMMA SumOfEntries ==
  ASSUME NEW vec, NEW t, NEW S \in SUBSET Entries(vec, t), IsFiniteSet(S),
         \A e \in Entries(vec, t) : CountOf(vec, e) \in Nat
  PROVE  MapThenSumSet(LAMBDA e : CountOf(vec, e), S) = SumOf(CountsOfEntries(vec, t), S)
  <1> DEFINE f == CountsOfEntries(vec, t)
             Step(g) == [s \in SUBSET S |->
               IF s = {} THEN 0 ELSE CountOf(vec, Picked(s)) + g[s \ {Picked(s)}]]
  <1>1. \A x \in S : f[x] \in Nat /\ f[x] = CountOf(vec, x)
    BY DEF CountsOfEntries
  <1>2. \A s \in SUBSET S : s # {} => Picked(s) \in S
    BY DEF Picked
  <1>3. \A g : Step(g) = SumStep(f, SUBSET S, g)
    <2> TAKE g
    <2> HIDE DEF f
    <2>1. \A s \in SUBSET S :
            (IF s = {} THEN 0 ELSE CountOf(vec, Picked(s)) + g[s \ {Picked(s)}]) =
            (IF s = {} THEN 0 ELSE f[Picked(s)] + g[s \ {Picked(s)}])
      BY <1>1, <1>2
    <2> QED
      BY <2>1 DEF SumStep
  <1>4. \A g : g = Step(g) <=> IsSum(f, S, g)
    BY <1>3 DEF IsSum, IsSumOn
  <1>5. IsFiniteSet(S)
    OBVIOUS
  <1> HIDE DEF Step, f
  <1>6. PICK k : /\ k = CHOOSE g : g = Step(g)
                 /\ k = Step(k)
    <2>1. \E g : IsSum(f, S, g)
      BY <1>1, <1>5, SumExists
    <2> QED
      BY <2>1, <1>4
  <1>7. MapThenSumSet(LAMBDA e : CountOf(vec, e), S) = k[S]
    BY <1>6 DEF MapThenSumSet, MapThenFoldSet, Picked, Step
  <1>8. SumOf(f, S) = k[S]
    <2>1. IsSum(f, S, k)
      BY <1>4, <1>6
    <2>2. \A x \in S : f[x] \in Nat
      BY <1>1
    <2> QED
      BY <1>5, <2>1, <2>2, SumIs
  <1> QED
    BY <1>7, <1>8 DEF f

\* The entries of one sender.
OfSender(vec, t) ==
  [s \in {Sender(vec, e) : e \in Entries(vec, t)} |->
     {d \in Entries(vec, t) : Sender(vec, d) = s}]

\* Whichever connections are merged, the total is that of all entries.
LEMMA TotalOfEntries ==
  ASSUME NEW vec, NEW t \in topics(vec), IsFiniteSet(Entries(vec, t)),
         \A e \in Entries(vec, t) : CountOf(vec, e) \in Nat
  PROVE  TotalCount(vec, t) = SumOf(CountsOfEntries(vec, t), Entries(vec, t))
  <1> DEFINE G == Entries(vec, t)
             senders == {Sender(vec, e) : e \in G}
             E == OfSender(vec, t)
             f == CountsOfEntries(vec, t)
             h == Merged(vec, G)
  <1>1. IsFiniteSet(senders)
    <2> DEFINE g == [e \in G |-> Sender(vec, e)]
    <2>1. g \in Surjection(G, senders)
      BY DEF Surjection
    <2> QED
      BY <2>1, FS_Surjection
  <1>2. \A s \in senders : E[s] = {d \in G : Sender(vec, d) = s}
    BY DEF OfSender
  <1>3. \A s \in senders : IsFiniteSet(E[s]) /\ E[s] \in SUBSET G
    <2> TAKE s \in senders
    <2> HIDE DEF E
    <2>1. E[s] \in SUBSET G
      BY <1>2
    <2> QED
      BY <2>1, FS_Subset
  <1>4. Grouped(E, senders)
    <2> HIDE DEF senders
    <2>1. \A x, y \in senders : x # y => E[x] \cap E[y] = {}
      BY <1>2
    <2> QED
      BY <1>3, <2>1 DEF Grouped
  <1>5. InGroups(E, senders) = G
    <2>1. ASSUME NEW e PROVE e \in G <=> \E s \in senders : e \in E[s]
      BY <1>2
    <2> HIDE DEF G, senders, E
    <2> QED
      BY <2>1 DEF InGroups
  <1>6. \A e \in G : f[e] \in Nat
    BY DEF CountsOfEntries
  <1>7. DOMAIN h = senders /\ \A s \in senders : h[s] = SumOf(f, E[s])
    <2>1. DOMAIN h = senders
      BY DEF Merged
    <2>2. ASSUME NEW s \in senders PROVE h[s] = SumOf(f, E[s])
      <3>1. h[s] = MapThenSumSet(LAMBDA e : CountOf(vec, e), {d \in G : Sender(vec, d) = s})
        BY DEF Merged
      <3>2. PICK T : T = E[s]
        OBVIOUS
      <3>3. T = {d \in G : Sender(vec, d) = s} /\ IsFiniteSet(T) /\ T \in SUBSET G
        BY <1>2, <1>3, <3>2
      <3>4. h[s] = MapThenSumSet(LAMBDA e : CountOf(vec, e), T)
        BY <3>1, <3>3
      <3>5. MapThenSumSet(LAMBDA e : CountOf(vec, e), T) = SumOf(f, T)
        BY <3>3, SumOfEntries
      <3> QED
        BY <3>2, <3>4, <3>5
    <2> QED
      BY <2>1, <2>2
  <1>8. TotalCount(vec, t) = SumOf(h, senders)
    <2>1. connectionsByTopicMap(vec)[t] = h
      BY DEF connectionsByTopicMap
    <2>2. TotalCount(vec, t) = SumOf(h, DOMAIN h)
      BY <2>1 DEF TotalCount, SumOf
    <2> QED
      BY <1>7, <2>2
  <1> HIDE DEF G, senders, E, f, h
  <1>9. SumOf(f, InGroups(E, senders)) = SumOf(h, senders)
    BY <1>1, <1>4, <1>5, <1>6, <1>7, SumOfGroups
  <1> QED
    BY <1>5, <1>8, <1>9 DEF f, G

\* What CountsAsIterated says of a loop.
LEMMA CountsOfLoop ==
  ASSUME ProgramInv, LostOK, NEW p \in Iterators, RanToEnd(p), read[p].errors = 0,
         NEW q, q = iter[p].query, NEW bags, bags = query[q].bags,
         \A b \in bags : CountsSound(b),
         NEW vec, vec = SetToSeq(bags), NEW t \in topics(vec),
         query[q].filter.all \/ t \in query[q].filter.topics
  PROVE  Cardinality({m \in Given(p) : TopicOf(m) = t}) = TotalCount(vec, t)
  <1> DEFINE G == Entries(vec, t)
             E == OfEntry(vec, t)
             f == CountsOfEntries(vec, t)
             M == {m \in Given(p) : TopicOf(m) = t}
  <1>1. Inv /\ BagsOK /\ Exclusive(p)
    BY DEF ProgramInv, ViewInv, OrderInv, BaseInv, RanToEnd
  <1>2. q \in Queries /\ IsFiniteSet(bags) /\ bags \in SUBSET Bags
    <2>1. q \in Queries
      BY <1>1 DEF Exclusive, Inv, StructureOK, IteratorOK
    <2> QED
      BY <1>1, <2>1 DEF BagsOK, Inv, TypeOK
  <1>3. BagVector(vec, bags)
    BY <1>2, VectorOfSet
  <1>5. t # NoTopic
    <2>1. PICK b \in ToSet(vec) : t \in DOMAIN topic_connection_map_[b]
      BY DEF topics
    <2>2. b \in bags
      BY <1>3, InVector
    <2>3. b \in Bags
      BY <1>2, <2>2
    <2> QED
      BY <2>1, <2>3, DefinitionFacts
  <1>6. IsFiniteSet(G)
    BY <1>2, <1>3, <1>5, EntriesFinite
  <1>7. /\ Given(p) = UNION {Requested(q, b) : b \in bags}
        /\ IsFiniteSet(Given(p))
    BY AllGiven
  <1>8. /\ M = InGroups(E, G)
        /\ \A e, d \in G : e # d => E[e] \cap E[d] = {}
    <2>1. Asks(q, t)
      BY DEF Asks
    <2>2. SplitByEntry(Given(p), vec, t)
      BY <1>2, <1>3, <1>7, <2>1, MessagesOfTopic
    <2> QED
      BY <2>2 DEF SplitByEntry
  <1>9. IsFiniteSet(M)
    <2>1. M \in SUBSET Given(p)
      OBVIOUS
    <2> QED
      BY <1>7, <2>1, FS_Subset
  <1>10. Grouped(E, G)
    <2> HIDE DEF E, G, M
    <2>1. \A e \in G : E[e] \in SUBSET M
      BY <1>8 DEF InGroups
    <2>2. \A e \in G : IsFiniteSet(E[e])
      BY <1>9, <2>1, FS_Subset
    <2> QED
      BY <1>8, <2>2 DEF Grouped
  <1>11. \A e \in G : CountOf(vec, e) \in Nat /\ f[e] = CountOf(vec, e)
                      /\ CountOf(vec, e) = Cardinality(E[e])
    <2> TAKE e \in G
    <2>1. /\ vec[e[1]] \in bags /\ vec[e[1]] \in Bags
          /\ e[2] \in DOMAIN connections_[vec[e[1]]]
      BY <1>2, <1>3 DEF Entries, BagVector
    <2>2. CountOf(vec, e) \in Nat
      BY <2>1, ProgramAssumption DEF CountOf
    <2>3. CountOf(vec, e) = Cardinality({m \in Messages(vec[e[1]]) : ConnectionOf(m) = e[2]})
      BY <2>1 DEF CountOf, CountsSound
    <2> QED
      BY <2>2, <2>3 DEF CountsOfEntries, OfEntry
  <1>12. TotalCount(vec, t) = SumOf(f, G)
    <2> HIDE DEF f
    <2> QED
      BY <1>6, <1>11, TotalOfEntries DEF f
  <1> HIDE DEF G, E, f, M
  <1>13. Cardinality(InGroups(E, G)) = SumOf(f, G)
    BY <1>6, <1>10, <1>11, CardinalityOfGroups
  <1> QED
    BY <1>8, <1>12, <1>13 DEF M

(***************************************************************************)
(* When the index of every bag counts right, the counts that the view      *)
(* reports for a topic add up to the number of messages that a loop over   *)
(* it was given, if it ran to its end and nothing was thrown: connections  *)
(* that == calls equal are merged without losing or doubling a count.      *)
(***************************************************************************)
THEOREM CountsAreIterated == ProgramSpec => []CountsAsIterated
  <1>1. ProgramInv /\ LostOK => CountsAsIterated
    BY CountsOfLoop DEF CountsAsIterated
  <1> QED
    BY <1>1, ProgramHolds, LostHolds, PTL

=============================================================================
