------------------------------ MODULE Handles ------------------------------
(***************************************************************************)
(* What keeps what alive.  The bytes of a chunk are in a buffer, shared by *)
(* the bag wrapper that read it, the messages in it and the values made of *)
(* these messages.  The values of a message are in a vector, shared by the *)
(* message and the Pointers to its values; they refer to each other with   *)
(* weak pointers, and an element of an array of primitives is a value of   *)
(* its own inside its Pointer (lib/ros_value.h, lib/ros_message.h).        *)
(*                                                                         *)
(* heap.share[o] is the block the shared_ptr of owner o points to, and     *)
(* heap.count[x] the use count of block x, which the code maintains.  A    *)
(* count that falls to 0 frees the block, and it may be used again; when   *)
(* that happens while there are owners, the behaviour is undefined from    *)
(* there on, and nothing more is said.  heap.miscounted[x] is a history:   *)
(* how many assignments let go of one share of x twice.                    *)
(***************************************************************************)
EXTENDS Integers, FiniteSets

CONSTANTS
  Buffers,   \* blocks for the bytes of chunks
  Vectors,   \* blocks for the values of messages
  Messages,  \* variables of type RosMessage
  Pointers,  \* variables of type RosValue::Pointer, and Python's RosValue
  None

ASSUME HandlesAssumption ==
  /\ Buffers \cap Vectors = {}
  /\ None \notin Buffers \cup Vectors \cup Pointers
  /\ IsFiniteSet(Vectors) /\ IsFiniteSet(Messages) /\ IsFiniteSet(Pointers)

Blocks == Buffers \cup Vectors

\* The places of shared_ptrs.  The values in a vector share one buffer, and
\* are destroyed together: they count as one owner.
raw_buffer(m) == <<"raw_buffer", m>>
data_(m) == <<"data_", m>>
info_(p) == <<"info_", p>>
values(v) == <<"values", v>>
current_buffer == <<"current_buffer", None>>

Owners ==
  ({"raw_buffer", "data_"} \X Messages) \cup ({"info_"} \X Pointers)
    \cup ({"values"} \X Vectors) \cup {current_buffer}

\* What a Pointer points to: the root of a message and the arrays in it are
\* in the vector, elements of the arrays are values of their own.
Arrays == {"bytes", "words"}
Elements == {"byte", "word"}
ElementOf(place) == IF place = "bytes" THEN "byte" ELSE "word"
InVector == {"root"} \cup Arrays
Place == {"none"} \cup InVector \cup Elements

VARIABLES
  heap,    \* the shares of the owners, the use counts and their history
  at,      \* at[p]: what Pointer p points to
  named,   \* the Pointers that the user can name
  borrow,  \* the Pointer that an iterator or a memoryview was made from
  content, \* content[b]: the chunk in buffer b
  origin   \* history: the chunk that what owner o leads to was read from

vars == <<heap, at, named, borrow, content, origin>>

Share(o) == heap.share[o]

\* A block was freed, and somebody still has it.
Dangling(h) == \E o \in Owners : h.share[o] # None /\ h.count[h.share[o]] = 0

-----------------------------------------------------------------------------
(* shared_ptr.                                                             *)

\* One use less of x.  The values in a vector go with it.
Release(h, x) ==
  LET less == [h EXCEPT !.count[x] = @ - 1] IN
  IF x \in Vectors /\ less.count[x] = 0
  THEN [less EXCEPT !.count[h.share[values(x)]] = @ - 1, !.share[values(x)] = None]
  ELSE less

\* Owner o is assigned a share of x; the copy is made before the old one goes.
Assigned(h, o, x) ==
  LET more == [h EXCEPT !.share[o] = x, !.count[x] = @ + 1] IN
  IF h.share[o] = None THEN more ELSE Release(more, h.share[o])

\* Mutant: the member of the union is destroyed by hand, and once more.
DestroyedTwice(h, o) ==
  LET x == h.share[o] IN
  IF x = None THEN h ELSE Release(Release([h EXCEPT !.share[o] = None], x), x)

\* Owner o is destroyed.
Destroyed(h, o) ==
  IF h.share[o] = None THEN h ELSE Release([h EXCEPT !.share[o] = None], h.share[o])

Unused(x) == heap.count[x] = 0

-----------------------------------------------------------------------------
Init ==
  /\ heap = [share |-> [o \in Owners |-> None], count |-> [x \in Blocks |-> 0],
             miscounted |-> [x \in Blocks |-> 0]]
  /\ at = [p \in Pointers |-> "none"]
  /\ named = {}
  /\ borrow = None
  /\ content = [b \in Buffers |-> 0]
  /\ origin = [o \in Owners |-> 0]

\* Owners new come to lead to what was read from chunk c, others stay or let go.
Note(new, c) ==
  origin' = [o \in Owners |-> IF heap'.share[o] = None THEN 0
                             ELSE IF o \in new THEN c ELSE origin[o]]

\* The chunk of the wrapper.  Two are told apart, this one and the next.
Chunk == origin[current_buffer]

\* Mutant: a buffer that no message has is used again for the next chunk.
NextChunkPooled ==
  \E b \in Buffers :
    /\ \A m \in Messages : Share(raw_buffer(m)) # b
    /\ heap' = Assigned(heap, current_buffer, b)
    /\ content' = [content EXCEPT ![b] = 1 - Chunk]
    /\ Note({current_buffer}, 1 - Chunk)
    /\ UNCHANGED <<at, named, borrow>>

\* readMessage goes on to another chunk: make_shared of a buffer.
NextChunk ==
  \E b \in Buffers :
    /\ Unused(b)
    /\ heap' = Assigned(heap, current_buffer, b)
    /\ content' = [content EXCEPT ![b] = 1 - Chunk]
    /\ Note({current_buffer}, 1 - Chunk)
    /\ UNCHANGED <<at, named, borrow>>

\* operator* of the iterator of the view.
Dereference(m) ==
  /\ Share(current_buffer) # None
  /\ Share(raw_buffer(m)) = None
  /\ heap' = Assigned(heap, raw_buffer(m), Share(current_buffer))
  /\ Note({raw_buffer(m)}, Chunk)
  /\ UNCHANGED <<at, named, borrow, content>>

\* Pointer p is not in use.
Free(p) == p \notin named /\ borrow # p

\* Pointer p comes to be, with a share of x, at a place.
Make(h, p, x, place) ==
  /\ Free(p)
  /\ heap' = Assigned(h, info_(p), x)
  /\ at' = [at EXCEPT ![p] = place]
  /\ named' = named \cup {p}
  /\ UNCHANGED <<borrow, content>>

\* Mutant: the children of a value hold strong pointers to their vector.
HydratedStrong(m, v) ==
  LET built == Assigned(heap, values(v), Share(raw_buffer(m))) IN
  [Assigned(built, data_(m), v) EXCEPT !.count[v] = @ + 1]

\* hydrate(): parse() makes the vector; children are weak pointers into it.
Hydrated(m, v) ==
  LET built == Assigned(heap, values(v), Share(raw_buffer(m))) IN
  Assigned(built, data_(m), v)

\* A copy of what data() returns.
Data(m, p) ==
  /\ Share(raw_buffer(m)) # None
  /\ \/ /\ Share(data_(m)) # None
        /\ Make(heap, p, Share(data_(m)), "root")
        /\ Note({info_(p)}, origin[raw_buffer(m)])
     \/ /\ Share(data_(m)) = None
        /\ \E v \in Vectors :
             /\ Unused(v)
             /\ Make(Hydrated(m, v), p, v, "root")
             /\ Note({values(v), data_(m), info_(p)}, origin[raw_buffer(m)])

\* at() and get() of a value in a vector: lock() the weak pointer to it.
Child(p, q) ==
  /\ p \in named
  /\ at[p] = "root"
  /\ \E place \in Arrays : Make(heap, q, Share(info_(p)), place)
  /\ Note({info_(q)}, origin[info_(p)])

\* at() of an array of primitives makes a value, which holds the buffer.
Element(p, q) ==
  /\ p \in named
  /\ at[p] \in Arrays
  /\ Make(heap, q, Share(values(Share(info_(p)))), ElementOf(at[p]))
  /\ Note({info_(q)}, origin[info_(p)])

\* The copy constructor.
Copy(p, q) ==
  /\ p \in named
  /\ Make(heap, q, Share(info_(p)), at[p])
  /\ Note({info_(q)}, origin[info_(p)])

\* Both Pointers hold values of their own, and of different types.
Across(p, q) == {at[p], at[q]} = Elements

\* Assignment.  Python has none, so p is not borrowed from.
Assign(p, q) ==
  /\ {p, q} \subseteq named /\ p # q
  /\ borrow # p
  /\ ~Across(p, q)
  /\ heap' = Assigned(heap, info_(p), Share(info_(q)))
  /\ at' = [at EXCEPT ![p] = at[q]]
  /\ Note({info_(p)}, origin[info_(q)])
  /\ UNCHANGED <<named, borrow, content>>

\* The destructor of the member of the union lets go of a share of x.
DestroyedMember(h, x) == [Release(h, x) EXCEPT !.miscounted[x] = @ + 1]

(***************************************************************************)
(* RosValue::operator= between values of different types: the destructor   *)
(* of the member of the union runs, and then the assignment to that member *)
(* lets go of the same share again.                                        *)
(***************************************************************************)
AssignAcross(p, q) ==
  LET once == DestroyedMember(heap, Share(info_(p))) IN
  /\ {p, q} \subseteq named
  /\ borrow # p
  /\ Across(p, q)
  /\ \/ /\ Dangling(once)
        /\ heap' = once
        /\ UNCHANGED <<at, origin>>
     \/ /\ ~Dangling(once)
        /\ heap' = Assigned(once, info_(p), Share(info_(q)))
        /\ at' = [at EXCEPT ![p] = at[q]]
        /\ Note({info_(p)}, origin[info_(q)])
  /\ UNCHANGED <<named, borrow, content>>

-----------------------------------------------------------------------------
(***************************************************************************)
(* Iterators and memoryviews refer to a value, or to the bytes of an       *)
(* array, without a share of their own.  Python's keep the object alive    *)
(* that they were made from (keep_alive<0, 1>, and the exporter of a       *)
(* memoryview): it is destroyed when neither the user nor they need it.    *)
(***************************************************************************)
Borrow(p) ==
  /\ borrow = None
  /\ p \in named
  /\ at[p] \in InVector
  /\ borrow' = p
  /\ UNCHANGED <<heap, at, named, content, origin>>

\* The iterator over an object yields a child.
Yield(q) ==
  /\ borrow # None
  /\ at[borrow] = "root"
  /\ \E place \in Arrays : Make(heap, q, Share(info_(borrow)), place)
  /\ Note({info_(q)}, origin[info_(borrow)])

\* Mutant: no keep_alive.
NeverPinned(p) == FALSE

Pinned(p) == borrow = p

\* The user lets go of p.
Drop(p) ==
  /\ p \in named
  /\ named' = named \ {p}
  /\ heap' = IF Pinned(p) THEN heap ELSE Destroyed(heap, info_(p))
  /\ at' = IF Pinned(p) THEN at ELSE [at EXCEPT ![p] = "none"]
  /\ Note({}, 0)
  /\ UNCHANGED <<borrow, content>>

\* The iterator or memoryview is collected.
EndBorrow ==
  /\ borrow # None
  /\ borrow' = None
  /\ heap' = IF borrow \in named THEN heap ELSE Destroyed(heap, info_(borrow))
  /\ at' = IF borrow \in named THEN at ELSE [at EXCEPT ![borrow] = "none"]
  /\ Note({}, 0)
  /\ UNCHANGED <<named, content>>

\* The members of a message go in the reverse of their order.
DropMessage(m) ==
  LET rest == Destroyed(heap, data_(m)) IN
  /\ Share(raw_buffer(m)) # None
  /\ \/ Dangling(rest) /\ heap' = rest
     \/ ~Dangling(rest) /\ heap' = Destroyed(rest, raw_buffer(m))
  /\ Note({}, 0)
  /\ UNCHANGED <<at, named, borrow, content>>

\* The view and its wrapper are destroyed.
DropView ==
  /\ Share(current_buffer) # None
  /\ heap' = Destroyed(heap, current_buffer)
  /\ Note({}, 0)
  /\ UNCHANGED <<at, named, borrow, content>>

Step ==
  \/ NextChunk \/ DropView
  \/ \E m \in Messages : Dereference(m) \/ DropMessage(m)
  \/ \E m \in Messages, p \in Pointers : Data(m, p)
  \/ \E p, q \in Pointers : Child(p, q) \/ Element(p, q) \/ Copy(p, q)
  \/ \E p, q \in Pointers : Assign(p, q) \/ AssignAcross(p, q)
  \/ \E p \in Pointers : Borrow(p) \/ Yield(p) \/ Drop(p)
  \/ EndBorrow

Next == ~Dangling(heap) /\ Step

Spec == Init /\ [][Next]_vars

-----------------------------------------------------------------------------
(* Properties.                                                             *)

TypeOK ==
  /\ heap \in [share : [Owners -> Blocks \cup {None}], count : [Blocks -> Nat],
               miscounted : [Blocks -> Nat]]
  /\ at \in [Pointers -> Place]
  /\ named \subseteq Pointers
  /\ borrow \in Pointers \cup {None}
  /\ content \in [Buffers -> {0, 1}]
  /\ origin \in [Owners -> {0, 1}]

(***************************************************************************)
(* The use count of a block falls short of the number of its owners by one *)
(* for each assignment that replaced a value in it by one of another type, *)
(* and no other assignment, copy, child, element or destruction miscounts, *)
(* in whatever order they come (ros_value.h:239 to 284).                   *)
(***************************************************************************)
CountsExact ==
  \A x \in Blocks :
    heap.count[x] + heap.miscounted[x] = Cardinality({o \in Owners : Share(o) = x})

\* A variable, the view or a message leads to block x.
Roots == {o \in Owners : o[1] # "values"}
Reachable(x) ==
  \/ \E o \in Roots : Share(o) = x
  \/ \E v \in Vectors : Share(values(v)) = x /\ \E o \in Roots : Share(o) = v

(***************************************************************************)
(* Nothing leaks: what nobody can reach was freed, although values refer   *)
(* to each other.  And nothing dangles but what an assignment miscounted:  *)
(* what can be reached was not freed, nor was the vector that an iterator  *)
(* or memoryview refers to, whatever the view went on to read and in       *)
(* whatever order the rest was dropped.                                    *)
(***************************************************************************)
LiveIffReachable ==
  /\ \A x \in Blocks : ~Unused(x) => Reachable(x)
  /\ \A x \in Blocks : Reachable(x) /\ heap.miscounted[x] = 0 => ~Unused(x)
  /\ \A v \in Vectors : heap.miscounted[v] = 0
  /\ \A p \in Pointers : p \in named \/ borrow = p => Share(info_(p)) # None

\* The buffer that an owner leads to, by itself or through its vector.
Bytes(o) == IF Share(o) \in Vectors THEN Share(values(Share(o))) ELSE Share(o)

(***************************************************************************)
(* A message, its values, and every Pointer and element made of them keep  *)
(* the bytes they were read from when the iteration goes on to other       *)
(* chunks, also when the message itself is gone (view.cc:85).              *)
(***************************************************************************)
MessageKeepsItsBytes ==
  \A o \in Owners : Share(o) # None => content[Bytes(o)] = origin[o]

\* "The life of the buffer is only guaranteed to live as long as the
\* RosValuePointer does" (ros_value.h:326): it does live that long.
BufferOutlivesPointer ==
  \A p \in named :
    at[p] \in Elements => ~Unused(Share(info_(p)))

=============================================================================
