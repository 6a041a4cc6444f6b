--------------------------- MODULE Handles_proofs ---------------------------
(***************************************************************************)
(* Proofs about the heap of the handles: for any number of buffers, and    *)
(* any finite number of vectors, messages and Pointers, the use counts are *)
(* exact but for the assignments between types, nothing leaks and nothing  *)
(* else dangles; messages and all that is made of them keep their bytes.   *)
(***************************************************************************)
EXTENDS Handles, FiniteSetTheorems, TLAPS

\* The blocks that an owner may have a share of.
Kind(o) ==
  IF o[1] = "info_" THEN Blocks ELSE IF o[1] = "data_" THEN Vectors ELSE Buffers

OwnersOf(h, x) == {o \in Owners : h.share[o] = x}

HeapRecord ==
  [share : [Owners -> Blocks \cup {None}], count : [Blocks -> Nat],
   miscounted : [Blocks -> Nat]]

Typed(h) ==
  /\ h \in HeapRecord
  /\ \A o \in Owners : h.share[o] \in Kind(o) \cup {None}
  /\ \A v \in Vectors : h.miscounted[v] = 0

\* The counts fall short by what was miscounted, but for a use of block y
\* that is about to go.
Counted(h, y) ==
  \A x \in Blocks :
    h.count[x] + h.miscounted[x] = Cardinality(OwnersOf(h, x)) + (IF x = y THEN 1 ELSE 0)

\* A vector has values exactly when it is in use, but for one, v, that is
\* filled and about to get its first owner.
Filled(h, v) ==
  \A u \in Vectors : h.share[values(u)] # None <=> (h.count[u] > 0 \/ u = v)

Heap(h, y, v) == Typed(h) /\ Counted(h, y) /\ Filled(h, v)

\* A Pointer that is in use, and no other, points to a value of its place.
PlacesOK ==
  /\ \A p \in Pointers :
       /\ Share(info_(p)) # None <=> (p \in named \/ borrow = p)
       /\ at[p] = "none" <=> Share(info_(p)) = None
       /\ at[p] \in InVector => Share(info_(p)) \in Vectors
       /\ at[p] \in Elements => Share(info_(p)) \in Buffers
  /\ borrow # None => at[borrow] \in InVector

\* The values of a message refer to the buffer of the message.
MessagesOK ==
  \A m \in Messages :
    Share(data_(m)) # None =>
      /\ Share(raw_buffer(m)) # None
      /\ Share(values(Share(data_(m)))) = Share(raw_buffer(m))

RestTyped ==
  /\ at \in [Pointers -> Place]
  /\ named \subseteq Pointers
  /\ borrow \in Pointers \cup {None}
  /\ content \in [Buffers -> {0, 1}]

\* Every owner leads to the chunk that was read.
BytesOK == origin \in [Owners -> {0, 1}] /\ MessageKeepsItsBytes

\* The inductive invariant.
Inv == Heap(heap, None, None) /\ RestTyped /\ PlacesOK /\ MessagesOK /\ BytesOK

-----------------------------------------------------------------------------
(* Owners and blocks.                                                      *)

LEMMA OwnersFinite == IsFiniteSet(Owners)
  <1>1. IsFiniteSet({"raw_buffer"} \cup {"data_"})
    BY FS_Singleton, FS_AddElement
  <1>2. IsFiniteSet({"raw_buffer", "data_"})
    <2>1. {"raw_buffer"} \cup {"data_"} = {"raw_buffer", "data_"}
      OBVIOUS
    <2> QED
      BY <1>1, <2>1
  <1>3. IsFiniteSet({"raw_buffer", "data_"} \X Messages)
    BY <1>2, HandlesAssumption, FS_Product
  <1>4. IsFiniteSet({"info_"} \X Pointers) /\ IsFiniteSet({"values"} \X Vectors)
    BY HandlesAssumption, FS_Product, FS_Singleton
  <1> QED
    BY <1>3, <1>4, FS_Union, FS_AddElement DEF Owners

LEMMA OwnerNames ==
  /\ \A m \in Messages : /\ raw_buffer(m) \in Owners /\ raw_buffer(m)[1] = "raw_buffer"
                         /\ data_(m) \in Owners /\ data_(m)[1] = "data_"
  /\ \A p \in Pointers : info_(p) \in Owners /\ info_(p)[1] = "info_"
  /\ \A v \in Vectors : values(v) \in Owners /\ values(v)[1] = "values"
  /\ current_buffer \in Owners /\ current_buffer[1] = "current_buffer"
  BY DEF Owners, raw_buffer, data_, info_, values, current_buffer

\* Different places are different owners.
LEMMA OwnerIsOne ==
  /\ \A m, n : raw_buffer(m) = raw_buffer(n) <=> m = n
  /\ \A m, n : data_(m) = data_(n) <=> m = n
  /\ \A p, q : info_(p) = info_(q) <=> p = q
  /\ \A u, v : values(u) = values(v) <=> u = v
  BY DEF raw_buffer, data_, info_, values

\* An owner of a vector is a message or a Pointer.
LEMMA OwnerKinds ==
  ASSUME NEW h, Typed(h), NEW o \in Owners, h.share[o] # None
  PROVE  /\ h.share[o] \in Blocks
         /\ h.share[o] \in Vectors => o[1] \in {"data_", "info_"}
         /\ o[1] = "data_" => h.share[o] \in Vectors
         /\ o[1] \notin {"data_", "info_"} => h.share[o] \in Buffers
  BY HandlesAssumption DEF Typed, HeapRecord, Kind, Blocks

LEMMA OwnersOfFinite ==
  ASSUME NEW h, NEW x
  PROVE  /\ IsFiniteSet(OwnersOf(h, x))
         /\ Cardinality(OwnersOf(h, x)) \in Nat
         /\ Cardinality(OwnersOf(h, x)) = 0 <=> \A o \in Owners : h.share[o] # x
  <1>1. OwnersOf(h, x) \in SUBSET Owners
    BY DEF OwnersOf
  <1>2. IsFiniteSet(OwnersOf(h, x))
    BY <1>1, OwnersFinite, FS_Subset
  <1>3. OwnersOf(h, x) = {} <=> \A o \in Owners : h.share[o] # x
    BY DEF OwnersOf
  <1> QED
    BY <1>2, <1>3, FS_CardinalityType, FS_EmptySet

\* A block without uses has no owner.
LEMMA UnusedHasNoOwner ==
  ASSUME NEW h, Heap(h, None, None), ~Dangling(h), NEW x \in Blocks
  PROVE  h.count[x] = 0 <=> \A o \in Owners : h.share[o] # x
  <1>1. x # None
    BY HandlesAssumption DEF Blocks
  <1>2. /\ h.count[x] + h.miscounted[x] = Cardinality(OwnersOf(h, x))
        /\ h.count[x] \in Nat /\ h.miscounted[x] \in Nat
    BY <1>1, OwnersOfFinite DEF Heap, Counted, Typed, HeapRecord
  <1>3. h.count[x] = 0 => \A o \in Owners : h.share[o] # x
    BY <1>1 DEF Dangling
  <1> QED
    BY <1>2, <1>3, OwnersOfFinite

\* Nothing is miscounted in a vector.
LEMMA VectorCounted ==
  ASSUME NEW h, Heap(h, None, None), NEW v \in Vectors
  PROVE  h.count[v] = Cardinality(OwnersOf(h, v))
  <1>1. v \in Blocks /\ v # None
    BY HandlesAssumption DEF Blocks
  <1>2. /\ h.count[v] + h.miscounted[v] = Cardinality(OwnersOf(h, v))
        /\ h.count[v] \in Nat /\ h.miscounted[v] = 0
    BY <1>1, OwnersOfFinite DEF Heap, Counted, Typed, HeapRecord
  <1> QED
    BY <1>2

-----------------------------------------------------------------------------
(* The operations on shared_ptrs.                                          *)

\* How the number of owners of a block changes when owner o gets a share of x.
LEMMA Reassigned ==
  ASSUME NEW h, Typed(h), NEW o \in Owners, NEW x, NEW z \in Blocks,
         NEW g, g.share = [h.share EXCEPT ![o] = x]
  PROVE  Cardinality(OwnersOf(g, z)) =
           Cardinality(OwnersOf(h, z))
             + (IF z = x /\ h.share[o] # z THEN 1 ELSE 0)
             - (IF z # x /\ h.share[o] = z THEN 1 ELSE 0)
  <1>1. OwnersOf(g, z) = IF z = x THEN OwnersOf(h, z) \cup {o} ELSE OwnersOf(h, z) \ {o}
    BY DEF OwnersOf, Typed, HeapRecord
  <1>2. o \in OwnersOf(h, z) <=> h.share[o] = z
    BY DEF OwnersOf
  <1>3. /\ Cardinality(OwnersOf(h, z) \cup {o})
             = (IF o \in OwnersOf(h, z) THEN Cardinality(OwnersOf(h, z))
                                        ELSE Cardinality(OwnersOf(h, z)) + 1)
        /\ Cardinality(OwnersOf(h, z) \ {o})
             = (IF o \in OwnersOf(h, z) THEN Cardinality(OwnersOf(h, z)) - 1
                                        ELSE Cardinality(OwnersOf(h, z)))
        /\ Cardinality(OwnersOf(h, z)) \in Nat
    BY OwnersOfFinite, FS_AddElement, FS_RemoveElement
  <1> QED
    BY <1>1, <1>2, <1>3

\* The parts of a heap in which an owner got a share.
More(h, o, x) == [h EXCEPT !.share[o] = x, !.count[x] = @ + 1]

LEMMA MoreParts ==
  ASSUME NEW h, Typed(h), NEW o \in Owners, NEW x \in Kind(o)
  PROVE  /\ More(h, o, x).share = [h.share EXCEPT ![o] = x]
         /\ More(h, o, x).count = [h.count EXCEPT ![x] = @ + 1]
         /\ More(h, o, x).miscounted = h.miscounted
         /\ x \in Blocks
         /\ Typed(More(h, o, x))
  <1>1. x \in Blocks /\ x # None
    BY HandlesAssumption DEF Kind, Blocks
  <1>2. PICK g : g = [h EXCEPT !.share = [h.share EXCEPT ![o] = x]]
    OBVIOUS
  <1>3. /\ g.share = [h.share EXCEPT ![o] = x] /\ g.count = h.count
        /\ g.miscounted = h.miscounted /\ g \in HeapRecord
    BY <1>1, <1>2 DEF Typed, HeapRecord
  <1>4. PICK k : k = [g EXCEPT !.count = [g.count EXCEPT ![x] = @ + 1]]
    OBVIOUS
  <1>5. /\ k.share = [h.share EXCEPT ![o] = x]
        /\ k.count = [h.count EXCEPT ![x] = @ + 1]
        /\ k.miscounted = h.miscounted /\ k \in HeapRecord
    BY <1>1, <1>3, <1>4 DEF HeapRecord
  <1>6. k = More(h, o, x)
    BY <1>2, <1>3, <1>4 DEF More
  <1>7. Typed(k)
    BY <1>5 DEF Typed, HeapRecord
  <1> QED
    BY <1>1, <1>5, <1>6, <1>7

\* The share that o had, if any, is now one that is about to go.
LEMMA MoreKeepsHeap ==
  ASSUME NEW h, NEW v, Heap(h, None, v), NEW o \in Owners, NEW x \in Kind(o),
         o[1] # "values", v \in {None, x},
         x \in Vectors => h.share[values(x)] # None
  PROVE  Heap(More(h, o, x), h.share[o], None)
  <1> DEFINE g == More(h, o, x)
  <1>1. /\ g.share = [h.share EXCEPT ![o] = x]
        /\ g.count = [h.count EXCEPT ![x] = @ + 1]
        /\ g.miscounted = h.miscounted
        /\ x \in Blocks /\ Typed(g) /\ Typed(h)
    BY MoreParts DEF Heap
  <1> HIDE DEF g
  <1>2. None \notin Blocks
    BY HandlesAssumption DEF Blocks
  <1>3. Counted(g, h.share[o])
    <2> SUFFICES ASSUME NEW z \in Blocks
                 PROVE  g.count[z] + g.miscounted[z] = Cardinality(OwnersOf(g, z))
                                       + (IF z = h.share[o] THEN 1 ELSE 0)
      BY DEF Counted
    <2>1. /\ h.count[z] + h.miscounted[z] = Cardinality(OwnersOf(h, z))
          /\ h.count[z] \in Nat /\ h.miscounted[z] \in Nat
      BY <1>1, <1>2, OwnersOfFinite DEF Heap, Counted, Typed, HeapRecord
    <2>2. g.count[z] = h.count[z] + (IF z = x THEN 1 ELSE 0)
      BY <1>1, <2>1 DEF Typed, HeapRecord
    <2>3. Cardinality(OwnersOf(g, z)) =
            Cardinality(OwnersOf(h, z))
              + (IF z = x /\ h.share[o] # z THEN 1 ELSE 0)
              - (IF z # x /\ h.share[o] = z THEN 1 ELSE 0)
      <3>1. Typed(h) /\ g.share = [h.share EXCEPT ![o] = x]
        BY <1>1
      <3> QED
        BY <3>1, Reassigned
    <2>4. g.miscounted[z] = h.miscounted[z]
      BY <1>1
    <2> QED
      BY <2>1, <2>2, <2>3, <2>4, OwnersOfFinite
  <1>4. Filled(g, None)
    <2> SUFFICES ASSUME NEW u \in Vectors
                 PROVE  g.share[values(u)] # None <=> (g.count[u] > 0 \/ u = None)
      BY DEF Filled
    <2>1. u \in Blocks /\ u # None /\ values(u) \in Owners /\ values(u) # o
      BY <1>2, OwnerNames DEF Blocks
    <2>2. g.share[values(u)] = h.share[values(u)]
      BY <1>1, <2>1
    <2>3. h.share[values(u)] # None <=> (h.count[u] > 0 \/ u = v)
      BY DEF Heap, Filled
    <2>4. h.count[u] \in Nat /\ g.count[u] = h.count[u] + (IF u = x THEN 1 ELSE 0)
      BY <1>1, <2>1 DEF Typed, HeapRecord
    <2> QED
      BY <2>1, <2>2, <2>3, <2>4
  <1> QED
    BY <1>1, <1>3, <1>4 DEF Heap, g

LEMMA MoreKeepsUse ==
  ASSUME NEW h, Typed(h), ~Dangling(h), NEW o \in Owners, NEW x \in Kind(o)
  PROVE  ~Dangling(More(h, o, x))
  <1> DEFINE g == More(h, o, x)
  <1>1. /\ g.share = [h.share EXCEPT ![o] = x]
        /\ g.count = [h.count EXCEPT ![x] = @ + 1]
        /\ x \in Blocks
    BY MoreParts
  <1> HIDE DEF g
  <1>2. SUFFICES ASSUME NEW q \in Owners, g.share[q] # None PROVE g.count[g.share[q]] # 0
    BY DEF Dangling, g
  <1>3. CASE g.share[q] = x
    BY <1>1, <1>3 DEF Typed, HeapRecord
  <1>4. CASE g.share[q] # x
    <2>1. g.share[q] = h.share[q] /\ h.share[q] \in Blocks
      BY <1>1, <1>2, <1>4 DEF Typed, HeapRecord
    <2>2. h.count[h.share[q]] # 0
      BY <1>2, <2>1 DEF Dangling
    <2> QED
      BY <1>1, <1>4, <2>1, <2>2 DEF Typed, HeapRecord
  <1> QED
    BY <1>3, <1>4

\* One use less of x, without what it may destroy.
Less(h, x) == [h EXCEPT !.count[x] = @ - 1]

LEMMA LessParts ==
  ASSUME NEW h, Typed(h), NEW x \in Blocks, h.count[x] > 0
  PROVE  /\ Less(h, x).share = h.share
         /\ Less(h, x).count = [h.count EXCEPT ![x] = @ - 1]
         /\ Less(h, x).miscounted = h.miscounted
         /\ Typed(Less(h, x))
  <1>1. PICK g : g = [h EXCEPT !.count = [h.count EXCEPT ![x] = @ - 1]]
    OBVIOUS
  <1>2. h.count[x] - 1 \in Nat
    BY DEF Typed, HeapRecord
  <1>3. /\ g.share = h.share /\ g.count = [h.count EXCEPT ![x] = @ - 1]
        /\ g.miscounted = h.miscounted /\ g \in HeapRecord
    BY <1>1, <1>2 DEF Typed, HeapRecord
  <1>4. g = Less(h, x)
    BY <1>1 DEF Less
  <1>5. Typed(g)
    BY <1>3 DEF Typed, HeapRecord
  <1> QED
    BY <1>3, <1>4, <1>5

\* Vector v is destroyed, and with it the share of its values.
Freed(g, h, v) ==
  [g EXCEPT !.count[h.share[values(v)]] = @ - 1, !.share[values(v)] = None]

LEMMA FreedParts ==
  ASSUME NEW g, Typed(g), NEW h, h.share = g.share, NEW v \in Vectors,
         NEW b \in Blocks, b = g.share[values(v)], g.count[b] > 0
  PROVE  /\ Freed(g, h, v).share = [g.share EXCEPT ![values(v)] = None]
         /\ Freed(g, h, v).count = [g.count EXCEPT ![b] = @ - 1]
         /\ Freed(g, h, v).miscounted = g.miscounted
         /\ Typed(Freed(g, h, v))
  <1>1. PICK k : k = [g EXCEPT !.count = [g.count EXCEPT ![b] = @ - 1]]
    OBVIOUS
  <1>2. g.count[b] - 1 \in Nat
    BY DEF Typed, HeapRecord
  <1>3. /\ k.share = g.share /\ k.count = [g.count EXCEPT ![b] = @ - 1]
        /\ k.miscounted = g.miscounted /\ k \in HeapRecord
    BY <1>1, <1>2 DEF Typed, HeapRecord
  <1>4. PICK l : l = [k EXCEPT !.share = [k.share EXCEPT ![values(v)] = None]]
    OBVIOUS
  <1>5. /\ l.share = [g.share EXCEPT ![values(v)] = None]
        /\ l.count = [g.count EXCEPT ![b] = @ - 1]
        /\ l.miscounted = g.miscounted /\ l \in HeapRecord
    BY <1>3, <1>4 DEF HeapRecord
  <1>6. l = Freed(g, h, v)
    BY <1>1, <1>3, <1>4 DEF Freed
  <1>7. Typed(l)
    BY <1>5 DEF Typed, HeapRecord
  <1> QED
    BY <1>5, <1>6, <1>7

\* A use that was about to go goes; only a vector that nobody has loses its values.
LEMMA ReleaseKeepsHeap ==
  ASSUME NEW h, NEW x \in Blocks, Heap(h, x, None), h.count[x] > 0, ~Dangling(h)
  PROVE  /\ Heap(Release(h, x), None, None)
         /\ \A o \in Owners : \/ Release(h, x).share[o] = h.share[o]
                              \/ o = values(x) /\ x \in Vectors /\ Release(h, x).count[x] = 0
  <1> DEFINE g == Less(h, x)
  <1>0. None \notin Blocks
    BY HandlesAssumption DEF Blocks
  <1>1. h.count[x] > 0
    OBVIOUS
  <1>2. g.share = h.share /\ g.count = [h.count EXCEPT ![x] = @ - 1]
        /\ g.miscounted = h.miscounted /\ Typed(g) /\ Typed(h)
    BY <1>1, LessParts DEF Heap
  <1>3. Release(h, x) = IF x \in Vectors /\ g.count[x] = 0 THEN Freed(g, h, x) ELSE g
    BY DEF Release, Less, Freed
  <1> HIDE DEF g
  <1>4. \A z \in Blocks : g.count[z] + g.miscounted[z] = Cardinality(OwnersOf(g, z))
    <2> SUFFICES ASSUME NEW z \in Blocks
                 PROVE  g.count[z] + g.miscounted[z] = Cardinality(OwnersOf(g, z))
      OBVIOUS
    <2>1. OwnersOf(g, z) = OwnersOf(h, z)
      BY <1>2 DEF OwnersOf
    <2>2. h.count[z] + h.miscounted[z] = Cardinality(OwnersOf(h, z)) + (IF z = x THEN 1 ELSE 0)
      BY DEF Heap, Counted
    <2>3. /\ g.count[z] = h.count[z] - (IF z = x THEN 1 ELSE 0) /\ h.count[z] \in Nat
          /\ g.miscounted[z] = h.miscounted[z] /\ h.miscounted[z] \in Nat
      BY <1>2 DEF Typed, HeapRecord
    <2> QED
      BY <2>1, <2>2, <2>3, OwnersOfFinite
  <1>5. \A u \in Vectors : /\ u \in Blocks /\ u # None /\ values(u) \in Owners
                           /\ u # x => (g.share[values(u)] # None <=> g.count[u] > 0)
    BY <1>0, <1>2, OwnerNames DEF Heap, Filled, Typed, HeapRecord, Blocks
  <1>6. CASE ~(x \in Vectors /\ g.count[x] = 0)
    <2>1. x \in Vectors => g.share[values(x)] # None /\ g.count[x] > 0
      <3>1. x \in Vectors => h.share[values(x)] # None
        BY <1>1 DEF Heap, Filled
      <3> QED
        BY <1>2, <1>6, <3>1 DEF Typed, HeapRecord
    <2>2. Filled(g, None)
      BY <1>5, <2>1 DEF Filled
    <2>3. Counted(g, None)
      BY <1>0, <1>4, OwnersOfFinite DEF Counted
    <2> QED
      BY <1>2, <1>3, <1>6, <2>2, <2>3 DEF Heap
  <1>7. CASE x \in Vectors /\ g.count[x] = 0
    <2> DEFINE k == Freed(g, h, x)
    <2>1. PICK b \in Buffers : b = g.share[values(x)]
      <3>1. h.share[values(x)] # None
        BY <1>1, <1>7 DEF Heap, Filled
      <3> QED
        BY <1>2, <1>7, <3>1, OwnerNames, OwnerKinds
    <2>2. b \in Blocks /\ b \notin Vectors /\ values(x) \in Owners
      BY <1>7, HandlesAssumption, OwnerNames DEF Blocks
    <2>3. g.count[b] > 0
      <3>1. h.share[values(x)] = b /\ b # None /\ b # x
        BY <1>0, <1>2, <1>7, <2>1, <2>2
      <3>2. h.count[b] # 0
        BY <2>2, <3>1 DEF Dangling
      <3> QED
        BY <1>2, <2>2, <3>1, <3>2 DEF Typed, HeapRecord
    <2>4. /\ k.share = [g.share EXCEPT ![values(x)] = None]
          /\ k.count = [g.count EXCEPT ![b] = @ - 1]
          /\ k.miscounted = g.miscounted
          /\ Typed(k)
      <3>1. h.share = g.share /\ Typed(g) /\ b = g.share[values(x)]
        BY <1>2, <2>1
      <3>2. x \in Vectors /\ b \in Blocks
        BY <1>7, <2>2
      <3> QED
        BY <2>3, <3>1, <3>2, FreedParts
    <2> HIDE DEF k
    <2>5. Counted(k, None)
      <3> SUFFICES ASSUME NEW z \in Blocks
                   PROVE  k.count[z] + k.miscounted[z] = Cardinality(OwnersOf(k, z))
        BY <1>0, OwnersOfFinite DEF Counted
      <3>1. Cardinality(OwnersOf(k, z)) =
              Cardinality(OwnersOf(g, z))
                + (IF z = None /\ g.share[values(x)] # z THEN 1 ELSE 0)
                - (IF z # None /\ g.share[values(x)] = z THEN 1 ELSE 0)
        <4>1. /\ Typed(g) /\ values(x) \in Owners
              /\ k.share = [g.share EXCEPT ![values(x)] = None]
          BY <1>2, <2>2, <2>4
        <4> QED
          BY <4>1, Reassigned
      <3>2. Cardinality(OwnersOf(k, z)) = Cardinality(OwnersOf(g, z)) - (IF z = b THEN 1 ELSE 0)
        BY <1>0, <2>1, <3>1, OwnersOfFinite
      <3>3. /\ k.count[z] = g.count[z] - (IF z = b THEN 1 ELSE 0)
            /\ g.count[z] \in Nat /\ g.miscounted[z] \in Nat
            /\ k.miscounted[z] = g.miscounted[z]
        BY <1>2, <2>2, <2>4 DEF Typed, HeapRecord
      <3> QED
        BY <1>4, <3>2, <3>3, OwnersOfFinite
    <2>6. Filled(k, None)
      <3> SUFFICES ASSUME NEW u \in Vectors
                   PROVE  k.share[values(u)] # None <=> k.count[u] > 0
        BY <1>0 DEF Filled, Blocks
      <3>1. k.count[u] = g.count[u]
        BY <1>2, <1>5, <2>2, <2>4 DEF Typed, HeapRecord
      <3>2. CASE u = x
        BY <1>2, <1>7, <2>2, <2>4, <3>1, <3>2 DEF Typed, HeapRecord
      <3>3. CASE u # x
        <4>1. values(u) # values(x)
          BY <3>3, OwnerIsOne
        <4>2. k.share[values(u)] = g.share[values(u)]
          BY <1>2, <1>5, <2>4, <4>1 DEF Typed, HeapRecord
        <4> QED
          BY <1>5, <3>1, <3>3, <4>2
      <3> QED
        BY <3>2, <3>3
    <2>7. \A o \in Owners : k.share[o] = h.share[o] \/ o = values(x)
      BY <1>2, <2>4 DEF Typed, HeapRecord
    <2>8. k.count[x] = 0
      BY <1>2, <1>7, <2>2, <2>4 DEF Typed, HeapRecord
    <2>9. Release(h, x) = k
      BY <1>3, <1>7 DEF k
    <2> QED
      BY <1>7, <2>4, <2>5, <2>6, <2>7, <2>8, <2>9 DEF Heap
  <1> QED
    BY <1>6, <1>7

\* What an operation on owner o does to the other owners: a vector may lose
\* its values, and nothing else changes.
OthersKept(g, h, o) ==
  /\ \A q \in Owners : q[1] # "values" /\ q # o => g.share[q] = h.share[q]
  /\ \A v \in Vectors : g.share[values(v)] \in {None, h.share[values(v)]}

LEMMA AssignedKeepsHeap ==
  ASSUME NEW h, NEW v, Heap(h, None, v), ~Dangling(h), NEW o \in Owners, NEW x \in Kind(o),
         o[1] # "values", v \in {None, x},
         x \in Vectors => h.share[values(x)] # None
  PROVE  /\ Heap(Assigned(h, o, x), None, None)
         /\ Assigned(h, o, x).share[o] = x
         /\ OthersKept(Assigned(h, o, x), h, o)
  <1> DEFINE g == More(h, o, x)
             y == h.share[o]
  <1>1. Heap(g, y, None)
    BY MoreKeepsHeap
  <1>2. /\ g.share = [h.share EXCEPT ![o] = x]
        /\ g.count = [h.count EXCEPT ![x] = @ + 1]
        /\ x \in Blocks /\ Typed(g) /\ Typed(h)
    BY MoreParts DEF Heap
  <1>3. Assigned(h, o, x) = IF y = None THEN g ELSE Release(g, y)
    BY DEF Assigned, More
  <1>7. ~Dangling(g)
    BY <1>2, MoreKeepsUse
  <1> HIDE DEF g
  <1>4. g.share[o] = x /\ OthersKept(g, h, o)
    BY <1>2, OwnerNames DEF OthersKept, Typed, HeapRecord
  <1>5. CASE y = None
    BY <1>1, <1>3, <1>4, <1>5
  <1>6. CASE y # None
    <2>1. y \in Blocks
      BY <1>2, <1>6 DEF Typed, HeapRecord
    <2>5. g.count[y] > 0
      <3>1. h.count[y] # 0 /\ h.count[y] \in Nat
        BY <1>2, <1>6, <2>1 DEF Typed, HeapRecord, Dangling
      <3> QED
        BY <1>2, <2>1, <3>1 DEF Typed, HeapRecord
    <2>2. /\ Heap(Release(g, y), None, None)
          /\ \A q \in Owners : \/ Release(g, y).share[q] = g.share[q]
                               \/ q = values(y) /\ y \in Vectors /\ Release(g, y).count[y] = 0
      BY <1>1, <1>7, <2>1, <2>5, ReleaseKeepsHeap
    <2>3. Release(g, y).share[o] = x
      BY <1>4, <2>2, OwnerNames
    <2>4. OthersKept(Release(g, y), h, o)
      <3>1. \A q \in Owners : q[1] # "values" => Release(g, y).share[q] = g.share[q]
        BY <2>2, OwnerNames
      <3>2. ASSUME NEW u \in Vectors
            PROVE  Release(g, y).share[values(u)] \in {None, g.share[values(u)]}
        <4>1. CASE Release(g, y).share[values(u)] = g.share[values(u)]
          BY <4>1
        <4>2. CASE values(u) = values(y) /\ y \in Vectors /\ Release(g, y).count[y] = 0
          <5>1. \A w \in Vectors : Release(g, y).share[values(w)] # None
                                     <=> (Release(g, y).count[w] > 0 \/ w = None)
            BY <2>2 DEF Heap, Filled
          <5>2. y # None
            BY <1>6
          <5> QED
            BY <4>2, <5>1, <5>2
        <4> QED
          BY <2>2, <4>1, <4>2, OwnerNames
      <3> QED
        BY <1>4, <3>1, <3>2 DEF OthersKept
    <2> QED
      BY <1>3, <1>6, <2>2, <2>3, <2>4
  <1> QED
    BY <1>5, <1>6

LEMMA DestroyedKeepsHeap ==
  ASSUME NEW h, Heap(h, None, None), ~Dangling(h), NEW o \in Owners, o[1] # "values"
  PROVE  /\ Heap(Destroyed(h, o), None, None)
         /\ Destroyed(h, o).share[o] = None
         /\ OthersKept(Destroyed(h, o), h, o)
  <1> DEFINE y == h.share[o]
  <1>1. CASE y = None
    <2>1. Destroyed(h, o) = h
      BY <1>1 DEF Destroyed
    <2> QED
      BY <1>1, <2>1 DEF OthersKept
  <1>2. CASE y # None
    <2>1. Typed(h) /\ y \in Blocks /\ None \notin Blocks
      BY <1>2, HandlesAssumption DEF Heap, Typed, HeapRecord, Blocks
    <2>2. PICK g : g = [h EXCEPT !.share = [h.share EXCEPT ![o] = None]]
      OBVIOUS
    <2>3. /\ g.share = [h.share EXCEPT ![o] = None] /\ g.count = h.count
          /\ g.miscounted = h.miscounted /\ Typed(g)
      <3>1. /\ g.share = [h.share EXCEPT ![o] = None] /\ g.count = h.count
            /\ g.miscounted = h.miscounted /\ g \in HeapRecord
        BY <2>1, <2>2 DEF Typed, HeapRecord
      <3> QED
        BY <2>1, <3>1 DEF Typed, HeapRecord
    <2>4. Destroyed(h, o) = Release(g, y)
      BY <1>2, <2>2 DEF Destroyed
    <2>5. Counted(g, y)
      <3> SUFFICES ASSUME NEW z \in Blocks
                   PROVE  g.count[z] + g.miscounted[z]
                          = Cardinality(OwnersOf(g, z)) + (IF z = y THEN 1 ELSE 0)
        BY DEF Counted
      <3>1. Cardinality(OwnersOf(g, z)) =
              Cardinality(OwnersOf(h, z))
                + (IF z = None /\ h.share[o] # z THEN 1 ELSE 0)
                - (IF z # None /\ h.share[o] = z THEN 1 ELSE 0)
        <4>1. Typed(h) /\ g.share = [h.share EXCEPT ![o] = None]
          BY <2>1, <2>3
        <4> QED
          BY <4>1, Reassigned
      <3>2. Cardinality(OwnersOf(g, z)) = Cardinality(OwnersOf(h, z)) - (IF z = y THEN 1 ELSE 0)
        BY <2>1, <3>1, OwnersOfFinite
      <3>3. h.count[z] + h.miscounted[z] = Cardinality(OwnersOf(h, z))
        BY <2>1, OwnersOfFinite DEF Heap, Counted
      <3> QED
        BY <2>3, <3>2, <3>3, OwnersOfFinite
    <2>6. Filled(g, None)
      BY <2>1, <2>3, OwnerNames DEF Heap, Filled, Typed, HeapRecord
    <2>10. ~Dangling(g) /\ g.count[y] > 0
      BY <1>2, <2>1, <2>3 DEF Dangling, Typed, HeapRecord
    <2>7. /\ Heap(Release(g, y), None, None)
          /\ \A q \in Owners : \/ Release(g, y).share[q] = g.share[q]
                               \/ q = values(y) /\ y \in Vectors /\ Release(g, y).count[y] = 0
      BY <2>1, <2>3, <2>5, <2>6, <2>10, ReleaseKeepsHeap DEF Heap
    <2>8. Release(g, y).share[o] = None
      BY <2>1, <2>3, <2>7, OwnerNames DEF Typed, HeapRecord
    <2>9. OthersKept(Release(g, y), h, o)
      <3>1. \A q \in Owners : q[1] # "values" => Release(g, y).share[q] = g.share[q]
        BY <2>7, OwnerNames
      <3>2. ASSUME NEW u \in Vectors
            PROVE  Release(g, y).share[values(u)] \in {None, g.share[values(u)]}
        <4>1. CASE Release(g, y).share[values(u)] = g.share[values(u)]
          BY <4>1
        <4>2. CASE values(u) = values(y) /\ y \in Vectors /\ Release(g, y).count[y] = 0
          <5>1. \A w \in Vectors : Release(g, y).share[values(w)] # None
                                     <=> (Release(g, y).count[w] > 0 \/ w = None)
            BY <2>7 DEF Heap, Filled
          <5> QED
            BY <1>2, <4>2, <5>1
        <4> QED
          BY <2>7, <4>1, <4>2, OwnerNames
      <3> QED
        BY <2>1, <2>3, <3>1, <3>2, OwnerNames DEF OthersKept, Typed, HeapRecord
    <2> QED
      BY <2>4, <2>7, <2>8, <2>9
  <1> QED
    BY <1>1, <1>2

LEMMA VectorInUse ==
  ASSUME NEW h, Heap(h, None, None), NEW o \in Owners, NEW v \in Vectors, h.share[o] = v
  PROVE  h.share[values(v)] \in Buffers
  <1>1. v \in Blocks /\ v # None /\ None \notin Blocks
    BY HandlesAssumption DEF Blocks
  <1>2. h.count[v] # 0 /\ h.count[v] \in Nat
    BY <1>1, VectorCounted, OwnersOfFinite DEF Heap, Typed, HeapRecord
  <1>3. h.share[values(v)] # None
    BY <1>1, <1>2 DEF Heap, Filled
  <1> QED
    BY <1>3, OwnerNames, OwnerKinds DEF Heap

\* parse() fills a vector that nobody uses, and the message gets it.
Filling(g, m, v) ==
  /\ g.share[data_(m)] = v
  /\ g.share[values(v)] = Share(raw_buffer(m))
  /\ \A q \in Owners : q[1] # "values" /\ q # data_(m) => g.share[q] = Share(q)
  /\ \A u \in Vectors : u # v => g.share[values(u)] \in {None, Share(values(u))}

LEMMA HydratedKeepsHeap ==
  ASSUME Heap(heap, None, None), ~Dangling(heap), NEW m \in Messages, NEW v \in Vectors, Unused(v),
         Share(raw_buffer(m)) # None, Share(data_(m)) = None,
         NEW g, g = Hydrated(m, v)
  PROVE  Heap(g, None, None) /\ ~Dangling(g) /\ Filling(g, m, v)
  <1> DEFINE b == Share(raw_buffer(m))
             k == More(heap, values(v), b)
  <1>1. Typed(heap)
    BY DEF Heap
  <1>2. /\ v \in Blocks /\ v # None /\ None \notin Blocks
        /\ heap.count[v] = 0
        /\ b \in Buffers /\ b \in Blocks /\ b \notin Vectors
    BY <1>1, HandlesAssumption, OwnerNames, OwnerKinds DEF Blocks, Unused, Share
  <1>3. values(v) \in Owners /\ b \in Kind(values(v)) /\ values(v)[1] = "values"
    BY <1>2, OwnerNames DEF Kind
  <1>4. heap.share[values(v)] = None
    BY <1>2 DEF Heap, Filled
  <1>5. /\ k.share = [heap.share EXCEPT ![values(v)] = b]
        /\ k.count = [heap.count EXCEPT ![b] = @ + 1]
        /\ k.miscounted = heap.miscounted
        /\ Typed(k) /\ ~Dangling(k)
    BY <1>1, <1>3, MoreParts, MoreKeepsUse
  <1>6. k = Assigned(heap, values(v), b)
    BY <1>4 DEF Assigned, More
  <1> HIDE DEF k
  <1>7. Counted(k, None)
    <2> SUFFICES ASSUME NEW z \in Blocks
                 PROVE  k.count[z] + k.miscounted[z] = Cardinality(OwnersOf(k, z))
      BY <1>2, OwnersOfFinite DEF Counted
    <2>1. Cardinality(OwnersOf(k, z)) =
            Cardinality(OwnersOf(heap, z))
              + (IF z = b /\ heap.share[values(v)] # z THEN 1 ELSE 0)
              - (IF z # b /\ heap.share[values(v)] = z THEN 1 ELSE 0)
      <3>1. /\ Typed(heap) /\ values(v) \in Owners
            /\ k.share = [heap.share EXCEPT ![values(v)] = b]
        BY <1>1, <1>3, <1>5
      <3> QED
        BY <3>1, Reassigned
    <2>2. heap.count[z] + heap.miscounted[z] = Cardinality(OwnersOf(heap, z))
      BY <1>2, OwnersOfFinite DEF Heap, Counted
    <2>3. /\ k.count[z] = heap.count[z] + (IF z = b THEN 1 ELSE 0) /\ heap.count[z] \in Nat
          /\ k.miscounted[z] = heap.miscounted[z] /\ heap.miscounted[z] \in Nat
      BY <1>1, <1>5 DEF Typed, HeapRecord
    <2>4. Cardinality(OwnersOf(k, z)) =
            Cardinality(OwnersOf(heap, z)) + (IF z = b THEN 1 ELSE 0)
      BY <1>2, <1>4, <2>1, OwnersOfFinite
    <2> QED
      BY <2>2, <2>3, <2>4, OwnersOfFinite
  <1>8. Filled(k, v)
    <2> SUFFICES ASSUME NEW u \in Vectors
                 PROVE  k.share[values(u)] # None <=> (k.count[u] > 0 \/ u = v)
      BY DEF Filled
    <2>1. values(u) \in Owners /\ (values(u) = values(v) <=> u = v) /\ u \in Blocks /\ u # None
      BY <1>2, OwnerNames, OwnerIsOne DEF Blocks
    <2>2. k.share[values(u)] = IF u = v THEN b ELSE heap.share[values(u)]
      BY <1>1, <1>5, <2>1 DEF Typed, HeapRecord
    <2>3. k.count[u] = heap.count[u]
      BY <1>1, <1>2, <1>5, <2>1 DEF Typed, HeapRecord
    <2>4. heap.share[values(u)] # None <=> heap.count[u] > 0
      BY <2>1 DEF Heap, Filled
    <2> QED
      BY <1>2, <2>2, <2>3, <2>4
  <1>9. data_(m) \in Owners /\ data_(m)[1] = "data_" /\ v \in Kind(data_(m))
    BY OwnerNames DEF Kind
  <1>10. g = Assigned(k, data_(m), v)
    BY <1>6 DEF Hydrated, Share
  <1>11. k.share[values(v)] = b
    BY <1>1, <1>3, <1>5 DEF Typed, HeapRecord
  <1>12. /\ Heap(g, None, None) /\ g.share[data_(m)] = v
         /\ OthersKept(g, k, data_(m))
    <2>1. Heap(k, None, v)
      BY <1>5, <1>7, <1>8 DEF Heap
    <2>2. k.share[values(v)] # None
      BY <1>2, <1>11
    <2> QED
      <3>1. ~Dangling(k)
        BY <1>5
      <3> QED
        BY <1>9, <1>10, <2>1, <2>2, <3>1, AssignedKeepsHeap
  <1>13. g.share[values(v)] = b
    <2>1. g.share[values(v)] \in Buffers
      BY <1>9, <1>12, VectorInUse
    <2>2. g.share[values(v)] \in {None, b}
      BY <1>11, <1>12 DEF OthersKept
    <2> QED
      BY <2>1, <2>2, HandlesAssumption
  <1>14. \A q \in Owners : q[1] # "values" /\ q # data_(m) => g.share[q] = Share(q)
    BY <1>1, <1>3, <1>5, <1>12 DEF OthersKept, Typed, HeapRecord, Share
  <1>15. \A u \in Vectors : u # v => g.share[values(u)] \in {None, Share(values(u))}
    BY <1>1, <1>3, <1>5, <1>12, OwnerNames, OwnerIsOne DEF OthersKept, Typed, HeapRecord, Share
  <1>16. ~Dangling(g)
    <2>1. k.share[data_(m)] = None
      BY <1>1, <1>3, <1>5, <1>9 DEF Share, Typed, HeapRecord
    <2>2. g = More(k, data_(m), v)
      BY <1>10, <2>1 DEF Assigned, More
    <2> QED
      BY <1>5, <1>9, <2>2, MoreKeepsUse
  <1> QED
    BY <1>12, <1>13, <1>14, <1>15, <1>16 DEF Filling

-----------------------------------------------------------------------------
(* What the operations have in common.                                     *)

\* What share x leads to.
BytesAt(x) == IF x \in Vectors THEN Share(values(x)) ELSE x

\* An owner that has the share that another had leads to the same bytes.
LEMMA SameBytes ==
  ASSUME Heap(heap, None, None)', NEW o \in Owners, NEW x, heap'.share[o] = x,
         x \in Vectors => heap'.share[values(x)] \in {None, heap.share[values(x)]}
  PROVE  Bytes(o)' = BytesAt(x)
  <1>1. CASE x \in Vectors
    <2>1. heap'.share[values(x)] \in Buffers
      BY <1>1, VectorInUse
    <2> QED
      BY <1>1, <2>1, HandlesAssumption DEF Bytes, BytesAt, Share
  <1>2. CASE x \notin Vectors
    BY <1>2 DEF Bytes, BytesAt, Share
  <1> QED
    BY <1>1, <1>2

\* What is noted of the new owners is what they lead to, and the others lead
\* to what they did.
AsNoted(new, c) ==
  \A o \in Owners :
    heap'.share[o] # None =>
      IF o \in new THEN content'[Bytes(o)'] = c
      ELSE heap.share[o] # None /\ content'[Bytes(o)'] = content[Bytes(o)]

LEMMA NotedBytes ==
  ASSUME BytesOK, NEW new, NEW c \in {0, 1}, Note(new, c), AsNoted(new, c)
  PROVE  BytesOK'
  <1>1. origin' = [o \in Owners |-> IF heap'.share[o] = None THEN 0
                                    ELSE IF o \in new THEN c ELSE origin[o]]
    BY DEF Note
  <1>2. origin' \in [Owners -> {0, 1}]
    BY <1>1 DEF BytesOK
  <1>3. ASSUME NEW o \in Owners, heap'.share[o] # None
        PROVE  content'[Bytes(o)'] = origin'[o]
    <2>1. CASE o \in new
      BY <1>1, <1>3, <2>1 DEF AsNoted
    <2>2. CASE o \notin new
      <3>1. heap.share[o] # None /\ content'[Bytes(o)'] = content[Bytes(o)]
        BY <1>3, <2>2 DEF AsNoted
      <3>2. content[Bytes(o)] = origin[o]
        BY <3>1 DEF BytesOK, MessageKeepsItsBytes, Share
      <3> QED
        BY <1>1, <1>3, <2>2, <3>1, <3>2
    <2> QED
      BY <2>1, <2>2
  <1>4. MessageKeepsItsBytes'
    BY <1>3 DEF MessageKeepsItsBytes, Share
  <1> QED
    BY <1>2, <1>4 DEF BytesOK

\* An operation on one owner, o, that is noted.
LEMMA BytesKept ==
  ASSUME Heap(heap, None, None)', BytesOK, content' = content,
         NEW o \in Owners, o[1] # "values",
         OthersKept(heap', heap, o), NEW new, new \subseteq {o},
         NEW c \in {0, 1}, Note(new, c),
         IF o \in new THEN content[BytesAt(heap'.share[o])] = c ELSE heap'.share[o] = None
  PROVE  BytesOK'
  <1>1. \A v \in Vectors : heap'.share[values(v)] \in {None, heap.share[values(v)]}
    BY DEF OthersKept
  <1>2. ASSUME NEW q \in Owners, heap'.share[q] # None
        PROVE  IF q \in new THEN content'[Bytes(q)'] = c
               ELSE /\ heap.share[q] # None
                    /\ content'[Bytes(q)'] = content[Bytes(q)]
    <2>1. PICK x : x = heap'.share[q]
      OBVIOUS
    <2>2. Bytes(q)' = BytesAt(x)
      BY <1>1, <2>1, SameBytes
    <2>3. CASE q = o
      BY <1>2, <2>1, <2>2, <2>3
    <2>4. CASE q # o
      <3>1. q \notin new
        BY <2>4
      <3>2. heap.share[q] = x
        <4>1. CASE q[1] = "values"
          <5>1. PICK v \in Vectors : q = values(v)
            BY <4>1 DEF Owners, values, current_buffer
          <5> QED
            BY <1>1, <1>2, <2>1, <5>1
        <4>2. CASE q[1] # "values"
          BY <2>1, <2>4, <4>2 DEF OthersKept
        <4> QED
          BY <4>1, <4>2
      <3>3. Bytes(q) = BytesAt(x)
        BY <3>2 DEF Bytes, BytesAt, Share
      <3> QED
        BY <1>2, <2>1, <2>2, <3>1, <3>2, <3>3
    <2> QED
      BY <2>3, <2>4
  <1>3. AsNoted(new, c)
    BY <1>2 DEF AsNoted
  <1> QED
    BY <1>3, NotedBytes

\* Messages that are left alone keep their buffer and values.
LEMMA MessagesKept ==
  ASSUME Heap(heap, None, None)', MessagesOK,
         \A m \in Messages : /\ heap'.share[raw_buffer(m)] = heap.share[raw_buffer(m)]
                             /\ heap'.share[data_(m)] = heap.share[data_(m)],
         \A v \in Vectors : heap'.share[values(v)] \in {None, heap.share[values(v)]}
  PROVE  MessagesOK'
  <1> SUFFICES ASSUME NEW m \in Messages, heap'.share[data_(m)] # None
               PROVE  heap'.share[values(heap'.share[data_(m)])]
                        = heap.share[values(heap.share[data_(m)])]
    BY DEF MessagesOK, Share
  <1>1. heap'.share[data_(m)] \in Vectors
    BY OwnerNames, OwnerKinds DEF Heap
  <1>2. heap'.share[values(heap'.share[data_(m)])] \in Buffers
    BY <1>1, OwnerNames, VectorInUse
  <1> QED
    BY <1>1, <1>2, HandlesAssumption

\* A new Pointer.
LEMMA MakeKeeps ==
  ASSUME Inv, NEW p \in Pointers, NEW g, Heap(g, None, None), ~Dangling(g),
         \A q \in Pointers : g.share[info_(q)] = Share(info_(q)),
         NEW x \in Blocks, NEW place,
         (x \in Vectors /\ place \in InVector) \/ (x \in Buffers /\ place \in Elements),
         x \in Vectors => g.share[values(x)] # None,
         Make(g, p, x, place)
  PROVE  /\ Heap(heap, None, None)' /\ RestTyped' /\ PlacesOK'
         /\ heap'.share[info_(p)] = x
         /\ OthersKept(heap', g, info_(p))
  <1>1. /\ info_(p) \in Owners /\ info_(p)[1] = "info_" /\ x \in Kind(info_(p))
    BY OwnerNames DEF Kind
  <1>2. /\ Free(p) /\ heap' = Assigned(g, info_(p), x)
        /\ at' = [at EXCEPT ![p] = place] /\ named' = named \cup {p}
        /\ UNCHANGED <<borrow, content>>
    BY DEF Make
  <1>3. Heap(heap', None, None) /\ heap'.share[info_(p)] = x /\ OthersKept(heap', g, info_(p))
    BY <1>1, <1>2, AssignedKeepsHeap
  <1>4. \A q \in Pointers : q # p => heap'.share[info_(q)] = heap.share[info_(q)]
    BY <1>3, OwnerNames, OwnerIsOne DEF OthersKept, Share
  <1>5. place \in Place /\ place # "none" /\ x # None /\ InVector \cap Elements = {}
    BY HandlesAssumption DEF Place, InVector, Elements, Arrays, Blocks
  <1>6. RestTyped'
    BY <1>2, <1>5 DEF Inv, RestTyped
  <1>7. PlacesOK'
    <2> SUFFICES ASSUME NEW q \in Pointers
                 PROVE  /\ heap'.share[info_(q)] # None <=> (q \in named' \/ borrow' = q)
                        /\ at'[q] = "none" <=> heap'.share[info_(q)] = None
                        /\ at'[q] \in InVector => heap'.share[info_(q)] \in Vectors
                        /\ at'[q] \in Elements => heap'.share[info_(q)] \in Buffers
                        /\ borrow' = q => at'[q] \in InVector
      BY <1>6 DEF PlacesOK, RestTyped, Share
    <2>1. CASE q = p
      BY <1>2, <1>3, <1>5, <2>1 DEF Inv, RestTyped, Free
    <2>2. CASE q # p
      BY <1>2, <1>4, <2>2, HandlesAssumption DEF Inv, RestTyped, PlacesOK, Share
    <2> QED
      BY <2>1, <2>2
  <1> QED
    BY <1>3, <1>6, <1>7

\* Pointers that are left alone keep their places.
LEMMA PlacesKept ==
  ASSUME PlacesOK, UNCHANGED <<at, named, borrow>>,
         \A p \in Pointers : heap'.share[info_(p)] = heap.share[info_(p)]
  PROVE  PlacesOK'
  BY DEF PlacesOK, Share

\* A new Pointer on the heap as it is, to bytes of chunk c.
LEMMA MakeStep ==
  ASSUME Inv, ~Dangling(heap), NEW p \in Pointers, NEW x \in Blocks, NEW place,
         (x \in Vectors /\ place \in InVector) \/ (x \in Buffers /\ place \in Elements),
         x \in Vectors => Share(values(x)) # None,
         Make(heap, p, x, place),
         NEW c \in {0, 1}, content[BytesAt(x)] = c, Note({info_(p)}, c)
  PROVE  Inv'
  <1>1. \A q \in Pointers : heap.share[info_(q)] = Share(info_(q))
    BY DEF Share
  <1>2. Heap(heap, None, None) /\ (x \in Vectors => heap.share[values(x)] # None)
    BY DEF Inv, Share
  <1>3. /\ Heap(heap, None, None)' /\ RestTyped' /\ PlacesOK'
        /\ heap'.share[info_(p)] = x
        /\ OthersKept(heap', heap, info_(p))
    BY <1>1, <1>2, MakeKeeps
  <1>4. content' = content
    BY DEF Make
  <1>5. /\ \A m \in Messages : /\ heap'.share[raw_buffer(m)] = heap.share[raw_buffer(m)]
                               /\ heap'.share[data_(m)] = heap.share[data_(m)]
        /\ \A v \in Vectors : heap'.share[values(v)] \in {None, heap.share[values(v)]}
    BY <1>3, OwnerNames DEF OthersKept, info_, raw_buffer, data_
  <1>6. MessagesOK'
    BY <1>3, <1>5, MessagesKept DEF Inv
  <1>7. BytesOK'
    <2>1. info_(p) \in Owners /\ info_(p)[1] # "values"
      BY OwnerNames
    <2>2. BytesOK
      BY DEF Inv
    <2> QED
      BY <1>3, <1>4, <2>1, <2>2, BytesKept
  <1> QED
    BY <1>3, <1>6, <1>7 DEF Inv

\* What a Pointer in use points to is in use, and it is noted what it leads to.
LEMMA PointerFacts ==
  ASSUME Inv, NEW p \in Pointers, p \in named \/ borrow = p
  PROVE  /\ Share(info_(p)) \in Blocks
         /\ at[p] \in InVector \cup Elements
         /\ at[p] \in InVector => /\ Share(info_(p)) \in Vectors
                                  /\ Share(values(Share(info_(p)))) \in Buffers
         /\ at[p] \in Elements => Share(info_(p)) \in Buffers
         /\ origin[info_(p)] \in {0, 1}
         /\ content[BytesAt(Share(info_(p)))] = origin[info_(p)]
  <1>1. /\ Share(info_(p)) # None /\ at[p] # "none" /\ at[p] \in Place
        /\ at[p] \in InVector => Share(info_(p)) \in Vectors
        /\ at[p] \in Elements => Share(info_(p)) \in Buffers
    BY DEF Inv, PlacesOK, RestTyped
  <1>2. at[p] \in InVector => Share(values(Share(info_(p)))) \in Buffers
    BY <1>1, OwnerNames, VectorInUse DEF Inv, Share
  <1>3. /\ origin[info_(p)] \in {0, 1}
        /\ content[BytesAt(Share(info_(p)))] = origin[info_(p)]
    <2>1. Bytes(info_(p)) = BytesAt(Share(info_(p))) /\ info_(p) \in Owners
      BY OwnerNames DEF Bytes, BytesAt
    <2> QED
      BY <1>1, <2>1 DEF Inv, BytesOK, MessageKeepsItsBytes
  <1> QED
    BY <1>1, <1>2, <1>3 DEF Blocks, Place

-----------------------------------------------------------------------------
(* The steps.                                                              *)

LEMMA InitOK == Init => Inv
  <1> SUFFICES ASSUME Init PROVE Inv
    OBVIOUS
  <1>1. /\ heap = [share |-> [o \in Owners |-> None], count |-> [x \in Blocks |-> 0],
                   miscounted |-> [x \in Blocks |-> 0]]
        /\ None \notin Blocks
    BY HandlesAssumption DEF Init, Blocks
  <1>2. /\ heap.share = [o \in Owners |-> None] /\ heap.count = [x \in Blocks |-> 0]
        /\ heap.miscounted = [x \in Blocks |-> 0] /\ heap \in HeapRecord
    BY <1>1 DEF HeapRecord
  <1>3. Typed(heap)
    BY <1>2 DEF Typed, Blocks
  <1>4. Counted(heap, None)
    <2> SUFFICES ASSUME NEW x \in Blocks 
                 PROVE  heap.count[x] + heap.miscounted[x] = Cardinality(OwnersOf(heap, x))
      BY <1>1, OwnersOfFinite DEF Counted
    <2> QED
      BY <1>1, <1>2, OwnersOfFinite
  <1>5. Filled(heap, None)
    BY <1>1, <1>2, OwnerNames DEF Filled, Blocks
  <1>6. /\ \A p \in Pointers : Share(info_(p)) = None
        /\ \A m \in Messages : Share(raw_buffer(m)) = None /\ Share(data_(m)) = None
        /\ \A o \in Owners : Share(o) = None
    BY <1>2, OwnerNames DEF Share
  <1>7. RestTyped
    BY DEF Init, RestTyped, Place
  <1>8. PlacesOK
    BY <1>6, HandlesAssumption DEF Init, PlacesOK, InVector, Arrays, Elements
  <1>9. MessagesOK /\ BytesOK
    BY <1>6 DEF Init, MessagesOK, BytesOK, MessageKeepsItsBytes
  <1> QED
    BY <1>3, <1>4, <1>5, <1>7, <1>8, <1>9 DEF Inv, Heap

\* The wrapper has a chunk of the two.
LEMMA ChunkTyped ==
  ASSUME Inv
  PROVE  /\ Chunk \in {0, 1} /\ 1 - Chunk \in {0, 1}
         /\ Share(current_buffer) # None =>
              /\ Share(current_buffer) \in Buffers
              /\ content[Share(current_buffer)] = Chunk
  <1>1. Chunk \in {0, 1}
    BY OwnerNames DEF Chunk, Inv, BytesOK
  <1>2. Share(current_buffer) # None => Share(current_buffer) \in Buffers
    BY OwnerNames, OwnerKinds DEF Inv, Heap, Share
  <1>3. Share(current_buffer) \in Buffers => Bytes(current_buffer) = Share(current_buffer)
    BY HandlesAssumption DEF Bytes
  <1>4. Share(current_buffer) # None => content[Bytes(current_buffer)] = Chunk
    BY OwnerNames DEF Inv, BytesOK, MessageKeepsItsBytes, Chunk
  <1> QED
    BY <1>1, <1>2, <1>3, <1>4

\* Nobody has the buffer of the next chunk.
LEMMA NextChunkStep ==
  ASSUME Inv, ~Dangling(heap), NextChunk
  PROVE  Inv'
  <1>1. PICK b \in Buffers : /\ Unused(b)
                             /\ heap' = Assigned(heap, current_buffer, b)
                             /\ content' = [content EXCEPT ![b] = 1 - Chunk]
                             /\ Note({current_buffer}, 1 - Chunk)
                             /\ UNCHANGED <<at, named, borrow>>
    BY DEF NextChunk
  <1>2. /\ current_buffer \in Owners /\ current_buffer[1] = "current_buffer"
        /\ b \in Kind(current_buffer) /\ b \in Blocks /\ b \notin Vectors
        /\ Heap(heap, None, None)
    BY OwnerNames, HandlesAssumption DEF Kind, Blocks, Inv
  <1>3. /\ Heap(heap', None, None) /\ heap'.share[current_buffer] = b
        /\ OthersKept(heap', heap, current_buffer)
    BY <1>1, <1>2, AssignedKeepsHeap
  <1>4. /\ \A m \in Messages : /\ heap'.share[raw_buffer(m)] = heap.share[raw_buffer(m)]
                               /\ heap'.share[data_(m)] = heap.share[data_(m)]
        /\ \A p \in Pointers : heap'.share[info_(p)] = heap.share[info_(p)]
        /\ \A v \in Vectors : heap'.share[values(v)] \in {None, heap.share[values(v)]}
    BY <1>3, OwnerNames, <1>2 DEF OthersKept
  <1>5. 1 - Chunk \in {0, 1}
    BY ChunkTyped
  <1>6. content' \in [Buffers -> {0, 1}]
    BY <1>1, <1>5 DEF Inv, RestTyped
  <1>7. RestTyped'
    BY <1>1, <1>6 DEF Inv, RestTyped
  <1>8. BytesOK'
    <2>1. ASSUME NEW o \in Owners, heap'.share[o] # None
          PROVE  IF o \in {current_buffer} THEN content'[Bytes(o)'] = 1 - Chunk
                 ELSE /\ heap.share[o] # None
                      /\ content'[Bytes(o)'] = content[Bytes(o)]
      <3>1. PICK x : x = heap'.share[o]
        OBVIOUS
      <3>2. Bytes(o)' = BytesAt(x)
        BY <1>3, <1>4, <3>1, SameBytes
      <3>3. CASE o = current_buffer
        <4>1. BytesAt(x) = b
          BY <1>2, <1>3, <3>1, <3>3 DEF BytesAt
        <4> QED
          BY <1>1, <3>2, <3>3, <4>1 DEF Inv, RestTyped
      <3>4. CASE o # current_buffer
        <4>1. heap.share[o] = x
          <5>1. CASE o[1] = "values"
            <6>1. PICK v \in Vectors : o = values(v)
              BY <5>1 DEF Owners, values, current_buffer
            <6> QED
              BY <1>4, <2>1, <3>1, <6>1
          <5>2. CASE o[1] # "values"
            BY <1>3, <3>1, <3>4, <5>2 DEF OthersKept
          <5> QED
            BY <5>1, <5>2
        <4>2. Bytes(o) = BytesAt(x)
          BY <4>1 DEF Bytes, BytesAt, Share
        <4>3. BytesAt(x) # b
          <5>1. \A q \in Owners : heap.share[q] # b
            BY <1>1, <1>2, UnusedHasNoOwner DEF Unused
          <5> QED
            BY <4>1, <5>1, OwnerNames DEF BytesAt, Share
        <4>4. content'[BytesAt(x)] = content[BytesAt(x)]
          BY <1>1, <4>3 DEF Inv, RestTyped
        <4> QED
          BY <2>1, <3>1, <3>2, <3>4, <4>1, <4>2, <4>4
      <3> QED
        BY <3>3, <3>4
    <2>2. BytesOK
      BY DEF Inv
    <2>3. AsNoted({current_buffer}, 1 - Chunk)
      BY <2>1 DEF AsNoted
    <2> QED
      BY <1>1, <1>5, <2>2, <2>3, NotedBytes
  <1>10. MessagesOK'
    BY <1>3, <1>4, MessagesKept DEF Inv
  <1>9. PlacesOK'
    BY <1>1, <1>4, PlacesKept DEF Inv
  <1> QED
    BY <1>3, <1>7, <1>8, <1>9, <1>10 DEF Inv

LEMMA DropViewStep ==
  ASSUME Inv, ~Dangling(heap), DropView
  PROVE  Inv'
  <1>1. /\ heap' = Destroyed(heap, current_buffer)
        /\ UNCHANGED <<at, named, borrow, content>> /\ Note({}, 0)
    BY DEF DropView
  <1>2. /\ Heap(heap', None, None) /\ heap'.share[current_buffer] = None
        /\ OthersKept(heap', heap, current_buffer)
    BY <1>1, OwnerNames, DestroyedKeepsHeap DEF Inv
  <1>3. /\ \A m \in Messages : /\ heap'.share[raw_buffer(m)] = heap.share[raw_buffer(m)]
                               /\ heap'.share[data_(m)] = heap.share[data_(m)]
        /\ \A p \in Pointers : heap'.share[info_(p)] = heap.share[info_(p)]
        /\ \A v \in Vectors : heap'.share[values(v)] \in {None, heap.share[values(v)]}
    BY <1>2, OwnerNames DEF OthersKept
  <1>4. RestTyped'
    BY <1>1 DEF Inv, RestTyped
  <1>5. MessagesOK'
    BY <1>2, <1>3, MessagesKept DEF Inv
  <1>7. BytesOK'
    <2>1. current_buffer \in Owners /\ current_buffer[1] # "values"
      BY OwnerNames
    <2>2. BytesOK
      BY DEF Inv
    <2> QED
      BY <1>1, <1>2, <2>1, <2>2, BytesKept
  <1>6. PlacesOK'
    BY <1>1, <1>3, PlacesKept DEF Inv
  <1> QED
    BY <1>2, <1>4, <1>5, <1>6, <1>7 DEF Inv


\* A message shares the buffer of the wrapper.
LEMMA DereferenceStep ==
  ASSUME Inv, ~Dangling(heap), NEW m \in Messages, Dereference(m)
  PROVE  Inv'
  <1> DEFINE b == Share(current_buffer)
  <1>1. /\ b # None /\ Share(raw_buffer(m)) = None
        /\ heap' = Assigned(heap, raw_buffer(m), b)
        /\ Note({raw_buffer(m)}, Chunk)
        /\ UNCHANGED <<at, named, borrow, content>>
    BY DEF Dereference
  <1>2. b \in Buffers /\ b \notin Vectors /\ b \in Kind(raw_buffer(m))
    BY <1>1, OwnerNames, OwnerKinds, HandlesAssumption DEF Kind, Inv, Heap, Share
  <1>3. /\ Heap(heap', None, None) /\ heap'.share[raw_buffer(m)] = b
        /\ OthersKept(heap', heap, raw_buffer(m))
    BY <1>1, <1>2, OwnerNames, AssignedKeepsHeap DEF Inv
  <1>4. Chunk = content[b] /\ Chunk \in {0, 1}
    BY <1>1, ChunkTyped
  <1>5. RestTyped'
    BY <1>1, <1>4 DEF Inv, RestTyped
  <1>6. /\ \A n \in Messages : n # m => heap'.share[raw_buffer(n)] = heap.share[raw_buffer(n)]
        /\ \A n \in Messages : heap'.share[data_(n)] = heap.share[data_(n)]
        /\ \A p \in Pointers : heap'.share[info_(p)] = heap.share[info_(p)]
        /\ \A v \in Vectors : heap'.share[values(v)] \in {None, heap.share[values(v)]}
    BY <1>3, OwnerNames, OwnerIsOne DEF OthersKept, raw_buffer, data_, info_
  <1>7. heap.share[data_(m)] = None
    BY <1>1 DEF Inv, MessagesOK, Share
  <1>8. ASSUME NEW n \in Messages, heap'.share[data_(n)] # None
        PROVE  heap'.share[values(heap'.share[data_(n)])] = heap.share[values(heap.share[data_(n)])]
    <2>1. heap'.share[data_(n)] \in Vectors
      BY <1>3, <1>8, OwnerNames, OwnerKinds DEF Heap
    <2>2. heap'.share[values(heap'.share[data_(n)])] \in Buffers
      BY <1>3, <2>1, OwnerNames, VectorInUse
    <2> QED
      BY <1>6, <2>1, <2>2, HandlesAssumption
  <1>9. MessagesOK'
    <2> SUFFICES ASSUME NEW n \in Messages, heap'.share[data_(n)] # None
                 PROVE  /\ heap'.share[raw_buffer(n)] # None
                        /\ heap'.share[values(heap'.share[data_(n)])] = heap'.share[raw_buffer(n)]
      BY DEF MessagesOK, Share
    <2>1. n # m
      BY <1>6, <1>7
    <2> QED
      BY <1>6, <1>8, <2>1 DEF Inv, MessagesOK, Share
  <1>11. BytesOK'
    <2>1. raw_buffer(m) \in Owners /\ raw_buffer(m)[1] # "values"
      BY OwnerNames
    <2>2. BytesOK /\ content[BytesAt(b)] = Chunk /\ content' = content
      BY <1>1, <1>2, <1>4 DEF Inv, BytesAt
    <2> QED
      BY <1>1, <1>3, <1>4, <2>1, <2>2, BytesKept
  <1>10. PlacesOK'
    BY <1>1, <1>6, PlacesKept DEF Inv
  <1> QED
    BY <1>3, <1>5, <1>9, <1>10, <1>11 DEF Inv

\* A message lets go of its values and then of its buffer, unless the first
\* leaves something dangling.
LEMMA DropMessageStep ==
  ASSUME Inv, ~Dangling(heap), NEW m \in Messages, DropMessage(m)
  PROVE  Inv'
  <1> DEFINE g == Destroyed(heap, data_(m))
  <1>1. /\ (Dangling(g) /\ heap' = g) \/ (~Dangling(g) /\ heap' = Destroyed(g, raw_buffer(m)))
        /\ Note({}, 0)
        /\ UNCHANGED <<at, named, borrow, content>>
    BY DEF DropMessage
  <1>2. Heap(g, None, None) /\ g.share[data_(m)] = None /\ OthersKept(g, heap, data_(m))
    BY OwnerNames, DestroyedKeepsHeap DEF Inv
  <1> HIDE DEF g
  <1>3. /\ Heap(heap', None, None)
        /\ heap'.share[raw_buffer(m)] \in {None, g.share[raw_buffer(m)]}
        /\ OthersKept(heap', g, raw_buffer(m))
    <2>1. CASE heap' = g
      BY <1>2, <2>1 DEF OthersKept
    <2>2. CASE ~Dangling(g) /\ heap' = Destroyed(g, raw_buffer(m))
      BY <1>2, <2>2, OwnerNames, DestroyedKeepsHeap
    <2> QED
      BY <1>1, <2>1, <2>2
  <1>4. /\ heap'.share[data_(m)] = None
        /\ \A n \in Messages : n # m => /\ heap'.share[raw_buffer(n)] = heap.share[raw_buffer(n)]
                                        /\ heap'.share[data_(n)] = heap.share[data_(n)]
        /\ \A p \in Pointers : heap'.share[info_(p)] = heap.share[info_(p)]
        /\ \A v \in Vectors : heap'.share[values(v)] \in {None, heap.share[values(v)]}
    BY <1>2, <1>3, OwnerNames, OwnerIsOne DEF OthersKept, raw_buffer, data_, info_
  <1>5. RestTyped'
    BY <1>1 DEF Inv, RestTyped
  <1>6. ASSUME NEW n \in Messages, heap'.share[data_(n)] # None
        PROVE  heap'.share[values(heap'.share[data_(n)])] = heap.share[values(heap'.share[data_(n)])]
    <2>1. heap'.share[data_(n)] \in Vectors
      BY <1>3, <1>6, OwnerNames, OwnerKinds DEF Heap
    <2>2. heap'.share[values(heap'.share[data_(n)])] \in Buffers
      BY <1>3, <2>1, OwnerNames, VectorInUse
    <2> QED
      BY <1>4, <2>1, <2>2, HandlesAssumption
  <1>7. MessagesOK'
    <2> SUFFICES ASSUME NEW n \in Messages, heap'.share[data_(n)] # None
                 PROVE  /\ heap'.share[raw_buffer(n)] # None
                        /\ heap'.share[values(heap'.share[data_(n)])] = heap'.share[raw_buffer(n)]
      BY DEF MessagesOK, Share
    <2>1. n # m
      BY <1>4
    <2> QED
      BY <1>4, <1>6, <2>1 DEF Inv, MessagesOK, Share
  <1>8. AsNoted({}, 0)
    <2> SUFFICES ASSUME NEW o \in Owners, heap'.share[o] # None
                 PROVE  heap.share[o] # None /\ content'[Bytes(o)'] = content[Bytes(o)]
      BY DEF AsNoted
    <2>1. PICK x : x = heap'.share[o]
      OBVIOUS
    <2>2. heap.share[o] = x
      <3>1. CASE o[1] = "values"
        <4>1. PICK v \in Vectors : o = values(v)
          BY <3>1 DEF Owners, values, current_buffer
        <4> QED
          BY <1>4, <2>1, <4>1
      <3>2. CASE o[1] # "values"
        <4>1. heap'.share[o] \in {None, g.share[o]} /\ g.share[o] \in {None, heap.share[o]}
          BY <1>2, <1>3, <3>2 DEF OthersKept
        <4> QED
          BY <2>1, <4>1
      <3> QED
        BY <3>1, <3>2
    <2>3. Bytes(o)' = BytesAt(x)
      BY <1>3, <1>4, <2>1, SameBytes
    <2>4. Bytes(o) = BytesAt(x)
      BY <2>2 DEF Bytes, BytesAt, Share
    <2> QED
      BY <1>1, <2>1, <2>2, <2>3, <2>4
  <1>9. BytesOK'
    BY <1>1, <1>8, NotedBytes DEF Inv
  <1>10. PlacesOK'
    BY <1>1, <1>4, PlacesKept DEF Inv
  <1> QED
    BY <1>3, <1>5, <1>7, <1>9, <1>10 DEF Inv

\* The values of the message, made now or before, and a Pointer to the root.
LEMMA DataStep ==
  ASSUME Inv, ~Dangling(heap), NEW m \in Messages, NEW p \in Pointers, Data(m, p)
  PROVE  Inv'
  <1> DEFINE w == Share(data_(m))
             b == Share(raw_buffer(m))
             c == origin[raw_buffer(m)]
  <1>1. "root" \in InVector
    BY DEF InVector
  <1>4. b # None /\ b \in Buffers /\ b \notin Vectors
    BY OwnerNames, OwnerKinds, HandlesAssumption DEF Data, Inv, Heap, Share
  <1>5. c \in {0, 1} /\ content[b] = c
    <2>1. raw_buffer(m) \in Owners /\ Bytes(raw_buffer(m)) = b
      BY <1>4, OwnerNames DEF Bytes
    <2> QED
      BY <1>4, <2>1 DEF Inv, BytesOK, MessageKeepsItsBytes
  <1>2. CASE w # None /\ Make(heap, p, w, "root") /\ Note({info_(p)}, c)
    <2>1. w \in Vectors /\ Share(values(w)) \in Buffers
      <3>1. w \in Vectors
        BY <1>2, OwnerNames, OwnerKinds DEF Inv, Heap, Share
      <3> QED
        BY <3>1, OwnerNames, VectorInUse DEF Inv, Share
    <2>2. w \in Blocks /\ Share(values(w)) # None
      BY <2>1, HandlesAssumption DEF Blocks
    <2>3. content[BytesAt(w)] = c
      <3>1. Share(values(w)) = b
        BY <1>2 DEF Inv, MessagesOK
      <3> QED
        BY <1>5, <2>1, <3>1 DEF BytesAt
    <2> HIDE DEF w, c
    <2> QED
      BY <1>1, <1>2, <1>5, <2>1, <2>2, <2>3, MakeStep
  <1>3. CASE /\ w = None
             /\ \E v \in Vectors : /\ Unused(v) /\ Make(Hydrated(m, v), p, v, "root")
                                   /\ Note({values(v), data_(m), info_(p)}, c)
    <2>1. PICK v \in Vectors : /\ Unused(v) /\ Make(Hydrated(m, v), p, v, "root")
                               /\ Note({values(v), data_(m), info_(p)}, c)
      BY <1>3
    <2>2. PICK g : g = Hydrated(m, v)
      OBVIOUS
    <2>4. /\ Heap(g, None, None) /\ ~Dangling(g)
          /\ g.share[data_(m)] = v
          /\ g.share[values(v)] = b
          /\ \A q \in Owners : q[1] # "values" /\ q # data_(m) => g.share[q] = Share(q)
          /\ \A u \in Vectors : u # v => g.share[values(u)] \in {None, Share(values(u))}
      <3>1. /\ Heap(heap, None, None) /\ Unused(v) /\ b # None
            /\ Share(data_(m)) = None
        BY <1>3, <1>4, <2>1 DEF Inv
      <3>2. Heap(g, None, None) /\ ~Dangling(g) /\ Filling(g, m, v)
        BY <2>2, <3>1, HydratedKeepsHeap
      <3> QED
        BY <3>2 DEF Filling
    <2>5. \A q \in Pointers : g.share[info_(q)] = Share(info_(q))
      BY <2>4, OwnerNames DEF info_, data_
    <2>6. v \in Blocks /\ g.share[values(v)] # None
      BY <1>4, <2>4 DEF Blocks
    <2>7. Make(g, p, v, "root")
      BY <2>1, <2>2
    <2>8. /\ Heap(heap, None, None)' /\ RestTyped' /\ PlacesOK'
          /\ heap'.share[info_(p)] = v
          /\ OthersKept(heap', g, info_(p))
      BY <1>1, <2>4, <2>5, <2>6, <2>7, MakeKeeps
    <2>9. content' = content
      BY <2>7 DEF Make
    <2>10. /\ heap'.share[data_(m)] = v
           /\ \A n \in Messages : /\ heap'.share[raw_buffer(n)] = Share(raw_buffer(n))
                                  /\ n # m => heap'.share[data_(n)] = Share(data_(n))
           /\ \A u \in Vectors : heap'.share[values(u)] \in {None, g.share[values(u)]}
      BY <2>4, <2>8, OwnerNames, OwnerIsOne DEF OthersKept, raw_buffer, data_, info_
    <2>11. \A o \in Owners : Share(o) # v
      BY <2>1, UnusedHasNoOwner DEF Inv, Unused, Blocks, Share
    <2>12. \A u \in Vectors : u # v => heap'.share[values(u)] \in {None, Share(values(u))}
      BY <2>4, <2>10
    <2>13. heap'.share[values(v)] = b
      <3>1. heap'.share[values(v)] \in Buffers
        BY <2>8, OwnerNames, VectorInUse
      <3> QED
        BY <2>4, <2>10, <3>1, HandlesAssumption
    <2>14. MessagesOK'
      <3> SUFFICES ASSUME NEW n \in Messages, heap'.share[data_(n)] # None
                   PROVE  /\ heap'.share[raw_buffer(n)] # None
                          /\ heap'.share[values(heap'.share[data_(n)])] = heap'.share[raw_buffer(n)]
        BY DEF MessagesOK, Share
      <3>1. CASE n = m
        BY <1>4, <2>10, <2>13, <3>1
      <3>2. CASE n # m
        <4>1. heap'.share[data_(n)] = Share(data_(n)) /\ Share(data_(n)) # v
          BY <2>10, <2>11, <3>2, OwnerNames
        <4>2. heap'.share[data_(n)] \in Vectors
          BY <2>8, OwnerNames, OwnerKinds DEF Heap
        <4>3. heap'.share[values(heap'.share[data_(n)])] \in Buffers
          BY <2>8, <4>2, OwnerNames, VectorInUse
        <4>4. heap'.share[values(heap'.share[data_(n)])] = Share(values(Share(data_(n))))
          BY <2>12, <4>1, <4>2, <4>3, HandlesAssumption
        <4>5. /\ Share(raw_buffer(n)) # None
              /\ Share(values(Share(data_(n)))) = Share(raw_buffer(n))
          BY <4>1 DEF Inv, MessagesOK
        <4> QED
          BY <2>10, <4>4, <4>5
      <3> QED
        BY <3>1, <3>2
    <2>15. AsNoted({values(v), data_(m), info_(p)}, c)
      <3> SUFFICES ASSUME NEW o \in Owners, heap'.share[o] # None
                   PROVE  IF o \in {values(v), data_(m), info_(p)}
                          THEN content'[Bytes(o)'] = c
                          ELSE Share(o) # None /\ content'[Bytes(o)'] = content[Bytes(o)]
        BY DEF AsNoted, Share
      <3>1. CASE o = values(v)
        <4>1. Bytes(o)' = b
          BY <1>4, <2>13, <3>1 DEF Bytes, Share
        <4> QED
          BY <1>5, <2>9, <3>1, <4>1
      <3>2. CASE o \in {data_(m), info_(p)}
        <4>1. Bytes(o)' = b
          BY <2>8, <2>10, <2>13, <3>2 DEF Bytes, Share
        <4> QED
          BY <1>5, <2>9, <3>2, <4>1
      <3>3. CASE o \notin {values(v), data_(m), info_(p)}
        <4>1. PICK x : x = heap'.share[o]
          OBVIOUS
        <4>2. Share(o) = x
          <5>1. CASE o[1] = "values"
            <6>1. PICK u \in Vectors : o = values(u)
              BY <5>1 DEF Owners, values, current_buffer
            <6>2. u # v
              BY <3>3, <6>1
            <6> QED
              BY <2>12, <4>1, <6>1, <6>2
          <5>2. CASE o[1] # "values"
            BY <2>4, <2>8, <3>3, <4>1, <5>2 DEF OthersKept
          <5> QED
            BY <5>1, <5>2
        <4>3. x \in Vectors => heap'.share[values(x)] \in {None, heap.share[values(x)]}
          BY <2>11, <2>12, <4>2 DEF Share
        <4>4. Bytes(o)' = BytesAt(x)
          BY <2>8, <4>1, <4>3, SameBytes
        <4>5. Bytes(o) = BytesAt(x)
          BY <4>2 DEF Bytes, BytesAt
        <4> QED
          BY <2>9, <3>3, <4>1, <4>2, <4>4, <4>5
      <3> QED
        BY <3>1, <3>2, <3>3
    <2>16. BytesOK'
      <3>1. BytesOK /\ Note({values(v), data_(m), info_(p)}, c)
        BY <2>1 DEF Inv
      <3> HIDE DEF c
      <3> QED
        BY <1>5, <2>15, <3>1, NotedBytes
    <2> QED
      BY <2>8, <2>14, <2>16 DEF Inv
  <1> QED
    BY <1>2, <1>3 DEF Data

LEMMA ChildStep ==
  ASSUME Inv, ~Dangling(heap), NEW p \in Pointers, NEW q \in Pointers, Child(p, q)
  PROVE  Inv'
  <1>1. PICK place \in Arrays : Make(heap, q, Share(info_(p)), place)
    BY DEF Child
  <1>2. p \in named /\ at[p] \in InVector /\ place \in InVector
    BY DEF Child, InVector
  <1>3. Share(info_(p)) \in Vectors /\ Share(values(Share(info_(p)))) \in Buffers
    BY <1>2, PointerFacts
  <1>4. Share(info_(p)) \in Blocks /\ Share(values(Share(info_(p)))) # None
    BY <1>3, HandlesAssumption DEF Blocks
  <1>5. /\ origin[info_(p)] \in {0, 1} /\ Note({info_(q)}, origin[info_(p)])
        /\ content[BytesAt(Share(info_(p)))] = origin[info_(p)]
    BY <1>2, PointerFacts DEF Child
  <1> QED
    BY <1>1, <1>2, <1>3, <1>4, <1>5, MakeStep

LEMMA ElementStep ==
  ASSUME Inv, ~Dangling(heap), NEW p \in Pointers, NEW q \in Pointers, Element(p, q)
  PROVE  Inv'
  <1> DEFINE b == Share(values(Share(info_(p))))
  <1>1. /\ p \in named /\ at[p] \in InVector
        /\ Make(heap, q, b, ElementOf(at[p])) /\ ElementOf(at[p]) \in Elements
    BY DEF Element, InVector, ElementOf, Elements
  <1>2. b \in Buffers
    BY <1>1, PointerFacts
  <1>3. b \in Blocks /\ b \notin Vectors
    BY <1>2, HandlesAssumption DEF Blocks
  <1>4. /\ origin[info_(p)] \in {0, 1} /\ Note({info_(q)}, origin[info_(p)])
        /\ content[BytesAt(b)] = origin[info_(p)]
    <2>1. BytesAt(Share(info_(p))) = b /\ BytesAt(b) = b
      BY <1>1, <1>3, PointerFacts DEF BytesAt
    <2> QED
      BY <1>1, <2>1, PointerFacts DEF Element
  <1> QED
    BY <1>1, <1>2, <1>3, <1>4, MakeStep

LEMMA CopyStep ==
  ASSUME Inv, ~Dangling(heap), NEW p \in Pointers, NEW q \in Pointers, Copy(p, q)
  PROVE  Inv'
  <1> DEFINE x == Share(info_(p))
  <1>1. p \in named /\ Make(heap, q, x, at[p])
    BY DEF Copy
  <1>2. /\ x \in Blocks /\ at[p] \in InVector \cup Elements
        /\ at[p] \in InVector => x \in Vectors /\ Share(values(x)) \in Buffers
        /\ at[p] \in Elements => x \in Buffers
    BY <1>1, PointerFacts
  <1>3. (x \in Vectors /\ at[p] \in InVector) \/ (x \in Buffers /\ at[p] \in Elements)
    BY <1>2
  <1>4. x \in Vectors => Share(values(x)) # None
    BY <1>2, HandlesAssumption
  <1>5. /\ origin[info_(p)] \in {0, 1} /\ Note({info_(q)}, origin[info_(p)])
        /\ content[BytesAt(x)] = origin[info_(p)]
    BY <1>1, PointerFacts DEF Copy
  <1> QED
    BY <1>1, <1>2, <1>3, <1>4, <1>5, MakeStep

LEMMA YieldStep ==
  ASSUME Inv, ~Dangling(heap), NEW q \in Pointers, Yield(q)
  PROVE  Inv'
  <1>1. borrow \in Pointers /\ at[borrow] \in InVector
    BY DEF Yield, Inv, RestTyped, InVector
  <1>2. PICK place \in Arrays : Make(heap, q, Share(info_(borrow)), place)
    BY DEF Yield
  <1>3. Share(info_(borrow)) \in Vectors /\ Share(values(Share(info_(borrow)))) \in Buffers
    BY <1>1, PointerFacts
  <1>4. Share(info_(borrow)) \in Blocks /\ Share(values(Share(info_(borrow)))) # None
    BY <1>3, HandlesAssumption DEF Blocks
  <1>5. place \in InVector
    BY <1>2 DEF InVector
  <1>6. /\ origin[info_(borrow)] \in {0, 1} /\ Note({info_(q)}, origin[info_(borrow)])
        /\ content[BytesAt(Share(info_(borrow)))] = origin[info_(borrow)]
    BY <1>1, PointerFacts DEF Yield
  <1> QED
    BY <1>2, <1>3, <1>4, <1>5, <1>6, MakeStep

\* An assignment on a heap with the same shares.
LEMMA AssignedStep ==
  ASSUME Inv, NEW h, Heap(h, None, None), ~Dangling(h), h.share = heap.share,
         NEW p \in Pointers, NEW q \in Pointers, p \in named, q \in named, borrow # p,
         heap' = Assigned(h, info_(p), Share(info_(q))),
         at' = [at EXCEPT ![p] = at[q]],
         Note({info_(p)}, origin[info_(q)]),
         UNCHANGED <<named, borrow, content>>
  PROVE  Inv'
  <1> DEFINE x == Share(info_(q))
  <1>2. /\ x \in Blocks /\ at[q] \in InVector \cup Elements
        /\ at[q] \in InVector => x \in Vectors /\ Share(values(x)) \in Buffers
        /\ at[q] \in Elements => x \in Buffers
        /\ origin[info_(q)] \in {0, 1} /\ content[BytesAt(x)] = origin[info_(q)]
    BY PointerFacts
  <1>3. /\ info_(p) \in Owners /\ info_(p)[1] = "info_" /\ x \in Kind(info_(p))
        /\ x \in Vectors => h.share[values(x)] # None
    BY <1>2, OwnerNames, HandlesAssumption DEF Kind, Share
  <1>4. /\ Heap(heap', None, None) /\ heap'.share[info_(p)] = x
        /\ OthersKept(heap', heap, info_(p))
    <2>1. /\ Heap(heap', None, None) /\ heap'.share[info_(p)] = x
          /\ OthersKept(heap', h, info_(p))
      BY <1>3, AssignedKeepsHeap
    <2> QED
      BY <2>1 DEF OthersKept
  <1>5. /\ \A r \in Pointers : r # p => heap'.share[info_(r)] = heap.share[info_(r)]
        /\ \A m \in Messages : /\ heap'.share[raw_buffer(m)] = heap.share[raw_buffer(m)]
                               /\ heap'.share[data_(m)] = heap.share[data_(m)]
        /\ \A v \in Vectors : heap'.share[values(v)] \in {None, heap.share[values(v)]}
    BY <1>4, OwnerNames, OwnerIsOne DEF OthersKept, raw_buffer, data_, info_
  <1>6. RestTyped'
    BY DEF Inv, RestTyped
  <1>7. MessagesOK'
    BY <1>4, <1>5, MessagesKept DEF Inv
  <1>9. BytesOK'
    <2>1. info_(p) \in Owners /\ info_(p)[1] # "values"
      BY OwnerNames
    <2>2. BytesOK /\ content' = content
      BY DEF Inv
    <2> QED
      BY <1>2, <1>4, <2>1, <2>2, BytesKept
  <1>8. PlacesOK'
    <2>1. at[q] # "none" /\ x # None
      BY DEF Inv, PlacesOK
    <2> SUFFICES ASSUME NEW r \in Pointers
                 PROVE  /\ heap'.share[info_(r)] # None <=> (r \in named' \/ borrow' = r)
                        /\ at'[r] = "none" <=> heap'.share[info_(r)] = None
                        /\ at'[r] \in InVector => heap'.share[info_(r)] \in Vectors
                        /\ at'[r] \in Elements => heap'.share[info_(r)] \in Buffers
                        /\ borrow' = r => at'[r] \in InVector
      BY <1>6 DEF PlacesOK, RestTyped, Share
    <2>2. CASE r = p
      BY <1>2, <1>4, <2>1, <2>2 DEF Inv, RestTyped
    <2>3. CASE r # p
      BY <1>5, <2>3, HandlesAssumption DEF Inv, RestTyped, PlacesOK, Share
    <2> QED
      BY <2>2, <2>3
  <1> QED
    BY <1>4, <1>6, <1>7, <1>8, <1>9 DEF Inv

LEMMA AssignStep ==
  ASSUME Inv, ~Dangling(heap), NEW p \in Pointers, NEW q \in Pointers, Assign(p, q)
  PROVE  Inv'
  <1>1. Heap(heap, None, None)
    BY DEF Inv
  <1> QED
    BY <1>1, AssignedStep DEF Assign

\* The share that is let go of twice is of a buffer, and is noted.
LEMMA DestroyedMemberKeepsHeap ==
  ASSUME NEW h, Heap(h, None, None), ~Dangling(h), NEW b \in Buffers,
         NEW o \in Owners, h.share[o] = b
  PROVE  /\ Heap(DestroyedMember(h, b), None, None)
         /\ DestroyedMember(h, b).share = h.share
  <1>1. b \in Blocks /\ b \notin Vectors /\ b # None /\ Typed(h) /\ None \notin Blocks
    BY HandlesAssumption DEF Blocks, Heap
  <1>2. h.count[b] > 0
    BY <1>1 DEF Dangling, Typed, HeapRecord
  <1>3. PICK g : g = Less(h, b)
    OBVIOUS
  <1>4. /\ g.share = h.share /\ g.count = [h.count EXCEPT ![b] = @ - 1]
        /\ g.miscounted = h.miscounted /\ Typed(g)
    BY <1>1, <1>2, <1>3, LessParts
  <1>5. Release(h, b) = g
    BY <1>1, <1>3 DEF Release, Less
  <1>6. PICK k : k = [g EXCEPT !.miscounted = [g.miscounted EXCEPT ![b] = @ + 1]]
    OBVIOUS
  <1>7. /\ k.share = h.share /\ k.count = g.count
        /\ k.miscounted = [h.miscounted EXCEPT ![b] = @ + 1]
        /\ k \in HeapRecord
    BY <1>1, <1>4, <1>6 DEF Typed, HeapRecord
  <1>8. k = DestroyedMember(h, b)
    BY <1>5, <1>6 DEF DestroyedMember
  <1>9. Typed(k)
    BY <1>1, <1>7 DEF Typed, HeapRecord, Blocks
  <1>10. Counted(k, None)
    <2> SUFFICES ASSUME NEW z \in Blocks
                 PROVE  k.count[z] + k.miscounted[z] = Cardinality(OwnersOf(k, z))
      BY <1>1, OwnersOfFinite DEF Counted
    <2>1. OwnersOf(k, z) = OwnersOf(h, z)
      BY <1>7 DEF OwnersOf
    <2>2. h.count[z] + h.miscounted[z] = Cardinality(OwnersOf(h, z))
      BY <1>1, OwnersOfFinite DEF Heap, Counted
    <2>3. /\ k.count[z] = h.count[z] - (IF z = b THEN 1 ELSE 0) /\ h.count[z] \in Nat
          /\ k.miscounted[z] = h.miscounted[z] + (IF z = b THEN 1 ELSE 0)
          /\ h.miscounted[z] \in Nat
      BY <1>1, <1>4, <1>7 DEF Typed, HeapRecord
    <2> QED
      BY <2>1, <2>2, <2>3
  <1>11. Filled(k, None)
    <2>1. \A u \in Vectors : k.count[u] = h.count[u] /\ k.share[values(u)] = h.share[values(u)]
      BY <1>1, <1>4, <1>7 DEF Typed, HeapRecord, Blocks
    <2> QED
      BY <2>1 DEF Heap, Filled
  <1> QED
    BY <1>7, <1>8, <1>9, <1>10, <1>11 DEF Heap

LEMMA AssignAcrossStep ==
  ASSUME Inv, ~Dangling(heap), NEW p \in Pointers, NEW q \in Pointers, AssignAcross(p, q)
  PROVE  Inv'
  <1>1. /\ p \in named /\ q \in named /\ borrow # p /\ Across(p, q)
        /\ UNCHANGED <<named, borrow, content>>
    BY DEF AssignAcross
  <1>2. at[p] \in Elements
    BY <1>1 DEF Across
  <1>3. PICK b \in Buffers : b = Share(info_(p))
    BY <1>1, <1>2, PointerFacts
  <1>4. PICK once : once = DestroyedMember(heap, b)
    OBVIOUS
  <1>5. Heap(once, None, None) /\ once.share = heap.share
    BY <1>3, <1>4, OwnerNames, DestroyedMemberKeepsHeap DEF Inv, Share
  <1>6. CASE heap' = once /\ UNCHANGED <<at, origin>>
    <2>1. Heap(heap, None, None)' /\ heap'.share = heap.share
      BY <1>5, <1>6
    <2>2. RestTyped' /\ PlacesOK'
      BY <1>1, <1>6, <2>1 DEF Inv, RestTyped, PlacesOK, Share
    <2>3. MessagesOK' /\ BytesOK'
      BY <1>1, <1>6, <2>1
      DEF Inv, MessagesOK, BytesOK, MessageKeepsItsBytes, Bytes, Share
    <2> QED
      BY <2>1, <2>2, <2>3 DEF Inv
  <1>7. CASE /\ ~Dangling(once)
             /\ heap' = Assigned(once, info_(p), Share(info_(q)))
             /\ at' = [at EXCEPT ![p] = at[q]]
             /\ Note({info_(p)}, origin[info_(q)])
    BY <1>1, <1>5, <1>7, AssignedStep
  <1> QED
    BY <1>3, <1>4, <1>6, <1>7 DEF AssignAcross

\* Nobody needs p any more.
LEMMA LetGo ==
  ASSUME Inv, ~Dangling(heap), NEW p \in Pointers,
         heap' = Destroyed(heap, info_(p)), at' = [at EXCEPT ![p] = "none"],
         content' = content, Note({}, 0),
         named' = named \ {p}, borrow' \in {borrow, None}, borrow' # p,
         borrow = p \/ borrow' = borrow
  PROVE  Inv'
  <1>1. /\ Heap(heap', None, None) /\ heap'.share[info_(p)] = None
        /\ OthersKept(heap', heap, info_(p))
    BY OwnerNames, DestroyedKeepsHeap DEF Inv
  <1>2. /\ \A r \in Pointers : r # p => heap'.share[info_(r)] = heap.share[info_(r)]
        /\ \A m \in Messages : /\ heap'.share[raw_buffer(m)] = heap.share[raw_buffer(m)]
                               /\ heap'.share[data_(m)] = heap.share[data_(m)]
        /\ \A v \in Vectors : heap'.share[values(v)] \in {None, heap.share[values(v)]}
    BY <1>1, OwnerNames, OwnerIsOne DEF OthersKept, raw_buffer, data_, info_
  <1>3. RestTyped'
    BY DEF Inv, RestTyped, Place
  <1>4. MessagesOK'
    BY <1>1, <1>2, MessagesKept DEF Inv
  <1>6. BytesOK'
    <2>1. info_(p) \in Owners /\ info_(p)[1] # "values"
      BY OwnerNames
    <2>2. BytesOK
      BY DEF Inv
    <2> QED
      BY <1>1, <2>1, <2>2, BytesKept
  <1>5. PlacesOK'
    <2> SUFFICES ASSUME NEW r \in Pointers
                 PROVE  /\ heap'.share[info_(r)] # None <=> (r \in named' \/ borrow' = r)
                        /\ at'[r] = "none" <=> heap'.share[info_(r)] = None
                        /\ at'[r] \in InVector => heap'.share[info_(r)] \in Vectors
                        /\ at'[r] \in Elements => heap'.share[info_(r)] \in Buffers
                        /\ borrow' = r => at'[r] \in InVector
      BY <1>3 DEF PlacesOK, RestTyped, Share
    <2>1. CASE r = p
      BY <1>1, <2>1 DEF Inv, RestTyped, InVector, Arrays, Elements
    <2>2. CASE r # p
      BY <1>2, <2>2, HandlesAssumption DEF Inv, RestTyped, PlacesOK, Share
    <2> QED
      BY <2>1, <2>2
  <1> QED
    BY <1>1, <1>3, <1>4, <1>5, <1>6 DEF Inv

\* What nothing was done to stays noted.
LEMMA AllKept ==
  ASSUME Inv, UNCHANGED <<heap, content>>, Note({}, 0)
  PROVE  Heap(heap, None, None)' /\ MessagesOK' /\ BytesOK'
  <1>1. Heap(heap, None, None)' /\ MessagesOK' /\ BytesOK
    BY DEF Inv, MessagesOK, Share
  <1>2. AsNoted({}, 0)
    BY DEF AsNoted, Bytes, Share
  <1> QED
    BY <1>1, <1>2, NotedBytes

LEMMA BorrowStep ==
  ASSUME Inv, ~Dangling(heap), NEW p \in Pointers, Borrow(p)
  PROVE  Inv'
  <1>1. /\ UNCHANGED <<heap, at, named, content, origin>> /\ borrow' = p
        /\ borrow = None /\ p \in named /\ at[p] \in InVector
    BY DEF Borrow
  <1>2. RestTyped' /\ MessagesOK' /\ BytesOK'
    BY <1>1
    DEF Inv, RestTyped, MessagesOK, BytesOK, MessageKeepsItsBytes, Bytes, Share
  <1>3. Heap(heap, None, None)'
    BY <1>1 DEF Inv
  <1>4. PlacesOK'
    BY <1>1, HandlesAssumption DEF Inv, PlacesOK, Share
  <1> QED
    BY <1>2, <1>3, <1>4 DEF Inv

LEMMA DropStep ==
  ASSUME Inv, ~Dangling(heap), NEW p \in Pointers, Drop(p)
  PROVE  Inv'
  <1>1. CASE borrow = p
    <2>1. /\ UNCHANGED <<heap, at, borrow, content>> /\ Note({}, 0) /\ named' = named \ {p}
      BY <1>1 DEF Drop, Pinned
    <2>2. RestTyped'
      BY <2>1 DEF Inv, RestTyped
    <2>3. Heap(heap, None, None)' /\ MessagesOK' /\ BytesOK'
      BY <2>1, AllKept
    <2>4. PlacesOK'
      BY <1>1, <2>1 DEF Inv, PlacesOK, Share
    <2> QED
      BY <2>2, <2>3, <2>4 DEF Inv
  <1>2. CASE borrow # p
    BY <1>2, LetGo DEF Drop, Pinned
  <1> QED
    BY <1>1, <1>2

LEMMA EndBorrowStep ==
  ASSUME Inv, ~Dangling(heap), EndBorrow
  PROVE  Inv'
  <1>1. PICK p \in Pointers : p = borrow /\ p # None
    BY HandlesAssumption DEF Inv, RestTyped, EndBorrow
  <1>2. CASE p \in named
    <2>1. /\ UNCHANGED <<heap, at, named, content>> /\ Note({}, 0) /\ borrow' = None
      BY <1>1, <1>2 DEF EndBorrow
    <2>2. RestTyped'
      BY <2>1 DEF Inv, RestTyped
    <2>3. Heap(heap, None, None)' /\ MessagesOK' /\ BytesOK'
      BY <2>1, AllKept
    <2>4. PlacesOK'
      BY <1>1, <1>2, <2>1, HandlesAssumption DEF Inv, PlacesOK, Share
    <2> QED
      BY <2>2, <2>3, <2>4 DEF Inv
  <1>3. CASE p \notin named
    <2>1. /\ heap' = Destroyed(heap, info_(p)) /\ at' = [at EXCEPT ![p] = "none"]
          /\ content' = content /\ Note({}, 0) /\ borrow' = None /\ named' = named
      BY <1>1, <1>3 DEF EndBorrow
    <2>2. named' = named \ {p}
      BY <1>3, <2>1
    <2> QED
      BY <1>1, <2>1, <2>2, LetGo
  <1> QED
    BY <1>2, <1>3

LEMMA StepKeepsInv == Inv /\ [Next]_vars => Inv'
  <1> SUFFICES ASSUME Inv, [Next]_vars PROVE Inv'
    OBVIOUS
  <1>1. CASE UNCHANGED vars
    BY <1>1 DEF vars, Inv, Heap, Typed, Counted, Filled, OwnersOf, HeapRecord, RestTyped,
                PlacesOK, MessagesOK, BytesOK, MessageKeepsItsBytes, Bytes, Share
  <1>2. CASE ~Dangling(heap) /\ (NextChunk \/ DropView)
    BY <1>2, NextChunkStep, DropViewStep
  <1>3. CASE ~Dangling(heap) /\ \E m \in Messages : Dereference(m) \/ DropMessage(m)
    BY <1>3, DereferenceStep, DropMessageStep
  <1>4. CASE ~Dangling(heap) /\ \E m \in Messages, p \in Pointers : Data(m, p)
    BY <1>4, DataStep
  <1>5. CASE ~Dangling(heap) /\ \E p, q \in Pointers : Child(p, q) \/ Element(p, q) \/ Copy(p, q)
    BY <1>5, ChildStep, ElementStep, CopyStep
  <1>8. CASE ~Dangling(heap) /\ \E p, q \in Pointers : Assign(p, q) \/ AssignAcross(p, q)
    BY <1>8, AssignStep, AssignAcrossStep
  <1>6. CASE ~Dangling(heap) /\ \E p \in Pointers : Borrow(p) \/ Yield(p) \/ Drop(p)
    BY <1>6, BorrowStep, YieldStep, DropStep
  <1>7. CASE ~Dangling(heap) /\ EndBorrow
    BY <1>7, EndBorrowStep
  <1> QED
    BY <1>1, <1>2, <1>3, <1>4, <1>5, <1>6, <1>7, <1>8 DEF Next, Step

LEMMA HeapIsSound == Spec => []Inv
  BY InitOK, StepKeepsInv, PTL DEF Spec

-----------------------------------------------------------------------------
(* The theorems.                                                           *)

\* Every share is of a block or of nothing, and every Pointer is at a place.
THEOREM TypeCorrect == Spec => []TypeOK
  <1>1. Inv => TypeOK
    BY DEF Inv, Heap, Typed, HeapRecord, RestTyped, BytesOK, TypeOK
  <1> QED
    BY <1>1, HeapIsSound, PTL

\* The use count of a block falls short of the number of its owners by the
\* assignments between types that replaced a value in it: every one of these
\* miscounts by one, and nothing else that is done with a RosValue::Pointer
\* does, no copy, child, element, other assignment or destruction
\* (ros_value.h:239 to 284).
THEOREM CountsAreExact == Spec => []CountsExact
  <1>1. Inv => CountsExact
    <2> SUFFICES ASSUME Inv, NEW x \in Blocks
                 PROVE  heap.count[x] + heap.miscounted[x]
                          = Cardinality({o \in Owners : Share(o) = x})
      BY DEF CountsExact
    <2>1. heap.count[x] + heap.miscounted[x] = Cardinality(OwnersOf(heap, x))
      BY HandlesAssumption, OwnersOfFinite DEF Inv, Heap, Counted, Blocks
    <2> QED
      BY <2>1 DEF OwnersOf, Share
  <1> QED
    BY <1>1, HeapIsSound, PTL

\* Nothing leaks, and nothing dangles but what an assignment between types
\* miscounted: a vector never, and a buffer only if a value in it was replaced
\* so.  What an iterator or memoryview refers to is in use.
THEOREM NothingDanglesOrLeaks == Spec => []LiveIffReachable
  <1>1. Inv => LiveIffReachable
    <2> SUFFICES ASSUME Inv PROVE LiveIffReachable
      OBVIOUS
    <2>1. ASSUME NEW x \in Blocks
          PROVE  /\ ~Unused(x) => \E o \in Owners : Share(o) = x
                 /\ (\E o \in Owners : Share(o) = x) /\ heap.miscounted[x] = 0 => ~Unused(x)
      <3>1. x # None
        BY HandlesAssumption DEF Blocks
      <3>2. /\ heap.count[x] + heap.miscounted[x] = Cardinality(OwnersOf(heap, x))
            /\ heap.count[x] \in Nat /\ heap.miscounted[x] \in Nat
        BY <3>1, OwnersOfFinite DEF Inv, Heap, Counted, Typed, HeapRecord
      <3>3. Cardinality(OwnersOf(heap, x)) = 0 <=> ~\E o \in Owners : Share(o) = x
        BY OwnersOfFinite DEF Share
      <3> QED
        BY <3>2, <3>3 DEF Unused
    <2>2. ASSUME NEW v \in Vectors, Share(values(v)) # None
          PROVE  \E o \in Roots : Share(o) = v
      <3>1. v \in Blocks /\ v # None
        BY HandlesAssumption DEF Blocks
      <3>2. heap.count[v] # 0
        BY <2>2, <3>1 DEF Inv, Heap, Filled, Share
      <3>3. PICK o \in Owners : Share(o) = v
        BY <2>1, <3>1, <3>2 DEF Unused
      <3>4. o[1] # "values"
        BY <3>1, <3>3, OwnerKinds DEF Inv, Heap, Share
      <3> QED
        BY <3>3, <3>4 DEF Roots
    <2>3. ASSUME NEW x \in Blocks
          PROVE  (\E o \in Owners : Share(o) = x) <=> Reachable(x)
      <3>1. x # None
        BY HandlesAssumption DEF Blocks
      <3>2. ASSUME NEW o \in Owners, Share(o) = x, o \notin Roots
            PROVE  \E v \in Vectors : o = values(v)
        BY <3>2 DEF Roots, Owners, current_buffer, values
      <3>3. Roots \subseteq Owners /\ \A v \in Vectors : values(v) \in Owners
        BY OwnerNames DEF Roots
      <3> QED
        BY <2>2, <3>1, <3>2, <3>3 DEF Reachable
    <2>4. \A v \in Vectors : heap.miscounted[v] = 0
      BY DEF Inv, Heap, Typed
    <2>5. \A p \in Pointers : p \in named \/ borrow = p => Share(info_(p)) # None
      BY DEF Inv, PlacesOK
    <2> QED
      BY <2>1, <2>3, <2>4, <2>5 DEF LiveIffReachable
  <1> QED
    BY <1>1, HeapIsSound, PTL

\* A message, its values, and every Pointer and element made of them lead to
\* the bytes they were read from, also when the iteration went on to other
\* chunks and when the message is gone (view.cc:85).
THEOREM BytesAreKept == Spec => []MessageKeepsItsBytes
  <1>1. Inv => MessageKeepsItsBytes
    BY DEF Inv, BytesOK
  <1> QED
    BY <1>1, HeapIsSound, PTL

=============================================================================
