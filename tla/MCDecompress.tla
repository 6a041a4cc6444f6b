---------------------------- MODULE MCDecompress ----------------------------
(***************************************************************************)
(* Values for the constants of Decompress: every sequence of symbols up to *)
(* MaxData, whole, torn and damaged frames among them, and longer ones of  *)
(* one frame, of two frames, and of a frame with something else behind it. *)
(***************************************************************************)
EXTENDS Decompress, SequencesExt

CONSTANTS MaxData, MaxSize

Symbols == Units \cup {"head", "end", "damaged"}

Frame(units) == <<"head">> \o units \o <<"end">>

Longer ==
  {Frame(u) : u \in TupleOf(Units, 3)}
    \cup {Frame(u) \o Frame(v) : u, v \in SeqOf(Units, 2)}
    \cup {Frame(<<x>>) \o rest : x \in Units, rest \in SeqOf(Units \cup {"end"}, 3)}

MCChunks ==
  [compression : {"lz4"}, data : SeqOf(Symbols, MaxData), uncompressed_size : 1..MaxSize]
    \cup [compression : {"lz4"}, data : Longer, uncompressed_size : {2, 3, 4}]
    \cup [compression : {"bz2"}, data : SeqOf(Symbols, MaxData - 1) \cup Longer,
          uncompressed_size : 1..MaxSize]
    \cup [compression : {"none"}, data : SeqOf(Units, MaxSize), uncompressed_size : 1..MaxSize]

=============================================================================
