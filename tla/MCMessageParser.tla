-------------------------- MODULE MCMessageParser --------------------------
(***************************************************************************)
(* Definitions that nest objects, arrays and strings in each other, and    *)
(* all buffers of a few units.                                             *)
(***************************************************************************)
EXTENDS ValueAccess, TLC

CONSTANTS
  BufferSize,  \* the size of the buffers
  MaxWord,     \* the largest value in them
  DataLengths, \* how long the data of a message is
  Tops         \* the definitions of the messages

Sizes == "byte" :> 1 @@ "word" :> 2 @@ "time" :> 2

Item(name, type, array, n, of) ==
  [name |-> name, const |-> FALSE, type |-> type, array |-> array, n |-> n, of |-> of]
Scalar(name, type) == Item(name, type, "none", 0, "Empty")
Many(name, type) == Item(name, type, "dynamic", 0, "Empty")
Constant(name) == [Scalar(name, "byte") EXCEPT !.const = TRUE]

Defs ==
     "Empty"  :> <<Constant("NONE")>>
  @@ "Header" :> <<Scalar("stamp", "time"), Scalar("frame_id", "string")>>
  @@ "Stamped" :> <<Item("header", "object", "none", 0, "Header"), Constant("X"),
                    Many("ranges", "word"), Scalar("last", "byte")>>
  @@ "Names" :> <<Many("names", "string"), Item("pair", "string", "fixed", 2, "Empty"),
                  Item("duo", "byte", "fixed", 2, "Empty")>>
  @@ "Nested" :> <<Constant("Y"), Item("rows", "object", "dynamic", 0, "Row")>>
  @@ "Row" :> <<Many("cells", "byte"), Item("marks", "object", "dynamic", 0, "Empty")>>
  @@ "Mixed" :> <<Item("boxes", "object", "fixed", 2, "Box"), Many("tail", "word")>>
  @@ "Box" :> <<Item("none", "object", "none", 0, "Empty"),
                Item("inner", "object", "dynamic", 0, "Label")>>
  @@ "Label" :> <<Scalar("text", "string")>>

AllMessages ==
  [raw_buffer : [1..BufferSize -> 0..MaxWord], raw_buffer_offset : 1..2,
   raw_data_len : DataLengths, msg_def_ : Tops]

\* The data of a message lies in the buffer.
MCMessages ==
  {m \in AllMessages : m.raw_buffer_offset + m.raw_data_len <= BufferSize + 1}

=============================================================================
