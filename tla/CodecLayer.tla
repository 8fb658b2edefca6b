------------------------------ MODULE CodecLayer ------------------------------
(***************************************************************************)
(* How a codec of @solana/kit, and Borsh likewise, lays out a value that has  *)
(* parts, whatever codec writes and reads a part: the items of an option or   *)
(* a vector one after the other behind their number, the fields of a struct   *)
(* in their order.  What is read of a part is read where the part before it   *)
(* was found to end.                                                        *)
(***************************************************************************)
EXTENDS Cells

CONSTANTS EncodePart(_, _),   \* the cells of a part, by its codec and its value
          DecodePart(_, _)    \* its value, and the cells after it

\* The parts one after the other.  (FlattenSeq of SequencesExt, without that module: this
\* one is instantiated once for every layer, and what it extends with it.)
Flat(parts) ==
    IF Len(parts) = 0 THEN parts
    ELSE LET flat[i \in 1..Len(parts)] == IF i = 1 THEN parts[i] ELSE flat[i - 1] \o parts[i]
         IN  flat[Len(parts)]

\* The length that a vector or an optional value begins with.
Prefix(codec) == IF codec.shape = "option" THEN 1 ELSE 4

Encode(codec, value) ==
    CASE codec.shape = "scalar" -> <<Cell(codec.width, value)>>
      [] codec.shape = "sized"  ->
            <<Cell(4, Number(Len(value)))>> \o [i \in 1..Len(value) |-> Cell(1, value[i])]
      [] codec.shape \in {"option", "vector"} ->
            <<Cell(Prefix(codec), Number(Len(value)))>>
            \o Flat([i \in 1..Len(value) |-> EncodePart(codec.of, value[i])])
      [] codec.shape = "struct" ->
            Flat([i \in 1..Len(codec.fields) |->
                     EncodePart(codec.fields[i][2], value[codec.fields[i][1]])])

\* Parts of these codecs, read one after the other.
DecodeParts(codecs, bytes) ==
    LET after[i \in 0..Len(codecs)] ==
            IF i = 0 THEN bytes ELSE DecodePart(codecs[i], after[i - 1]).rest
    IN  [value |-> [i \in 1..Len(codecs) |-> DecodePart(codecs[i], after[i - 1]).value],
         rest  |-> after[Len(codecs)]]

Names(codec) == {codec.fields[i][1] : i \in DOMAIN codec.fields}
Place(codec, name) == CHOOSE i \in DOMAIN codec.fields : codec.fields[i][1] = name

\* The value of codec that bytes begin with, and the bytes after it.
Decode(codec, bytes) ==
    CASE codec.shape = "scalar" -> Take(codec.width, bytes)
      [] codec.shape = "sized"  ->
            LET n == Take(4, bytes)
                len == IF Count(n.value) <= Len(n.rest) THEN Count(n.value) ELSE 0
            IN  [value |-> [i \in 1..len |-> n.rest[i].value],
                 rest  |-> SubSeq(n.rest, len + 1, Len(n.rest))]
      [] codec.shape \in {"option", "vector"} ->
            LET n == Take(Prefix(codec), bytes)
            IN  DecodeParts([i \in 1..Count(n.value) |-> codec.of], n.rest)
      [] codec.shape = "struct" ->
            LET parts == DecodeParts([i \in 1..Len(codec.fields) |-> codec.fields[i][2]], bytes)
            IN  [value |-> [name \in Names(codec) |-> parts.value[Place(codec, name)]],
                 rest  |-> parts.rest]
=============================================================================
