-------------------------------- MODULE Codecs --------------------------------
(***************************************************************************)
(* The codecs of @solana/kit that the generated clients are put together     *)
(* from, and Borsh, which lays out the same shapes in the same way.          *)
(*                                                                          *)
(* A value is a tuple of strings when it is scalar, a record when it is a    *)
(* struct, a sequence when it is a vector, and a sequence of at most one     *)
(* element when it is optional.  Nothing in the program nests deeper than     *)
(* the metadata of an agent: arguments, of which one is optional, a list, of  *)
(* entries, of texts; hence four layers above the scalars.                   *)
(***************************************************************************)
EXTENDS Cells

EncodeScalar(codec, value) == <<Cell(codec.width, value)>>
DecodeScalar(codec, bytes) == Take(codec.width, bytes)

Records == INSTANCE CodecLayer WITH EncodePart <- EncodeScalar, DecodePart <- DecodeScalar
Lists == INSTANCE CodecLayer WITH EncodePart <- Records!Encode, DecodePart <- Records!Decode
Options == INSTANCE CodecLayer WITH EncodePart <- Lists!Encode, DecodePart <- Lists!Decode
Whole == INSTANCE CodecLayer WITH EncodePart <- Options!Encode, DecodePart <- Options!Decode

Encode(codec, value) == Whole!Encode(codec, value)
Decode(codec, bytes) == Whole!Decode(codec, bytes)
=============================================================================
