--------------------------------- MODULE Cells ---------------------------------
(***************************************************************************)
(* What bytes are here: cells, each so many bytes that hold one scalar, and  *)
(* a scalar is a tuple of strings.  A codec is a record that says how a      *)
(* value is laid out in cells.                                              *)
(***************************************************************************)
EXTENDS Naturals, Sequences, TLC

Scalar(width) == [shape |-> "scalar", width |-> width]
U8 == Scalar(1)
Bool == Scalar(1)
U16 == Scalar(2)
U32 == Scalar(4)
U64 == Scalar(8)
I64 == Scalar(8)
Pubkey == Scalar(32)
FixedBytes(n) == Scalar(n)
Sized == [shape |-> "sized", prefix |-> 4]          \* u32 length, then bytes
Text == Scalar(0)                                   \* a string, its length included
Option(of) == [shape |-> "option", of |-> of]
Vector(of) == [shape |-> "vector", of |-> of]
Struct(fields) == [shape |-> "struct", fields |-> fields]

\* An object spread over another: the values of f, and those of g for what f leaves out.
f ++ g == [n \in DOMAIN f \cup DOMAIN g |-> IF n \in DOMAIN f THEN f[n] ELSE g[n]]

Cell(width, value) == [width |-> width, value |-> value]
Number(n) == <<ToString(n)>>
MaxLength == 1000

\* Numbers that differ are written differently.
ASSUME NumberAssumption == \A m, n \in 0..MaxLength : ToString(m) = ToString(n) => m = n

\* What is read where the bytes are not what the reader expects there.
Garbage == <<"?">>

\* The scalar that the next width bytes hold, and the bytes after it.
Take(width, bytes) ==
    IF bytes # <<>> /\ Head(bytes).width = width
    THEN [value |-> Head(bytes).value, rest |-> Tail(bytes)]
    ELSE [value |-> Garbage, rest |-> bytes]

Count(value) ==
    IF \E n \in 0..MaxLength : Number(n) = value
    THEN CHOOSE n \in 0..MaxLength : Number(n) = value ELSE 0
=============================================================================
