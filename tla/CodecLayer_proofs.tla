--------------------------- MODULE CodecLayer_proofs ---------------------------
(***************************************************************************)
(* A layer of codecs reads what it has written, if the codecs of the parts  *)
(* do: RoundTrip, for values of any length and structs of any fields.       *)
(*                                                                          *)
(* Fits(codec, value) says which values a codec can lay out, Returns what is *)
(* to be shown of them, and PartsReturn is the same of the parts.  A list is *)
(* read as far as it was written: that a part is read where the one before  *)
(* it was found to end is shown for all of them by induction, which comes   *)
(* as the assumption InductionHolds about sets of numbers, because this     *)
(* module is instantiated with operators, once for each layer.              *)
(***************************************************************************)
EXTENDS CodecLayer, TLAPS

CONSTANT FitsPart(_, _)       \* the values that the codec of a part lays out

-----------------------------------------------------------------------------
(* Induction over numbers, and sequences of anything                         *)

\* What induction over the numbers says of sets of them.  The library of proofs has it; who
\* instantiates this module four times over cites it from there once.
InductionHolds == \A S \in SUBSET Nat : 0 \in S /\ (\A n \in S : n + 1 \in S) => S = Nat

LEMMA Induction ==
    ASSUME InductionHolds, NEW S \in SUBSET Nat, 0 \in S, \A n \in S : n + 1 \in S
    PROVE  S = Nat
BY Zenon DEF InductionHolds

Sequence(s) == \E S : s \in Seq(S)

LEMMA TwoSequences ==
    ASSUME NEW s, NEW t, Sequence(s), Sequence(t)
    PROVE  \E S : s \in Seq(S) /\ t \in Seq(S)
<1>1. PICK A : s \in Seq(A) BY DEF Sequence
<1>2. PICK B : t \in Seq(B) BY DEF Sequence
<1>3. s \in Seq(A \cup B) BY <1>1
<1>4. t \in Seq(A \cup B) BY <1>2
<1> QED BY <1>3, <1>4

LEMMA Tabulated ==
    ASSUME NEW n \in Nat, NEW f, f = [i \in 1..n |-> f[i]]
    PROVE  Sequence(f) /\ Len(f) = n /\ DOMAIN f = 1..n
<1> DEFINE S == {f[i] : i \in 1..n}
<1>1. f \in [1..n -> S]
  OBVIOUS
<1> HIDE DEF S
<1>2. f \in Seq(S) /\ Len(f) = n /\ DOMAIN f = 1..n
  BY <1>1
<1> QED BY <1>2 DEF Sequence

LEMMA Length == ASSUME NEW s, Sequence(s)
    PROVE Len(s) \in Nat /\ DOMAIN s = 1..Len(s) /\ s = [i \in 1..Len(s) |-> s[i]]
BY DEF Sequence

LEMMA Equal ==
    ASSUME NEW s, NEW t, Sequence(s), Sequence(t), Len(s) = Len(t), \A i \in 1..Len(s) : s[i] = t[i]
    PROVE s = t
BY TwoSequences

LEMMA Concatenated ==
    ASSUME NEW s, NEW t, Sequence(s), Sequence(t)
    PROVE  /\ Sequence(s \o t)
           /\ Len(s \o t) = Len(s) + Len(t)
           /\ \A i \in 1..Len(s) : (s \o t)[i] = s[i]
           /\ \A i \in 1..Len(t) : (s \o t)[Len(s) + i] = t[i]
<1>1. PICK S : s \in Seq(S) /\ t \in Seq(S) BY TwoSequences
<1> QED BY <1>1 DEF Sequence

LEMMA Associative ==
    ASSUME NEW s, NEW t, NEW u, Sequence(s), Sequence(t), Sequence(u)
    PROVE  (s \o t) \o u = s \o (t \o u)
<1>1. PICK S : s \in Seq(S) /\ t \in Seq(S) BY TwoSequences
<1>2. PICK T : u \in Seq(T) BY DEF Sequence
<1>3. s \in Seq(S \cup T) /\ t \in Seq(S \cup T) /\ u \in Seq(S \cup T)
  BY <1>1, <1>2
<1> QED BY <1>3

LEMMA Prepended ==
    ASSUME NEW x, NEW s, Sequence(s)
    PROVE  /\ Sequence(<<x>>) /\ Sequence(<<x>> \o s)
           /\ (<<x>> \o s) # <<>> /\ Head(<<x>> \o s) = x /\ Tail(<<x>> \o s) = s
           /\ Len(<<x>> \o s) = 1 + Len(s)
           /\ (<<x>> \o s)[1] = x
<1>1. PICK A : s \in Seq(A) BY DEF Sequence
<1> DEFINE B == A \cup {x}
<1>2. s \in Seq(B) /\ <<x>> \in Seq(B) BY <1>1
<1> HIDE DEF B
<1>3. Head(<<x>> \o s) = x /\ Tail(<<x>> \o s) = s /\ (<<x>> \o s) # <<>>
  BY <1>2
<1>4. Len(<<x>> \o s) = 1 + Len(s) /\ (<<x>> \o s)[1] = x
  BY <1>2
<1>5. Sequence(<<x>>) /\ Sequence(<<x>> \o s)
  BY <1>2 DEF Sequence
<1> QED BY <1>3, <1>4, <1>5

LEMMA Empty ==
    ASSUME NEW s, Sequence(s)
    PROVE  <<>> \o s = s /\ s \o <<>> = s /\ Sequence(<<>>) /\ (Len(s) = 0 <=> s = <<>>)
<1>1. <<>> \in Seq({}) OBVIOUS
<1> QED BY <1>1 DEF Sequence

-----------------------------------------------------------------------------
(* Flat                                                                     *)

Sequences(s) == Sequence(s) /\ \A i \in 1..Len(s) : Sequence(s[i])

\* The function that Flat chooses is there.
LEMMA Flattening ==
    ASSUME InductionHolds, NEW s, NEW n \in Nat
    PROVE  \E f : f = [i \in 1..n |-> IF i = 1 THEN s[i] ELSE f[i - 1] \o s[i]]
<1> DEFINE P(k) == \E f : f = [i \in 1..k |-> IF i = 1 THEN s[i] ELSE f[i - 1] \o s[i]]
           S == {k \in Nat : P(k)}
<1>1. P(0)
  <2>1. [i \in 1..0 |-> <<>>]
        = [i \in 1..0 |-> IF i = 1 THEN s[i] ELSE [j \in 1..0 |-> <<>>][i - 1] \o s[i]]
    OBVIOUS
  <2> QED BY <2>1
<1>2. ASSUME NEW k \in Nat, P(k) PROVE P(k + 1)
  <2>1. PICK f : f = [i \in 1..k |-> IF i = 1 THEN s[i] ELSE f[i - 1] \o s[i]]
    BY <1>2
  <2> DEFINE last == IF k + 1 = 1 THEN s[k + 1] ELSE f[k] \o s[k + 1]
             g == [i \in 1..k + 1 |-> IF i = k + 1 THEN last ELSE f[i]]
  <2>2. ASSUME NEW i \in 1..k + 1
        PROVE  g[i] = IF i = 1 THEN s[i] ELSE g[i - 1] \o s[i]
    <3>1. CASE i = k + 1
      <4>1. CASE i = 1 BY <3>1, <4>1
      <4>2. CASE i # 1
        <5>1. i - 1 \in 1..k + 1 /\ i - 1 # k + 1 /\ i - 1 = k BY <3>1, <4>2
        <5>2. g[i - 1] = f[k] BY <5>1
        <5> QED BY <5>2, <3>1, <4>2
      <4> QED BY <4>1, <4>2
    <3>2. CASE i # k + 1
      <4>1. i \in 1..k /\ g[i] = f[i] BY <3>2
      <4>2. CASE i = 1 BY <4>1, <4>2, <2>1
      <4>3. CASE i # 1
        <5>1. i - 1 \in 1..k + 1 /\ i - 1 # k + 1 BY <4>1, <4>3
        <5>2. g[i - 1] = f[i - 1] BY <5>1
        <5>3. f[i] = f[i - 1] \o s[i] BY <2>1, <4>1, <4>3, Zenon
        <5> QED BY <5>2, <5>3, <4>1, <4>3
      <4> QED BY <4>2, <4>3
    <3> QED BY <3>1, <3>2
  <2> HIDE DEF last
  <2>3. g = [i \in 1..k + 1 |-> IF i = 1 THEN s[i] ELSE g[i - 1] \o s[i]]
    BY <2>2, Zenon
  <2> QED BY <2>3
<1> HIDE DEF P
<1>3. S = Nat
  <2>1. 0 \in S BY <1>1
  <2>2. \A k \in S : k + 1 \in S BY <1>2
  <2> HIDE DEF S
  <2>3. S \in SUBSET Nat BY DEF S
  <2> QED BY <2>1, <2>2, <2>3, Induction
<1>4. P(n) BY <1>3
<1> QED BY <1>4 DEF P

LEMMA FlattenEmpty == Flat(<<>>) = <<>>
BY DEF Flat

LEMMA FlattenUnfolds ==
    ASSUME InductionHolds, NEW s, Sequence(s), s # <<>>
    PROVE  \E f : /\ f = [i \in 1..Len(s) |-> IF i = 1 THEN s[i] ELSE f[i - 1] \o s[i]]
                  /\ Flat(s) = f[Len(s)]
<1> DEFINE f == CHOOSE f : f = [i \in 1..Len(s) |-> IF i = 1 THEN s[i] ELSE f[i - 1] \o s[i]]
<1>1. Len(s) \in Nat /\ Len(s) # 0 BY Length, Empty
<1>2. \E g : g = [i \in 1..Len(s) |-> IF i = 1 THEN s[i] ELSE g[i - 1] \o s[i]]
  BY <1>1, Flattening, Zenon
<1>3. f = [i \in 1..Len(s) |-> IF i = 1 THEN s[i] ELSE f[i - 1] \o s[i]]
  BY <1>2, Zenon
<1>4. Flat(s) = f[Len(s)]
  BY <1>1, Zenon DEF Flat
<1> HIDE DEF f
<1> QED BY <1>3, <1>4, Zenon

\* Flat, one sequence after the other.
Steps(f, s) ==
    /\ f[1] = s[1] /\ \A i \in 1..Len(s) : i # 1 => f[i] = f[i - 1] \o s[i]
    /\ Flat(s) = f[Len(s)]

LEMMA FlattenSteps ==
    ASSUME InductionHolds, NEW s, Sequence(s), s # <<>>
    PROVE  \E f : Steps(f, s)
<1>1. PICK f : /\ f = [i \in 1..Len(s) |-> IF i = 1 THEN s[i] ELSE f[i - 1] \o s[i]]
               /\ Flat(s) = f[Len(s)]
  BY FlattenUnfolds, Zenon
<1>2. \A i \in 1..Len(s) : f[i] = IF i = 1 THEN s[i] ELSE f[i - 1] \o s[i] BY <1>1, Zenon
<1>3. 1 \in 1..Len(s)
  <2>1. Len(s) \in Nat /\ Len(s) # 0 BY Length, Empty
  <2> QED BY <2>1
<1>4. f[1] = s[1] BY <1>2, <1>3, Zenon
<1>5. \A i \in 1..Len(s) : i # 1 => f[i] = f[i - 1] \o s[i] BY <1>2, Zenon
<1> QED BY <1>1, <1>4, <1>5, Zenon DEF Steps

LEMMA TailOf ==
    ASSUME NEW s, Sequence(s), s # <<>>
    PROVE  /\ Len(s) \in Nat \ {0} /\ Sequence(Tail(s)) /\ Len(Tail(s)) = Len(s) - 1
           /\ \A i \in 1..Len(Tail(s)) : Tail(s)[i] = s[i + 1]
           /\ s = <<s[1]>> \o Tail(s)
<1>1. PICK S : s \in Seq(S) BY DEF Sequence
<1>2. Tail(s) \in Seq(S) /\ Len(s) \in Nat \ {0} /\ Len(Tail(s)) = Len(s) - 1 BY <1>1
<1>3. \A i \in 1..Len(Tail(s)) : Tail(s)[i] = s[i + 1] BY <1>1, <1>2
<1>4. s = <<s[1]>> \o Tail(s) BY <1>1, <1>2
<1>5. Sequence(Tail(s)) BY <1>2 DEF Sequence
<1> QED BY <1>2, <1>3, <1>4, <1>5

\* f flattens s, and g what follows the first of s, step by step.
Along(s, t, f, g, n) ==
    /\ Sequence(s[1])
    /\ \A i \in 1..n : Sequence(t[i]) /\ t[i] = s[i + 1]
    /\ f[1] = s[1] /\ \A i \in 1..n : f[i + 1] = f[i] \o s[i + 1]
    /\ g[1] = t[1] /\ \A i \in 1..n : i # 1 => g[i] = g[i - 1] \o t[i]

Starts(whole, first, others) == whole = first \o others

LEMMA FlattenAlong ==
    ASSUME InductionHolds, NEW s, NEW t, NEW f, NEW g, NEW n \in Nat \ {0}, Along(s, t, f, g, n)
    PROVE  Sequence(g[n]) /\ Starts(f[n + 1], s[1], g[n])
<1> DEFINE P(i) == i \in 1..n => Sequence(g[i]) /\ f[i + 1] = s[1] \o g[i]
           S == {i \in Nat : P(i)}
<1>1. P(0) OBVIOUS
<1>2. ASSUME NEW i \in Nat, P(i) PROVE P(i + 1)
  <2>1. SUFFICES ASSUME i + 1 \in 1..n PROVE Sequence(g[i + 1]) /\ f[(i + 1) + 1] = s[1] \o g[i + 1]
    OBVIOUS
  <2>2. f[(i + 1) + 1] = f[i + 1] \o t[i + 1] /\ Sequence(t[i + 1]) BY <2>1, Zenon DEF Along
  <2>3. CASE i = 0
    <3>1. i + 1 = 1 BY <2>3
    <3> QED BY <2>2, <3>1, Zenon DEF Along
  <2>4. CASE i # 0
    <3>0. i \in 1..n /\ i + 1 # 1 /\ (i + 1) - 1 = i BY <2>1, <2>4
    <3>1. Sequence(g[i]) /\ f[i + 1] = s[1] \o g[i] BY <1>2, <3>0, Zenon DEF P
    <3>2. g[i + 1] = g[(i + 1) - 1] \o t[i + 1] BY <2>1, <3>0, Zenon DEF Along
    <3>5. g[i + 1] = g[i] \o t[i + 1] BY <3>2, <3>0, Zenon
    <3>3. (s[1] \o g[i]) \o t[i + 1] = s[1] \o (g[i] \o t[i + 1])
      <4>1. Sequence(s[1]) BY DEF Along
      <4>2. Sequence(g[i]) /\ Sequence(t[i + 1]) BY <2>2, <3>1
      <4>3. PICK a, b, c : a = s[1] /\ b = g[i] /\ c = t[i + 1] OBVIOUS
      <4>4. Sequence(a) /\ Sequence(b) /\ Sequence(c) BY <4>1, <4>2, <4>3, Zenon
      <4>5. (a \o b) \o c = a \o (b \o c) BY <4>4, Associative
      <4> QED BY <4>3, <4>5, Zenon
    <3>4. Sequence(g[i] \o t[i + 1]) BY <2>2, <3>1, Concatenated, Zenon
    <3> QED BY <2>2, <3>1, <3>5, <3>3, <3>4, Zenon
  <2> QED BY <2>3, <2>4, Zenon
<1> HIDE DEF P
<1>3. 0 \in S BY <1>1
<1>4. \A i \in S : i + 1 \in S BY <1>2
<1>5. S \in SUBSET Nat OBVIOUS
<1> HIDE DEF S
<1>6. n \in S BY <1>3, <1>4, <1>5, Induction
<1>7. P(n) BY <1>6, Zenon DEF S
<1>8. n \in 1..n OBVIOUS
<1> QED BY <1>7, <1>8, Zenon DEF P, Starts

LEMMA Flattened ==
    ASSUME InductionHolds, NEW s, Sequences(s), s # <<>>
    PROVE  /\ Sequences(Tail(s))
           /\ Sequence(Flat(s)) /\ Sequence(Flat(Tail(s)))
           /\ Flat(s) = s[1] \o Flat(Tail(s))
<1>0. PICK t, n : t = Tail(s) /\ n = Len(t) OBVIOUS
<1>1. Sequence(s) /\ \A i \in 1..Len(s) : Sequence(s[i]) BY DEF Sequences
<1>2. /\ Len(s) \in Nat \ {0} /\ Sequence(t) /\ n = Len(s) - 1 /\ n \in Nat
      /\ \A i \in 1..n : t[i] = s[i + 1]
  <2>1. /\ Len(s) \in Nat \ {0} /\ Sequence(Tail(s)) /\ Len(Tail(s)) = Len(s) - 1
        /\ \A i \in 1..Len(Tail(s)) : Tail(s)[i] = s[i + 1]
    BY TailOf, <1>1, Zenon
  <2>2. Len(s) - 1 \in Nat BY <2>1
  <2> QED BY <2>1, <2>2, <1>0, Zenon
<1>3. PICK f : /\ f = [i \in 1..Len(s) |-> IF i = 1 THEN s[i] ELSE f[i - 1] \o s[i]]
               /\ Flat(s) = f[Len(s)]
  BY <1>1, FlattenUnfolds, Zenon
<1>4. \A i \in 1..n : Sequence(t[i]) BY <1>1, <1>2
<1>5. Sequences(t) BY <1>0, <1>2, <1>4 DEF Sequences
<1>6. Sequence(s[1]) BY <1>1, <1>2
<1>7. \A i \in 1..Len(s) : f[i] = IF i = 1 THEN s[i] ELSE f[i - 1] \o s[i]
  BY <1>3, Zenon
<1>8. f[1] = s[1] /\ \A i \in 1..n : f[i + 1] = f[i] \o s[i + 1]
  <2>1. 1 \in 1..Len(s) BY <1>2
  <2>2. \A i \in 1..n : i + 1 \in 1..Len(s) /\ i + 1 # 1 /\ (i + 1) - 1 = i BY <1>2
  <2>3. f[1] = s[1] BY <2>1, <1>7, Zenon
  <2>4. ASSUME NEW i \in 1..n PROVE f[i + 1] = f[i] \o s[i + 1]
    <3>1. f[i + 1] = f[(i + 1) - 1] \o s[i + 1] BY <2>2, <1>7, Zenon
    <3> QED BY <3>1, <2>2, Zenon
  <2> QED BY <2>3, <2>4, Zenon
<1>9. CASE n = 0
  <2>1. t = <<>> BY <1>0, <1>2, <1>9, Empty
  <2>2. Flat(t) = <<>> BY <2>1, FlattenEmpty
  <2>5. Len(s) = 1 BY <1>2, <1>9
  <2>3. Flat(s) = s[1] BY <2>5, <1>3, <1>8, Zenon
  <2>4. s[1] \o <<>> = s[1] /\ Sequence(<<>>) BY <1>6, Empty
  <2> QED BY <2>2, <2>3, <2>4, <1>5, <1>6, <1>0
<1>10. CASE n # 0
  <2>0. t # <<>> BY <1>0, <1>2, <1>10, Empty
  <2>1. PICK g : /\ g = [i \in 1..n |-> IF i = 1 THEN t[i] ELSE g[i - 1] \o t[i]]
                 /\ Flat(t) = g[n]
    BY <1>0, <1>2, <2>0, FlattenUnfolds, Zenon
  <2>2. \A i \in 1..n : g[i] = IF i = 1 THEN t[i] ELSE g[i - 1] \o t[i]
    BY <2>1, Zenon
  <2>12. 1 \in 1..n BY <1>2, <1>10
  <2>3. g[1] = t[1] /\ \A i \in 1..n : i # 1 => g[i] = g[i - 1] \o t[i]
    BY <2>2, <2>12, Zenon
  <2>4. n \in Nat \ {0} BY <1>2, <1>10
  <2>5. \A i \in 1..n : Sequence(t[i]) /\ t[i] = s[i + 1] BY <1>4, <1>2
  <2>13. Along(s, t, f, g, n) BY <2>3, <2>5, <1>6, <1>8, Zenon DEF Along
  <2>6. Sequence(g[n]) /\ f[n + 1] = s[1] \o g[n]
    <3>1. Sequence(g[n]) /\ Starts(f[n + 1], s[1], g[n])
      BY <2>4, <2>13, FlattenAlong, Zenon
    <3> QED BY <3>1, Zenon DEF Starts
  <2>7. n + 1 = Len(s) BY <1>2
  <2>8. Sequence(s[1] \o g[n]) BY <2>6, <1>6, Concatenated
  <2>9. Sequence(Flat(s)) /\ Flat(s) = s[1] \o Flat(t)
    <3>1. f[Len(s)] = s[1] \o g[n] BY <2>6, <2>7, Zenon
    <3> QED BY <2>1, <2>8, <3>1, <1>3, Zenon
  <2>11. Sequence(Flat(t)) BY <2>1, <2>6, Zenon
  <2> QED BY <2>9, <2>11, <1>0, <1>5, Zenon
<1> QED BY <1>9, <1>10

-----------------------------------------------------------------------------
(* Cells                                                                    *)

LEMMA Counted ==
    ASSUME NEW n \in 0..MaxLength
    PROVE  Count(Number(n)) = n
<1>1. \A m \in 0..MaxLength : Number(m) = Number(n) => m = n
  <2>1. \A m \in 0..MaxLength : Number(m) = Number(n) => ToString(m) = ToString(n)
    BY DEF Number
  <2> QED BY <2>1, NumberAssumption
<1>2. \E m \in 0..MaxLength : Number(m) = Number(n) OBVIOUS
<1>3. (CHOOSE m \in 0..MaxLength : Number(m) = Number(n)) = n BY <1>1, <1>2
<1> QED BY <1>2, <1>3, Zenon DEF Count

LEMMA Taken ==
    ASSUME NEW width, NEW v, NEW rest, Sequence(rest)
    PROVE  /\ Sequence(<<Cell(width, v)>>) /\ Sequence(<<Cell(width, v)>> \o rest)
           /\ Take(width, <<Cell(width, v)>> \o rest) = [value |-> v, rest |-> rest]
<1>1. PICK x : x = Cell(width, v) OBVIOUS
<1>2. x.width = width /\ x.value = v BY <1>1 DEF Cell
<1>3. /\ Sequence(<<x>>) /\ Sequence(<<x>> \o rest)
      /\ (<<x>> \o rest) # <<>> /\ Head(<<x>> \o rest) = x /\ Tail(<<x>> \o rest) = rest
  BY Prepended, Zenon
<1>4. PICK b : b = <<x>> \o rest OBVIOUS
<1>5. Take(width, b) = [value |-> v, rest |-> rest]
  BY <1>2, <1>3, <1>4, Zenon DEF Take
<1> QED BY <1>1, <1>3, <1>4, <1>5, Zenon

-----------------------------------------------------------------------------
(* Parts, one after the other                                               *)

Drop(s, i) == [j \in 1..(Len(s) - i) |-> s[i + j]]

LEMMA Dropped ==
    ASSUME NEW s, Sequences(s), NEW i \in 0..Len(s)
    PROVE  /\ Sequences(Drop(s, i)) /\ Len(Drop(s, i)) = Len(s) - i
           /\ i < Len(s) => /\ Drop(s, i) # <<>> /\ Drop(s, i)[1] = s[i + 1]
                            /\ Tail(Drop(s, i)) = Drop(s, i + 1)
<1>1. Len(s) \in Nat /\ Sequence(s) BY Length DEF Sequences
<1>2. PICK n : n = Len(s) /\ n \in Nat BY <1>1
<1>3. i \in Nat /\ i <= n /\ n - i \in Nat BY <1>2
<1>4. Sequence(Drop(s, i)) /\ Len(Drop(s, i)) = n - i /\ DOMAIN Drop(s, i) = 1..(n - i)
  <2>1. Drop(s, i) = [j \in 1..(n - i) |-> Drop(s, i)[j]] BY <1>2 DEF Drop
  <2> QED BY <2>1, <1>3, Tabulated
<1>5. \A j \in 1..(n - i) : Drop(s, i)[j] = s[i + j] /\ i + j \in 1..n
  BY <1>2, <1>3 DEF Drop
<1>6. Sequences(Drop(s, i)) BY <1>2, <1>4, <1>5 DEF Sequences
<1>7. ASSUME i < n
      PROVE  Drop(s, i) # <<>> /\ Drop(s, i)[1] = s[i + 1] /\ Tail(Drop(s, i)) = Drop(s, i + 1)
  <2>0. PICK d : d = Drop(s, i) OBVIOUS
  <2>10. n - i # 0 /\ 1 \in 1..(n - i) BY <1>3, <1>2, <1>7
  <2>1. d # <<>> BY <1>4, <2>10, <2>0, Empty, Zenon
  <2>2. d[1] = s[i + 1] BY <1>5, <2>10, <2>0, Zenon
  <2>3. /\ Sequence(Tail(d)) /\ Len(Tail(d)) = (n - i) - 1
        /\ \A j \in 1..Len(Tail(d)) : Tail(d)[j] = d[j + 1]
    BY <1>4, <2>0, <2>1, TailOf
  <2>4. \A j \in 1..(n - (i + 1)) : j + 1 \in 1..(n - i) /\ i + (j + 1) = (i + 1) + j
    BY <1>3, <1>2
  <2>5. \A j \in 1..(n - (i + 1)) : d[j + 1] = s[(i + 1) + j]
    BY <1>5, <2>0, <2>4
  <2>6. /\ Sequence(Drop(s, i + 1)) /\ Len(Drop(s, i + 1)) = n - (i + 1)
        /\ \A j \in 1..(n - (i + 1)) : Drop(s, i + 1)[j] = s[(i + 1) + j]
    <3>1. n - (i + 1) \in Nat BY <1>3, <1>7, <1>2
    <3>2. Drop(s, i + 1) = [j \in 1..(n - (i + 1)) |-> Drop(s, i + 1)[j]] BY <1>2 DEF Drop
    <3>3. \A j \in 1..(n - (i + 1)) : Drop(s, i + 1)[j] = s[(i + 1) + j] BY <1>2 DEF Drop
    <3> QED BY <3>1, <3>2, <3>3, Tabulated
  <2>7. PICK t, u : t = Tail(d) /\ u = Drop(s, i + 1) OBVIOUS
  <2>8. Len(t) = Len(u) /\ \A j \in 1..Len(t) : t[j] = u[j]
    <3>1. (n - i) - 1 = n - (i + 1) BY <1>3, <1>2
    <3>2. Len(t) = n - (i + 1) /\ Len(u) = n - (i + 1) BY <2>3, <2>6, <2>7, <3>1, Zenon
    <3>3. ASSUME NEW j \in 1..Len(t) PROVE t[j] = u[j]
      BY <2>3, <2>5, <2>6, <2>7, <3>2, Zenon
    <3> QED BY <3>2, <3>3, Zenon
  <2>9. t = u BY <2>3, <2>6, <2>7, <2>8, Equal
  <2> QED BY <2>0, <2>1, <2>2, <2>7, <2>9
<1> QED BY <1>2, <1>4, <1>6, <1>7

LEMMA FlatIsSequence ==
    ASSUME InductionHolds, NEW s, Sequences(s)
    PROVE  Sequence(Flat(s))
<1>1. CASE s = <<>>
  <2>1. Sequence(<<>>) BY Empty, <1>1 DEF Sequences
  <2> QED BY <1>1, <2>1, FlattenEmpty, Zenon
<1>2. CASE s # <<>> BY <1>2, Flattened, Zenon
<1> QED BY <1>1, <1>2

\* What is left of the parts and of what follows them when i of them are read.
Left(s, rest, i) == Flat(Drop(s, i)) \o rest

LeftUnwinds(s, rest, n) ==
    /\ Left(s, rest, 0) = Flat(s) \o rest
    /\ Left(s, rest, n) = rest
    /\ \A i \in 0..n : Sequence(Left(s, rest, i))
    /\ \A i \in 1..n : Left(s, rest, i - 1) = s[i] \o Left(s, rest, i)

LEMMA LeftOver ==
    ASSUME InductionHolds, NEW s, Sequences(s), NEW rest, Sequence(rest)
    PROVE  LeftUnwinds(s, rest, Len(s))
<1>1. Len(s) \in Nat /\ Sequence(s) BY Length DEF Sequences
<1>2. PICK n : n = Len(s) /\ n \in Nat BY <1>1
<1>3. Left(s, rest, 0) = Flat(s) \o rest
  <2>0. 0 \in 0..n BY <1>2
  <2>1. Sequence(Drop(s, 0)) /\ Len(Drop(s, 0)) = n - 0
    BY <2>0, <1>2, Dropped, Zenon DEF Sequences
  <2>2. \A j \in 1..n : Drop(s, 0)[j] = s[j] BY <1>2 DEF Drop
  <2>3. n - 0 = n BY <1>2
  <2>4. PICK t : t = Drop(s, 0) OBVIOUS
  <2>5. t = s BY <1>1, <1>2, <2>1, <2>2, <2>3, <2>4, Equal
  <2> QED BY <2>4, <2>5, Zenon DEF Left
<1>4. Left(s, rest, n) = rest
  <2>0. n \in 0..n BY <1>2
  <2>1. Sequence(Drop(s, n)) /\ Len(Drop(s, n)) = n - n
    BY <2>0, <1>2, Dropped, Zenon DEF Sequences
  <2>2. Drop(s, n) = <<>> BY <2>1, <1>2, Empty
  <2>3. <<>> \o rest = rest BY Empty
  <2> QED BY <2>2, <2>3, FlattenEmpty, Zenon DEF Left
<1>5. ASSUME NEW i \in 0..n PROVE Sequence(Left(s, rest, i)) /\ Sequence(Flat(Drop(s, i)))
  <2>1. Sequence(Flat(Drop(s, i))) BY <1>2, Dropped, FlatIsSequence, Zenon
  <2>2. PICK a : a = Flat(Drop(s, i)) OBVIOUS
  <2>3. Sequence(a \o rest) BY <2>1, <2>2, Concatenated
  <2> QED BY <2>1, <2>2, <2>3, Zenon DEF Left
<1>6. ASSUME NEW i \in 1..n PROVE Left(s, rest, i - 1) = s[i] \o Left(s, rest, i)
  <2>1. i - 1 \in 0..n /\ i \in 0..n /\ i - 1 < n /\ (i - 1) + 1 = i BY <1>2
  <2>2. /\ Sequences(Drop(s, i - 1)) /\ Drop(s, i - 1) # <<>>
        /\ Drop(s, i - 1)[1] = s[i] /\ Tail(Drop(s, i - 1)) = Drop(s, i)
    BY <2>1, <1>2, Dropped, Zenon
  <2>3. Flat(Drop(s, i - 1)) = s[i] \o Flat(Drop(s, i))
    <3>1. PICK d : d = Drop(s, i - 1) OBVIOUS
    <3>2. Flat(d) = d[1] \o Flat(Tail(d)) BY <2>2, <3>1, Flattened
    <3> QED BY <3>1, <3>2, <2>2, Zenon
  <2>4. Sequence(s[i]) BY <1>2 DEF Sequences
  <2>5. PICK a, b : a = s[i] /\ b = Flat(Drop(s, i)) OBVIOUS
  <2>6. Sequence(a) /\ Sequence(b) BY <2>1, <2>4, <2>5, <1>5, Zenon
  <2>7. (a \o b) \o rest = a \o (b \o rest) BY <2>6, Associative
  <2> QED BY <2>3, <2>5, <2>7, Zenon DEF Left
<1> QED BY <1>2, <1>3, <1>4, <1>5, <1>6, Zenon DEF LeftUnwinds

-----------------------------------------------------------------------------
(* What a layer lays out is what it reads                                   *)

\* What the parts promise: read from where it was written, a part is the part
\* that was written, and what follows it is what followed it.
PartsReturn ==
    \A codec, value, rest : FitsPart(codec, value) /\ Sequence(rest) =>
        /\ Sequence(EncodePart(codec, value))
        /\ DecodePart(codec, EncodePart(codec, value) \o rest) = [value |-> value, rest |-> rest]

ReadBack(codecs, values, flat, rest) ==
    /\ Sequence(flat)
    /\ DecodeParts(codecs, flat \o rest) = [value |-> [i \in 1..Len(codecs) |-> values[i]], rest |-> rest]

LEMMA PartsRead ==
    ASSUME InductionHolds, PartsReturn, NEW codecs, Sequence(codecs), NEW values, NEW rest, Sequence(rest), NEW s,
           s = [i \in 1..Len(codecs) |-> EncodePart(codecs[i], values[i])],
           \A i \in 1..Len(codecs) : FitsPart(codecs[i], values[i])
    PROVE  ReadBack(codecs, values, Flat(s), rest)
<1>1. Len(codecs) \in Nat BY Length
<1>2. PICK n : n = Len(codecs) /\ n \in Nat BY <1>1
<1>3. \A i \in 1..n : s[i] = EncodePart(codecs[i], values[i]) BY <1>2
<1>4. Sequences(s) /\ Len(s) = n
  <2>1. s = [i \in 1..n |-> s[i]] BY <1>2
  <2>2. Sequence(s) /\ Len(s) = n BY <1>2, <2>1, Tabulated
  <2>3. ASSUME NEW i \in 1..n PROVE Sequence(s[i])
    <3>1. FitsPart(codecs[i], values[i]) BY <1>2
    <3>2. Sequence(EncodePart(codecs[i], values[i])) BY <3>1, Zenon DEF PartsReturn
    <3> QED BY <1>3, <3>2, Zenon
  <2> QED BY <2>2, <2>3, Zenon DEF Sequences
<1>5. PICK bytes : bytes = Flat(s) \o rest OBVIOUS
<1>6. /\ Left(s, rest, 0) = bytes /\ Left(s, rest, n) = rest
      /\ \A i \in 0..n : Sequence(Left(s, rest, i))
      /\ \A i \in 1..n : Left(s, rest, i - 1) = s[i] \o Left(s, rest, i)
  <2>1. LeftUnwinds(s, rest, n) BY <1>4, LeftOver, Zenon
  <2> QED BY <2>1, <1>5, Zenon DEF LeftUnwinds
<1>7. ASSUME NEW i \in 1..n
      PROVE  DecodePart(codecs[i], Left(s, rest, i - 1)) = [value |-> values[i], rest |-> Left(s, rest, i)]
  <2>1. i \in 0..n BY <1>2
  <2>2. FitsPart(codecs[i], values[i]) BY <1>2
  <2>3. PICK c, v, r : c = codecs[i] /\ v = values[i] /\ r = Left(s, rest, i) OBVIOUS
  <2>4. FitsPart(c, v) /\ Sequence(r) BY <2>1, <2>2, <2>3, <1>6, Zenon
  <2>5. DecodePart(c, EncodePart(c, v) \o r) = [value |-> v, rest |-> r]
    BY <2>4, Zenon DEF PartsReturn
  <2>6. Left(s, rest, i - 1) = EncodePart(c, v) \o r BY <1>3, <1>6, <2>3, Zenon
  <2> QED BY <2>3, <2>5, <2>6, Zenon
<1> DEFINE Reads(f) == f = [i \in 0..Len(codecs) |-> IF i = 0 THEN bytes ELSE DecodePart(codecs[i], f[i - 1]).rest]
<1>8. \E f : Reads(f)
  <2> DEFINE w == [i \in 0..n |-> Left(s, rest, i)]
  <2>1. ASSUME NEW i \in 0..n
        PROVE  w[i] = IF i = 0 THEN bytes ELSE DecodePart(codecs[i], w[i - 1]).rest
    <3>1. CASE i = 0 BY <3>1, <1>6, Zenon
    <3>2. CASE i # 0
      <4>1. i \in 1..n /\ i - 1 \in 0..n BY <1>2, <3>2
      <4>2. DecodePart(codecs[i], w[i - 1]) = [value |-> values[i], rest |-> Left(s, rest, i)]
        BY <4>1, <1>7, Zenon
      <4>3. DecodePart(codecs[i], w[i - 1]).rest = Left(s, rest, i)
        BY <4>2
      <4> QED BY <3>2, <4>3, Zenon
    <3> QED BY <3>1, <3>2, Zenon
  <2>2. Reads(w) BY <2>1, <1>2, Zenon
  <2> QED BY <2>2, Zenon
<1> DEFINE after == CHOOSE f : Reads(f)
<1>9. Reads(after) BY <1>8, Zenon
<1>10. DecodeParts(codecs, bytes)
       = [value |-> [i \in 1..Len(codecs) |-> DecodePart(codecs[i], after[i - 1]).value],
          rest |-> after[Len(codecs)]]
  BY Zenon DEF DecodeParts
<1>11. \A i \in 0..n : after[i] = IF i = 0 THEN bytes ELSE DecodePart(codecs[i], after[i - 1]).rest
  BY <1>9, <1>2, Zenon
<1> HIDE DEF after, Reads
<1>12. \A i \in 0..n : after[i] = Left(s, rest, i)
  <2> DEFINE P(i) == i \in 0..n => after[i] = Left(s, rest, i)
             S == {i \in Nat : P(i)}
  <2>1. P(0) BY <1>11, <1>6, Zenon
  <2>2. ASSUME NEW i \in Nat, P(i) PROVE P(i + 1)
    <3>1. SUFFICES ASSUME i + 1 \in 0..n PROVE after[i + 1] = Left(s, rest, i + 1)
      OBVIOUS
    <3>2. i \in 0..n /\ i + 1 \in 1..n /\ i + 1 # 0 /\ (i + 1) - 1 = i BY <3>1, <1>2
    <3>3. after[i] = Left(s, rest, i) BY <2>2, <3>2, Zenon
    <3>4. after[i + 1] = DecodePart(codecs[i + 1], after[i]).rest
      BY <1>11, <3>1, <3>2, Zenon
    <3>5. DecodePart(codecs[i + 1], Left(s, rest, i)) = [value |-> values[i + 1], rest |-> Left(s, rest, i + 1)]
      BY <1>7, <3>2, Zenon
    <3>6. DecodePart(codecs[i + 1], Left(s, rest, i)).rest = Left(s, rest, i + 1) BY <3>5
    <3> QED BY <3>3, <3>4, <3>6, Zenon
  <2> HIDE DEF P
  <2>3. 0 \in S BY <2>1
  <2>4. \A i \in S : i + 1 \in S BY <2>2
  <2>5. S \in SUBSET Nat OBVIOUS
  <2> HIDE DEF S
  <2>6. S = Nat BY <2>3, <2>4, <2>5, Induction
  <2>7. ASSUME NEW i \in 0..n PROVE after[i] = Left(s, rest, i)
    <3>1. i \in Nat BY <1>2
    <3>2. P(i) BY <3>1, <2>6, Zenon DEF S
    <3> QED BY <3>2, Zenon DEF P
  <2> QED BY <2>7, Zenon
<1>13. after[n] = rest
  <2>1. n \in 0..n BY <1>2
  <2> QED BY <2>1, <1>12, <1>6, Zenon
<1>14. [i \in 1..n |-> DecodePart(codecs[i], after[i - 1]).value] = [i \in 1..n |-> values[i]]
  <2>1. ASSUME NEW i \in 1..n PROVE DecodePart(codecs[i], after[i - 1]).value = values[i]
    <3>1. i - 1 \in 0..n BY <1>2
    <3>2. DecodePart(codecs[i], after[i - 1]) = [value |-> values[i], rest |-> Left(s, rest, i)]
      BY <3>1, <1>7, <1>12, Zenon
    <3> QED BY <3>2
  <2> QED BY <2>1, Zenon
<1>15. Sequence(Flat(s)) BY <1>4, FlatIsSequence, Zenon
<1> QED BY <1>2, <1>5, <1>10, <1>13, <1>14, <1>15, Zenon DEF ReadBack

\* The values that a codec of this layer lays out: a list has a length that its
\* prefix holds, a struct a value for each of its fields, whose names differ.
Fits(codec, value) ==
    CASE codec.shape = "scalar" -> TRUE
      [] codec.shape = "sized" -> Sequence(value) /\ Len(value) <= MaxLength
      [] codec.shape \in {"option", "vector"} ->
            /\ Sequence(value) /\ Len(value) <= MaxLength
            /\ \A i \in 1..Len(value) : FitsPart(codec.of, value[i])
      [] codec.shape = "struct" ->
            /\ Sequence(codec.fields)
            /\ \A i, j \in DOMAIN codec.fields :
                  codec.fields[i][1] = codec.fields[j][1] => i = j
            /\ value = [name \in Names(codec) |-> value[name]]
            /\ \A i \in DOMAIN codec.fields :
                  FitsPart(codec.fields[i][2], value[codec.fields[i][1]])
      [] OTHER -> FALSE

Returns(codec, value, rest) ==
    /\ Sequence(Encode(codec, value))
    /\ Decode(codec, Encode(codec, value) \o rest) = [value |-> value, rest |-> rest]

LEMMA ScalarReturns ==
    ASSUME NEW codec, codec.shape = "scalar", NEW value, NEW rest, Sequence(rest)
    PROVE  Returns(codec, value, rest)
<1>1. Encode(codec, value) = <<Cell(codec.width, value)>> BY DEF Encode
<1>2. \A bytes : Decode(codec, bytes) = Take(codec.width, bytes) BY DEF Decode
<1>3. PICK w : w = codec.width OBVIOUS
<1>4. PICK head : head = <<Cell(w, value)>> OBVIOUS
<1>5. Sequence(head) /\ Take(w, head \o rest) = [value |-> value, rest |-> rest]
  BY <1>4, Taken
<1> QED BY <1>1, <1>2, <1>3, <1>4, <1>5, Zenon DEF Returns

LEMMA ManyReturn ==
    ASSUME InductionHolds, PartsReturn, NEW codec, codec.shape \in {"option", "vector"}, NEW value, Fits(codec, value),
           NEW rest, Sequence(rest)
    PROVE  Returns(codec, value, rest)
<1>0. /\ Sequence(value) /\ Len(value) <= MaxLength
      /\ \A i \in 1..Len(value) : FitsPart(codec.of, value[i])
  <2>1. CASE codec.shape = "option" BY <2>1 DEF Fits
  <2>2. CASE codec.shape = "vector" BY <2>2 DEF Fits
  <2> QED BY <2>1, <2>2
<1>1. PICK n : n = Len(value) /\ n \in Nat BY <1>0, Length
<1>2. n \in 0..MaxLength
  <2>1. n <= MaxLength BY <1>0, <1>1, Zenon
  <2>2. MaxLength \in Nat BY DEF MaxLength
  <2> QED BY <2>1, <2>2, <1>1
<1>3. PICK parts : parts = [i \in 1..n |-> EncodePart(codec.of, value[i])] OBVIOUS
<1>4. PICK head : head = <<Cell(Prefix(codec), Number(n))>> OBVIOUS
<1>5. Encode(codec, value) = head \o Flat(parts)
  <2>1. CASE codec.shape = "option" BY <2>1, <1>1, <1>3, <1>4 DEF Encode
  <2>2. CASE codec.shape = "vector" BY <2>2, <1>1, <1>3, <1>4 DEF Encode
  <2> QED BY <2>1, <2>2
<1>6. PICK codecs : codecs = [i \in 1..n |-> codec.of] OBVIOUS
<1>7. Sequence(codecs) /\ Len(codecs) = n /\ \A i \in 1..n : codecs[i] = codec.of
  <2>1. codecs = [i \in 1..n |-> codecs[i]] /\ \A i \in 1..n : codecs[i] = codec.of BY <1>6
  <2> QED BY <1>1, <2>1, Tabulated
<1>8. parts = [i \in 1..Len(codecs) |-> EncodePart(codecs[i], value[i])]
  <2>1. \A i \in 1..n : EncodePart(codec.of, value[i]) = EncodePart(codecs[i], value[i])
    BY <1>7, Zenon
  <2> QED BY <1>3, <1>7, <2>1, Zenon
<1>9. \A i \in 1..Len(codecs) : FitsPart(codecs[i], value[i]) BY <1>0, <1>1, <1>7, Zenon
<1>10. /\ Sequence(Flat(parts))
       /\ DecodeParts(codecs, Flat(parts) \o rest)
          = [value |-> [i \in 1..Len(codecs) |-> value[i]], rest |-> rest]
  <2>1. ReadBack(codecs, value, Flat(parts), rest)
    BY <1>7, <1>8, <1>9, PartsRead, Zenon
  <2> QED BY <2>1, Zenon DEF ReadBack
<1>11. [i \in 1..Len(codecs) |-> value[i]] = value
  <2>1. value = [i \in 1..n |-> value[i]] BY <1>0, <1>1, Length
  <2> QED BY <2>1, <1>7, Zenon
<1>12. PICK flat : flat = Flat(parts) OBVIOUS
<1>13. Sequence(head) /\ Sequence(flat) /\ Sequence(flat \o rest)
  <2>1. Sequence(head) BY <1>4, Taken, Zenon
  <2>2. Sequence(flat) BY <1>10, <1>12
  <2>3. Sequence(flat \o rest) BY <2>2, Concatenated
  <2> QED BY <2>1, <2>2, <2>3
<1>14. (head \o flat) \o rest = head \o (flat \o rest) BY <1>13, Associative
<1>15. Take(Prefix(codec), head \o (flat \o rest)) = [value |-> Number(n), rest |-> flat \o rest]
  <2>1. PICK w, v, r : w = Prefix(codec) /\ v = Number(n) /\ r = flat \o rest OBVIOUS
  <2>2. Sequence(r) BY <2>1, <1>13
  <2>3. Take(w, <<Cell(w, v)>> \o r) = [value |-> v, rest |-> r] BY <2>2, Taken
  <2> QED BY <2>1, <2>3, <1>4, Zenon
<1>16. Count(Number(n)) = n BY <1>2, Counted
<1>17. PICK bytes : bytes = head \o (flat \o rest) OBVIOUS
<1>18. Decode(codec, bytes)
       = LET t == Take(Prefix(codec), bytes)
         IN  DecodeParts([i \in 1..Count(t.value) |-> codec.of], t.rest)
  <2>1. CASE codec.shape = "option" BY <2>1 DEF Decode
  <2>2. CASE codec.shape = "vector" BY <2>2 DEF Decode
  <2> QED BY <2>1, <2>2
<1>19. Take(Prefix(codec), bytes).value = Number(n) /\ Take(Prefix(codec), bytes).rest = flat \o rest
  BY <1>15, <1>17
<1>20. Decode(codec, bytes) = DecodeParts(codecs, flat \o rest)
  BY <1>6, <1>16, <1>18, <1>19, Zenon
<1>21. Decode(codec, bytes) = [value |-> value, rest |-> rest]
  BY <1>10, <1>11, <1>12, <1>20, Zenon
<1>22. Sequence(head \o flat) BY <1>13, Concatenated
<1> QED BY <1>5, <1>12, <1>14, <1>17, <1>21, <1>22, Zenon DEF Returns

LEMMA StructReturns ==
    ASSUME InductionHolds, PartsReturn, NEW codec, codec.shape = "struct", NEW value, Fits(codec, value),
           NEW rest, Sequence(rest)
    PROVE  Returns(codec, value, rest)
<1>0. /\ Sequence(codec.fields)
      /\ \A i, j \in DOMAIN codec.fields : codec.fields[i][1] = codec.fields[j][1] => i = j
      /\ value = [name \in Names(codec) |-> value[name]]
      /\ \A i \in DOMAIN codec.fields : FitsPart(codec.fields[i][2], value[codec.fields[i][1]])
  BY DEF Fits
<1>1. PICK n : n = Len(codec.fields) /\ n \in Nat /\ DOMAIN codec.fields = 1..n BY <1>0, Length
<1>2. PICK codecs : codecs = [i \in 1..n |-> codec.fields[i][2]] OBVIOUS
<1>3. PICK values : values = [i \in 1..n |-> value[codec.fields[i][1]]] OBVIOUS
<1>4. Sequence(codecs) /\ Len(codecs) = n
  <2>1. codecs = [i \in 1..n |-> codecs[i]] BY <1>2, Zenon
  <2> QED BY <1>1, <2>1, Tabulated
<1>5. \A i \in 1..n : codecs[i] = codec.fields[i][2] /\ values[i] = value[codec.fields[i][1]]
  BY <1>2, <1>3, Zenon
<1>6. PICK parts : parts = [i \in 1..Len(codecs) |-> EncodePart(codecs[i], values[i])] OBVIOUS
<1>7. \A i \in 1..Len(codecs) : FitsPart(codecs[i], values[i]) BY <1>0, <1>1, <1>4, <1>5, Zenon
<1>8. /\ Sequence(Flat(parts))
      /\ DecodeParts(codecs, Flat(parts) \o rest)
         = [value |-> [i \in 1..Len(codecs) |-> values[i]], rest |-> rest]
  <2>1. ReadBack(codecs, values, Flat(parts), rest)
    BY <1>4, <1>6, <1>7, PartsRead, Zenon
  <2> QED BY <2>1, Zenon DEF ReadBack
<1>9. Encode(codec, value) = Flat(parts)
  <2>1. Encode(codec, value)
        = Flat([i \in 1..Len(codec.fields) |->
                        EncodePart(codec.fields[i][2], value[codec.fields[i][1]])])
    BY DEF Encode
  <2>2. parts = [i \in 1..n |-> EncodePart(codec.fields[i][2], value[codec.fields[i][1]])]
    BY <1>4, <1>5, <1>6, Zenon
  <2> QED BY <2>1, <2>2, <1>1, Zenon
<1>10. PICK bytes : bytes = Flat(parts) \o rest OBVIOUS
<1>11. PICK read : read = DecodeParts(codecs, bytes) OBVIOUS
<1>12. read.rest = rest /\ read.value = [i \in 1..Len(codecs) |-> values[i]]
  <2>1. read = [value |-> [i \in 1..Len(codecs) |-> values[i]], rest |-> rest]
    BY <1>8, <1>10, <1>11, Zenon
  <2> QED BY <2>1
<1>13. \A i \in 1..n : read.value[i] = values[i] BY <1>4, <1>12, Zenon
<1>14. Decode(codec, bytes)
       = [value |-> [name \in Names(codec) |-> read.value[Place(codec, name)]], rest |-> read.rest]
  <2>1. Decode(codec, bytes)
        = LET parts_ == DecodeParts([i \in 1..Len(codec.fields) |-> codec.fields[i][2]], bytes)
          IN  [value |-> [name \in Names(codec) |-> parts_.value[Place(codec, name)]],
               rest  |-> parts_.rest]
    BY DEF Decode
  <2>2. [i \in 1..Len(codec.fields) |-> codec.fields[i][2]] = codecs BY <1>1, <1>2, Zenon
  <2> QED BY <2>1, <2>2, <1>11, Zenon
<1>15. ASSUME NEW name \in Names(codec) PROVE read.value[Place(codec, name)] = value[name]
  <2>1. \E i \in DOMAIN codec.fields : codec.fields[i][1] = name BY <1>15, Zenon DEF Names
  <2>2. Place(codec, name) \in DOMAIN codec.fields /\ codec.fields[Place(codec, name)][1] = name
    BY <2>1, Zenon DEF Place
  <2>3. Place(codec, name) \in 1..n BY <2>2, <1>1
  <2> QED BY <2>2, <2>3, <1>5, <1>13, Zenon
<1>16. [name \in Names(codec) |-> read.value[Place(codec, name)]] = value
  BY <1>0, <1>15, Zenon
<1>17. Decode(codec, bytes) = [value |-> value, rest |-> rest]
  BY <1>12, <1>14, <1>16, Zenon
<1> QED BY <1>8, <1>9, <1>10, <1>17, Zenon DEF Returns

LEMMA SizedReturns ==
    ASSUME NEW codec, codec.shape = "sized", NEW value, Fits(codec, value), NEW rest, Sequence(rest)
    PROVE  Returns(codec, value, rest)
<1>0. Sequence(value) /\ Len(value) <= MaxLength BY DEF Fits
<1>1. PICK n : n = Len(value) /\ n \in Nat BY <1>0, Length
<1>2. n \in 0..MaxLength
  <2>1. n <= MaxLength BY <1>0, <1>1, Zenon
  <2>2. MaxLength \in Nat BY DEF MaxLength
  <2> QED BY <2>1, <2>2, <1>1
<1>3. PICK cells : cells = [i \in 1..n |-> Cell(1, value[i])] OBVIOUS
<1>4. PICK head : head = <<Cell(4, Number(n))>> OBVIOUS
<1>5. Encode(codec, value) = head \o cells BY <1>1, <1>3, <1>4 DEF Encode
<1>6. Sequence(cells) /\ Len(cells) = n
  <2>1. cells = [i \in 1..n |-> cells[i]] BY <1>3, Zenon
  <2> QED BY <1>1, <2>1, Tabulated
<1>7. PICK r : r = cells \o rest OBVIOUS
<1>8. /\ Sequence(r) /\ Len(r) = n + Len(rest) /\ Len(rest) \in Nat
      /\ \A i \in 1..n : r[i] = cells[i]
      /\ \A i \in 1..Len(rest) : r[n + i] = rest[i]
  <2>1. Len(rest) \in Nat BY Length
  <2>2. /\ Sequence(cells \o rest) /\ Len(cells \o rest) = Len(cells) + Len(rest)
        /\ \A i \in 1..Len(cells) : (cells \o rest)[i] = cells[i]
        /\ \A i \in 1..Len(rest) : (cells \o rest)[Len(cells) + i] = rest[i]
    BY <1>6, Concatenated
  <2> QED BY <1>6, <1>7, <2>1, <2>2, Zenon
<1>9. Sequence(head) /\ Take(4, head \o r) = [value |-> Number(n), rest |-> r]
  BY <1>4, <1>8, Taken, Zenon
<1>10. (head \o cells) \o rest = head \o r BY <1>6, <1>7, <1>9, Associative
<1>11. Sequence(head \o cells) BY <1>6, <1>9, Concatenated
<1>12. Count(Number(n)) = n BY <1>2, Counted
<1>13. PICK bytes : bytes = head \o r OBVIOUS
<1>14. Decode(codec, bytes)
       = LET t == Take(4, bytes)
             len == IF Count(t.value) <= Len(t.rest) THEN Count(t.value) ELSE 0
         IN  [value |-> [i \in 1..len |-> t.rest[i].value], rest  |-> SubSeq(t.rest, len + 1, Len(t.rest))]
  BY DEF Decode
<1>15. Take(4, bytes).value = Number(n) /\ Take(4, bytes).rest = r BY <1>9, <1>13
<1>16. n <= Len(r) BY <1>1, <1>8
<1>17. Decode(codec, bytes) = [value |-> [i \in 1..n |-> r[i].value], rest |-> SubSeq(r, n + 1, Len(r))]
  BY <1>12, <1>14, <1>15, <1>16, Zenon
<1>18. [i \in 1..n |-> r[i].value] = value
  <2>1. ASSUME NEW i \in 1..n PROVE r[i].value = value[i]
    <3>1. r[i] = Cell(1, value[i]) BY <1>8, <1>3, Zenon
    <3> QED BY <3>1 DEF Cell
  <2>2. value = [i \in 1..n |-> value[i]] BY <1>0, <1>1, Length
  <2> QED BY <2>1, <2>2, Zenon
<1>19. SubSeq(r, n + 1, Len(r)) = rest
  <2>1. PICK S : r \in Seq(S) /\ rest \in Seq(S) BY <1>8, TwoSequences
  <2> QED BY <2>1, <1>1, <1>8
<1> QED BY <1>5, <1>10, <1>11, <1>13, <1>17, <1>18, <1>19, Zenon DEF Returns

\* A reader that follows the same codec as the writer reads what was written,
\* and what follows it is left for the next: createEncoder and createDecoder of
\* @solana/kit (getStructEncoder, getArrayEncoder, getOptionEncoder,
\* addEncoderSizePrefix), and Borsh, if their parts do.
THEOREM RoundTrip ==
    ASSUME InductionHolds, PartsReturn, NEW codec, NEW value, Fits(codec, value), NEW rest, Sequence(rest)
    PROVE  Returns(codec, value, rest)
<1>1. CASE codec.shape = "scalar" BY <1>1, ScalarReturns
<1>2. CASE codec.shape = "sized" BY <1>2, SizedReturns
<1>3. CASE codec.shape \in {"option", "vector"} BY <1>3, ManyReturn
<1>4. CASE codec.shape = "struct" BY <1>4, StructReturns
<1> QED BY <1>1, <1>2, <1>3, <1>4 DEF Fits

LEMMA StructEncoded ==
    ASSUME NEW codec, codec.shape = "struct", NEW value, NEW f, f = codec.fields
    PROVE  Encode(codec, value) = Flat([i \in 1..Len(f) |-> EncodePart(f[i][2], value[f[i][1]])])
BY DEF Encode

\* A record with one more field.
Longer(all, name, v, names, value) ==
    all = [n \in {name} \cup names |-> IF n = name THEN v ELSE value[n]]

\* A struct with one more field in front, and what it lays out.
Lengthened(longer, name, first, codec) ==
    /\ codec.shape = "struct" /\ longer.shape = "struct"
    /\ longer.fields = << <<name, first>> >> \o codec.fields /\ name \notin Names(codec)
LaidInFront(longer, all, first, v, codec, value) ==
    /\ Fits(longer, all)
    /\ Sequence(EncodePart(first, v)) /\ Sequence(Encode(codec, value))
    /\ Encode(longer, all) = EncodePart(first, v) \o Encode(codec, value)

LEMMA Fronted ==
    ASSUME InductionHolds, PartsReturn, NEW codec, NEW value, Fits(codec, value), NEW longer, NEW name, NEW first,
           Lengthened(longer, name, first, codec), NEW v, FitsPart(first, v),
           NEW all, Longer(all, name, v, Names(codec), value)
    PROVE  LaidInFront(longer, all, first, v, codec, value)
<1> USE DEF Lengthened
<1>0. /\ Sequence(codec.fields)
      /\ \A i, j \in DOMAIN codec.fields : codec.fields[i][1] = codec.fields[j][1] => i = j
      /\ value = [n \in Names(codec) |-> value[n]]
      /\ \A i \in DOMAIN codec.fields : FitsPart(codec.fields[i][2], value[codec.fields[i][1]])
  BY DEF Fits
<1>1. PICK n, f, g, x : n = Len(codec.fields) /\ f = codec.fields /\ g = longer.fields /\ x = <<name, first>>
  OBVIOUS
<1>2. n \in Nat /\ DOMAIN f = 1..n /\ Sequence(f) BY <1>0, <1>1, Length
<1>3. /\ Sequence(g) /\ Len(g) = n + 1 /\ DOMAIN g = 1..(n + 1) /\ g[1] = x
      /\ \A i \in 1..n : g[i + 1] = f[i]
  <2>1. PICK S : f \in Seq(S) BY <1>2 DEF Sequence
  <2>2. f \in Seq(S \cup {x}) /\ <<x>> \in Seq(S \cup {x}) /\ g = <<x>> \o f BY <2>1, <1>1
  <2>3. g \in Seq(S \cup {x}) BY <2>2
  <2>4. Len(g) = n + 1 /\ g[1] = x /\ \A i \in 1..n : g[i + 1] = f[i] BY <2>2, <1>1, <1>2
  <2> QED BY <2>3, <2>4, <1>2 DEF Sequence
<1>4. x[1] = name /\ x[2] = first BY <1>1
<1>5. \A i \in 1..n : f[i][1] \in Names(codec) /\ f[i][1] # name BY <1>1, <1>2 DEF Names
<1>6. ASSUME NEW i \in 1..(n + 1) PROVE i = 1 \/ (i - 1 \in 1..n /\ g[i] = f[i - 1])
  <2>1. CASE i = 1 BY <2>1
  <2>2. CASE i # 1
    <3>1. PICK j : j = i - 1 OBVIOUS
    <3>2. j \in 1..n /\ i = j + 1 BY <3>1, <2>2, <1>2
    <3> QED BY <3>1, <3>2, <1>3
  <2> QED BY <2>1, <2>2
<1>7. Names(longer) = {name} \cup Names(codec)
  <2>1. Names(longer) = {g[i][1] : i \in 1..(n + 1)} BY <1>1, <1>3, Zenon DEF Names
  <2>2. Names(codec) = {f[i][1] : i \in 1..n} BY <1>1, <1>2, Zenon DEF Names
  <2>3. ASSUME NEW i \in 1..(n + 1) PROVE g[i][1] \in {name} \cup Names(codec)
    BY <1>3, <1>4, <1>5, <1>6
  <2>4. name \in Names(longer)
    <3>1. 1 \in 1..(n + 1) BY <1>2
    <3> QED BY <2>1, <3>1, <1>3, <1>4
  <2>5. ASSUME NEW i \in 1..n PROVE f[i][1] \in Names(longer)
    <3>1. i + 1 \in 1..(n + 1) BY <1>2
    <3> QED BY <2>1, <3>1, <1>3
  <2> QED BY <2>1, <2>2, <2>3, <2>4, <2>5, Zenon
<1>8. all[name] = v /\ \A i \in 1..n : all[f[i][1]] = value[f[i][1]]
  BY <1>5 DEF Longer
<1>9. Fits(longer, all)
  <2>1. \A i, j \in DOMAIN g : g[i][1] = g[j][1] => i = j
    <3>1. SUFFICES ASSUME NEW i \in 1..(n + 1), NEW j \in 1..(n + 1), g[i][1] = g[j][1] PROVE i = j
      BY <1>3
    <3>2. CASE i = 1 /\ j = 1 BY <3>2
    <3>3. CASE i # 1 /\ j # 1
      <4>1. i - 1 \in 1..n /\ j - 1 \in 1..n /\ g[i] = f[i - 1] /\ g[j] = f[j - 1] BY <3>3, <1>6
      <4>2. i - 1 = j - 1 BY <4>1, <3>1, <1>0, <1>1, <1>2, Zenon
      <4> QED BY <4>2
    <3>4. CASE i = 1 /\ j # 1 BY <3>1, <3>4, <1>3, <1>4, <1>5, <1>6
    <3>5. CASE i # 1 /\ j = 1 BY <3>1, <3>5, <1>3, <1>4, <1>5, <1>6
    <3> QED BY <3>2, <3>3, <3>4, <3>5
  <2>2. \A i \in DOMAIN g : FitsPart(g[i][2], all[g[i][1]])
    <3>1. SUFFICES ASSUME NEW i \in 1..(n + 1) PROVE FitsPart(g[i][2], all[g[i][1]]) BY <1>3
    <3>2. CASE i = 1 BY <3>2, <1>3, <1>4, <1>8, Zenon
    <3>3. CASE i # 1
      <4>1. i - 1 \in 1..n /\ g[i] = f[i - 1] BY <3>3, <1>6
      <4> QED BY <4>1, <1>0, <1>1, <1>2, <1>8, Zenon
    <3> QED BY <3>2, <3>3
  <2>3. all = [m \in Names(longer) |-> all[m]] BY <1>7 DEF Longer
  <2> QED BY <2>1, <2>2, <2>3, <1>1, <1>3, Zenon DEF Fits
<1>10. PICK parts, rest :
          /\ parts = [i \in 1..(n + 1) |-> EncodePart(g[i][2], all[g[i][1]])]
          /\ rest = [i \in 1..n |-> EncodePart(f[i][2], value[f[i][1]])]
  OBVIOUS
<1>11. Encode(longer, all) = Flat(parts) /\ Encode(codec, value) = Flat(rest)
  <2>1. Encode(longer, all) = Flat([i \in 1..Len(g) |-> EncodePart(g[i][2], all[g[i][1]])])
    BY <1>1, StructEncoded
  <2>2. Encode(codec, value) = Flat([i \in 1..Len(f) |-> EncodePart(f[i][2], value[f[i][1]])])
    BY <1>1, StructEncoded
  <2> QED BY <2>1, <2>2, <1>1, <1>3, <1>10
<1>12. Sequence(parts) /\ Len(parts) = n + 1 /\ Sequence(rest) /\ Len(rest) = n
  <2>1. n + 1 \in Nat BY <1>2
  <2>2. parts = [i \in 1..(n + 1) |-> parts[i]] /\ rest = [i \in 1..n |-> rest[i]] BY <1>10
  <2> QED BY <2>1, <2>2, <1>2, Tabulated
<1>13. Sequence(<<>>) BY <1>2, Empty
<1>14. \A c, w : FitsPart(c, w) => Sequence(EncodePart(c, w)) BY <1>13 DEF PartsReturn
<1>15. \A i \in 1..(n + 1) : Sequence(parts[i])
  <2>1. \A i \in 1..(n + 1) : FitsPart(g[i][2], all[g[i][1]]) BY <1>9, <1>1, <1>3 DEF Fits
  <2> QED BY <2>1, <1>10, <1>14
<1>16. Sequences(parts) BY <1>12, <1>15 DEF Sequences
<1>17. parts[1] = EncodePart(first, v)
  <2>1. 1 \in 1..(n + 1) BY <1>2
  <2> QED BY <2>1, <1>3, <1>4, <1>8, <1>10
<1>18. parts # <<>> BY <1>2, <1>12, Empty
<1>19. Tail(parts) = rest
  <2>1. PICK t : t = Tail(parts) OBVIOUS
  <2>2. Sequence(t) /\ Len(t) = n /\ \A i \in 1..n : t[i] = parts[i + 1]
    <3>1. Sequence(t) /\ Len(t) = Len(parts) - 1 /\ \A i \in 1..Len(t) : t[i] = parts[i + 1]
      BY <2>1, <1>12, <1>18, TailOf
    <3> QED BY <3>1, <1>2, <1>12
  <2>3. ASSUME NEW i \in 1..n PROVE t[i] = rest[i]
    <3>1. i + 1 \in 1..(n + 1) BY <1>2
    <3>2. t[i] = EncodePart(g[i + 1][2], all[g[i + 1][1]]) BY <2>2, <3>1, <1>10
    <3> QED BY <3>2, <1>3, <1>8, <1>10
  <2> QED BY <2>1, <2>2, <2>3, <1>12, Equal
<1>20. Sequence(Flat(rest)) /\ Flat(parts) = parts[1] \o Flat(rest)
  BY <1>16, <1>18, <1>19, Flattened
<1> QED BY <1>9, <1>11, <1>14, <1>17, <1>20 DEF LaidInFront
=============================================================================
