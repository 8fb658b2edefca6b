-------------------------- MODULE WireMessages_proofs --------------------------
(***************************************************************************)
(* What goes over the wire, one message at a time: the codecs of the four   *)
(* layers, the instructions from the generated builders to the handlers'    *)
(* accounts and arguments, the layout of an attestation, the messages its   *)
(* parties sign, the Ed25519 instruction from the SDK's builders to the     *)
(* program's parser, and the accounts and events that the SDK reads back.   *)
(* SatiWire_proofs puts these together.                                     *)
(*                                                                          *)
(* Sequence(s) says that s is a sequence of something, Located(b, off, p)   *)
(* that the bytes p lie in b from the offset off on: most of what is shown  *)
(* of bytes is how a field's place follows from those before it.            *)
(***************************************************************************)
EXTENDS SatiWire, WellFoundedInduction, TLAPS

FitsScalar(codec, value) == codec.shape = "scalar"

R == INSTANCE CodecLayer_proofs
     WITH EncodePart <- EncodeScalar, DecodePart <- DecodeScalar, FitsPart <- FitsScalar
L == INSTANCE CodecLayer_proofs
     WITH EncodePart <- Records!Encode, DecodePart <- Records!Decode, FitsPart <- R!Fits
O == INSTANCE CodecLayer_proofs
     WITH EncodePart <- Lists!Encode, DecodePart <- Lists!Decode, FitsPart <- L!Fits
W == INSTANCE CodecLayer_proofs
     WITH EncodePart <- Options!Encode, DecodePart <- Options!Decode, FitsPart <- O!Fits

-----------------------------------------------------------------------------
(* Sequences                                                                *)

Sequence(s) == \E S : s \in Seq(S)

LEMMA RNumbers == R!NumberAssumption
<1>1. PICK k : k = MaxLength OBVIOUS
<1>2. R!MaxLength = k BY <1>1 DEF MaxLength, R!MaxLength
<1>3. \A m, n \in 0..k : ToString(m) = ToString(n) => m = n BY <1>1, NumberAssumption, Zenon
<1> QED BY <1>2, <1>3, Zenon
LEMMA LNumbers == L!NumberAssumption
<1>1. PICK k : k = MaxLength OBVIOUS
<1>2. L!MaxLength = k BY <1>1 DEF MaxLength, L!MaxLength
<1>3. \A m, n \in 0..k : ToString(m) = ToString(n) => m = n BY <1>1, NumberAssumption, Zenon
<1> QED BY <1>2, <1>3, Zenon
LEMMA ONumbers == O!NumberAssumption
<1>1. PICK k : k = MaxLength OBVIOUS
<1>2. O!MaxLength = k BY <1>1 DEF MaxLength, O!MaxLength
<1>3. \A m, n \in 0..k : ToString(m) = ToString(n) => m = n BY <1>1, NumberAssumption, Zenon
<1> QED BY <1>2, <1>3, Zenon
LEMMA WNumbers == W!NumberAssumption
<1>1. PICK k : k = MaxLength OBVIOUS
<1>2. W!MaxLength = k BY <1>1 DEF MaxLength, W!MaxLength
<1>3. \A m, n \in 0..k : ToString(m) = ToString(n) => m = n BY <1>1, NumberAssumption, Zenon
<1> QED BY <1>2, <1>3, Zenon

LEMMA LeastNumber ==
    ASSUME NEW S \in SUBSET Nat, S # {}
    PROVE  \E n \in S : \A m \in S : n <= m
<1>1. PICK n \in S : \A m \in S : ~(<<m, n>> \in OpToRel(<, Nat))
  BY NatLessThanWellFounded, WFMin, Zenon
<1>2. \A m \in S : ~(m < n)
  BY <1>1 DEF OpToRel
<1> QED BY <1>2

LEMMA Induction ==
    ASSUME NEW S \in SUBSET Nat, 0 \in S, \A n \in S : n + 1 \in S
    PROVE  S = Nat
<1>1. SUFFICES ASSUME Nat \ S # {} PROVE FALSE
  OBVIOUS
<1>2. PICK n \in Nat \ S : \A m \in Nat \ S : n <= m
  BY <1>1, LeastNumber
<1>3. CASE n = 0 BY <1>2, <1>3
<1>4. CASE n # 0
  <2>1. n - 1 \in Nat BY <1>2, <1>4
  <2>2. n - 1 \in S BY <2>1, <1>2
  <2>3. QED BY <2>2, <1>2, <2>1
<1> QED BY <1>3, <1>4

LEMMA RInductive == R!InductionHolds
BY Induction, Zenon DEF R!InductionHolds
LEMMA LInductive == L!InductionHolds
BY Induction, Zenon DEF L!InductionHolds
LEMMA OInductive == O!InductionHolds
BY Induction, Zenon DEF O!InductionHolds
LEMMA WInductive == W!InductionHolds
BY Induction, Zenon DEF W!InductionHolds

LEMMA TwoSequences ==
    ASSUME NEW s, NEW t, Sequence(s), Sequence(t)
    PROVE  \E S : s \in Seq(S) /\ t \in Seq(S)
BY RNumbers, R!TwoSequences DEF Sequence, R!Sequence

LEMMA Tabulated ==
    ASSUME NEW n \in Nat, NEW f, f = [i \in 1..n |-> f[i]]
    PROVE  Sequence(f) /\ Len(f) = n /\ DOMAIN f = 1..n
BY RNumbers, R!Tabulated DEF Sequence, R!Sequence

LEMMA Length ==
    ASSUME NEW s, Sequence(s)
    PROVE  Len(s) \in Nat /\ DOMAIN s = 1..Len(s) /\ s = [i \in 1..Len(s) |-> s[i]]
BY DEF Sequence

LEMMA Equal ==
    ASSUME NEW s, NEW t, Sequence(s), Sequence(t), Len(s) = Len(t), \A i \in 1..Len(s) : s[i] = t[i]
    PROVE  s = t
BY TwoSequences

LEMMA Concatenated ==
    ASSUME NEW s, NEW t, Sequence(s), Sequence(t)
    PROVE  /\ Sequence(s \o t)
           /\ Len(s \o t) = Len(s) + Len(t)
           /\ \A i \in 1..Len(s) : (s \o t)[i] = s[i]
           /\ \A i \in 1..Len(t) : (s \o t)[Len(s) + i] = t[i]
BY RNumbers, R!Concatenated DEF Sequence, R!Sequence

LEMMA Associative ==
    ASSUME NEW s, NEW t, NEW u, Sequence(s), Sequence(t), Sequence(u)
    PROVE  (s \o t) \o u = s \o (t \o u)
BY RNumbers, R!Associative, SMTT(30) DEF Sequence, R!Sequence

LEMMA Prepended ==
    ASSUME NEW x, NEW s, Sequence(s)
    PROVE  /\ Sequence(<<x>>) /\ Sequence(<<x>> \o s)
           /\ (<<x>> \o s) # <<>> /\ Head(<<x>> \o s) = x /\ Tail(<<x>> \o s) = s
           /\ Len(<<x>> \o s) = 1 + Len(s)
           /\ (<<x>> \o s)[1] = x
BY RNumbers, R!Prepended DEF Sequence, R!Sequence

LEMMA Empty ==
    ASSUME NEW s, Sequence(s)
    PROVE  <<>> \o s = s /\ s \o <<>> = s /\ Sequence(<<>>) /\ (Len(s) = 0 <=> s = <<>>)
BY RNumbers, R!Empty DEF Sequence, R!Sequence

-----------------------------------------------------------------------------
(* Four layers                                                              *)

Shapes == {"scalar", "sized", "option", "vector", "struct"}

LEMMA RecordsEncode == \A c, v : R!Encode(c, v) = Records!Encode(c, v)
BY ZenonT(40) DEF R!Encode, Records!Encode, R!Cell, Records!Cell, R!Number, Records!Number, R!Flat, Records!Flat, R!Prefix, Records!Prefix

LEMMA RecordsDecode ==
    ASSUME NEW c, c.shape \in Shapes, NEW b
    PROVE  R!Decode(c, b) = Records!Decode(c, b)
<1>1. \A w, bytes : R!Take(w, bytes) = Records!Take(w, bytes)
  BY Zenon DEF R!Take, Records!Take, R!Garbage, Records!Garbage
<1>2. \A v : R!Count(v) = Records!Count(v)
  BY Zenon DEF R!Count, Records!Count, R!Number, Records!Number, R!MaxLength, Records!MaxLength
<1>3. \A codecs, bytes : R!DecodeParts(codecs, bytes) = Records!DecodeParts(codecs, bytes)
  BY Zenon DEF R!DecodeParts, Records!DecodeParts
<1>4. \A n : /\ R!Prefix(c) = Records!Prefix(c) /\ R!Names(c) = Records!Names(c)
            /\ R!Place(c, n) = Records!Place(c, n)
  BY Zenon DEF R!Prefix, Records!Prefix, R!Names, Records!Names, R!Place, Records!Place
<1>5. CASE c.shape = "scalar" BY <1>5, <1>1 DEF R!Decode, Records!Decode
<1>6. CASE c.shape = "sized"
  <2>1. /\ R!Take(4, b) = Records!Take(4, b)
        /\ R!Count(R!Take(4, b).value) = Records!Count(Records!Take(4, b).value)
    BY <1>1, <1>2, Zenon
  <2> QED BY <1>6, <2>1 DEF R!Decode, Records!Decode
<1>7. /\ R!Take(R!Prefix(c), b) = Records!Take(Records!Prefix(c), b)
      /\ R!Count(R!Take(R!Prefix(c), b).value) = Records!Count(Records!Take(Records!Prefix(c), b).value)
  BY <1>1, <1>2, <1>4, Zenon
<1>8. CASE c.shape = "option" BY <1>8, <1>7, <1>3 DEF R!Decode, Records!Decode
<1>9. CASE c.shape = "vector" BY <1>9, <1>7, <1>3 DEF R!Decode, Records!Decode
<1>10. CASE c.shape = "struct" BY <1>10, <1>3, <1>4 DEF R!Decode, Records!Decode
<1> QED BY <1>5, <1>6, <1>8, <1>9, <1>10 DEF Shapes

LEMMA RecordsShape == ASSUME NEW c, NEW v, R!Fits(c, v) PROVE c.shape \in Shapes
BY DEF R!Fits, Shapes

LEMMA ListsEncode == \A c, v : L!Encode(c, v) = Lists!Encode(c, v)
BY Zenon DEF L!Encode, Lists!Encode, L!Cell, Lists!Cell, L!Number, Lists!Number, L!Flat, Lists!Flat, L!Prefix, Lists!Prefix

LEMMA ListsDecode ==
    ASSUME NEW c, c.shape \in Shapes, NEW b
    PROVE  L!Decode(c, b) = Lists!Decode(c, b)
<1>1. \A w, bytes : L!Take(w, bytes) = Lists!Take(w, bytes)
  BY Zenon DEF L!Take, Lists!Take, L!Garbage, Lists!Garbage
<1>2. \A v : L!Count(v) = Lists!Count(v)
  BY Zenon DEF L!Count, Lists!Count, L!Number, Lists!Number, L!MaxLength, Lists!MaxLength
<1>3. \A codecs, bytes : L!DecodeParts(codecs, bytes) = Lists!DecodeParts(codecs, bytes)
  BY Zenon DEF L!DecodeParts, Lists!DecodeParts
<1>4. \A n : /\ L!Prefix(c) = Lists!Prefix(c) /\ L!Names(c) = Lists!Names(c)
            /\ L!Place(c, n) = Lists!Place(c, n)
  BY Zenon DEF L!Prefix, Lists!Prefix, L!Names, Lists!Names, L!Place, Lists!Place
<1>5. CASE c.shape = "scalar" BY <1>5, <1>1 DEF L!Decode, Lists!Decode
<1>6. CASE c.shape = "sized"
  <2>1. /\ L!Take(4, b) = Lists!Take(4, b)
        /\ L!Count(L!Take(4, b).value) = Lists!Count(Lists!Take(4, b).value)
    BY <1>1, <1>2, Zenon
  <2> QED BY <1>6, <2>1 DEF L!Decode, Lists!Decode
<1>7. /\ L!Take(L!Prefix(c), b) = Lists!Take(Lists!Prefix(c), b)
      /\ L!Count(L!Take(L!Prefix(c), b).value) = Lists!Count(Lists!Take(Lists!Prefix(c), b).value)
  BY <1>1, <1>2, <1>4, Zenon
<1>8. CASE c.shape = "option" BY <1>8, <1>7, <1>3 DEF L!Decode, Lists!Decode
<1>9. CASE c.shape = "vector" BY <1>9, <1>7, <1>3 DEF L!Decode, Lists!Decode
<1>10. CASE c.shape = "struct" BY <1>10, <1>3, <1>4 DEF L!Decode, Lists!Decode
<1> QED BY <1>5, <1>6, <1>8, <1>9, <1>10 DEF Shapes

LEMMA ListsShape == ASSUME NEW c, NEW v, L!Fits(c, v) PROVE c.shape \in Shapes
BY DEF L!Fits, Shapes

LEMMA OptionsEncode == \A c, v : O!Encode(c, v) = Options!Encode(c, v)
BY Zenon DEF O!Encode, Options!Encode, O!Cell, Options!Cell, O!Number, Options!Number, O!Flat, Options!Flat, O!Prefix, Options!Prefix

LEMMA OptionsDecode ==
    ASSUME NEW c, c.shape \in Shapes, NEW b
    PROVE  O!Decode(c, b) = Options!Decode(c, b)
<1>1. \A w, bytes : O!Take(w, bytes) = Options!Take(w, bytes)
  BY Zenon DEF O!Take, Options!Take, O!Garbage, Options!Garbage
<1>2. \A v : O!Count(v) = Options!Count(v)
  BY Zenon DEF O!Count, Options!Count, O!Number, Options!Number, O!MaxLength, Options!MaxLength
<1>3. \A codecs, bytes : O!DecodeParts(codecs, bytes) = Options!DecodeParts(codecs, bytes)
  BY Zenon DEF O!DecodeParts, Options!DecodeParts
<1>4. \A n : /\ O!Prefix(c) = Options!Prefix(c) /\ O!Names(c) = Options!Names(c)
            /\ O!Place(c, n) = Options!Place(c, n)
  BY Zenon DEF O!Prefix, Options!Prefix, O!Names, Options!Names, O!Place, Options!Place
<1>5. CASE c.shape = "scalar" BY <1>5, <1>1 DEF O!Decode, Options!Decode
<1>6. CASE c.shape = "sized"
  <2>1. /\ O!Take(4, b) = Options!Take(4, b)
        /\ O!Count(O!Take(4, b).value) = Options!Count(Options!Take(4, b).value)
    BY <1>1, <1>2, Zenon
  <2> QED BY <1>6, <2>1 DEF O!Decode, Options!Decode
<1>7. /\ O!Take(O!Prefix(c), b) = Options!Take(Options!Prefix(c), b)
      /\ O!Count(O!Take(O!Prefix(c), b).value) = Options!Count(Options!Take(Options!Prefix(c), b).value)
  BY <1>1, <1>2, <1>4, Zenon
<1>8. CASE c.shape = "option" BY <1>8, <1>7, <1>3 DEF O!Decode, Options!Decode
<1>9. CASE c.shape = "vector" BY <1>9, <1>7, <1>3 DEF O!Decode, Options!Decode
<1>10. CASE c.shape = "struct" BY <1>10, <1>3, <1>4 DEF O!Decode, Options!Decode
<1> QED BY <1>5, <1>6, <1>8, <1>9, <1>10 DEF Shapes

LEMMA OptionsShape == ASSUME NEW c, NEW v, O!Fits(c, v) PROVE c.shape \in Shapes
BY DEF O!Fits, Shapes

LEMMA WholeEncode == \A c, v : W!Encode(c, v) = Whole!Encode(c, v)
BY Zenon DEF W!Encode, Whole!Encode, W!Cell, Whole!Cell, W!Number, Whole!Number, W!Flat, Whole!Flat, W!Prefix, Whole!Prefix

LEMMA WholeDecode ==
    ASSUME NEW c, c.shape \in Shapes, NEW b
    PROVE  W!Decode(c, b) = Whole!Decode(c, b)
<1>1. \A w, bytes : W!Take(w, bytes) = Whole!Take(w, bytes)
  BY Zenon DEF W!Take, Whole!Take, W!Garbage, Whole!Garbage
<1>2. \A v : W!Count(v) = Whole!Count(v)
  BY Zenon DEF W!Count, Whole!Count, W!Number, Whole!Number, W!MaxLength, Whole!MaxLength
<1>3. \A codecs, bytes : W!DecodeParts(codecs, bytes) = Whole!DecodeParts(codecs, bytes)
  BY Zenon DEF W!DecodeParts, Whole!DecodeParts
<1>4. \A n : /\ W!Prefix(c) = Whole!Prefix(c) /\ W!Names(c) = Whole!Names(c)
            /\ W!Place(c, n) = Whole!Place(c, n)
  BY Zenon DEF W!Prefix, Whole!Prefix, W!Names, Whole!Names, W!Place, Whole!Place
<1>5. CASE c.shape = "scalar" BY <1>5, <1>1 DEF W!Decode, Whole!Decode
<1>6. CASE c.shape = "sized"
  <2>1. /\ W!Take(4, b) = Whole!Take(4, b)
        /\ W!Count(W!Take(4, b).value) = Whole!Count(Whole!Take(4, b).value)
    BY <1>1, <1>2, Zenon
  <2> QED BY <1>6, <2>1 DEF W!Decode, Whole!Decode
<1>7. /\ W!Take(W!Prefix(c), b) = Whole!Take(Whole!Prefix(c), b)
      /\ W!Count(W!Take(W!Prefix(c), b).value) = Whole!Count(Whole!Take(Whole!Prefix(c), b).value)
  BY <1>1, <1>2, <1>4, Zenon
<1>8. CASE c.shape = "option" BY <1>8, <1>7, <1>3 DEF W!Decode, Whole!Decode
<1>9. CASE c.shape = "vector" BY <1>9, <1>7, <1>3 DEF W!Decode, Whole!Decode
<1>10. CASE c.shape = "struct" BY <1>10, <1>3, <1>4 DEF W!Decode, Whole!Decode
<1> QED BY <1>5, <1>6, <1>8, <1>9, <1>10 DEF Shapes

LEMMA WholeShape == ASSUME NEW c, NEW v, W!Fits(c, v) PROVE c.shape \in Shapes
BY DEF W!Fits, Shapes

LEMMA ScalarsReturn == R!PartsReturn
<1> SUFFICES ASSUME NEW codec, NEW value, NEW rest, codec.shape = "scalar", R!Sequence(rest)
    PROVE  /\ R!Sequence(EncodeScalar(codec, value))
           /\ DecodeScalar(codec, EncodeScalar(codec, value) \o rest) = [value |-> value, rest |-> rest]
  BY DEF R!PartsReturn, FitsScalar
<1>1. PICK w : w = codec.width OBVIOUS
<1>2. PICK head : head = <<R!Cell(w, value)>> OBVIOUS
<1>3. R!Sequence(head) /\ R!Take(w, head \o rest) = [value |-> value, rest |-> rest]
  BY <1>2, RNumbers, R!Taken
<1>4. \A b : R!Take(w, b) = Take(w, b)
  BY Zenon DEF R!Take, Take, R!Garbage, Garbage
<1>5. head = <<Cell(w, value)>> BY <1>2 DEF Cell, R!Cell
<1> QED BY <1>1, <1>3, <1>4, <1>5, Zenon DEF EncodeScalar, DecodeScalar

LEMMA RecordsReturn == L!PartsReturn
<1> SUFFICES ASSUME NEW codec, NEW value, NEW rest, R!Fits(codec, value), L!Sequence(rest)
    PROVE  /\ L!Sequence(Records!Encode(codec, value))
           /\ Records!Decode(codec, Records!Encode(codec, value) \o rest) = [value |-> value, rest |-> rest]
  BY DEF L!PartsReturn
<1>1. R!Sequence(rest) BY DEF R!Sequence, L!Sequence
<1>2. R!Returns(codec, value, rest) BY <1>1, RNumbers, ScalarsReturn, RInductive, R!RoundTrip
<1>3. R!Sequence(R!Encode(codec, value)) BY <1>2 DEF R!Returns
<1>4. R!Decode(codec, R!Encode(codec, value) \o rest) = [value |-> value, rest |-> rest]
  BY <1>2 DEF R!Returns
<1>5. L!Sequence(Records!Encode(codec, value))
  BY <1>3, RecordsEncode DEF R!Sequence, L!Sequence
<1>6. codec.shape \in Shapes BY RecordsShape
<1> QED BY <1>4, <1>5, <1>6, RecordsEncode, RecordsDecode, Zenon

LEMMA ListsReturn == O!PartsReturn
<1> SUFFICES ASSUME NEW codec, NEW value, NEW rest, L!Fits(codec, value), O!Sequence(rest)
    PROVE  /\ O!Sequence(Lists!Encode(codec, value))
           /\ Lists!Decode(codec, Lists!Encode(codec, value) \o rest) = [value |-> value, rest |-> rest]
  BY DEF O!PartsReturn
<1>1. L!Sequence(rest) BY DEF L!Sequence, O!Sequence
<1>2. L!Returns(codec, value, rest) BY <1>1, LNumbers, RecordsReturn, LInductive, L!RoundTrip
<1>3. L!Sequence(L!Encode(codec, value)) BY <1>2 DEF L!Returns
<1>4. L!Decode(codec, L!Encode(codec, value) \o rest) = [value |-> value, rest |-> rest]
  BY <1>2 DEF L!Returns
<1>5. O!Sequence(Lists!Encode(codec, value))
  BY <1>3, ListsEncode DEF L!Sequence, O!Sequence
<1>6. codec.shape \in Shapes BY ListsShape
<1> QED BY <1>4, <1>5, <1>6, ListsEncode, ListsDecode, Zenon

LEMMA OptionsReturn == W!PartsReturn
<1> SUFFICES ASSUME NEW codec, NEW value, NEW rest, O!Fits(codec, value), W!Sequence(rest)
    PROVE  /\ W!Sequence(Options!Encode(codec, value))
           /\ Options!Decode(codec, Options!Encode(codec, value) \o rest) = [value |-> value, rest |-> rest]
  BY DEF W!PartsReturn
<1>1. O!Sequence(rest) BY DEF O!Sequence, W!Sequence
<1>2. O!Returns(codec, value, rest) BY <1>1, ONumbers, ListsReturn, OInductive, O!RoundTrip
<1>3. O!Sequence(O!Encode(codec, value)) BY <1>2 DEF O!Returns
<1>4. O!Decode(codec, O!Encode(codec, value) \o rest) = [value |-> value, rest |-> rest]
  BY <1>2 DEF O!Returns
<1>5. W!Sequence(Options!Encode(codec, value))
  BY <1>3, OptionsEncode DEF O!Sequence, W!Sequence
<1>6. codec.shape \in Shapes BY OptionsShape
<1> QED BY <1>4, <1>5, <1>6, OptionsEncode, OptionsDecode, Zenon

Fits(codec, value) == W!Fits(codec, value)

\* What the client encodes, Borsh and the client decode (the codecs of the
\* generated clients, put together from those of @solana/kit).
THEOREM CodecsRoundTrip ==
    ASSUME NEW codec, NEW value, Fits(codec, value), NEW rest, Sequence(rest)
    PROVE  /\ Sequence(Encode(codec, value))
           /\ Decode(codec, Encode(codec, value) \o rest) = [value |-> value, rest |-> rest]
<1>1. W!Sequence(rest) BY DEF W!Sequence, Sequence
<1>2. W!Returns(codec, value, rest) BY <1>1, WNumbers, OptionsReturn, WInductive, W!RoundTrip DEF Fits
<1>3. W!Sequence(W!Encode(codec, value)) BY <1>2 DEF W!Returns
<1>4. W!Decode(codec, W!Encode(codec, value) \o rest) = [value |-> value, rest |-> rest]
  BY <1>2 DEF W!Returns
<1>5. Sequence(Encode(codec, value))
  BY <1>3, WholeEncode DEF W!Sequence, Sequence, Encode
<1>6. codec.shape \in Shapes BY WholeShape DEF Fits
<1> QED BY <1>4, <1>5, <1>6, WholeEncode, WholeDecode, Zenon DEF Encode, Decode

-----------------------------------------------------------------------------
(* The accounts of the client and of the program, side by side              *)

AlignedAt(a, s, ix) ==
    /\ a.name = s.name /\ a.optional = s.option /\ (s.mut => a.writable)
    /\ (s.signer => s.name \in Signers(ix)) /\ a.writable \in BOOLEAN /\ a.optional \in BOOLEAN
    /\ (s.option => ~s.signer /\ ~s.mut)
Aligned(A, T, ix) ==
    /\ Sequence(A) /\ Sequence(T) /\ Len(A) = Len(T)
    /\ \A i \in 1..Len(A) : AlignedAt(A[i], T[i], ix)
    /\ \A i, j \in 1..Len(A) : A[i].name = A[j].name => i = j

LEMMA Kinds ==
    ASSUME NEW x, NEW ix
    PROVE  /\ AlignedAt(Ro(x), Info(x), ix) /\ AlignedAt(Wr(x), Info(x), ix)
           /\ AlignedAt(Wr(x), Mut(x), ix) /\ AlignedAt(Opt(x), Maybe(x), ix)
           /\ x \in Signers(ix) => AlignedAt(Ro(x), Sig(x), ix) /\ AlignedAt(Wr(x), MutSig(x), ix)
BY DEF AlignedAt, Ro, Wr, Opt, Account, Info, Mut, Maybe, Sig, MutSig, Field

\* What is known of a sequence by its two parts.
Joined(t, s, e) ==
    /\ Sequence(t) /\ Len(t) = Len(s) + Len(e) /\ \A i \in 1..Len(s) : t[i] = s[i]
    /\ \A i \in 1..Len(e) : t[Len(s) + i] = e[i]

LEMMA Joining ==
    ASSUME NEW s, NEW e, Sequence(s), Sequence(e), NEW t, t = s \o e
    PROVE  Joined(t, s, e)
<1>1. /\ Sequence(s \o e) /\ Len(s \o e) = Len(s) + Len(e)
      /\ \A i \in 1..Len(s) : (s \o e)[i] = s[i]
      /\ \A i \in 1..Len(e) : (s \o e)[Len(s) + i] = e[i]
  BY Concatenated
<1> QED BY <1>1, Zenon DEF Joined

LEMMA EventCpiIs ==
    /\ Sequence(EventCpi) /\ Len(EventCpi) = 2
    /\ EventCpi[1] = Info("eventAuthority") /\ EventCpi[2] = Info("program")
<1>1. EventCpi \in Seq({EventCpi[i] : i \in 1..2}) /\ Len(EventCpi) = 2 BY DEF EventCpi
<1> QED BY <1>1 DEF Sequence, EventCpi

LEMMA CloseCompressedAligned == Aligned(CloseCompressedAccounts, CloseCompressedStruct, "closeCompressedAttestation")
<1>1. "signer" \in Signers("closeCompressedAttestation") BY DEF Signers
<1>2. Sequence(CloseCompressedAccounts) /\ Len(CloseCompressedAccounts) = 6
  <2>1. CloseCompressedAccounts \in Seq({CloseCompressedAccounts[i] : i \in 1..6}) /\ Len(CloseCompressedAccounts) = 6
    BY DEF CloseCompressedAccounts
  <2> QED BY <2>1 DEF Sequence
<1>3. \A i, j \in 1..6 : CloseCompressedAccounts[i].name = CloseCompressedAccounts[j].name => i = j
  BY DEF CloseCompressedAccounts, Wr, Ro, Opt, Account
<1> DEFINE own == <<MutSig("signer"), Info("schemaConfig"), Maybe("agentAta"),
                 Maybe("tokenProgram")>>
<1>4. Sequence(own) /\ Len(own) = 4
  <2>1. own \in Seq({own[i] : i \in 1..4}) /\ Len(own) = 4 OBVIOUS
  <2> HIDE DEF own
  <2> QED BY <2>1 DEF Sequence
<1>5. \A i \in 1..4 : AlignedAt(CloseCompressedAccounts[i], own[i], "closeCompressedAttestation")
  BY Kinds, <1>1 DEF CloseCompressedAccounts
<1>6. CloseCompressedStruct = own \o EventCpi BY Zenon DEF CloseCompressedStruct
<1> HIDE DEF own
<1>7. /\ AlignedAt(CloseCompressedAccounts[5], EventCpi[1], "closeCompressedAttestation")
      /\ AlignedAt(CloseCompressedAccounts[6], EventCpi[2], "closeCompressedAttestation")
  BY Kinds, EventCpiIs DEF CloseCompressedAccounts
<1>8. PICK e, t : e = EventCpi /\ t = own \o e OBVIOUS
<1>9. Sequence(e) /\ Len(e) = 2 BY <1>8, EventCpiIs
<1>14. Joined(t, own, e) BY <1>8, <1>4, <1>9, Joining, Zenon
<1>10. /\ Sequence(t) /\ Len(t) = Len(own) + Len(e) /\ \A i \in 1..Len(own) : t[i] = own[i]
       /\ \A i \in 1..Len(e) : t[Len(own) + i] = e[i]
  BY <1>14, Zenon DEF Joined
<1>11. Len(t) = 6 BY <1>10, <1>4, <1>9
<1>12. t[5] = e[1] /\ t[6] = e[2] BY <1>10, <1>4, <1>9
<1>13. \A i \in 1..6 : AlignedAt(CloseCompressedAccounts[i], t[i], "closeCompressedAttestation")
  <2>1. \A i \in 1..6 : i \in 1..4 \/ i = 5 \/ i = 6 OBVIOUS
  <2> QED BY <2>1, <1>4, <1>5, <1>7, <1>8, <1>10, <1>12, Zenon
<1> QED BY <1>2, <1>3, <1>6, <1>8, <1>10, <1>11, <1>13, Zenon DEF Aligned

LEMMA CloseRegularAligned == Aligned(CloseRegularAccounts, CloseRegularStruct, "closeRegularAttestation")
<1>1. "payer" \in Signers("closeRegularAttestation") /\ "signer" \in Signers("closeRegularAttestation") BY DEF Signers
<1>2. Sequence(CloseRegularAccounts) /\ Len(CloseRegularAccounts) = 11
  <2>1. CloseRegularAccounts \in Seq({CloseRegularAccounts[i] : i \in 1..11}) /\ Len(CloseRegularAccounts) = 11
    BY DEF CloseRegularAccounts
  <2> QED BY <2>1 DEF Sequence
<1>3. \A i, j \in 1..11 : CloseRegularAccounts[i].name = CloseRegularAccounts[j].name => i = j
  BY DEF CloseRegularAccounts, Wr, Ro, Opt, Account
<1> DEFINE own == <<MutSig("payer"), Sig("signer"), Info("schemaConfig"), Info("satiPda"),
                 Info("satiCredential"), Mut("attestation"), Info("sasProgram"),
                 Maybe("agentAta"), Maybe("tokenProgram")>>
<1>4. Sequence(own) /\ Len(own) = 9
  <2>1. own \in Seq({own[i] : i \in 1..9}) /\ Len(own) = 9 OBVIOUS
  <2> HIDE DEF own
  <2> QED BY <2>1 DEF Sequence
<1>5. \A i \in 1..9 : AlignedAt(CloseRegularAccounts[i], own[i], "closeRegularAttestation")
  BY Kinds, <1>1 DEF CloseRegularAccounts
<1>6. CloseRegularStruct = own \o EventCpi BY Zenon DEF CloseRegularStruct
<1> HIDE DEF own
<1>7. /\ AlignedAt(CloseRegularAccounts[10], EventCpi[1], "closeRegularAttestation")
      /\ AlignedAt(CloseRegularAccounts[11], EventCpi[2], "closeRegularAttestation")
  BY Kinds, EventCpiIs DEF CloseRegularAccounts
<1>8. PICK e, t : e = EventCpi /\ t = own \o e OBVIOUS
<1>9. Sequence(e) /\ Len(e) = 2 BY <1>8, EventCpiIs
<1>14. Joined(t, own, e) BY <1>8, <1>4, <1>9, Joining, Zenon
<1>10. /\ Sequence(t) /\ Len(t) = Len(own) + Len(e) /\ \A i \in 1..Len(own) : t[i] = own[i]
       /\ \A i \in 1..Len(e) : t[Len(own) + i] = e[i]
  BY <1>14, Zenon DEF Joined
<1>11. Len(t) = 11 BY <1>10, <1>4, <1>9
<1>12. t[10] = e[1] /\ t[11] = e[2] BY <1>10, <1>4, <1>9
<1>13. \A i \in 1..11 : AlignedAt(CloseRegularAccounts[i], t[i], "closeRegularAttestation")
  <2>1. \A i \in 1..11 : i \in 1..9 \/ i = 10 \/ i = 11 OBVIOUS
  <2> QED BY <2>1, <1>4, <1>5, <1>7, <1>8, <1>10, <1>12, Zenon
<1> QED BY <1>2, <1>3, <1>6, <1>8, <1>10, <1>11, <1>13, Zenon DEF Aligned

LEMMA CreateCompressedAligned == Aligned(CreateCompressedAccounts, CreateCompressedStruct, "createCompressedAttestation")
<1>1. "payer" \in Signers("createCompressedAttestation") BY DEF Signers
<1>2. Sequence(CreateCompressedAccounts) /\ Len(CreateCompressedAccounts) = 10
  <2>1. CreateCompressedAccounts \in Seq({CreateCompressedAccounts[i] : i \in 1..10}) /\ Len(CreateCompressedAccounts) = 10
    BY DEF CreateCompressedAccounts
  <2> QED BY <2>1 DEF Sequence
<1>3. \A i, j \in 1..10 : CreateCompressedAccounts[i].name = CreateCompressedAccounts[j].name => i = j
  BY DEF CreateCompressedAccounts, Wr, Ro, Opt, Account
<1> DEFINE own == <<MutSig("payer"), Info("schemaConfig"), Info("instructionsSysvar"),
                 Maybe("agentAta"), Maybe("tokenProgram"), Maybe("delegationAttestation"),
                 Maybe("satiCredential"), Maybe("clock")>>
<1>4. Sequence(own) /\ Len(own) = 8
  <2>1. own \in Seq({own[i] : i \in 1..8}) /\ Len(own) = 8 OBVIOUS
  <2> HIDE DEF own
  <2> QED BY <2>1 DEF Sequence
<1>5. \A i \in 1..8 : AlignedAt(CreateCompressedAccounts[i], own[i], "createCompressedAttestation")
  BY Kinds, <1>1 DEF CreateCompressedAccounts
<1>6. CreateCompressedStruct = own \o EventCpi BY Zenon DEF CreateCompressedStruct
<1> HIDE DEF own
<1>7. /\ AlignedAt(CreateCompressedAccounts[9], EventCpi[1], "createCompressedAttestation")
      /\ AlignedAt(CreateCompressedAccounts[10], EventCpi[2], "createCompressedAttestation")
  BY Kinds, EventCpiIs DEF CreateCompressedAccounts
<1>8. PICK e, t : e = EventCpi /\ t = own \o e OBVIOUS
<1>9. Sequence(e) /\ Len(e) = 2 BY <1>8, EventCpiIs
<1>14. Joined(t, own, e) BY <1>8, <1>4, <1>9, Joining, Zenon
<1>10. /\ Sequence(t) /\ Len(t) = Len(own) + Len(e) /\ \A i \in 1..Len(own) : t[i] = own[i]
       /\ \A i \in 1..Len(e) : t[Len(own) + i] = e[i]
  BY <1>14, Zenon DEF Joined
<1>11. Len(t) = 10 BY <1>10, <1>4, <1>9
<1>12. t[9] = e[1] /\ t[10] = e[2] BY <1>10, <1>4, <1>9
<1>13. \A i \in 1..10 : AlignedAt(CreateCompressedAccounts[i], t[i], "createCompressedAttestation")
  <2>1. \A i \in 1..10 : i \in 1..8 \/ i = 9 \/ i = 10 OBVIOUS
  <2> QED BY <2>1, <1>4, <1>5, <1>7, <1>8, <1>10, <1>12, Zenon
<1> QED BY <1>2, <1>3, <1>6, <1>8, <1>10, <1>11, <1>13, Zenon DEF Aligned

LEMMA CreateRegularAligned == Aligned(CreateRegularAccounts, CreateRegularStruct, "createRegularAttestation")
<1>1. "payer" \in Signers("createRegularAttestation") BY DEF Signers
<1>2. Sequence(CreateRegularAccounts) /\ Len(CreateRegularAccounts) = 15
  <2>1. CreateRegularAccounts \in Seq({CreateRegularAccounts[i] : i \in 1..15}) /\ Len(CreateRegularAccounts) = 15
    BY DEF CreateRegularAccounts
  <2> QED BY <2>1 DEF Sequence
<1>3. \A i, j \in 1..15 : CreateRegularAccounts[i].name = CreateRegularAccounts[j].name => i = j
  BY DEF CreateRegularAccounts, Wr, Ro, Opt, Account
<1> DEFINE own == <<MutSig("payer"), Info("schemaConfig"), Info("satiPda"),
                 Info("satiCredential"), Info("sasSchema"), Mut("attestation"),
                 Info("instructionsSysvar"), Maybe("agentAta"), Maybe("tokenProgram"),
                 Maybe("delegationAttestation"), Maybe("clock"), Info("sasProgram"),
                 Info("systemProgram")>>
<1>4. Sequence(own) /\ Len(own) = 13
  <2>1. own \in Seq({own[i] : i \in 1..13}) /\ Len(own) = 13 OBVIOUS
  <2> HIDE DEF own
  <2> QED BY <2>1 DEF Sequence
<1>5. \A i \in 1..13 : AlignedAt(CreateRegularAccounts[i], own[i], "createRegularAttestation")
  BY Kinds, <1>1 DEF CreateRegularAccounts
<1>6. CreateRegularStruct = own \o EventCpi BY Zenon DEF CreateRegularStruct
<1> HIDE DEF own
<1>7. /\ AlignedAt(CreateRegularAccounts[14], EventCpi[1], "createRegularAttestation")
      /\ AlignedAt(CreateRegularAccounts[15], EventCpi[2], "createRegularAttestation")
  BY Kinds, EventCpiIs DEF CreateRegularAccounts
<1>8. PICK e, t : e = EventCpi /\ t = own \o e OBVIOUS
<1>9. Sequence(e) /\ Len(e) = 2 BY <1>8, EventCpiIs
<1>14. Joined(t, own, e) BY <1>8, <1>4, <1>9, Joining, Zenon
<1>10. /\ Sequence(t) /\ Len(t) = Len(own) + Len(e) /\ \A i \in 1..Len(own) : t[i] = own[i]
       /\ \A i \in 1..Len(e) : t[Len(own) + i] = e[i]
  BY <1>14, Zenon DEF Joined
<1>11. Len(t) = 15 BY <1>10, <1>4, <1>9
<1>12. t[14] = e[1] /\ t[15] = e[2] BY <1>10, <1>4, <1>9
<1>13. \A i \in 1..15 : AlignedAt(CreateRegularAccounts[i], t[i], "createRegularAttestation")
  <2>1. \A i \in 1..15 : i \in 1..13 \/ i = 14 \/ i = 15 OBVIOUS
  <2> QED BY <2>1, <1>4, <1>5, <1>7, <1>8, <1>10, <1>12, Zenon
<1> QED BY <1>2, <1>3, <1>6, <1>8, <1>10, <1>11, <1>13, Zenon DEF Aligned

LEMMA InitializeAligned == Aligned(InitializeAccounts, InitializeStruct, "initialize")
<1>1. "authority" \in Signers("initialize") BY DEF Signers
<1>2. Sequence(InitializeAccounts) /\ Len(InitializeAccounts) = 4
  <2>1. InitializeAccounts \in Seq({InitializeAccounts[i] : i \in 1..4}) /\ Len(InitializeAccounts) = 4
    BY DEF InitializeAccounts
  <2> QED BY <2>1 DEF Sequence
<1>3. \A i, j \in 1..4 : InitializeAccounts[i].name = InitializeAccounts[j].name => i = j
  BY DEF InitializeAccounts, Wr, Ro, Opt, Account
<1>4. Sequence(InitializeStruct) /\ Len(InitializeStruct) = 4
  <2>1. InitializeStruct \in Seq({InitializeStruct[i] : i \in 1..4}) /\ Len(InitializeStruct) = 4
    BY DEF InitializeStruct
  <2> QED BY <2>1 DEF Sequence
<1>5. \A i \in 1..4 : AlignedAt(InitializeAccounts[i], InitializeStruct[i], "initialize")
  BY Kinds, <1>1 DEF InitializeAccounts, InitializeStruct
<1> QED BY <1>2, <1>3, <1>4, <1>5, Zenon DEF Aligned

LEMMA LinkEvmAligned == Aligned(LinkEvmAccounts, LinkEvmStruct, "linkEvmAddress")
<1>1. "owner" \in Signers("linkEvmAddress") BY DEF Signers
<1>2. Sequence(LinkEvmAccounts) /\ Len(LinkEvmAccounts) = 4
  <2>1. LinkEvmAccounts \in Seq({LinkEvmAccounts[i] : i \in 1..4}) /\ Len(LinkEvmAccounts) = 4
    BY DEF LinkEvmAccounts
  <2> QED BY <2>1 DEF Sequence
<1>3. \A i, j \in 1..4 : LinkEvmAccounts[i].name = LinkEvmAccounts[j].name => i = j
  BY DEF LinkEvmAccounts, Wr, Ro, Opt, Account
<1>4. Sequence(LinkEvmStruct) /\ Len(LinkEvmStruct) = 4
  <2>1. LinkEvmStruct \in Seq({LinkEvmStruct[i] : i \in 1..4}) /\ Len(LinkEvmStruct) = 4
    BY DEF LinkEvmStruct
  <2> QED BY <2>1 DEF Sequence
<1>5. \A i \in 1..4 : AlignedAt(LinkEvmAccounts[i], LinkEvmStruct[i], "linkEvmAddress")
  BY Kinds, <1>1 DEF LinkEvmAccounts, LinkEvmStruct
<1> QED BY <1>2, <1>3, <1>4, <1>5, Zenon DEF Aligned

LEMMA RegisterAgentAligned == Aligned(RegisterAgentAccounts, RegisterAgentStruct, "registerAgent")
<1>1. "payer" \in Signers("registerAgent") /\ "agentMint" \in Signers("registerAgent") BY DEF Signers
<1>2. Sequence(RegisterAgentAccounts) /\ Len(RegisterAgentAccounts) = 10
  <2>1. RegisterAgentAccounts \in Seq({RegisterAgentAccounts[i] : i \in 1..10}) /\ Len(RegisterAgentAccounts) = 10
    BY DEF RegisterAgentAccounts
  <2> QED BY <2>1 DEF Sequence
<1>3. \A i, j \in 1..10 : RegisterAgentAccounts[i].name = RegisterAgentAccounts[j].name => i = j
  BY DEF RegisterAgentAccounts, Wr, Ro, Opt, Account
<1>4. Sequence(RegisterAgentStruct) /\ Len(RegisterAgentStruct) = 10
  <2>1. RegisterAgentStruct \in Seq({RegisterAgentStruct[i] : i \in 1..10}) /\ Len(RegisterAgentStruct) = 10
    BY DEF RegisterAgentStruct
  <2> QED BY <2>1 DEF Sequence
<1>5. \A i \in 1..10 : AlignedAt(RegisterAgentAccounts[i], RegisterAgentStruct[i], "registerAgent")
  BY Kinds, <1>1 DEF RegisterAgentAccounts, RegisterAgentStruct
<1> QED BY <1>2, <1>3, <1>4, <1>5, Zenon DEF Aligned

LEMMA RegisterSchemaConfigAligned == Aligned(RegisterSchemaConfigAccounts, RegisterSchemaConfigStruct, "registerSchemaConfig")
<1>1. "payer" \in Signers("registerSchemaConfig") /\ "authority" \in Signers("registerSchemaConfig") BY DEF Signers
<1>2. Sequence(RegisterSchemaConfigAccounts) /\ Len(RegisterSchemaConfigAccounts) = 5
  <2>1. RegisterSchemaConfigAccounts \in Seq({RegisterSchemaConfigAccounts[i] : i \in 1..5}) /\ Len(RegisterSchemaConfigAccounts) = 5
    BY DEF RegisterSchemaConfigAccounts
  <2> QED BY <2>1 DEF Sequence
<1>3. \A i, j \in 1..5 : RegisterSchemaConfigAccounts[i].name = RegisterSchemaConfigAccounts[j].name => i = j
  BY DEF RegisterSchemaConfigAccounts, Wr, Ro, Opt, Account
<1>4. Sequence(RegisterSchemaConfigStruct) /\ Len(RegisterSchemaConfigStruct) = 5
  <2>1. RegisterSchemaConfigStruct \in Seq({RegisterSchemaConfigStruct[i] : i \in 1..5}) /\ Len(RegisterSchemaConfigStruct) = 5
    BY DEF RegisterSchemaConfigStruct
  <2> QED BY <2>1 DEF Sequence
<1>5. \A i \in 1..5 : AlignedAt(RegisterSchemaConfigAccounts[i], RegisterSchemaConfigStruct[i], "registerSchemaConfig")
  BY Kinds, <1>1 DEF RegisterSchemaConfigAccounts, RegisterSchemaConfigStruct
<1> QED BY <1>2, <1>3, <1>4, <1>5, Zenon DEF Aligned

LEMMA UpdateAuthorityAligned == Aligned(UpdateAuthorityAccounts, UpdateAuthorityStruct, "updateRegistryAuthority")
<1>1. "authority" \in Signers("updateRegistryAuthority") BY DEF Signers
<1>2. Sequence(UpdateAuthorityAccounts) /\ Len(UpdateAuthorityAccounts) = 2
  <2>1. UpdateAuthorityAccounts \in Seq({UpdateAuthorityAccounts[i] : i \in 1..2}) /\ Len(UpdateAuthorityAccounts) = 2
    BY DEF UpdateAuthorityAccounts
  <2> QED BY <2>1 DEF Sequence
<1>3. \A i, j \in 1..2 : UpdateAuthorityAccounts[i].name = UpdateAuthorityAccounts[j].name => i = j
  BY DEF UpdateAuthorityAccounts, Wr, Ro, Opt, Account
<1>4. Sequence(UpdateAuthorityStruct) /\ Len(UpdateAuthorityStruct) = 2
  <2>1. UpdateAuthorityStruct \in Seq({UpdateAuthorityStruct[i] : i \in 1..2}) /\ Len(UpdateAuthorityStruct) = 2
    BY DEF UpdateAuthorityStruct
  <2> QED BY <2>1 DEF Sequence
<1>5. \A i \in 1..2 : AlignedAt(UpdateAuthorityAccounts[i], UpdateAuthorityStruct[i], "updateRegistryAuthority")
  BY Kinds, <1>1 DEF UpdateAuthorityAccounts, UpdateAuthorityStruct
<1> QED BY <1>2, <1>3, <1>4, <1>5, Zenon DEF Aligned

LEMMA AccountsAligned ==
    ASSUME NEW ix \in Instructions
    PROVE  Aligned(AccountsOf(ix), Structs[ix], ix)
<1>1. CASE ix = "closeCompressedAttestation"
  <2>1. AccountsOf(ix) = CloseCompressedAccounts /\ Structs[ix] = CloseCompressedStruct BY <1>1 DEF AccountsOf, Structs
  <2> QED BY <1>1, <2>1, CloseCompressedAligned
<1>2. CASE ix = "closeRegularAttestation"
  <2>1. AccountsOf(ix) = CloseRegularAccounts /\ Structs[ix] = CloseRegularStruct BY <1>2 DEF AccountsOf, Structs
  <2> QED BY <1>2, <2>1, CloseRegularAligned
<1>3. CASE ix = "createCompressedAttestation"
  <2>1. AccountsOf(ix) = CreateCompressedAccounts /\ Structs[ix] = CreateCompressedStruct BY <1>3 DEF AccountsOf, Structs
  <2> QED BY <1>3, <2>1, CreateCompressedAligned
<1>4. CASE ix = "createRegularAttestation"
  <2>1. AccountsOf(ix) = CreateRegularAccounts /\ Structs[ix] = CreateRegularStruct BY <1>4 DEF AccountsOf, Structs
  <2> QED BY <1>4, <2>1, CreateRegularAligned
<1>5. CASE ix = "initialize"
  <2>1. AccountsOf(ix) = InitializeAccounts /\ Structs[ix] = InitializeStruct BY <1>5 DEF AccountsOf, Structs
  <2> QED BY <1>5, <2>1, InitializeAligned
<1>6. CASE ix = "linkEvmAddress"
  <2>1. AccountsOf(ix) = LinkEvmAccounts /\ Structs[ix] = LinkEvmStruct BY <1>6 DEF AccountsOf, Structs
  <2> QED BY <1>6, <2>1, LinkEvmAligned
<1>7. CASE ix = "registerAgent"
  <2>1. AccountsOf(ix) = RegisterAgentAccounts /\ Structs[ix] = RegisterAgentStruct BY <1>7 DEF AccountsOf, Structs
  <2> QED BY <1>7, <2>1, RegisterAgentAligned
<1>8. CASE ix = "registerSchemaConfig"
  <2>1. AccountsOf(ix) = RegisterSchemaConfigAccounts /\ Structs[ix] = RegisterSchemaConfigStruct BY <1>8 DEF AccountsOf, Structs
  <2> QED BY <1>8, <2>1, RegisterSchemaConfigAligned
<1>9. CASE ix = "updateRegistryAuthority"
  <2>1. AccountsOf(ix) = UpdateAuthorityAccounts /\ Structs[ix] = UpdateAuthorityStruct BY <1>9 DEF AccountsOf, Structs
  <2> QED BY <1>9, <2>1, UpdateAuthorityAligned
<1> QED BY <1>1, <1>2, <1>3, <1>4, <1>5, <1>6, <1>7, <1>8, <1>9 DEF Instructions

-----------------------------------------------------------------------------
(* What a builder makes of its accounts, and what the program takes of them *)

NamesOf(A) == {A[i].name : i \in 1..Len(A)}
MetasOf(A, values) == [i \in DOMAIN A |-> GetAccountMeta(A[i], values, SATI_PROGRAM_ADDRESS)]

\* The address that the program sees in place of an account.
Seen(a, values) ==
    IF a.name \in DOMAIN values
    THEN IF a.optional /\ values[a.name].address = SATI_PROGRAM_ADDRESS THEN Absent
         ELSE values[a.name].address
    ELSE IF a.optional THEN Absent ELSE SATI_PROGRAM_ADDRESS

\* What is known of the accounts of an instruction.
MetasKnown(A, values, remaining, metas) ==
    /\ Sequence(metas) /\ Len(metas) = Len(A) + Len(remaining) /\ DOMAIN metas = 1..Len(metas)
    /\ Len(A) \in Nat /\ Len(remaining) \in Nat
    /\ \A i \in 1..Len(A) :
          metas[i] = GetAccountMeta(A[i], values, SATI_PROGRAM_ADDRESS) /\ i \in DOMAIN metas
    /\ SubSeq(metas, Len(A) + 1, Len(metas)) = remaining

LEMMA MetasAre ==
    ASSUME NEW A, Sequence(A), NEW values, NEW remaining, Sequence(remaining), NEW metas,
           metas = MetasOf(A, values) \o remaining
    PROVE  MetasKnown(A, values, remaining, metas)
<1>1. Len(A) \in Nat /\ DOMAIN A = 1..Len(A) /\ Len(remaining) \in Nat BY Length
<1>2. PICK m, n : m = MetasOf(A, values) /\ n = Len(A) OBVIOUS
<1>3. \A i \in 1..n : m[i] = GetAccountMeta(A[i], values, SATI_PROGRAM_ADDRESS)
  BY <1>1, <1>2, Zenon DEF MetasOf
<1>4. Sequence(m) /\ Len(m) = n
  <2>1. m = [i \in 1..n |-> m[i]] BY <1>1, <1>2, Zenon DEF MetasOf
  <2> QED BY <1>1, <1>2, <2>1, Tabulated
<1>5. Joined(metas, m, remaining) BY <1>2, <1>4, Joining, Zenon
<1>6. /\ Sequence(metas) /\ Len(metas) = n + Len(remaining) /\ \A i \in 1..n : metas[i] = m[i]
      /\ \A i \in 1..Len(remaining) : metas[n + i] = remaining[i]
  BY <1>4, <1>5, Zenon DEF Joined
<1>7. Len(metas) \in Nat /\ DOMAIN metas = 1..Len(metas) BY <1>6, Length
<1>8. \A i \in 1..n : i \in 1..Len(metas) BY <1>1, <1>2, <1>6
<1>9. SubSeq(metas, n + 1, Len(metas)) = remaining
  <2>1. PICK S : metas \in Seq(S) /\ remaining \in Seq(S) BY <1>6, TwoSequences
  <2> QED BY <2>1, <1>1, <1>2, <1>6
<1> QED BY <1>1, <1>2, <1>3, <1>6, <1>7, <1>8, <1>9, Zenon DEF MetasKnown

TakenAs(A, values, taken) ==
    DOMAIN taken = NamesOf(A) /\ \A i \in 1..Len(A) : taken[A[i].name] = Seen(A[i], values)

LEMMA Taking ==
    ASSUME NEW A, NEW T, NEW ix, Aligned(A, T, ix), NEW values, NEW remaining, Sequence(remaining),
           NEW metas, metas = MetasOf(A, values) \o remaining
    PROVE  TakenAs(A, values, TakeAccounts(T, metas))
<1>1. /\ Sequence(A) /\ Sequence(T) /\ Len(A) = Len(T)
      /\ \A i \in 1..Len(A) : AlignedAt(A[i], T[i], ix)
      /\ \A i, j \in 1..Len(A) : A[i].name = A[j].name => i = j
  BY Zenon DEF Aligned
<1>2. DOMAIN T = 1..Len(A) BY <1>1, Length
<1>3. \A i \in 1..Len(A) : A[i].name = T[i].name /\ A[i].optional = T[i].option
  BY <1>1, Zenon DEF AlignedAt
<1>4. {T[i].name : i \in DOMAIN T} = NamesOf(A)
  BY <1>2, <1>3, Zenon DEF NamesOf
<1>5. \A i \in 1..Len(A) : metas[i] = GetAccountMeta(A[i], values, SATI_PROGRAM_ADDRESS)
  <2>1. MetasKnown(A, values, remaining, metas) BY <1>1, MetasAre
  <2> QED BY <2>1, Zenon DEF MetasKnown
<1>6. ASSUME NEW i \in 1..Len(A) PROVE TakeAccounts(T, metas)[A[i].name] = Seen(A[i], values)
  <2>1. A[i].name \in {T[j].name : j \in DOMAIN T} BY <1>2, <1>3, Zenon
  <2>2. (CHOOSE j \in DOMAIN T : T[j].name = A[i].name) = i
    <3>1. \E j \in DOMAIN T : T[j].name = A[i].name BY <1>2, <1>3, Zenon
    <3>2. \A j \in DOMAIN T : T[j].name = A[i].name => j = i BY <1>1, <1>2, <1>3, Zenon
    <3> QED BY <3>1, <3>2, Zenon
  <2>3. TakeAccounts(T, metas)[A[i].name]
        = IF T[i].option /\ metas[i].address = SATI_PROGRAM_ADDRESS THEN Absent ELSE metas[i].address
    BY <2>1, <2>2, Zenon DEF TakeAccounts
  <2>4. metas[i].address = IF A[i].name \in DOMAIN values THEN values[A[i].name].address
                           ELSE SATI_PROGRAM_ADDRESS
    <3>1. metas[i] = GetAccountMeta(A[i], values, SATI_PROGRAM_ADDRESS) BY <1>5
    <3>2. PICK a : a = A[i] OBVIOUS
    <3>3. CASE a.name \in DOMAIN values BY <3>1, <3>2, <3>3 DEF GetAccountMeta
    <3>4. CASE a.name \notin DOMAIN values BY <3>1, <3>2, <3>4 DEF GetAccountMeta
    <3> QED BY <3>3, <3>4
  <2>5. T[i].option = A[i].optional BY <1>3, Zenon
  <2>6. CASE A[i].name \in DOMAIN values BY <2>3, <2>4, <2>5, <2>6, Zenon DEF Seen
  <2>7. CASE A[i].name \notin DOMAIN values BY <2>3, <2>4, <2>5, <2>7, Zenon DEF Seen
  <2> QED BY <2>6, <2>7
<1>7. DOMAIN TakeAccounts(T, metas) = NamesOf(A) BY <1>4, Zenon DEF TakeAccounts
<1> QED BY <1>6, <1>7, Zenon DEF TakenAs

\* A required account that has a value is passed with the privileges that the program asks for.
LEMMA Privileged ==
    ASSUME NEW A, NEW T, NEW ix, Aligned(A, T, ix), NEW values, NEW remaining, Sequence(remaining),
           NEW metas, metas = MetasOf(A, values) \o remaining,
           NEW i \in DOMAIN T, A[i].name \in DOMAIN values, values[A[i].name].signer \in BOOLEAN,
           A[i].name \in Signers(ix) => values[A[i].name].signer
    PROVE  /\ T[i].signer => IsSigner(metas, metas[i].address)
           /\ T[i].mut => IsWritable(metas, metas[i].address)
<1>1. /\ Sequence(A) /\ Sequence(T) /\ Len(A) = Len(T)
      /\ \A j \in 1..Len(A) : AlignedAt(A[j], T[j], ix)
  BY Zenon DEF Aligned
<1>2. i \in 1..Len(A) BY <1>1, Length
<1>3. metas[i] = GetAccountMeta(A[i], values, SATI_PROGRAM_ADDRESS) /\ i \in DOMAIN metas
  <2>1. MetasKnown(A, values, remaining, metas) BY <1>1, MetasAre
  <2> QED BY <1>2, <2>1, Zenon DEF MetasKnown
<1>4. metas[i].role = (IF A[i].writable THEN WRITABLE ELSE READONLY)
                      + (IF values[A[i].name].signer THEN READONLY_SIGNER ELSE READONLY)
  BY <1>3 DEF GetAccountMeta
<1>5. AlignedAt(A[i], T[i], ix) BY <1>1, <1>2, Zenon
<1>6. ASSUME T[i].signer PROVE metas[i].role \in {READONLY_SIGNER, WRITABLE_SIGNER}
  <2>1. values[A[i].name].signer BY <1>5, <1>6, Zenon DEF AlignedAt
  <2>2. metas[i].role = (IF A[i].writable THEN WRITABLE ELSE READONLY) + READONLY_SIGNER
    BY <1>4, <2>1, Zenon
  <2>3. CASE A[i].writable
    <3>1. metas[i].role = WRITABLE + READONLY_SIGNER BY <2>2, <2>3, Zenon
    <3> QED BY <3>1 DEF WRITABLE, READONLY_SIGNER, WRITABLE_SIGNER
  <2>4. CASE ~A[i].writable
    <3>1. metas[i].role = READONLY + READONLY_SIGNER BY <2>2, <2>4, Zenon
    <3> QED BY <3>1 DEF READONLY, READONLY_SIGNER, WRITABLE_SIGNER
  <2> QED BY <2>3, <2>4
<1>7. ASSUME T[i].mut PROVE metas[i].role \in {WRITABLE, WRITABLE_SIGNER}
  <2>1. A[i].writable BY <1>5, <1>7, Zenon DEF AlignedAt
  <2>2. metas[i].role = WRITABLE + (IF values[A[i].name].signer THEN READONLY_SIGNER ELSE READONLY)
    BY <1>4, <2>1, Zenon
  <2>3. CASE values[A[i].name].signer
    <3>1. metas[i].role = WRITABLE + READONLY_SIGNER BY <2>2, <2>3, Zenon
    <3> QED BY <3>1 DEF WRITABLE, READONLY_SIGNER, WRITABLE_SIGNER
  <2>4. CASE ~values[A[i].name].signer
    <3>1. metas[i].role = WRITABLE + READONLY BY <2>2, <2>4, Zenon
    <3> QED BY <3>1 DEF READONLY, WRITABLE, WRITABLE_SIGNER
  <2> QED BY <2>3, <2>4
<1> QED BY <1>3, <1>6, <1>7, Zenon DEF IsSigner, IsWritable

-----------------------------------------------------------------------------
(* What the builders fill in                                                *)

DefaultAta(given) ==
    LET with == given ++ [tokenProgram |-> Plain(TokenProgram)]
    IN  Ata(with["owner"].address, with["tokenProgram"].address, with["agentMint"].address)
DefaultSchemaConfig(args) == Pda(SATI_PROGRAM_ADDRESS, <<"schema_config">> \o args.sasSchema)

Defaults(ix, style, given, args) ==
    CASE ix = "closeCompressedAttestation" ->
            IF style = "async" THEN EventAuthority(SATI_PROGRAM_ADDRESS)
            ELSE NoDefault
      [] ix = "closeRegularAttestation" ->
            IF style = "async" THEN SatiPda(SATI_PROGRAM_ADDRESS) ++ EventAuthority(SATI_PROGRAM_ADDRESS) ++ CloseRegularConstants
            ELSE CloseRegularConstants
      [] ix = "createCompressedAttestation" ->
            IF style = "async" THEN CreateCompressedConstants ++ EventAuthority(SATI_PROGRAM_ADDRESS)
            ELSE CreateCompressedConstants
      [] ix = "createRegularAttestation" ->
            IF style = "async" THEN SatiPda(SATI_PROGRAM_ADDRESS) ++ EventAuthority(SATI_PROGRAM_ADDRESS) ++ CreateRegularConstants
            ELSE CreateRegularConstants
      [] ix = "initialize" ->
            IF style = "async" THEN RegistryPda(SATI_PROGRAM_ADDRESS) ++ SystemDefault
            ELSE SystemDefault
      [] ix = "linkEvmAddress" ->
            IF style = "async" THEN LinkEvmConstants ++ [ata |-> DefaultAta(given)]
            ELSE LinkEvmConstants
      [] ix = "registerAgent" ->
            IF style = "async" THEN RegistryPda(SATI_PROGRAM_ADDRESS) ++ RegisterAgentConstants
            ELSE RegisterAgentConstants
      [] ix = "registerSchemaConfig" ->
            IF style = "async" THEN RegistryPda(SATI_PROGRAM_ADDRESS) ++ SystemDefault ++ [schemaConfig |-> DefaultSchemaConfig(args)]
            ELSE SystemDefault
      [] ix = "updateRegistryAuthority" ->
            IF style = "async" THEN RegistryPda(SATI_PROGRAM_ADDRESS)
            ELSE NoDefault

LEMMA BuiltIs ==
    ASSUME NEW ix \in Instructions, NEW style, NEW given, NEW args
    PROVE  Built(ix, style, given, args)
           = Build(ix, AccountsOf(ix), WithDiscriminator(Params[ix]), given,
                   Defaults(ix, style, given, args), args, SATI_PROGRAM_ADDRESS)
<1>1. CASE ix = "closeCompressedAttestation"
  <2>1. AccountsOf(ix) = CloseCompressedAccounts BY <1>1 DEF AccountsOf
  <2>2. CloseCompressedData = WithDiscriminator(Params[ix]) BY <1>1 DEF CloseCompressedData, Params, CloseParams, LightProof, LightAccountMeta, ValidityProof, CompressedProof, CompressedAccountMeta, PackedStateTreeInfo
  <2>3. CASE style = "async"
    <3>1. Built(ix, style, given, args) = GetCloseCompressedAsync(given, args, SATI_PROGRAM_ADDRESS) BY <1>1, <2>3 DEF Built
    <3>2. Defaults(ix, style, given, args) = EventAuthority(SATI_PROGRAM_ADDRESS) BY <1>1, <2>3 DEF Defaults
    <3> QED BY <1>1, <2>1, <2>2, <3>1, <3>2, Zenon DEF GetCloseCompressedAsync
  <2>4. CASE style # "async"
    <3>1. Built(ix, style, given, args) = GetCloseCompressed(given, args, SATI_PROGRAM_ADDRESS) BY <1>1, <2>4 DEF Built
    <3>2. Defaults(ix, style, given, args) = NoDefault BY <1>1, <2>4 DEF Defaults
    <3> QED BY <1>1, <2>1, <2>2, <3>1, <3>2, Zenon DEF GetCloseCompressed
  <2> QED BY <2>3, <2>4
<1>2. CASE ix = "closeRegularAttestation"
  <2>1. AccountsOf(ix) = CloseRegularAccounts BY <1>2 DEF AccountsOf
  <2>2. CloseRegularData = WithDiscriminator(Params[ix]) BY <1>2 DEF CloseRegularData, Params
  <2>3. CASE style = "async"
    <3>1. Built(ix, style, given, args) = GetCloseRegularAsync(given, args, SATI_PROGRAM_ADDRESS) BY <1>2, <2>3 DEF Built
    <3>2. Defaults(ix, style, given, args) = SatiPda(SATI_PROGRAM_ADDRESS) ++ EventAuthority(SATI_PROGRAM_ADDRESS) ++ CloseRegularConstants BY <1>2, <2>3 DEF Defaults
    <3> QED BY <1>2, <2>1, <2>2, <3>1, <3>2, Zenon DEF GetCloseRegularAsync
  <2>4. CASE style # "async"
    <3>1. Built(ix, style, given, args) = GetCloseRegular(given, args, SATI_PROGRAM_ADDRESS) BY <1>2, <2>4 DEF Built
    <3>2. Defaults(ix, style, given, args) = CloseRegularConstants BY <1>2, <2>4 DEF Defaults
    <3> QED BY <1>2, <2>1, <2>2, <3>1, <3>2, Zenon DEF GetCloseRegular
  <2> QED BY <2>3, <2>4
<1>3. CASE ix = "createCompressedAttestation"
  <2>1. AccountsOf(ix) = CreateCompressedAccounts BY <1>3 DEF AccountsOf
  <2>2. CreateCompressedData = WithDiscriminator(Params[ix]) BY <1>3 DEF CreateCompressedData, Params, CreateParams, LightProof, LightAddressTree, ValidityProof, CompressedProof, PackedAddressTreeInfo
  <2>3. CASE style = "async"
    <3>1. Built(ix, style, given, args) = GetCreateCompressedAsync(given, args, SATI_PROGRAM_ADDRESS) BY <1>3, <2>3 DEF Built
    <3>2. Defaults(ix, style, given, args) = CreateCompressedConstants ++ EventAuthority(SATI_PROGRAM_ADDRESS) BY <1>3, <2>3 DEF Defaults
    <3> QED BY <1>3, <2>1, <2>2, <3>1, <3>2, Zenon DEF GetCreateCompressedAsync
  <2>4. CASE style # "async"
    <3>1. Built(ix, style, given, args) = GetCreateCompressed(given, args, SATI_PROGRAM_ADDRESS) BY <1>3, <2>4 DEF Built
    <3>2. Defaults(ix, style, given, args) = CreateCompressedConstants BY <1>3, <2>4 DEF Defaults
    <3> QED BY <1>3, <2>1, <2>2, <3>1, <3>2, Zenon DEF GetCreateCompressed
  <2> QED BY <2>3, <2>4
<1>4. CASE ix = "createRegularAttestation"
  <2>1. AccountsOf(ix) = CreateRegularAccounts BY <1>4 DEF AccountsOf
  <2>2. CreateRegularData = WithDiscriminator(Params[ix]) BY <1>4 DEF CreateRegularData, Params, CreateRegularParams
  <2>3. CASE style = "async"
    <3>1. Built(ix, style, given, args) = GetCreateRegularAsync(given, args, SATI_PROGRAM_ADDRESS) BY <1>4, <2>3 DEF Built
    <3>2. Defaults(ix, style, given, args) = SatiPda(SATI_PROGRAM_ADDRESS) ++ EventAuthority(SATI_PROGRAM_ADDRESS) ++ CreateRegularConstants BY <1>4, <2>3 DEF Defaults
    <3> QED BY <1>4, <2>1, <2>2, <3>1, <3>2, Zenon DEF GetCreateRegularAsync
  <2>4. CASE style # "async"
    <3>1. Built(ix, style, given, args) = GetCreateRegular(given, args, SATI_PROGRAM_ADDRESS) BY <1>4, <2>4 DEF Built
    <3>2. Defaults(ix, style, given, args) = CreateRegularConstants BY <1>4, <2>4 DEF Defaults
    <3> QED BY <1>4, <2>1, <2>2, <3>1, <3>2, Zenon DEF GetCreateRegular
  <2> QED BY <2>3, <2>4
<1>5. CASE ix = "initialize"
  <2>1. AccountsOf(ix) = InitializeAccounts BY <1>5 DEF AccountsOf
  <2>2. InitializeData = WithDiscriminator(Params[ix]) BY <1>5 DEF InitializeData, Params
  <2>3. CASE style = "async"
    <3>1. Built(ix, style, given, args) = GetInitializeAsync(given, args, SATI_PROGRAM_ADDRESS) BY <1>5, <2>3 DEF Built
    <3>2. Defaults(ix, style, given, args) = RegistryPda(SATI_PROGRAM_ADDRESS) ++ SystemDefault BY <1>5, <2>3 DEF Defaults
    <3> QED BY <1>5, <2>1, <2>2, <3>1, <3>2, Zenon DEF GetInitializeAsync
  <2>4. CASE style # "async"
    <3>1. Built(ix, style, given, args) = GetInitialize(given, args, SATI_PROGRAM_ADDRESS) BY <1>5, <2>4 DEF Built
    <3>2. Defaults(ix, style, given, args) = SystemDefault BY <1>5, <2>4 DEF Defaults
    <3> QED BY <1>5, <2>1, <2>2, <3>1, <3>2, Zenon DEF GetInitialize
  <2> QED BY <2>3, <2>4
<1>6. CASE ix = "linkEvmAddress"
  <2>1. AccountsOf(ix) = LinkEvmAccounts BY <1>6 DEF AccountsOf
  <2>2. LinkEvmData = WithDiscriminator(Params[ix]) BY <1>6 DEF LinkEvmData, Params, LinkEvmAddressParams
  <2>3. CASE style = "async"
    <3>1. Built(ix, style, given, args) = GetLinkEvmAsync(given, args, SATI_PROGRAM_ADDRESS) BY <1>6, <2>3 DEF Built
    <3>2. Defaults(ix, style, given, args) = LinkEvmConstants ++ [ata |-> DefaultAta(given)] BY <1>6, <2>3 DEF Defaults
    <3> QED BY <1>6, <2>1, <2>2, <3>1, <3>2, Zenon DEF GetLinkEvmAsync, DefaultAta
  <2>4. CASE style # "async"
    <3>1. Built(ix, style, given, args) = GetLinkEvm(given, args, SATI_PROGRAM_ADDRESS) BY <1>6, <2>4 DEF Built
    <3>2. Defaults(ix, style, given, args) = LinkEvmConstants BY <1>6, <2>4 DEF Defaults
    <3> QED BY <1>6, <2>1, <2>2, <3>1, <3>2, Zenon DEF GetLinkEvm
  <2> QED BY <2>3, <2>4
<1>7. CASE ix = "registerAgent"
  <2>1. AccountsOf(ix) = RegisterAgentAccounts BY <1>7 DEF AccountsOf
  <2>2. RegisterAgentData = WithDiscriminator(Params[ix]) BY <1>7 DEF RegisterAgentData, Params, RegisterAgentParams, MetadataEntry
  <2>3. CASE style = "async"
    <3>1. Built(ix, style, given, args) = GetRegisterAgentAsync(given, args, SATI_PROGRAM_ADDRESS) BY <1>7, <2>3 DEF Built
    <3>2. Defaults(ix, style, given, args) = RegistryPda(SATI_PROGRAM_ADDRESS) ++ RegisterAgentConstants BY <1>7, <2>3 DEF Defaults
    <3> QED BY <1>7, <2>1, <2>2, <3>1, <3>2, Zenon DEF GetRegisterAgentAsync
  <2>4. CASE style # "async"
    <3>1. Built(ix, style, given, args) = GetRegisterAgent(given, args, SATI_PROGRAM_ADDRESS) BY <1>7, <2>4 DEF Built
    <3>2. Defaults(ix, style, given, args) = RegisterAgentConstants BY <1>7, <2>4 DEF Defaults
    <3> QED BY <1>7, <2>1, <2>2, <3>1, <3>2, Zenon DEF GetRegisterAgent
  <2> QED BY <2>3, <2>4
<1>8. CASE ix = "registerSchemaConfig"
  <2>1. AccountsOf(ix) = RegisterSchemaConfigAccounts BY <1>8 DEF AccountsOf
  <2>2. RegisterSchemaConfigData = WithDiscriminator(Params[ix]) BY <1>8 DEF RegisterSchemaConfigData, Params, RegisterSchemaConfigParams, SignatureMode, StorageType, U8
  <2>3. CASE style = "async"
    <3>1. Built(ix, style, given, args) = GetRegisterSchemaConfigAsync(given, args, SATI_PROGRAM_ADDRESS) BY <1>8, <2>3 DEF Built
    <3>2. Defaults(ix, style, given, args) = RegistryPda(SATI_PROGRAM_ADDRESS) ++ SystemDefault ++ [schemaConfig |-> DefaultSchemaConfig(args)] BY <1>8, <2>3 DEF Defaults
    <3> QED BY <1>8, <2>1, <2>2, <3>1, <3>2, Zenon DEF GetRegisterSchemaConfigAsync, DefaultSchemaConfig
  <2>4. CASE style # "async"
    <3>1. Built(ix, style, given, args) = GetRegisterSchemaConfig(given, args, SATI_PROGRAM_ADDRESS) BY <1>8, <2>4 DEF Built
    <3>2. Defaults(ix, style, given, args) = SystemDefault BY <1>8, <2>4 DEF Defaults
    <3> QED BY <1>8, <2>1, <2>2, <3>1, <3>2, Zenon DEF GetRegisterSchemaConfig
  <2> QED BY <2>3, <2>4
<1>9. CASE ix = "updateRegistryAuthority"
  <2>1. AccountsOf(ix) = UpdateAuthorityAccounts BY <1>9 DEF AccountsOf
  <2>2. UpdateAuthorityData = WithDiscriminator(Params[ix]) BY <1>9 DEF UpdateAuthorityData, Params
  <2>3. CASE style = "async"
    <3>1. Built(ix, style, given, args) = GetUpdateAuthorityAsync(given, args, SATI_PROGRAM_ADDRESS) BY <1>9, <2>3 DEF Built
    <3>2. Defaults(ix, style, given, args) = RegistryPda(SATI_PROGRAM_ADDRESS) BY <1>9, <2>3 DEF Defaults
    <3> QED BY <1>9, <2>1, <2>2, <3>1, <3>2, Zenon DEF GetUpdateAuthorityAsync
  <2>4. CASE style # "async"
    <3>1. Built(ix, style, given, args) = GetUpdateAuthority(given, args, SATI_PROGRAM_ADDRESS) BY <1>9, <2>4 DEF Built
    <3>2. Defaults(ix, style, given, args) = NoDefault BY <1>9, <2>4 DEF Defaults
    <3> QED BY <1>9, <2>1, <2>2, <3>1, <3>2, Zenon DEF GetUpdateAuthority
  <2> QED BY <2>3, <2>4
<1> QED BY <1>1, <1>2, <1>3, <1>4, <1>5, <1>6, <1>7, <1>8, <1>9 DEF Instructions

\* The defaults supply what a caller may leave out, and what the program demands of it; of
\* the accounts that are optional for the program they supply the clock.
DefaultsFine(A, ix, style, D) ==
    /\ \A i \in 1..Len(A) : A[i].optional \/ A[i].name \in Required(ix, style) \/ A[i].name \in DOMAIN D
    /\ \A i \in 1..Len(A) : A[i].optional /\ A[i].name \in DOMAIN D => A[i].name = "clock"
    /\ "clock" \in NamesOf(A) => "clock" \in DOMAIN D /\ D["clock"] = ClockSysvar
    /\ \A n \in DOMAIN D : n \in DOMAIN Demanded => D[n] \in Demanded[n]

LEMMA CloseCompressedDefaults ==
    ASSUME NEW style, NEW given, NEW args, NEW D, D = Defaults("closeCompressedAttestation", style, given, args)
    PROVE  DefaultsFine(CloseCompressedAccounts, "closeCompressedAttestation", style, D)
<1> DEFINE A == CloseCompressedAccounts
<1>1. Len(A) = 6 BY DEF CloseCompressedAccounts
<1>2. CASE style = "async"
  <2>1. D = EventAuthority(SATI_PROGRAM_ADDRESS) BY <1>2 DEF Defaults
  <2>2. Required("closeCompressedAttestation", style) = CloseCompressedAsyncInput BY <1>2 DEF Required
  <2>3. \A i \in 1..6 : A[i].optional \/ A[i].name \in Required("closeCompressedAttestation", style) \/ A[i].name \in DOMAIN D
    BY <2>1, <2>2 DEF CloseCompressedAccounts, CloseCompressedAsyncInput, Ro, Wr, Opt, Account, ++, EventAuthority
  <2>4. \A i \in 1..6 : A[i].optional /\ A[i].name \in DOMAIN D => A[i].name = "clock"
    BY <2>1 DEF CloseCompressedAccounts, Ro, Wr, Opt, Account, ++, EventAuthority
  <2>5. "clock" \in NamesOf(A) => "clock" \in DOMAIN D /\ D["clock"] = ClockSysvar
    BY <2>1, <1>1 DEF NamesOf, CloseCompressedAccounts, Ro, Wr, Opt, Account, ++, EventAuthority
  <2>6. \A m \in DOMAIN D : m \in DOMAIN Demanded => D[m] \in Demanded[m]
    BY <2>1 DEF Demanded, RegistryConfigPda, SatiAttestationPda, ++, EventAuthority
  <2> QED BY <1>1, <2>3, <2>4, <2>5, <2>6, Zenon DEF DefaultsFine
<1>3. CASE style # "async"
  <2>1. D = NoDefault BY <1>3 DEF Defaults
  <2>2. Required("closeCompressedAttestation", style) = CloseCompressedInput BY <1>3 DEF Required
  <2>3. \A i \in 1..6 : A[i].optional \/ A[i].name \in Required("closeCompressedAttestation", style) \/ A[i].name \in DOMAIN D
    BY <2>1, <2>2 DEF CloseCompressedAccounts, CloseCompressedInput, CloseCompressedAsyncInput, Ro, Wr, Opt, Account, NoDefault
  <2>4. \A i \in 1..6 : A[i].optional /\ A[i].name \in DOMAIN D => A[i].name = "clock"
    BY <2>1 DEF CloseCompressedAccounts, Ro, Wr, Opt, Account, NoDefault
  <2>5. "clock" \in NamesOf(A) => "clock" \in DOMAIN D /\ D["clock"] = ClockSysvar
    BY <2>1, <1>1 DEF NamesOf, CloseCompressedAccounts, Ro, Wr, Opt, Account, NoDefault
  <2>6. \A m \in DOMAIN D : m \in DOMAIN Demanded => D[m] \in Demanded[m]
    BY <2>1 DEF Demanded, NoDefault
  <2> QED BY <1>1, <2>3, <2>4, <2>5, <2>6, Zenon DEF DefaultsFine
<1> QED BY <1>2, <1>3

LEMMA CloseRegularDefaults ==
    ASSUME NEW style, NEW given, NEW args, NEW D, D = Defaults("closeRegularAttestation", style, given, args)
    PROVE  DefaultsFine(CloseRegularAccounts, "closeRegularAttestation", style, D)
<1> DEFINE A == CloseRegularAccounts
<1>1. Len(A) = 11 BY DEF CloseRegularAccounts
<1>2. CASE style = "async"
  <2>1. D = SatiPda(SATI_PROGRAM_ADDRESS) ++ EventAuthority(SATI_PROGRAM_ADDRESS) ++ CloseRegularConstants BY <1>2 DEF Defaults
  <2>2. Required("closeRegularAttestation", style) = CloseRegularAsyncInput BY <1>2 DEF Required
  <2>3. \A i \in 1..11 : A[i].optional \/ A[i].name \in Required("closeRegularAttestation", style) \/ A[i].name \in DOMAIN D
    BY <2>1, <2>2 DEF CloseRegularAccounts, CloseRegularAsyncInput, Ro, Wr, Opt, Account, ++, SatiPda, EventAuthority, CloseRegularConstants
  <2>4. \A i \in 1..11 : A[i].optional /\ A[i].name \in DOMAIN D => A[i].name = "clock"
    BY <2>1 DEF CloseRegularAccounts, Ro, Wr, Opt, Account, ++, SatiPda, EventAuthority, CloseRegularConstants
  <2>5. "clock" \in NamesOf(A) => "clock" \in DOMAIN D /\ D["clock"] = ClockSysvar
    BY <2>1, <1>1 DEF NamesOf, CloseRegularAccounts, Ro, Wr, Opt, Account, ++, SatiPda, EventAuthority, CloseRegularConstants
  <2>6. \A m \in DOMAIN D : m \in DOMAIN Demanded => D[m] \in Demanded[m]
    BY <2>1 DEF Demanded, RegistryConfigPda, SatiAttestationPda, ++, SatiPda, EventAuthority, CloseRegularConstants
  <2> QED BY <1>1, <2>3, <2>4, <2>5, <2>6, Zenon DEF DefaultsFine
<1>3. CASE style # "async"
  <2>1. D = CloseRegularConstants BY <1>3 DEF Defaults
  <2>2. Required("closeRegularAttestation", style) = CloseRegularInput BY <1>3 DEF Required
  <2>3. \A i \in 1..11 : A[i].optional \/ A[i].name \in Required("closeRegularAttestation", style) \/ A[i].name \in DOMAIN D
    BY <2>1, <2>2 DEF CloseRegularAccounts, CloseRegularInput, CloseRegularAsyncInput, Ro, Wr, Opt, Account, CloseRegularConstants
  <2>4. \A i \in 1..11 : A[i].optional /\ A[i].name \in DOMAIN D => A[i].name = "clock"
    BY <2>1 DEF CloseRegularAccounts, Ro, Wr, Opt, Account, CloseRegularConstants
  <2>5. "clock" \in NamesOf(A) => "clock" \in DOMAIN D /\ D["clock"] = ClockSysvar
    BY <2>1, <1>1 DEF NamesOf, CloseRegularAccounts, Ro, Wr, Opt, Account, CloseRegularConstants
  <2>6. \A m \in DOMAIN D : m \in DOMAIN Demanded => D[m] \in Demanded[m]
    BY <2>1 DEF Demanded, CloseRegularConstants
  <2> QED BY <1>1, <2>3, <2>4, <2>5, <2>6, Zenon DEF DefaultsFine
<1> QED BY <1>2, <1>3

LEMMA CreateCompressedDefaults ==
    ASSUME NEW style, NEW given, NEW args, NEW D, D = Defaults("createCompressedAttestation", style, given, args)
    PROVE  DefaultsFine(CreateCompressedAccounts, "createCompressedAttestation", style, D)
<1> DEFINE A == CreateCompressedAccounts
<1>1. Len(A) = 10 BY DEF CreateCompressedAccounts
<1>2. CASE style = "async"
  <2>1. D = CreateCompressedConstants ++ EventAuthority(SATI_PROGRAM_ADDRESS) BY <1>2 DEF Defaults
  <2>2. Required("createCompressedAttestation", style) = CreateCompressedAsyncInput BY <1>2 DEF Required
  <2>3. \A i \in 1..10 : A[i].optional \/ A[i].name \in Required("createCompressedAttestation", style) \/ A[i].name \in DOMAIN D
    BY <2>1, <2>2 DEF CreateCompressedAccounts, CreateCompressedAsyncInput, Ro, Wr, Opt, Account, ++, EventAuthority, CreateCompressedConstants
  <2>4. \A i \in 1..10 : A[i].optional /\ A[i].name \in DOMAIN D => A[i].name = "clock"
    BY <2>1 DEF CreateCompressedAccounts, Ro, Wr, Opt, Account, ++, EventAuthority, CreateCompressedConstants
  <2>5. "clock" \in NamesOf(A) => "clock" \in DOMAIN D /\ D["clock"] = ClockSysvar
    BY <2>1, <1>1 DEF NamesOf, CreateCompressedAccounts, Ro, Wr, Opt, Account, ++, EventAuthority, CreateCompressedConstants
  <2>6. \A m \in DOMAIN D : m \in DOMAIN Demanded => D[m] \in Demanded[m]
    BY <2>1 DEF Demanded, RegistryConfigPda, SatiAttestationPda, ++, EventAuthority, CreateCompressedConstants
  <2> QED BY <1>1, <2>3, <2>4, <2>5, <2>6, Zenon DEF DefaultsFine
<1>3. CASE style # "async"
  <2>1. D = CreateCompressedConstants BY <1>3 DEF Defaults
  <2>2. Required("createCompressedAttestation", style) = CreateCompressedInput BY <1>3 DEF Required
  <2>3. \A i \in 1..10 : A[i].optional \/ A[i].name \in Required("createCompressedAttestation", style) \/ A[i].name \in DOMAIN D
    BY <2>1, <2>2 DEF CreateCompressedAccounts, CreateCompressedInput, CreateCompressedAsyncInput, Ro, Wr, Opt, Account, CreateCompressedConstants
  <2>4. \A i \in 1..10 : A[i].optional /\ A[i].name \in DOMAIN D => A[i].name = "clock"
    BY <2>1 DEF CreateCompressedAccounts, Ro, Wr, Opt, Account, CreateCompressedConstants
  <2>5. "clock" \in NamesOf(A) => "clock" \in DOMAIN D /\ D["clock"] = ClockSysvar
    BY <2>1, <1>1 DEF NamesOf, CreateCompressedAccounts, Ro, Wr, Opt, Account, CreateCompressedConstants
  <2>6. \A m \in DOMAIN D : m \in DOMAIN Demanded => D[m] \in Demanded[m]
    BY <2>1 DEF Demanded, CreateCompressedConstants
  <2> QED BY <1>1, <2>3, <2>4, <2>5, <2>6, Zenon DEF DefaultsFine
<1> QED BY <1>2, <1>3

LEMMA CreateRegularDefaults ==
    ASSUME NEW style, NEW given, NEW args, NEW D, D = Defaults("createRegularAttestation", style, given, args)
    PROVE  DefaultsFine(CreateRegularAccounts, "createRegularAttestation", style, D)
<1> DEFINE A == CreateRegularAccounts
<1>1. Len(A) = 15 BY DEF CreateRegularAccounts
<1>2. CASE style = "async"
  <2>1. D = SatiPda(SATI_PROGRAM_ADDRESS) ++ EventAuthority(SATI_PROGRAM_ADDRESS) ++ CreateRegularConstants BY <1>2 DEF Defaults
  <2>2. Required("createRegularAttestation", style) = CreateRegularAsyncInput BY <1>2 DEF Required
  <2>3. \A i \in 1..15 : A[i].optional \/ A[i].name \in Required("createRegularAttestation", style) \/ A[i].name \in DOMAIN D
    BY <2>1, <2>2 DEF CreateRegularAccounts, CreateRegularAsyncInput, Ro, Wr, Opt, Account, ++, SatiPda, EventAuthority, CreateRegularConstants
  <2>4. \A i \in 1..15 : A[i].optional /\ A[i].name \in DOMAIN D => A[i].name = "clock"
    BY <2>1 DEF CreateRegularAccounts, Ro, Wr, Opt, Account, ++, SatiPda, EventAuthority, CreateRegularConstants
  <2>5. "clock" \in NamesOf(A) => "clock" \in DOMAIN D /\ D["clock"] = ClockSysvar
    BY <2>1, <1>1 DEF NamesOf, CreateRegularAccounts, Ro, Wr, Opt, Account, ++, SatiPda, EventAuthority, CreateRegularConstants
  <2>6. \A m \in DOMAIN D : m \in DOMAIN Demanded => D[m] \in Demanded[m]
    BY <2>1 DEF Demanded, RegistryConfigPda, SatiAttestationPda, ++, SatiPda, EventAuthority, CreateRegularConstants
  <2> QED BY <1>1, <2>3, <2>4, <2>5, <2>6, Zenon DEF DefaultsFine
<1>3. CASE style # "async"
  <2>1. D = CreateRegularConstants BY <1>3 DEF Defaults
  <2>2. Required("createRegularAttestation", style) = CreateRegularInput BY <1>3 DEF Required
  <2>3. \A i \in 1..15 : A[i].optional \/ A[i].name \in Required("createRegularAttestation", style) \/ A[i].name \in DOMAIN D
    BY <2>1, <2>2 DEF CreateRegularAccounts, CreateRegularInput, CreateRegularAsyncInput, Ro, Wr, Opt, Account, CreateRegularConstants
  <2>4. \A i \in 1..15 : A[i].optional /\ A[i].name \in DOMAIN D => A[i].name = "clock"
    BY <2>1 DEF CreateRegularAccounts, Ro, Wr, Opt, Account, CreateRegularConstants
  <2>5. "clock" \in NamesOf(A) => "clock" \in DOMAIN D /\ D["clock"] = ClockSysvar
    BY <2>1, <1>1 DEF NamesOf, CreateRegularAccounts, Ro, Wr, Opt, Account, CreateRegularConstants
  <2>6. \A m \in DOMAIN D : m \in DOMAIN Demanded => D[m] \in Demanded[m]
    BY <2>1 DEF Demanded, CreateRegularConstants
  <2> QED BY <1>1, <2>3, <2>4, <2>5, <2>6, Zenon DEF DefaultsFine
<1> QED BY <1>2, <1>3

LEMMA InitializeDefaults ==
    ASSUME NEW style, NEW given, NEW args, NEW D, D = Defaults("initialize", style, given, args)
    PROVE  DefaultsFine(InitializeAccounts, "initialize", style, D)
<1> DEFINE A == InitializeAccounts
<1>1. Len(A) = 4 BY DEF InitializeAccounts
<1>2. CASE style = "async"
  <2>1. D = RegistryPda(SATI_PROGRAM_ADDRESS) ++ SystemDefault BY <1>2 DEF Defaults
  <2>2. Required("initialize", style) = InitializeAsyncInput BY <1>2 DEF Required
  <2>3. \A i \in 1..4 : A[i].optional \/ A[i].name \in Required("initialize", style) \/ A[i].name \in DOMAIN D
    BY <2>1, <2>2 DEF InitializeAccounts, InitializeAsyncInput, Ro, Wr, Opt, Account, ++, RegistryPda, SystemDefault
  <2>4. \A i \in 1..4 : A[i].optional /\ A[i].name \in DOMAIN D => A[i].name = "clock"
    BY <2>1 DEF InitializeAccounts, Ro, Wr, Opt, Account, ++, RegistryPda, SystemDefault
  <2>5. "clock" \in NamesOf(A) => "clock" \in DOMAIN D /\ D["clock"] = ClockSysvar
    BY <2>1, <1>1 DEF NamesOf, InitializeAccounts, Ro, Wr, Opt, Account, ++, RegistryPda, SystemDefault
  <2>6. \A m \in DOMAIN D : m \in DOMAIN Demanded => D[m] \in Demanded[m]
    BY <2>1 DEF Demanded, RegistryConfigPda, SatiAttestationPda, ++, RegistryPda, SystemDefault
  <2> QED BY <1>1, <2>3, <2>4, <2>5, <2>6, Zenon DEF DefaultsFine
<1>3. CASE style # "async"
  <2>1. D = SystemDefault BY <1>3 DEF Defaults
  <2>2. Required("initialize", style) = InitializeInput BY <1>3 DEF Required
  <2>3. \A i \in 1..4 : A[i].optional \/ A[i].name \in Required("initialize", style) \/ A[i].name \in DOMAIN D
    BY <2>1, <2>2 DEF InitializeAccounts, InitializeInput, InitializeAsyncInput, Ro, Wr, Opt, Account, SystemDefault
  <2>4. \A i \in 1..4 : A[i].optional /\ A[i].name \in DOMAIN D => A[i].name = "clock"
    BY <2>1 DEF InitializeAccounts, Ro, Wr, Opt, Account, SystemDefault
  <2>5. "clock" \in NamesOf(A) => "clock" \in DOMAIN D /\ D["clock"] = ClockSysvar
    BY <2>1, <1>1 DEF NamesOf, InitializeAccounts, Ro, Wr, Opt, Account, SystemDefault
  <2>6. \A m \in DOMAIN D : m \in DOMAIN Demanded => D[m] \in Demanded[m]
    BY <2>1 DEF Demanded, SystemDefault
  <2> QED BY <1>1, <2>3, <2>4, <2>5, <2>6, Zenon DEF DefaultsFine
<1> QED BY <1>2, <1>3

LEMMA LinkEvmDefaults ==
    ASSUME NEW style, NEW given, NEW args, NEW D, D = Defaults("linkEvmAddress", style, given, args)
    PROVE  DefaultsFine(LinkEvmAccounts, "linkEvmAddress", style, D)
<1> DEFINE A == LinkEvmAccounts
<1>1. Len(A) = 4 BY DEF LinkEvmAccounts
<1>2. CASE style = "async"
  <2>1. D = LinkEvmConstants ++ [ata |-> DefaultAta(given)] BY <1>2 DEF Defaults
  <2>2. Required("linkEvmAddress", style) = LinkEvmAsyncInput BY <1>2 DEF Required
  <2>3. \A i \in 1..4 : A[i].optional \/ A[i].name \in Required("linkEvmAddress", style) \/ A[i].name \in DOMAIN D
    BY <2>1, <2>2 DEF LinkEvmAccounts, LinkEvmAsyncInput, Ro, Wr, Opt, Account, ++, LinkEvmConstants
  <2>4. \A i \in 1..4 : A[i].optional /\ A[i].name \in DOMAIN D => A[i].name = "clock"
    BY <2>1 DEF LinkEvmAccounts, Ro, Wr, Opt, Account, ++, LinkEvmConstants
  <2>5. "clock" \in NamesOf(A) => "clock" \in DOMAIN D /\ D["clock"] = ClockSysvar
    BY <2>1, <1>1 DEF NamesOf, LinkEvmAccounts, Ro, Wr, Opt, Account, ++, LinkEvmConstants
  <2>6. \A m \in DOMAIN D : m \in DOMAIN Demanded => D[m] \in Demanded[m]
    BY <2>1 DEF Demanded, RegistryConfigPda, SatiAttestationPda, ++, LinkEvmConstants
  <2> QED BY <1>1, <2>3, <2>4, <2>5, <2>6, Zenon DEF DefaultsFine
<1>3. CASE style # "async"
  <2>1. D = LinkEvmConstants BY <1>3 DEF Defaults
  <2>2. Required("linkEvmAddress", style) = LinkEvmInput BY <1>3 DEF Required
  <2>3. \A i \in 1..4 : A[i].optional \/ A[i].name \in Required("linkEvmAddress", style) \/ A[i].name \in DOMAIN D
    BY <2>1, <2>2 DEF LinkEvmAccounts, LinkEvmInput, LinkEvmAsyncInput, Ro, Wr, Opt, Account, LinkEvmConstants
  <2>4. \A i \in 1..4 : A[i].optional /\ A[i].name \in DOMAIN D => A[i].name = "clock"
    BY <2>1 DEF LinkEvmAccounts, Ro, Wr, Opt, Account, LinkEvmConstants
  <2>5. "clock" \in NamesOf(A) => "clock" \in DOMAIN D /\ D["clock"] = ClockSysvar
    BY <2>1, <1>1 DEF NamesOf, LinkEvmAccounts, Ro, Wr, Opt, Account, LinkEvmConstants
  <2>6. \A m \in DOMAIN D : m \in DOMAIN Demanded => D[m] \in Demanded[m]
    BY <2>1 DEF Demanded, LinkEvmConstants
  <2> QED BY <1>1, <2>3, <2>4, <2>5, <2>6, Zenon DEF DefaultsFine
<1> QED BY <1>2, <1>3

LEMMA RegisterAgentDefaults ==
    ASSUME NEW style, NEW given, NEW args, NEW D, D = Defaults("registerAgent", style, given, args)
    PROVE  DefaultsFine(RegisterAgentAccounts, "registerAgent", style, D)
<1> DEFINE A == RegisterAgentAccounts
<1>1. Len(A) = 10 BY DEF RegisterAgentAccounts
<1>2. CASE style = "async"
  <2>1. D = RegistryPda(SATI_PROGRAM_ADDRESS) ++ RegisterAgentConstants BY <1>2 DEF Defaults
  <2>2. Required("registerAgent", style) = RegisterAgentAsyncInput BY <1>2 DEF Required
  <2>3. \A i \in 1..10 : A[i].optional \/ A[i].name \in Required("registerAgent", style) \/ A[i].name \in DOMAIN D
    BY <2>1, <2>2 DEF RegisterAgentAccounts, RegisterAgentAsyncInput, Ro, Wr, Opt, Account, ++, RegistryPda, RegisterAgentConstants
  <2>4. \A i \in 1..10 : A[i].optional /\ A[i].name \in DOMAIN D => A[i].name = "clock"
    BY <2>1 DEF RegisterAgentAccounts, Ro, Wr, Opt, Account, ++, RegistryPda, RegisterAgentConstants
  <2>5. "clock" \in NamesOf(A) => "clock" \in DOMAIN D /\ D["clock"] = ClockSysvar
    BY <2>1, <1>1 DEF NamesOf, RegisterAgentAccounts, Ro, Wr, Opt, Account, ++, RegistryPda, RegisterAgentConstants
  <2>6. \A m \in DOMAIN D : m \in DOMAIN Demanded => D[m] \in Demanded[m]
    BY <2>1 DEF Demanded, RegistryConfigPda, SatiAttestationPda, ++, RegistryPda, RegisterAgentConstants
  <2> QED BY <1>1, <2>3, <2>4, <2>5, <2>6, Zenon DEF DefaultsFine
<1>3. CASE style # "async"
  <2>1. D = RegisterAgentConstants BY <1>3 DEF Defaults
  <2>2. Required("registerAgent", style) = RegisterAgentInput BY <1>3 DEF Required
  <2>3. \A i \in 1..10 : A[i].optional \/ A[i].name \in Required("registerAgent", style) \/ A[i].name \in DOMAIN D
    BY <2>1, <2>2 DEF RegisterAgentAccounts, RegisterAgentInput, RegisterAgentAsyncInput, Ro, Wr, Opt, Account, RegisterAgentConstants
  <2>4. \A i \in 1..10 : A[i].optional /\ A[i].name \in DOMAIN D => A[i].name = "clock"
    BY <2>1 DEF RegisterAgentAccounts, Ro, Wr, Opt, Account, RegisterAgentConstants
  <2>5. "clock" \in NamesOf(A) => "clock" \in DOMAIN D /\ D["clock"] = ClockSysvar
    BY <2>1, <1>1 DEF NamesOf, RegisterAgentAccounts, Ro, Wr, Opt, Account, RegisterAgentConstants
  <2>6. \A m \in DOMAIN D : m \in DOMAIN Demanded => D[m] \in Demanded[m]
    BY <2>1 DEF Demanded, RegisterAgentConstants
  <2> QED BY <1>1, <2>3, <2>4, <2>5, <2>6, Zenon DEF DefaultsFine
<1> QED BY <1>2, <1>3

LEMMA RegisterSchemaConfigDefaults ==
    ASSUME NEW style, NEW given, NEW args, NEW D, D = Defaults("registerSchemaConfig", style, given, args)
    PROVE  DefaultsFine(RegisterSchemaConfigAccounts, "registerSchemaConfig", style, D)
<1> DEFINE A == RegisterSchemaConfigAccounts
<1>1. Len(A) = 5 BY DEF RegisterSchemaConfigAccounts
<1>2. CASE style = "async"
  <2>1. D = RegistryPda(SATI_PROGRAM_ADDRESS) ++ SystemDefault ++ [schemaConfig |-> DefaultSchemaConfig(args)] BY <1>2 DEF Defaults
  <2>2. Required("registerSchemaConfig", style) = RegisterSchemaConfigAsyncInput BY <1>2 DEF Required
  <2>3. \A i \in 1..5 : A[i].optional \/ A[i].name \in Required("registerSchemaConfig", style) \/ A[i].name \in DOMAIN D
    BY <2>1, <2>2 DEF RegisterSchemaConfigAccounts, RegisterSchemaConfigAsyncInput, Ro, Wr, Opt, Account, ++, RegistryPda, SystemDefault
  <2>4. \A i \in 1..5 : A[i].optional /\ A[i].name \in DOMAIN D => A[i].name = "clock"
    BY <2>1 DEF RegisterSchemaConfigAccounts, Ro, Wr, Opt, Account, ++, RegistryPda, SystemDefault
  <2>5. "clock" \in NamesOf(A) => "clock" \in DOMAIN D /\ D["clock"] = ClockSysvar
    BY <2>1, <1>1 DEF NamesOf, RegisterSchemaConfigAccounts, Ro, Wr, Opt, Account, ++, RegistryPda, SystemDefault
  <2>6. \A m \in DOMAIN D : m \in DOMAIN Demanded => D[m] \in Demanded[m]
    BY <2>1 DEF Demanded, RegistryConfigPda, SatiAttestationPda, ++, RegistryPda, SystemDefault
  <2> QED BY <1>1, <2>3, <2>4, <2>5, <2>6, Zenon DEF DefaultsFine
<1>3. CASE style # "async"
  <2>1. D = SystemDefault BY <1>3 DEF Defaults
  <2>2. Required("registerSchemaConfig", style) = RegisterSchemaConfigInput BY <1>3 DEF Required
  <2>3. \A i \in 1..5 : A[i].optional \/ A[i].name \in Required("registerSchemaConfig", style) \/ A[i].name \in DOMAIN D
    BY <2>1, <2>2 DEF RegisterSchemaConfigAccounts, RegisterSchemaConfigInput, RegisterSchemaConfigAsyncInput, Ro, Wr, Opt, Account, SystemDefault
  <2>4. \A i \in 1..5 : A[i].optional /\ A[i].name \in DOMAIN D => A[i].name = "clock"
    BY <2>1 DEF RegisterSchemaConfigAccounts, Ro, Wr, Opt, Account, SystemDefault
  <2>5. "clock" \in NamesOf(A) => "clock" \in DOMAIN D /\ D["clock"] = ClockSysvar
    BY <2>1, <1>1 DEF NamesOf, RegisterSchemaConfigAccounts, Ro, Wr, Opt, Account, SystemDefault
  <2>6. \A m \in DOMAIN D : m \in DOMAIN Demanded => D[m] \in Demanded[m]
    BY <2>1 DEF Demanded, SystemDefault
  <2> QED BY <1>1, <2>3, <2>4, <2>5, <2>6, Zenon DEF DefaultsFine
<1> QED BY <1>2, <1>3

LEMMA UpdateAuthorityDefaults ==
    ASSUME NEW style, NEW given, NEW args, NEW D, D = Defaults("updateRegistryAuthority", style, given, args)
    PROVE  DefaultsFine(UpdateAuthorityAccounts, "updateRegistryAuthority", style, D)
<1> DEFINE A == UpdateAuthorityAccounts
<1>1. Len(A) = 2 BY DEF UpdateAuthorityAccounts
<1>2. CASE style = "async"
  <2>1. D = RegistryPda(SATI_PROGRAM_ADDRESS) BY <1>2 DEF Defaults
  <2>2. Required("updateRegistryAuthority", style) = UpdateAuthorityAsyncInput BY <1>2 DEF Required
  <2>3. \A i \in 1..2 : A[i].optional \/ A[i].name \in Required("updateRegistryAuthority", style) \/ A[i].name \in DOMAIN D
    BY <2>1, <2>2 DEF UpdateAuthorityAccounts, UpdateAuthorityAsyncInput, Ro, Wr, Opt, Account, ++, RegistryPda
  <2>4. \A i \in 1..2 : A[i].optional /\ A[i].name \in DOMAIN D => A[i].name = "clock"
    BY <2>1 DEF UpdateAuthorityAccounts, Ro, Wr, Opt, Account, ++, RegistryPda
  <2>5. "clock" \in NamesOf(A) => "clock" \in DOMAIN D /\ D["clock"] = ClockSysvar
    BY <2>1, <1>1 DEF NamesOf, UpdateAuthorityAccounts, Ro, Wr, Opt, Account, ++, RegistryPda
  <2>6. \A m \in DOMAIN D : m \in DOMAIN Demanded => D[m] \in Demanded[m]
    BY <2>1 DEF Demanded, RegistryConfigPda, SatiAttestationPda, ++, RegistryPda
  <2> QED BY <1>1, <2>3, <2>4, <2>5, <2>6, Zenon DEF DefaultsFine
<1>3. CASE style # "async"
  <2>1. D = NoDefault BY <1>3 DEF Defaults
  <2>2. Required("updateRegistryAuthority", style) = UpdateAuthorityInput BY <1>3 DEF Required
  <2>3. \A i \in 1..2 : A[i].optional \/ A[i].name \in Required("updateRegistryAuthority", style) \/ A[i].name \in DOMAIN D
    BY <2>1, <2>2 DEF UpdateAuthorityAccounts, UpdateAuthorityInput, UpdateAuthorityAsyncInput, Ro, Wr, Opt, Account, NoDefault
  <2>4. \A i \in 1..2 : A[i].optional /\ A[i].name \in DOMAIN D => A[i].name = "clock"
    BY <2>1 DEF UpdateAuthorityAccounts, Ro, Wr, Opt, Account, NoDefault
  <2>5. "clock" \in NamesOf(A) => "clock" \in DOMAIN D /\ D["clock"] = ClockSysvar
    BY <2>1, <1>1 DEF NamesOf, UpdateAuthorityAccounts, Ro, Wr, Opt, Account, NoDefault
  <2>6. \A m \in DOMAIN D : m \in DOMAIN Demanded => D[m] \in Demanded[m]
    BY <2>1 DEF Demanded, NoDefault
  <2> QED BY <1>1, <2>3, <2>4, <2>5, <2>6, Zenon DEF DefaultsFine
<1> QED BY <1>2, <1>3

LEMMA DefaultsAreFine ==
    ASSUME NEW ix \in Instructions, NEW style, NEW given, NEW args
    PROVE  DefaultsFine(AccountsOf(ix), ix, style, Defaults(ix, style, given, args))
<1>1. CASE ix = "closeCompressedAttestation"
  <2>1. AccountsOf(ix) = CloseCompressedAccounts BY <1>1 DEF AccountsOf
  <2> QED BY <1>1, <2>1, CloseCompressedDefaults
<1>2. CASE ix = "closeRegularAttestation"
  <2>1. AccountsOf(ix) = CloseRegularAccounts BY <1>2 DEF AccountsOf
  <2> QED BY <1>2, <2>1, CloseRegularDefaults
<1>3. CASE ix = "createCompressedAttestation"
  <2>1. AccountsOf(ix) = CreateCompressedAccounts BY <1>3 DEF AccountsOf
  <2> QED BY <1>3, <2>1, CreateCompressedDefaults
<1>4. CASE ix = "createRegularAttestation"
  <2>1. AccountsOf(ix) = CreateRegularAccounts BY <1>4 DEF AccountsOf
  <2> QED BY <1>4, <2>1, CreateRegularDefaults
<1>5. CASE ix = "initialize"
  <2>1. AccountsOf(ix) = InitializeAccounts BY <1>5 DEF AccountsOf
  <2> QED BY <1>5, <2>1, InitializeDefaults
<1>6. CASE ix = "linkEvmAddress"
  <2>1. AccountsOf(ix) = LinkEvmAccounts BY <1>6 DEF AccountsOf
  <2> QED BY <1>6, <2>1, LinkEvmDefaults
<1>7. CASE ix = "registerAgent"
  <2>1. AccountsOf(ix) = RegisterAgentAccounts BY <1>7 DEF AccountsOf
  <2> QED BY <1>7, <2>1, RegisterAgentDefaults
<1>8. CASE ix = "registerSchemaConfig"
  <2>1. AccountsOf(ix) = RegisterSchemaConfigAccounts BY <1>8 DEF AccountsOf
  <2> QED BY <1>8, <2>1, RegisterSchemaConfigDefaults
<1>9. CASE ix = "updateRegistryAuthority"
  <2>1. AccountsOf(ix) = UpdateAuthorityAccounts BY <1>9 DEF AccountsOf
  <2> QED BY <1>9, <2>1, UpdateAuthorityDefaults
<1> QED BY <1>1, <1>2, <1>3, <1>4, <1>5, <1>6, <1>7, <1>8, <1>9 DEF Instructions

LEMMA SignersAreRequired ==
    ASSUME NEW ix \in Instructions, NEW style
    PROVE  Signers(ix) \subseteq Required(ix, style)
<1>1. CASE ix = "closeCompressedAttestation" BY <1>1 DEF Signers, Required, CloseCompressedInput, CloseCompressedAsyncInput
<1>2. CASE ix = "closeRegularAttestation" BY <1>2 DEF Signers, Required, CloseRegularInput, CloseRegularAsyncInput
<1>3. CASE ix = "createCompressedAttestation" BY <1>3 DEF Signers, Required, CreateCompressedInput, CreateCompressedAsyncInput
<1>4. CASE ix = "createRegularAttestation" BY <1>4 DEF Signers, Required, CreateRegularInput, CreateRegularAsyncInput
<1>5. CASE ix = "initialize" BY <1>5 DEF Signers, Required, InitializeInput, InitializeAsyncInput
<1>6. CASE ix = "linkEvmAddress" BY <1>6 DEF Signers, Required, LinkEvmInput, LinkEvmAsyncInput
<1>7. CASE ix = "registerAgent" BY <1>7 DEF Signers, Required, RegisterAgentInput, RegisterAgentAsyncInput
<1>8. CASE ix = "registerSchemaConfig" BY <1>8 DEF Signers, Required, RegisterSchemaConfigInput, RegisterSchemaConfigAsyncInput
<1>9. CASE ix = "updateRegistryAuthority" BY <1>9 DEF Signers, Required, UpdateAuthorityInput, UpdateAuthorityAsyncInput
<1> QED BY <1>1, <1>2, <1>3, <1>4, <1>5, <1>6, <1>7, <1>8, <1>9 DEF Instructions

-----------------------------------------------------------------------------
(* Fields in front of fields                                                *)

LEMMA StructFields ==
    ASSUME NEW fields
    PROVE  Struct(fields).shape = "struct" /\ Struct(fields).fields = fields
BY DEF Struct

NamesIn(fields) == W!Names(Struct(fields))

LEMMA NamesInAre == ASSUME NEW fields PROVE NamesIn(fields) = {fields[i][1] : i \in DOMAIN fields}
BY StructFields DEF NamesIn, W!Names

\* What the part of a codec lays out in the fourth layer, it lays out in the third.
FitsField(codec, value) == O!Fits(codec, value)

InFront(longer, all, first, v, fields, value) ==
    /\ Fits(Struct(longer), all)
    /\ Sequence(Options!Encode(first, v)) /\ Sequence(Encode(Struct(fields), value))
    /\ Encode(Struct(longer), all) = Options!Encode(first, v) \o Encode(Struct(fields), value)

LEMMA ScalarField ==
    ASSUME NEW width, NEW v
    PROVE  /\ FitsField(Scalar(width), v)
           /\ Options!Encode(Scalar(width), v) = <<Cell(width, v)>>
           /\ Encode(Scalar(width), v) = <<Cell(width, v)>>
<1>1. FitsField(Scalar(width), v) BY DEF FitsField, O!Fits, Scalar
<1>2. Options!Encode(Scalar(width), v) = <<Cell(width, v)>> BY DEF Options!Encode, Options!Cell, Cell, Scalar
<1>3. Encode(Scalar(width), v) = <<Cell(width, v)>> BY DEF Encode, Whole!Encode, Whole!Cell, Cell, Scalar
<1> QED BY <1>1, <1>2, <1>3

LEMMA FieldInFront ==
    ASSUME NEW fields, NEW value, Fits(Struct(fields), value), NEW name, name \notin NamesIn(fields),
           NEW first, NEW v, FitsField(first, v),
           NEW longer, longer = << <<name, first>> >> \o fields,
           NEW all, W!Longer(all, name, v, NamesIn(fields), value)
    PROVE  InFront(longer, all, first, v, fields, value)
<1>1. PICK c, l : c = Struct(fields) /\ l = Struct(longer) OBVIOUS
<1>2. c.shape = "struct" /\ c.fields = fields /\ l.shape = "struct" /\ l.fields = longer
  BY <1>1, StructFields
<1>3. l.fields = << <<name, first>> >> \o c.fields BY <1>2
<1>4. W!Fits(c, value) /\ name \notin W!Names(c) /\ W!Longer(all, name, v, W!Names(c), value) /\ O!Fits(first, v)
  BY <1>1, Zenon DEF NamesIn, Fits, FitsField
<1>5. W!Lengthened(l, name, first, c) BY <1>2, <1>3, <1>4, Zenon DEF W!Lengthened
<1>6. W!LaidInFront(l, all, first, v, c, value)
  BY <1>4, <1>5, WNumbers, OptionsReturn, WInductive, W!Fronted
<1>7. /\ W!Fits(l, all) /\ W!Sequence(Options!Encode(first, v)) /\ W!Sequence(W!Encode(c, value))
      /\ W!Encode(l, all) = Options!Encode(first, v) \o W!Encode(c, value)
  BY <1>6, Zenon DEF W!LaidInFront
<1>8. Encode(l, all) = W!Encode(l, all) /\ Encode(c, value) = W!Encode(c, value)
  BY WholeEncode, Zenon DEF Encode
<1>9. \A s : W!Sequence(s) <=> Sequence(s) BY Zenon DEF W!Sequence, Sequence
<1> QED BY <1>1, <1>7, <1>8, <1>9, Zenon DEF Fits, InFront

LEMMA Merged ==
    ASSUME NEW f, NEW g
    PROVE  /\ DOMAIN (f ++ g) = DOMAIN f \cup DOMAIN g
           /\ \A n \in DOMAIN f : (f ++ g)[n] = f[n]
           /\ \A n \in DOMAIN g \ DOMAIN f : (f ++ g)[n] = g[n]
BY DEF ++

LEMMA ParamsAre ==
    ASSUME NEW ix \in Instructions
    PROVE  "discriminator" \notin NamesIn(Params[ix])
<1> DEFINE Named(p) == \A i \in DOMAIN p : p[i][1] # "discriminator"
<1>1. Named(<<>>) OBVIOUS
<1>2. Named(RegisterAgentParams)
  BY DEF RegisterAgentParams
<1>3. Named(LinkEvmAddressParams) BY DEF LinkEvmAddressParams
<1>4. Named(RegisterSchemaConfigParams) BY DEF RegisterSchemaConfigParams
<1>5. Named(CreateParams) BY DEF CreateParams
<1>6. Named(CreateRegularParams) BY DEF CreateRegularParams
<1>7. Named(CloseParams) BY DEF CloseParams
<1>8. Named(<< <<"newAuthority", Option(Pubkey)>> >>) OBVIOUS
<1> HIDE DEF Named
<1>9. Named(Params[ix])
  BY <1>1, <1>2, <1>3, <1>4, <1>5, <1>6, <1>7, <1>8 DEF Instructions, Params
<1> QED BY <1>9, NamesInAre, Zenon DEF Named

LEMMA Discriminated ==
    ASSUME NEW fields, NEW args, Fits(Struct(fields), args), "discriminator" \notin NamesIn(fields),
           NEW name, NEW all, all = [discriminator |-> <<name>>] ++ args
    PROVE  /\ Fits(WithDiscriminator(fields), all)
           /\ Sequence(Encode(Struct(fields), args))
           /\ Encode(WithDiscriminator(fields), all) = <<Cell(8, <<name>>)>> \o Encode(Struct(fields), args)
<1>1. DOMAIN args = NamesIn(fields)
  <2>1. PICK c : c = Struct(fields) OBVIOUS
  <2>2. W!Fits(c, args) /\ c.shape = "struct" BY <2>1, StructFields DEF Fits
  <2>3. args = [n \in W!Names(c) |-> args[n]] BY <2>2 DEF W!Fits
  <2>4. DOMAIN args = W!Names(c) BY <2>3
  <2> QED BY <2>1, <2>4, Zenon DEF NamesIn
<1>2. W!Longer(all, "discriminator", <<name>>, NamesIn(fields), args)
  BY <1>1 DEF W!Longer, ++
<1>3. PICK w, v : w = FixedBytes(8) /\ v = <<name>> OBVIOUS
<1>4. PICK longer : longer = << <<"discriminator", FixedBytes(8)>> >> \o fields OBVIOUS
<1>5. FitsField(w, v) /\ Options!Encode(w, v) = <<Cell(8, v)>>
  BY <1>3, ScalarField, Zenon DEF FixedBytes
<1>6. InFront(longer, all, w, v, fields, args)
  <2>1. longer = << <<"discriminator", w>> >> \o fields BY <1>3, <1>4
  <2>2. W!Longer(all, "discriminator", v, NamesIn(fields), args) BY <1>2, <1>3
  <2> QED BY <1>5, <2>1, <2>2, FieldInFront
<1>7. WithDiscriminator(fields) = Struct(longer) BY <1>4, Zenon DEF WithDiscriminator
<1> QED BY <1>3, <1>5, <1>6, <1>7, Zenon DEF InFront

-----------------------------------------------------------------------------
(* What is sent, and what of it arrives                                     *)

Sending(ix, style, given, args, remaining) ==
    [Built(ix, style, given, args) EXCEPT !.accounts = @ \o remaining]
Values(ix, style, given, args) ==
    given ++ [a \in DOMAIN Defaults(ix, style, given, args) |-> Plain(Defaults(ix, style, given, args)[a])]

Carries(ix, values, args, remaining, m) ==
    /\ m.accounts = MetasOf(AccountsOf(ix), values) \o remaining
    /\ m.data = Encode(WithDiscriminator(Params[ix]), [discriminator |-> <<ix>>] ++ args)

LEMMA SendingIs ==
    ASSUME NEW ix \in Instructions, NEW style, NEW given, NEW args, NEW remaining,
           NEW m, m = Sending(ix, style, given, args, remaining)
    PROVE  Carries(ix, Values(ix, style, given, args), args, remaining, m)
<1>1. PICK b : b = Built(ix, style, given, args) OBVIOUS
<1>2. PICK d : d = Encode(WithDiscriminator(Params[ix]), [discriminator |-> <<ix>>] ++ args) OBVIOUS
<1>3. b = [programAddress |-> SATI_PROGRAM_ADDRESS,
           accounts |-> MetasOf(AccountsOf(ix), Values(ix, style, given, args)), data |-> d]
  BY <1>1, <1>2, BuiltIs, Zenon DEF Build, MetasOf, Values
<1>4. m = [b EXCEPT !.accounts = @ \o remaining] BY <1>1, Zenon DEF Sending
<1>5. m.accounts = b.accounts \o remaining /\ m.data = b.data BY <1>3, <1>4
<1>6. b.accounts = MetasOf(AccountsOf(ix), Values(ix, style, given, args)) /\ b.data = d
  BY <1>3
<1> QED BY <1>2, <1>5, <1>6, Zenon DEF Carries

\* A caller who names accounts of the instruction, all that its builder requires, signs
\* where it asks for a signer, and gives the addresses that are known beforehand.
Proper(ix, style, given) ==
    /\ DOMAIN given \subseteq NamesOf(AccountsOf(ix)) /\ Required(ix, style) \subseteq DOMAIN given
    /\ \A n \in DOMAIN given :
          /\ given[n].signer \in BOOLEAN /\ (n \in Signers(ix) => given[n].signer)
          /\ n \in DOMAIN Demanded => given[n].address \in Demanded[n]
    /\ \A i \in 1..Len(AccountsOf(ix)) :
          LET a == AccountsOf(ix)[i]
          IN  a.optional /\ a.name \in DOMAIN given => given[a.name].address # SATI_PROGRAM_ADDRESS

\* What the handler sees of an account: the address that the caller gave, or the default.
SeenAsMeant(a, given, D, seen) ==
    /\ a.name \in DOMAIN given => seen = given[a.name].address
    /\ a.name \notin DOMAIN given /\ a.optional => seen = LeftOut(a.name)
    /\ a.name \notin DOMAIN given /\ ~a.optional => a.name \in DOMAIN D /\ seen = D[a.name]

LEMMA SeenIs ==
    ASSUME NEW ix \in Instructions, NEW style, NEW given, Proper(ix, style, given), NEW args,
           NEW i \in 1..Len(AccountsOf(ix))
    PROVE  SeenAsMeant(AccountsOf(ix)[i], given, Defaults(ix, style, given, args),
                       Seen(AccountsOf(ix)[i], Values(ix, style, given, args)))
<1>1. PICK A, D, V, a : /\ A = AccountsOf(ix) /\ D = Defaults(ix, style, given, args)
                        /\ V = Values(ix, style, given, args) /\ a = A[i]
  OBVIOUS
<1>2. DefaultsFine(A, ix, style, D) BY <1>1, DefaultsAreFine
<1>3. /\ a.optional \/ a.name \in Required(ix, style) \/ a.name \in DOMAIN D
      /\ a.optional /\ a.name \in DOMAIN D => a.name = "clock"
      /\ a.name = "clock" => a.name \in DOMAIN D /\ D[a.name] = ClockSysvar
  <2>1. a.name \in NamesOf(A) BY <1>1 DEF NamesOf
  <2> QED BY <1>1, <1>2, <2>1, Zenon DEF DefaultsFine
<1>4. V = given ++ [n \in DOMAIN D |-> Plain(D[n])] BY <1>1 DEF Values
<1>5. /\ DOMAIN V = DOMAIN given \cup DOMAIN D
      /\ \A n \in DOMAIN given : V[n] = given[n]
      /\ \A n \in DOMAIN D \ DOMAIN given : V[n].address = D[n]
  BY <1>4 DEF ++, Plain
<1>6. CASE a.name \in DOMAIN given
  <2>1. a.optional => given[a.name].address # SATI_PROGRAM_ADDRESS BY <1>1, <1>6, Zenon DEF Proper
  <2> QED BY <1>1, <1>5, <1>6, <2>1, Zenon DEF Seen, SeenAsMeant
<1>7. CASE a.name \notin DOMAIN given /\ a.optional
  <2>1. CASE a.name = "clock"
    <3>1. V[a.name].address = ClockSysvar BY <1>3, <1>5, <1>7, <2>1
    <3>2. ClockSysvar # SATI_PROGRAM_ADDRESS BY DEF ClockSysvar, SATI_PROGRAM_ADDRESS
    <3>3. LeftOut(a.name) = ClockSysvar BY <2>1 DEF LeftOut
    <3> QED BY <1>1, <1>3, <1>5, <1>7, <2>1, <3>1, <3>2, <3>3, Zenon DEF Seen, SeenAsMeant
  <2>2. CASE a.name # "clock"
    <3>1. a.name \notin DOMAIN V BY <1>3, <1>5, <1>7, <2>2
    <3>2. LeftOut(a.name) = Absent BY <2>2 DEF LeftOut
    <3> QED BY <1>1, <1>7, <3>1, <3>2, Zenon DEF Seen, SeenAsMeant
  <2> QED BY <2>1, <2>2
<1>8. CASE a.name \notin DOMAIN given /\ ~a.optional
  <2>1. a.name \in DOMAIN D BY <1>3, <1>8 DEF Proper
  <2>2. Seen(a, V) = D[a.name] BY <1>5, <1>8, <2>1, Zenon DEF Seen
  <2> QED BY <1>1, <1>8, <2>1, <2>2, Zenon DEF SeenAsMeant
<1> QED BY <1>6, <1>7, <1>8

\* What arrives of a proper call.
Arrived(ix, given, D, args, remaining, m) ==
    LET got == Received(ix, m)
        A == AccountsOf(ix)
    IN  /\ got.args = args /\ got.remaining = remaining
        /\ DOMAIN got.accounts = NamesOf(A)
        /\ \A i \in 1..Len(A) : SeenAsMeant(A[i], given, D, got.accounts[A[i].name])
        /\ Head(m.data) = Cell(8, <<ix>>) /\ Len(m.accounts) >= Len(Structs[ix])
        /\ \A i \in DOMAIN Structs[ix] :
              /\ Structs[ix][i].signer => IsSigner(m.accounts, m.accounts[i].address)
              /\ Structs[ix][i].mut => IsWritable(m.accounts, m.accounts[i].address)
        /\ \A n \in DOMAIN got.accounts \cap DOMAIN Demanded : got.accounts[n] \in Demanded[n]

LEMMA ValuesAre ==
    ASSUME NEW ix \in Instructions, NEW style, NEW given, Proper(ix, style, given), NEW args,
           NEW V, V = Values(ix, style, given, args), NEW n \in DOMAIN V
    PROVE  V[n].signer \in BOOLEAN /\ (n \in Signers(ix) => V[n].signer)
<1>1. PICK D : D = Defaults(ix, style, given, args) OBVIOUS
<1>2. V = given ++ [m \in DOMAIN D |-> Plain(D[m])] BY <1>1 DEF Values
<1>3. CASE n \in DOMAIN given
  <2>1. V[n] = given[n] BY <1>2, <1>3 DEF ++
  <2> QED BY <2>1, <1>3, Zenon DEF Proper
<1>4. CASE n \notin DOMAIN given
  <2>1. n \in DOMAIN D /\ V[n] = Plain(D[n]) BY <1>2, <1>4 DEF ++
  <2>2. n \notin Signers(ix) BY <1>4, SignersAreRequired DEF Proper
  <2> QED BY <2>1, <2>2 DEF Plain
<1> QED BY <1>3, <1>4

\* A required account of a proper call has a value.
LEMMA RequiredAreThere ==
    ASSUME NEW ix \in Instructions, NEW style, NEW given, Proper(ix, style, given), NEW args,
           NEW i \in 1..Len(AccountsOf(ix)), ~AccountsOf(ix)[i].optional
    PROVE  AccountsOf(ix)[i].name \in DOMAIN Values(ix, style, given, args)
<1>1. PICK A, D, a : A = AccountsOf(ix) /\ D = Defaults(ix, style, given, args) /\ a = A[i] OBVIOUS
<1>2. a.name \in Required(ix, style) \/ a.name \in DOMAIN D
  BY <1>1, DefaultsAreFine, Zenon DEF DefaultsFine
<1>3. a.name \in DOMAIN given \/ a.name \in DOMAIN D BY <1>2 DEF Proper
<1> QED BY <1>1, <1>3 DEF Values, ++

\* The accounts that some instruction can do without.
Dispensable == {"agentAta", "tokenProgram", "delegationAttestation", "satiCredential", "clock"}

LEMMA OptionalAreDispensable ==
    ASSUME NEW ix \in Instructions, NEW i \in 1..Len(AccountsOf(ix)), AccountsOf(ix)[i].optional
    PROVE  AccountsOf(ix)[i].name \in Dispensable
<1>1. CASE ix = "closeCompressedAttestation"
  <2>1. AccountsOf(ix) = CloseCompressedAccounts BY <1>1 DEF AccountsOf
  <2> QED BY <2>1 DEF CloseCompressedAccounts, Ro, Wr, Opt, Account, Dispensable
<1>2. CASE ix = "closeRegularAttestation"
  <2>1. AccountsOf(ix) = CloseRegularAccounts BY <1>2 DEF AccountsOf
  <2> QED BY <2>1 DEF CloseRegularAccounts, Ro, Wr, Opt, Account, Dispensable
<1>3. CASE ix = "createCompressedAttestation"
  <2>1. AccountsOf(ix) = CreateCompressedAccounts BY <1>3 DEF AccountsOf
  <2> QED BY <2>1 DEF CreateCompressedAccounts, Ro, Wr, Opt, Account, Dispensable
<1>4. CASE ix = "createRegularAttestation"
  <2>1. AccountsOf(ix) = CreateRegularAccounts BY <1>4 DEF AccountsOf
  <2> QED BY <2>1 DEF CreateRegularAccounts, Ro, Wr, Opt, Account, Dispensable
<1>5. CASE ix = "initialize"
  <2>1. AccountsOf(ix) = InitializeAccounts BY <1>5 DEF AccountsOf
  <2> QED BY <2>1 DEF InitializeAccounts, Ro, Wr, Opt, Account, Dispensable
<1>6. CASE ix = "linkEvmAddress"
  <2>1. AccountsOf(ix) = LinkEvmAccounts BY <1>6 DEF AccountsOf
  <2> QED BY <2>1 DEF LinkEvmAccounts, Ro, Wr, Opt, Account, Dispensable
<1>7. CASE ix = "registerAgent"
  <2>1. AccountsOf(ix) = RegisterAgentAccounts BY <1>7 DEF AccountsOf
  <2> QED BY <2>1 DEF RegisterAgentAccounts, Ro, Wr, Opt, Account, Dispensable
<1>8. CASE ix = "registerSchemaConfig"
  <2>1. AccountsOf(ix) = RegisterSchemaConfigAccounts BY <1>8 DEF AccountsOf
  <2> QED BY <2>1 DEF RegisterSchemaConfigAccounts, Ro, Wr, Opt, Account, Dispensable
<1>9. CASE ix = "updateRegistryAuthority"
  <2>1. AccountsOf(ix) = UpdateAuthorityAccounts BY <1>9 DEF AccountsOf
  <2> QED BY <2>1 DEF UpdateAuthorityAccounts, Ro, Wr, Opt, Account, Dispensable
<1> QED BY <1>1, <1>2, <1>3, <1>4, <1>5, <1>6, <1>7, <1>8, <1>9 DEF Instructions

\* The generated client and the program agree on what is called: a proper call reaches the
\* handler with its arguments, each account where the caller meant it to go, the defaults in
\* the places of those left out, and the privileges that the handler asks for.
THEOREM InstructionArrives ==
    ASSUME NEW ix \in Instructions, NEW style, NEW given, Proper(ix, style, given),
           NEW args, Fits(Struct(Params[ix]), args), NEW remaining, Sequence(remaining),
           NEW m, m = Sending(ix, style, given, args, remaining)
    PROVE  Arrived(ix, given, Defaults(ix, style, given, args), args, remaining, m)
<1>1. PICK A, T, V, D, metas, data :
          /\ A = AccountsOf(ix) /\ T = Structs[ix] /\ V = Values(ix, style, given, args)
          /\ D = Defaults(ix, style, given, args) /\ metas = m.accounts /\ data = m.data
  OBVIOUS
<1>2. Aligned(A, T, ix) BY <1>1, AccountsAligned
<1>3. /\ metas = MetasOf(A, V) \o remaining
      /\ data = Encode(WithDiscriminator(Params[ix]), [discriminator |-> <<ix>>] ++ args)
  <2>1. Carries(ix, Values(ix, style, given, args), args, remaining, m) BY SendingIs, Zenon
  <2> QED BY <1>1, <2>1, Zenon DEF Carries
<1>4. /\ Sequence(A) /\ Sequence(T) /\ Len(A) = Len(T)
      /\ \A i \in 1..Len(A) : AlignedAt(A[i], T[i], ix)
      /\ \A i, j \in 1..Len(A) : A[i].name = A[j].name => i = j
  BY <1>2, Zenon DEF Aligned
<1>5. DOMAIN T = 1..Len(A) /\ Len(A) \in Nat BY <1>4, Length
<1>6. MetasKnown(A, V, remaining, metas) BY <1>3, <1>4, MetasAre
<1>7. /\ DOMAIN TakeAccounts(T, metas) = NamesOf(A)
      /\ \A i \in 1..Len(A) : TakeAccounts(T, metas)[A[i].name] = Seen(A[i], V)
  <2>1. TakenAs(A, V, TakeAccounts(T, metas)) BY <1>2, <1>3, Taking
  <2> QED BY <2>1, Zenon DEF TakenAs
<1>8. PICK got : got = Received(ix, m) OBVIOUS
<1>9. /\ got.accounts = TakeAccounts(T, metas)
      /\ got.remaining = SubSeq(metas, Len(T) + 1, Len(metas))
      /\ got.args = Decode(Struct(Params[ix]), Tail(data)).value
  BY <1>1, <1>8 DEF Received
<1>10. got.remaining = remaining BY <1>4, <1>6, <1>9, Zenon DEF MetasKnown
<1>11. PICK body : body = Encode(Struct(Params[ix]), args) OBVIOUS
<1>12. Sequence(body) /\ data = <<Cell(8, <<ix>>)>> \o body
  BY <1>3, <1>11, ParamsAre, Discriminated
<1>13. Head(data) = Cell(8, <<ix>>) /\ Tail(data) = body
  <2>1. PICK c : c = Cell(8, <<ix>>) OBVIOUS
  <2> QED BY <1>12, <2>1, Prepended
<1>14. got.args = args
  <2>1. Sequence(<<>>) /\ body \o <<>> = body BY <1>12, Empty
  <2>2. PICK p : p = Struct(Params[ix]) OBVIOUS
  <2>3. Decode(p, Encode(p, args) \o <<>>) = [value |-> args, rest |-> <<>>]
    BY <2>1, <2>2, CodecsRoundTrip
  <2>4. Decode(p, body) = [value |-> args, rest |-> <<>>] BY <1>11, <2>1, <2>2, <2>3
  <2>5. PICK d : d = Decode(p, body) OBVIOUS
  <2>6. d.value = args BY <2>4, <2>5
  <2>7. got.args = Decode(p, body).value BY <1>9, <1>13, <2>2, Zenon
  <2> QED BY <2>5, <2>6, <2>7, Zenon
<1>15. \A i \in 1..Len(A) : SeenAsMeant(A[i], given, D, got.accounts[A[i].name])
  <2>1. \A i \in 1..Len(A) : SeenAsMeant(A[i], given, D, Seen(A[i], V)) BY <1>1, SeenIs, Zenon
  <2> QED BY <1>7, <1>9, <2>1, Zenon
<1>16. Len(metas) >= Len(T) BY <1>4, <1>5, <1>6 DEF MetasKnown
<1>17. ASSUME NEW i \in DOMAIN T
       PROVE  /\ T[i].signer => IsSigner(metas, metas[i].address)
              /\ T[i].mut => IsWritable(metas, metas[i].address)
  <2>1. i \in 1..Len(A) BY <1>5
  <2>2. AlignedAt(A[i], T[i], ix) BY <1>4, <2>1, Zenon
  <2>3. CASE T[i].option BY <2>2, <2>3, Zenon DEF AlignedAt
  <2>4. CASE ~T[i].option
    <3>1. ~A[i].optional BY <2>2, <2>4, Zenon DEF AlignedAt
    <3>2. A[i].name \in DOMAIN V BY <1>1, <2>1, <3>1, RequiredAreThere, Zenon
    <3>3. V[A[i].name].signer \in BOOLEAN /\ (A[i].name \in Signers(ix) => V[A[i].name].signer)
      BY <1>1, <3>2, ValuesAre, Zenon
    <3> QED BY <1>2, <1>3, <3>2, <3>3, Privileged
  <2> QED BY <2>3, <2>4
<1>18. \A n \in DOMAIN got.accounts \cap DOMAIN Demanded : got.accounts[n] \in Demanded[n]
  <2>1. SUFFICES ASSUME NEW n \in NamesOf(A), n \in DOMAIN Demanded PROVE got.accounts[n] \in Demanded[n]
    BY <1>7, <1>9, Zenon
  <2>2. PICK i \in 1..Len(A) : n = A[i].name BY DEF NamesOf
  <2>3. SeenAsMeant(A[i], given, D, got.accounts[n]) BY <1>15, <2>2, Zenon
  <2>4. CASE n \in DOMAIN given BY <2>1, <2>2, <2>3, <2>4, Zenon DEF Proper, SeenAsMeant
  <2>5. CASE n \notin DOMAIN given /\ A[i].optional
    <3>1. got.accounts[n] = LeftOut(n) BY <2>2, <2>3, <2>5, Zenon DEF SeenAsMeant
    <3>2. n \in Dispensable BY <1>1, <2>2, <2>5, OptionalAreDispensable, Zenon
    <3> QED BY <2>1, <3>1, <3>2 DEF LeftOut, Demanded, Dispensable
  <2>6. CASE n \notin DOMAIN given /\ ~A[i].optional
    <3>1. n \in DOMAIN D /\ got.accounts[n] = D[n] BY <2>2, <2>3, <2>6, Zenon DEF SeenAsMeant
    <3>2. DefaultsFine(A, ix, style, D) BY <1>1, DefaultsAreFine
    <3> QED BY <2>1, <3>1, <3>2, Zenon DEF DefaultsFine
  <2> QED BY <2>4, <2>5, <2>6
<1> QED BY <1>1, <1>7, <1>8, <1>9, <1>10, <1>13, <1>14, <1>15, <1>16, <1>17, <1>18, Zenon DEF Arrived

-----------------------------------------------------------------------------
(* The calls of the generated client are proper                              *)

\* Accounts whose address the program demands and nobody is asked for.
Supplied == {"systemProgram", "instructionsSysvar", "sasProgram", "token2022Program", "associatedTokenProgram"}

LEMMA RequiredAreKnown ==
    ASSUME NEW ix \in Instructions, NEW style
    PROVE  Required(ix, style) \subseteq NamesOf(AccountsOf(ix)) /\ Required(ix, style) \cap Supplied = {}
<1>1. CASE ix = "closeCompressedAttestation"
  <2>1. AccountsOf(ix) = CloseCompressedAccounts BY <1>1 DEF AccountsOf
  <2>2. Required(ix, style) \subseteq CloseCompressedInput BY <1>1 DEF Required, CloseCompressedInput, CloseCompressedAsyncInput
  <2>3. PICK A : A = CloseCompressedAccounts OBVIOUS
  <2>4. Len(A) = 6 /\ \A m \in CloseCompressedInput : \E i \in 1..6 : A[i].name = m
    BY <2>3 DEF CloseCompressedAccounts, CloseCompressedInput, CloseCompressedAsyncInput, Ro, Wr, Opt, Account
  <2>5. CloseCompressedInput \cap Supplied = {} BY DEF Supplied, CloseCompressedInput, CloseCompressedAsyncInput
  <2>6. CloseCompressedInput \subseteq NamesOf(A) BY <2>4 DEF NamesOf
  <2> QED BY <2>1, <2>2, <2>3, <2>5, <2>6
<1>2. CASE ix = "closeRegularAttestation"
  <2>1. AccountsOf(ix) = CloseRegularAccounts BY <1>2 DEF AccountsOf
  <2>2. Required(ix, style) \subseteq CloseRegularInput BY <1>2 DEF Required, CloseRegularInput, CloseRegularAsyncInput
  <2>3. PICK A : A = CloseRegularAccounts OBVIOUS
  <2>4. Len(A) = 11 /\ \A m \in CloseRegularInput : \E i \in 1..11 : A[i].name = m
    BY <2>3 DEF CloseRegularAccounts, CloseRegularInput, CloseRegularAsyncInput, Ro, Wr, Opt, Account
  <2>5. CloseRegularInput \cap Supplied = {} BY DEF Supplied, CloseRegularInput, CloseRegularAsyncInput
  <2>6. CloseRegularInput \subseteq NamesOf(A) BY <2>4 DEF NamesOf
  <2> QED BY <2>1, <2>2, <2>3, <2>5, <2>6
<1>3. CASE ix = "createCompressedAttestation"
  <2>1. AccountsOf(ix) = CreateCompressedAccounts BY <1>3 DEF AccountsOf
  <2>2. Required(ix, style) \subseteq CreateCompressedInput BY <1>3 DEF Required, CreateCompressedInput, CreateCompressedAsyncInput
  <2>3. PICK A : A = CreateCompressedAccounts OBVIOUS
  <2>4. Len(A) = 10 /\ \A m \in CreateCompressedInput : \E i \in 1..10 : A[i].name = m
    BY <2>3 DEF CreateCompressedAccounts, CreateCompressedInput, CreateCompressedAsyncInput, Ro, Wr, Opt, Account
  <2>5. CreateCompressedInput \cap Supplied = {} BY DEF Supplied, CreateCompressedInput, CreateCompressedAsyncInput
  <2>6. CreateCompressedInput \subseteq NamesOf(A) BY <2>4 DEF NamesOf
  <2> QED BY <2>1, <2>2, <2>3, <2>5, <2>6
<1>4. CASE ix = "createRegularAttestation"
  <2>1. AccountsOf(ix) = CreateRegularAccounts BY <1>4 DEF AccountsOf
  <2>2. Required(ix, style) \subseteq CreateRegularInput BY <1>4 DEF Required, CreateRegularInput, CreateRegularAsyncInput
  <2>3. PICK A : A = CreateRegularAccounts OBVIOUS
  <2>4. Len(A) = 15 /\ \A m \in CreateRegularInput : \E i \in 1..15 : A[i].name = m
    BY <2>3 DEF CreateRegularAccounts, CreateRegularInput, CreateRegularAsyncInput, Ro, Wr, Opt, Account
  <2>5. CreateRegularInput \cap Supplied = {} BY DEF Supplied, CreateRegularInput, CreateRegularAsyncInput
  <2>6. CreateRegularInput \subseteq NamesOf(A) BY <2>4 DEF NamesOf
  <2> QED BY <2>1, <2>2, <2>3, <2>5, <2>6
<1>5. CASE ix = "initialize"
  <2>1. AccountsOf(ix) = InitializeAccounts BY <1>5 DEF AccountsOf
  <2>2. Required(ix, style) \subseteq InitializeInput BY <1>5 DEF Required, InitializeInput, InitializeAsyncInput
  <2>3. PICK A : A = InitializeAccounts OBVIOUS
  <2>4. Len(A) = 4 /\ \A m \in InitializeInput : \E i \in 1..4 : A[i].name = m
    BY <2>3 DEF InitializeAccounts, InitializeInput, InitializeAsyncInput, Ro, Wr, Opt, Account
  <2>5. InitializeInput \cap Supplied = {} BY DEF Supplied, InitializeInput, InitializeAsyncInput
  <2>6. InitializeInput \subseteq NamesOf(A) BY <2>4 DEF NamesOf
  <2> QED BY <2>1, <2>2, <2>3, <2>5, <2>6
<1>6. CASE ix = "linkEvmAddress"
  <2>1. AccountsOf(ix) = LinkEvmAccounts BY <1>6 DEF AccountsOf
  <2>2. Required(ix, style) \subseteq LinkEvmInput BY <1>6 DEF Required, LinkEvmInput, LinkEvmAsyncInput
  <2>3. PICK A : A = LinkEvmAccounts OBVIOUS
  <2>4. Len(A) = 4 /\ \A m \in LinkEvmInput : \E i \in 1..4 : A[i].name = m
    BY <2>3 DEF LinkEvmAccounts, LinkEvmInput, LinkEvmAsyncInput, Ro, Wr, Opt, Account
  <2>5. LinkEvmInput \cap Supplied = {} BY DEF Supplied, LinkEvmInput, LinkEvmAsyncInput
  <2>6. LinkEvmInput \subseteq NamesOf(A) BY <2>4 DEF NamesOf
  <2> QED BY <2>1, <2>2, <2>3, <2>5, <2>6
<1>7. CASE ix = "registerAgent"
  <2>1. AccountsOf(ix) = RegisterAgentAccounts BY <1>7 DEF AccountsOf
  <2>2. Required(ix, style) \subseteq RegisterAgentInput BY <1>7 DEF Required, RegisterAgentInput, RegisterAgentAsyncInput
  <2>3. PICK A : A = RegisterAgentAccounts OBVIOUS
  <2>4. Len(A) = 10 /\ \A m \in RegisterAgentInput : \E i \in 1..10 : A[i].name = m
    BY <2>3 DEF RegisterAgentAccounts, RegisterAgentInput, RegisterAgentAsyncInput, Ro, Wr, Opt, Account
  <2>5. RegisterAgentInput \cap Supplied = {} BY DEF Supplied, RegisterAgentInput, RegisterAgentAsyncInput
  <2>6. RegisterAgentInput \subseteq NamesOf(A) BY <2>4 DEF NamesOf
  <2> QED BY <2>1, <2>2, <2>3, <2>5, <2>6
<1>8. CASE ix = "registerSchemaConfig"
  <2>1. AccountsOf(ix) = RegisterSchemaConfigAccounts BY <1>8 DEF AccountsOf
  <2>2. Required(ix, style) \subseteq RegisterSchemaConfigInput BY <1>8 DEF Required, RegisterSchemaConfigInput, RegisterSchemaConfigAsyncInput
  <2>3. PICK A : A = RegisterSchemaConfigAccounts OBVIOUS
  <2>4. Len(A) = 5 /\ \A m \in RegisterSchemaConfigInput : \E i \in 1..5 : A[i].name = m
    BY <2>3 DEF RegisterSchemaConfigAccounts, RegisterSchemaConfigInput, RegisterSchemaConfigAsyncInput, Ro, Wr, Opt, Account
  <2>5. RegisterSchemaConfigInput \cap Supplied = {} BY DEF Supplied, RegisterSchemaConfigInput, RegisterSchemaConfigAsyncInput
  <2>6. RegisterSchemaConfigInput \subseteq NamesOf(A) BY <2>4 DEF NamesOf
  <2> QED BY <2>1, <2>2, <2>3, <2>5, <2>6
<1>9. CASE ix = "updateRegistryAuthority"
  <2>1. AccountsOf(ix) = UpdateAuthorityAccounts BY <1>9 DEF AccountsOf
  <2>2. Required(ix, style) \subseteq UpdateAuthorityInput BY <1>9 DEF Required, UpdateAuthorityInput, UpdateAuthorityAsyncInput
  <2>3. PICK A : A = UpdateAuthorityAccounts OBVIOUS
  <2>4. Len(A) = 2 /\ \A m \in UpdateAuthorityInput : \E i \in 1..2 : A[i].name = m
    BY <2>3 DEF UpdateAuthorityAccounts, UpdateAuthorityInput, UpdateAuthorityAsyncInput, Ro, Wr, Opt, Account
  <2>5. UpdateAuthorityInput \cap Supplied = {} BY DEF Supplied, UpdateAuthorityInput, UpdateAuthorityAsyncInput
  <2>6. UpdateAuthorityInput \subseteq NamesOf(A) BY <2>4 DEF NamesOf
  <2> QED BY <2>1, <2>2, <2>3, <2>5, <2>6
<1> QED BY <1>1, <1>2, <1>3, <1>4, <1>5, <1>6, <1>7, <1>8, <1>9 DEF Instructions

LEMMA ExtrasAreKnown ==
    ASSUME NEW ix \in Instructions
    PROVE  Extras(ix) \subseteq NamesOf(AccountsOf(ix)) /\ Extras(ix) \subseteq Dispensable
<1>1. PICK A : A = AccountsOf(ix) OBVIOUS
<1>2. DOMAIN A = 1..Len(A) BY <1>1, AccountsAligned, Length DEF Aligned
<1>3. \A i \in DOMAIN A : A[i].optional => A[i].name \in Dispensable /\ A[i].name \in NamesOf(A)
  BY <1>1, <1>2, OptionalAreDispensable DEF NamesOf
<1>4. ASSUME ix = "linkEvmAddress" PROVE "tokenProgram" \in NamesOf(A)
  <2>1. A = LinkEvmAccounts BY <1>1, <1>4 DEF AccountsOf
  <2>2. 4 \in 1..Len(A) /\ A[4].name = "tokenProgram" BY <2>1 DEF LinkEvmAccounts, Ro, Account
  <2> QED BY <2>2 DEF NamesOf
<1>5. Extras(ix) \subseteq {A[i].name : i \in {j \in DOMAIN A : A[j].optional}}
                          \cup (IF ix = "linkEvmAddress" THEN {"tokenProgram"} ELSE {})
  BY <1>1 DEF Extras
<1>6. "tokenProgram" \in Dispensable BY DEF Dispensable
<1> QED BY <1>1, <1>3, <1>4, <1>5, <1>6

\* No program derived address is the program's own.
LEMMA DerivedElsewhere ==
    /\ AgentAta # SATI_PROGRAM_ADDRESS /\ Token2022Program # SATI_PROGRAM_ADDRESS
    /\ ClockSysvar # SATI_PROGRAM_ADDRESS
BY DEF AgentAta, Ata, Pda, AssociatedTokenProgram, Owner, Token2022Program, Mint, SATI_PROGRAM_ADDRESS, ClockSysvar

LEMMA ValueIs ==
    ASSUME NEW ix, NEW n
    PROVE  /\ Value(ix, n).signer \in BOOLEAN /\ (n \in Signers(ix) => Value(ix, n).signer)
           /\ n \in DOMAIN Demanded \ Supplied => Value(ix, n).address \in Demanded[n]
           /\ n \in Dispensable => Value(ix, n).address # SATI_PROGRAM_ADDRESS
           /\ n \in DOMAIN Known => Value(ix, n).address = Known[n]
<1>1. PICK address : address = IF n \in DOMAIN Known THEN Known[n] ELSE <<n>> OBVIOUS
<1>2. Value(ix, n) = IF n \in Signers(ix) THEN Signer(address) ELSE Plain(address) BY <1>1, Zenon DEF Value
<1>3. Value(ix, n).address = address /\ Value(ix, n).signer \in BOOLEAN
      /\ (n \in Signers(ix) => Value(ix, n).signer)
  BY <1>2 DEF Signer, Plain
<1>4. ASSUME n \in DOMAIN Demanded \ Supplied PROVE address \in Demanded[n]
  BY <1>1, <1>4 DEF Demanded, Supplied, Known
<1>5. ASSUME n \in Dispensable PROVE address # SATI_PROGRAM_ADDRESS
  <2>1. CASE n \in {"agentAta", "tokenProgram", "clock"} BY <1>1, <2>1, DerivedElsewhere DEF Known
  <2>2. CASE n \in {"delegationAttestation", "satiCredential"}
    <3>1. address = <<n>> BY <1>1, <2>2 DEF Known
    <3> QED BY <3>1, <2>2 DEF SATI_PROGRAM_ADDRESS
  <2> QED BY <1>5, <2>1, <2>2 DEF Dispensable
<1> QED BY <1>1, <1>3, <1>4, <1>5

LEMMA CalledIsProper ==
    ASSUME NEW ix \in Instructions, NEW style, NEW extras \in SUBSET Extras(ix)
    PROVE  Proper(ix, style, Given(ix, style, extras))
<1>1. PICK given : given = Given(ix, style, extras) OBVIOUS
<1>2. DOMAIN given = Required(ix, style) \cup extras /\ \A n \in DOMAIN given : given[n] = Value(ix, n)
  BY <1>1 DEF Given
<1>3. DOMAIN given \subseteq NamesOf(AccountsOf(ix)) BY <1>2, RequiredAreKnown, ExtrasAreKnown
<1>4. DOMAIN given \cap Supplied = {}
  <2>1. Dispensable \cap Supplied = {} BY DEF Dispensable, Supplied
  <2> QED BY <1>2, <2>1, RequiredAreKnown, ExtrasAreKnown
<1>5. \A n \in DOMAIN given :
         /\ given[n].signer \in BOOLEAN /\ (n \in Signers(ix) => given[n].signer)
         /\ n \in DOMAIN Demanded => given[n].address \in Demanded[n]
  BY <1>2, <1>4, ValueIs
<1>6. \A i \in 1..Len(AccountsOf(ix)) :
         AccountsOf(ix)[i].optional /\ AccountsOf(ix)[i].name \in DOMAIN given
         => given[AccountsOf(ix)[i].name].address # SATI_PROGRAM_ADDRESS
  <2>1. ASSUME NEW i \in 1..Len(AccountsOf(ix)), AccountsOf(ix)[i].optional,
               NEW n \in DOMAIN given, n = AccountsOf(ix)[i].name
        PROVE  given[n].address # SATI_PROGRAM_ADDRESS
    <3>1. n \in Dispensable BY <2>1, OptionalAreDispensable
    <3> QED BY <3>1, <1>2, ValueIs
  <2> QED BY <2>1, Zenon
<1> QED BY <1>1, <1>2, <1>3, <1>5, <1>6, Zenon DEF Proper

-----------------------------------------------------------------------------
(* Bytes that lie somewhere in others                                       *)

Located(b, off, p) ==
    /\ Sequence(b) /\ Sequence(p) /\ off \in Nat /\ off + Len(p) <= Len(b)
    /\ \A i \in 1..Len(p) : b[off + i] = p[i]

LEMMA Appended ==
    ASSUME NEW s, NEW t, Sequence(s), Sequence(t), NEW u, u = s \o t
    PROVE  Sequence(u) /\ Len(u) = Len(s) + Len(t) /\ Located(u, 0, s) /\ Located(u, Len(s), t)
<1>1. Joined(u, s, t) BY Joining
<1>2. /\ Sequence(u) /\ Len(u) = Len(s) + Len(t) /\ \A i \in 1..Len(s) : u[i] = s[i]
      /\ \A i \in 1..Len(t) : u[Len(s) + i] = t[i]
  BY <1>1, Zenon DEF Joined
<1>3. Len(s) \in Nat /\ Len(t) \in Nat BY Length
<1>4. \A i \in 1..Len(s) : u[0 + i] = s[i] BY <1>2, <1>3
<1> QED BY <1>2, <1>3, <1>4 DEF Located

LEMMA Nested ==
    ASSUME NEW b, NEW off, NEW s, Located(b, off, s), NEW off2, NEW p, Located(s, off2, p)
    PROVE  Located(b, off + off2, p)
<1>1. Sequence(b) /\ off \in Nat /\ off + Len(s) <= Len(b) /\ \A i \in 1..Len(s) : b[off + i] = s[i]
  BY DEF Located
<1>2. /\ Sequence(s) /\ Sequence(p) /\ off2 \in Nat /\ off2 + Len(p) <= Len(s)
      /\ \A i \in 1..Len(p) : s[off2 + i] = p[i]
  BY DEF Located
<1>3. Len(b) \in Nat /\ Len(s) \in Nat /\ Len(p) \in Nat BY <1>1, <1>2, Length
<1>4. ASSUME NEW i \in 1..Len(p) PROVE b[off + off2 + i] = p[i]
  <2>1. PICK j : j = off2 + i OBVIOUS
  <2>2. j \in 1..Len(s) /\ off + off2 + i = off + j BY <2>1, <1>1, <1>2, <1>3
  <2>3. b[off + j] = s[j] /\ s[j] = p[i] BY <1>1, <1>2, <2>1, <2>2
  <2> QED BY <2>2, <2>3
<1> QED BY <1>1, <1>2, <1>3, <1>4 DEF Located

LEMMA Sliced ==
    ASSUME NEW b, NEW off, NEW p, Located(b, off, p), NEW to, to = off + Len(p)
    PROVE  Slice(b, off, to) = p
<1>1. /\ Sequence(b) /\ Sequence(p) /\ off \in Nat /\ off + Len(p) <= Len(b)
      /\ \A i \in 1..Len(p) : b[off + i] = p[i]
  BY DEF Located
<1>2. Len(b) \in Nat /\ Len(p) \in Nat BY <1>1, Length
<1>3. to \in Nat /\ to <= Len(b) BY <1>1, <1>2
<1>4. PICK q : q = SubSeq(b, off + 1, to) OBVIOUS
<1>5. Slice(b, off, to) = q BY <1>3, <1>4 DEF Slice
<1>6. Sequence(q) /\ Len(q) = Len(p) /\ \A i \in 1..Len(p) : q[i] = b[off + i]
  <2>1. PICK S : b \in Seq(S) BY <1>1 DEF Sequence
  <2>2. q \in Seq(S) BY <2>1, <1>1, <1>2, <1>3, <1>4
  <2>3. Len(q) = Len(p) BY <2>1, <1>1, <1>2, <1>3, <1>4
  <2>4. \A i \in 1..Len(p) : q[i] = b[off + i] BY <2>1, <2>3, <1>1, <1>2, <1>3, <1>4
  <2> QED BY <2>2, <2>3, <2>4 DEF Sequence
<1>7. q = p BY <1>1, <1>6, Equal
<1> QED BY <1>5, <1>7

LEMMA Singleton ==
    ASSUME NEW x
    PROVE  Sequence(<<x>>) /\ Len(<<x>>) = 1 /\ <<x>>[1] = x
<1>1. <<x>> \in Seq({x}) /\ Len(<<x>>) = 1 /\ <<x>>[1] = x OBVIOUS
<1> QED BY <1>1 DEF Sequence

LEMMA OneByte ==
    ASSUME NEW b, NEW off, NEW x, Located(b, off, <<x>>)
    PROVE  b[off + 1] = x
BY Singleton DEF Located

LEMMA Kept ==
    ASSUME NEW b, Sequence(b), NEW p, Sequence(p), NEW at \in Nat, at + Len(p) <= Len(b),
           NEW u, u = Put(b, at, p)
    PROVE  /\ Sequence(u) /\ Len(u) = Len(b) /\ Located(u, at, p)
           /\ \A off, q : /\ Located(b, off, q) /\ (off + Len(q) <= at \/ at + Len(p) <= off)
                          => Located(u, off, q)
<1>1. Len(b) \in Nat /\ Len(p) \in Nat /\ DOMAIN b = 1..Len(b) BY Length
<1>2. u = [i \in 1..Len(b) |-> IF i \in at + 1..at + Len(p) THEN p[i - at] ELSE b[i]]
  BY <1>1, Zenon DEF Put
<1>3. Sequence(u) /\ Len(u) = Len(b)
  <2>1. u = [i \in 1..Len(b) |-> u[i]] BY <1>2
  <2> QED BY <1>1, <2>1, Tabulated
<1>4. ASSUME NEW i \in 1..Len(p) PROVE u[at + i] = p[i]
  <2>1. PICK j : j = at + i OBVIOUS
  <2>2. j \in 1..Len(b) /\ j \in at + 1..at + Len(p) /\ j - at = i BY <2>1, <1>1
  <2>3. u[j] = p[j - at] BY <1>2, <2>2
  <2> QED BY <2>1, <2>2, <2>3
<1>5. Located(u, at, p) BY <1>1, <1>3, <1>4 DEF Located
<1>6. ASSUME NEW off, NEW q, Located(b, off, q), off + Len(q) <= at \/ at + Len(p) <= off
      PROVE  Located(u, off, q)
  <2>1. /\ Sequence(q) /\ off \in Nat /\ off + Len(q) <= Len(b)
        /\ \A i \in 1..Len(q) : b[off + i] = q[i]
    BY <1>6, Zenon DEF Located
  <2>2. Len(q) \in Nat BY <2>1, Length
  <2>3. ASSUME NEW i \in 1..Len(q) PROVE u[off + i] = q[i]
    <3>1. PICK j : j = off + i OBVIOUS
    <3>2. j \in 1..Len(b) /\ j \notin at + 1..at + Len(p) BY <3>1, <2>1, <2>2, <1>1, <1>6
    <3>3. u[j] = b[j] BY <1>2, <3>2
    <3> QED BY <2>1, <3>1, <3>3
  <2> QED BY <2>1, <2>2, <2>3, <1>3 DEF Located
<1> QED BY <1>3, <1>5, <1>6

\* Four and five pieces one after the other.
Pieces4(u, a, b, c, d) ==
    /\ Sequence(u) /\ Len(u) = Len(a) + Len(b) + Len(c) + Len(d)
    /\ Located(u, 0, a) /\ Located(u, Len(a), b) /\ Located(u, Len(a) + Len(b), c)
    /\ Located(u, Len(a) + Len(b) + Len(c), d)
Pieces5(u, a, b, c, d, e) ==
    /\ Sequence(u) /\ Len(u) = Len(a) + Len(b) + Len(c) + Len(d) + Len(e)
    /\ Located(u, 0, a) /\ Located(u, Len(a), b) /\ Located(u, Len(a) + Len(b), c)
    /\ Located(u, Len(a) + Len(b) + Len(c), d) /\ Located(u, Len(a) + Len(b) + Len(c) + Len(d), e)

LEMMA Four ==
    ASSUME NEW a, NEW b, NEW c, NEW d, Sequence(a), Sequence(b), Sequence(c), Sequence(d),
           NEW u, u = a \o b \o c \o d
    PROVE  Pieces4(u, a, b, c, d)
<1>1. PICK x, y : x = a \o b /\ y = x \o c /\ u = y \o d OBVIOUS
<1>2. Sequence(x) /\ Len(x) = Len(a) + Len(b) /\ Located(x, 0, a) /\ Located(x, Len(a), b) BY <1>1, Appended
<1>3. Sequence(y) /\ Len(y) = Len(x) + Len(c) /\ Located(y, 0, x) /\ Located(y, Len(x), c) BY <1>1, <1>2, Appended
<1>4. Sequence(u) /\ Len(u) = Len(y) + Len(d) /\ Located(u, 0, y) /\ Located(u, Len(y), d) BY <1>1, <1>3, Appended
<1>5. Len(a) \in Nat /\ Len(b) \in Nat /\ Len(c) \in Nat /\ Len(d) \in Nat BY Length
<1>6. Located(u, 0 + Len(x), c) BY <1>3, <1>4, Nested
<1>7. Located(u, 0 + 0, x) BY <1>3, <1>4, Nested
<1>8. Located(u, 0, x) BY <1>7
<1>9. Located(u, 0 + 0, a) /\ Located(u, 0 + Len(a), b) BY <1>2, <1>8, Nested
<1>10. 0 + 0 = 0 /\ 0 + Len(a) = Len(a) /\ 0 + Len(x) = Len(a) + Len(b) BY <1>2, <1>5
<1>11. Len(y) = Len(a) + Len(b) + Len(c) /\ Len(u) = Len(a) + Len(b) + Len(c) + Len(d) BY <1>2, <1>3, <1>4
<1> QED BY <1>4, <1>6, <1>9, <1>10, <1>11 DEF Pieces4

LEMMA Five ==
    ASSUME NEW a, NEW b, NEW c, NEW d, NEW e, Sequence(a), Sequence(b), Sequence(c), Sequence(d), Sequence(e),
           NEW u, u = a \o b \o c \o d \o e
    PROVE  Pieces5(u, a, b, c, d, e)
<1>1. PICK x : x = a \o b \o c \o d /\ u = x \o e OBVIOUS
<1>2. Pieces4(x, a, b, c, d) BY <1>1, Four
<1>3. /\ Sequence(x) /\ Len(x) = Len(a) + Len(b) + Len(c) + Len(d)
      /\ Located(x, 0, a) /\ Located(x, Len(a), b) /\ Located(x, Len(a) + Len(b), c)
      /\ Located(x, Len(a) + Len(b) + Len(c), d)
  BY <1>2, Zenon DEF Pieces4
<1>4. Sequence(u) /\ Len(u) = Len(x) + Len(e) /\ Located(u, 0, x) /\ Located(u, Len(x), e) BY <1>1, <1>3, Appended
<1>5. Len(a) \in Nat /\ Len(b) \in Nat /\ Len(c) \in Nat /\ Len(d) \in Nat BY Length
<1>6. /\ Located(u, 0 + 0, a) /\ Located(u, 0 + Len(a), b) /\ Located(u, 0 + (Len(a) + Len(b)), c)
      /\ Located(u, 0 + (Len(a) + Len(b) + Len(c)), d)
  BY <1>3, <1>4, Nested, Zenon
<1>7. /\ 0 + 0 = 0 /\ 0 + Len(a) = Len(a) /\ 0 + (Len(a) + Len(b)) = Len(a) + Len(b)
      /\ 0 + (Len(a) + Len(b) + Len(c)) = Len(a) + Len(b) + Len(c)
  BY <1>5
<1>8. Len(u) = Len(a) + Len(b) + Len(c) + Len(d) + Len(e) BY <1>3, <1>4
<1> QED BY <1>3, <1>4, <1>6, <1>7, <1>8, Zenon DEF Pieces5

-----------------------------------------------------------------------------
(* The arguments of every call fit their codecs                              *)

\* The items of an optional value.
LEMMA Perhaps ==
    ASSUME NEW x, NEW v \in {<<>>, <<x>>}
    PROVE  Sequence(v) /\ Len(v) <= 1 /\ Len(v) \in Nat /\ \A i \in 1..Len(v) : v[i] = x
<1>1. CASE v = <<>>
  <2>1. v \in Seq({x}) /\ Len(v) = 0 BY <1>1
  <2> QED BY <2>1 DEF Sequence
<1>2. CASE v = <<x>>
  <2>1. v \in Seq({x}) /\ Len(v) = 1 /\ v[1] = x BY <1>2
  <2> QED BY <2>1 DEF Sequence
<1> QED BY <1>1, <1>2

LEMMA ScalarsFit ==
    /\ \A n, v : R!Fits(Scalar(n), v) /\ L!Fits(Scalar(n), v) /\ O!Fits(Scalar(n), v)
    /\ \A n, v : FitsScalar(Scalar(n), v)
<1>1. ASSUME NEW n, NEW v PROVE R!Fits(Scalar(n), v) BY DEF Scalar, R!Fits
<1>2. ASSUME NEW n, NEW v PROVE L!Fits(Scalar(n), v) BY DEF Scalar, L!Fits
<1>3. ASSUME NEW n, NEW v PROVE O!Fits(Scalar(n), v) BY DEF Scalar, O!Fits
<1>4. ASSUME NEW n, NEW v PROVE FitsScalar(Scalar(n), v) BY DEF Scalar, FitsScalar
<1> QED BY <1>1, <1>2, <1>3, <1>4

\* Three texts, bytes or numbers are scalars, each of some width.
LEMMA TheScalars ==
    /\ Text = Scalar(0) /\ U8 = Scalar(1) /\ Bool = Scalar(1) /\ U16 = Scalar(2) /\ U32 = Scalar(4)
    /\ U64 = Scalar(8) /\ I64 = Scalar(8) /\ Pubkey = Scalar(32) /\ \A n : FixedBytes(n) = Scalar(n)
BY DEF Text, U8, Bool, U16, U32, U64, I64, Pubkey, FixedBytes

\* An optional value fits in the third layer if its items fit in the second.
LEMMA OptionFits ==
    ASSUME NEW of, NEW v, Sequence(v), Len(v) <= 1, \A i \in 1..Len(v) : L!Fits(of, v[i])
    PROVE  O!Fits(Option(of), v)
<1>1. Option(of).shape = "option" /\ Option(of).of = of BY DEF Option
<1>2. O!Sequence(v) BY DEF O!Sequence, Sequence
<1>3. Len(v) \in Nat BY Length
<1>4. Len(v) <= O!MaxLength BY <1>3 DEF O!MaxLength
<1> QED BY <1>1, <1>2, <1>4 DEF O!Fits

LEMMA VectorFits ==
    ASSUME NEW of, NEW v, Sequence(v), Len(v) <= MaxLength, \A i \in 1..Len(v) : R!Fits(of, v[i])
    PROVE  L!Fits(Vector(of), v)
<1>1. Vector(of).shape = "vector" /\ Vector(of).of = of BY DEF Vector
<1>2. L!Sequence(v) BY DEF L!Sequence, Sequence
<1>3. Len(v) \in Nat BY Length
<1>4. Len(v) <= L!MaxLength BY <1>3 DEF L!MaxLength, MaxLength
<1> QED BY <1>1, <1>2, <1>4 DEF L!Fits

LEMMA SizedFits ==
    ASSUME NEW v, Sequence(v), Len(v) <= MaxLength
    PROVE  O!Fits(Sized, v)
<1>1. Sized.shape = "sized" BY DEF Sized
<1>2. O!Sequence(v) BY DEF O!Sequence, Sequence
<1>3. Len(v) <= O!MaxLength BY DEF O!MaxLength, MaxLength
<1> QED BY <1>1, <1>2, <1>3 DEF O!Fits


LEMMA StructR ==
    ASSUME NEW f, Sequence(f), \A i, j \in DOMAIN f : f[i][1] = f[j][1] => i = j,
           NEW value, value = [name \in {f[i][1] : i \in DOMAIN f} |-> value[name]],
           \A i \in DOMAIN f : FitsScalar(f[i][2], value[f[i][1]])
    PROVE  R!Fits(Struct(f), value)
<1>1. PICK c : c = Struct(f) OBVIOUS
<1>2. c.shape = "struct" /\ f = c.fields BY <1>1, StructFields
<1>3. R!Sequence(f) BY Zenon DEF R!Sequence, Sequence
<1>4. R!Names(c) = {f[i][1] : i \in DOMAIN f} BY <1>2 DEF R!Names
<1>5. R!Fits(c, value) BY <1>2, <1>3, <1>4 DEF R!Fits
<1> QED BY <1>1, <1>5

LEMMA StructL ==
    ASSUME NEW f, Sequence(f), \A i, j \in DOMAIN f : f[i][1] = f[j][1] => i = j,
           NEW value, value = [name \in {f[i][1] : i \in DOMAIN f} |-> value[name]],
           \A i \in DOMAIN f : R!Fits(f[i][2], value[f[i][1]])
    PROVE  L!Fits(Struct(f), value)
<1>1. PICK c : c = Struct(f) OBVIOUS
<1>2. c.shape = "struct" /\ f = c.fields BY <1>1, StructFields
<1>3. L!Sequence(f) BY Zenon DEF L!Sequence, Sequence
<1>4. L!Names(c) = {f[i][1] : i \in DOMAIN f} BY <1>2 DEF L!Names
<1>5. L!Fits(c, value) BY <1>2, <1>3, <1>4 DEF L!Fits
<1> QED BY <1>1, <1>5

LEMMA StructO ==
    ASSUME NEW f, Sequence(f), \A i, j \in DOMAIN f : f[i][1] = f[j][1] => i = j,
           NEW value, value = [name \in {f[i][1] : i \in DOMAIN f} |-> value[name]],
           \A i \in DOMAIN f : L!Fits(f[i][2], value[f[i][1]])
    PROVE  O!Fits(Struct(f), value)
<1>1. PICK c : c = Struct(f) OBVIOUS
<1>2. c.shape = "struct" /\ f = c.fields BY <1>1, StructFields
<1>3. O!Sequence(f) BY Zenon DEF O!Sequence, Sequence
<1>4. O!Names(c) = {f[i][1] : i \in DOMAIN f} BY <1>2 DEF O!Names
<1>5. O!Fits(c, value) BY <1>2, <1>3, <1>4 DEF O!Fits
<1> QED BY <1>1, <1>5

LEMMA StructW ==
    ASSUME NEW f, Sequence(f), \A i, j \in DOMAIN f : f[i][1] = f[j][1] => i = j,
           NEW value, value = [name \in {f[i][1] : i \in DOMAIN f} |-> value[name]],
           \A i \in DOMAIN f : O!Fits(f[i][2], value[f[i][1]])
    PROVE  W!Fits(Struct(f), value)
<1>1. PICK c : c = Struct(f) OBVIOUS
<1>2. c.shape = "struct" /\ f = c.fields BY <1>1, StructFields
<1>3. W!Sequence(f) BY Zenon DEF W!Sequence, Sequence
<1>4. W!Names(c) = {f[i][1] : i \in DOMAIN f} BY <1>2 DEF W!Names
<1>5. W!Fits(c, value) BY <1>2, <1>3, <1>4 DEF W!Fits
<1> QED BY <1>1, <1>5

\* Of the arguments that have parts: proofs, addresses of trees, entries of metadata.
LEMMA ProofFits ==
    ASSUME NEW v, Sequence(v), Len(v) <= 1,
           \A i \in 1..Len(v) : v[i] = [a |-> v[i].a, b |-> v[i].b, c |-> v[i].c]
    PROVE  O!Fits(LightProof, v)
<1>1. PICK f : f = << <<"a", FixedBytes(32)>>, <<"b", FixedBytes(64)>>, <<"c", FixedBytes(32)>> >> OBVIOUS
<1>2. Sequence(f) /\ Len(f) = 3 /\ DOMAIN f = 1..3
  <2>1. f \in Seq({f[i] : i \in 1..3}) /\ Len(f) = 3 /\ DOMAIN f = 1..3 BY <1>1
  <2> QED BY <2>1 DEF Sequence
<1>3. \A i, j \in DOMAIN f : f[i][1] = f[j][1] => i = j BY <1>1, <1>2
<1>4. \A i \in DOMAIN f : \E n : f[i][2] = Scalar(n) BY <1>1, <1>2 DEF FixedBytes
<1>5. {f[i][1] : i \in DOMAIN f} = {"a", "b", "c"} BY <1>1, <1>2
<1>6. ASSUME NEW p, p = [a |-> p.a, b |-> p.b, c |-> p.c] PROVE L!Fits(Struct(f), p)
  <2>1. p = [name \in {f[i][1] : i \in DOMAIN f} |-> p[name]] BY <1>5, <1>6
  <2>2. \A i \in DOMAIN f : R!Fits(f[i][2], p[f[i][1]]) BY <1>4, ScalarsFit
  <2> QED BY <1>2, <1>3, <2>1, <2>2, StructL
<1>7. \A i \in 1..Len(v) : L!Fits(Struct(f), v[i]) BY <1>6
<1>8. O!Fits(Option(Struct(f)), v) BY <1>7, OptionFits
<1> QED BY <1>1, <1>8 DEF LightProof

LEMMA AddressTreeFits ==
    ASSUME NEW v, v = [addressMerkleTreePubkeyIndex |-> v.addressMerkleTreePubkeyIndex,
                       addressQueuePubkeyIndex |-> v.addressQueuePubkeyIndex, rootIndex |-> v.rootIndex]
    PROVE  O!Fits(LightAddressTree, v)
<1>1. PICK f : f = << <<"addressMerkleTreePubkeyIndex", U8>>, <<"addressQueuePubkeyIndex", U8>>,
                      <<"rootIndex", U16>> >> OBVIOUS
<1>2. Sequence(f) /\ Len(f) = 3 /\ DOMAIN f = 1..3
  <2>1. f \in Seq({f[i] : i \in 1..3}) /\ Len(f) = 3 /\ DOMAIN f = 1..3 BY <1>1
  <2> QED BY <2>1 DEF Sequence
<1>3. \A i, j \in DOMAIN f : f[i][1] = f[j][1] => i = j BY <1>1, <1>2
<1>4. \A i \in DOMAIN f : \E n : f[i][2] = Scalar(n) BY <1>1, <1>2, TheScalars
<1>5. {f[i][1] : i \in DOMAIN f} = {"addressMerkleTreePubkeyIndex", "addressQueuePubkeyIndex", "rootIndex"}
  BY <1>1, <1>2
<1>6. v = [name \in {f[i][1] : i \in DOMAIN f} |-> v[name]] BY <1>5
<1>7. \A i \in DOMAIN f : L!Fits(f[i][2], v[f[i][1]]) BY <1>4, ScalarsFit
<1>8. O!Fits(Struct(f), v) BY <1>2, <1>3, <1>6, <1>7, StructO
<1> QED BY <1>1, <1>8 DEF LightAddressTree

LEMMA AccountMetaFits ==
    ASSUME NEW v, v = [treeInfo |-> v.treeInfo, address |-> v.address,
                       outputStateTreeIndex |-> v.outputStateTreeIndex],
           NEW t, t = v.treeInfo,
           t = [rootIndex |-> t.rootIndex, proveByIndex |-> t.proveByIndex,
                merkleTreePubkeyIndex |-> t.merkleTreePubkeyIndex,
                queuePubkeyIndex |-> t.queuePubkeyIndex, leafIndex |-> t.leafIndex]
    PROVE  O!Fits(LightAccountMeta, v)
<1>1. PICK f : f = << <<"rootIndex", U16>>, <<"proveByIndex", Bool>>, <<"merkleTreePubkeyIndex", U8>>,
                      <<"queuePubkeyIndex", U8>>, <<"leafIndex", U32>> >> OBVIOUS
<1>2. Sequence(f) /\ Len(f) = 5 /\ DOMAIN f = 1..5
  <2>1. f \in Seq({f[i] : i \in 1..5}) /\ Len(f) = 5 /\ DOMAIN f = 1..5 BY <1>1
  <2> QED BY <2>1 DEF Sequence
<1>3. \A i, j \in DOMAIN f : f[i][1] = f[j][1] => i = j BY <1>1, <1>2
<1>4. \A i \in DOMAIN f : \E n : f[i][2] = Scalar(n) BY <1>1, <1>2, TheScalars
<1>5. {f[i][1] : i \in DOMAIN f}
      = {"rootIndex", "proveByIndex", "merkleTreePubkeyIndex", "queuePubkeyIndex", "leafIndex"}
  BY <1>1, <1>2
<1>6. t = [name \in {f[i][1] : i \in DOMAIN f} |-> t[name]] BY <1>5
<1>7. \A i \in DOMAIN f : R!Fits(f[i][2], t[f[i][1]]) BY <1>4, ScalarsFit
<1>8. L!Fits(Struct(f), t) BY <1>2, <1>3, <1>6, <1>7, StructL
<1>9. PICK s, g : s = Struct(f) /\ g = << <<"treeInfo", s>>, <<"address", FixedBytes(32)>>,
                                          <<"outputStateTreeIndex", U8>> >>
  OBVIOUS
<1>10. Sequence(g) /\ Len(g) = 3 /\ DOMAIN g = 1..3
  <2>1. g \in Seq({g[i] : i \in 1..3}) /\ Len(g) = 3 /\ DOMAIN g = 1..3 BY <1>9
  <2> QED BY <2>1 DEF Sequence
<1>11. \A i, j \in DOMAIN g : g[i][1] = g[j][1] => i = j BY <1>9, <1>10
<1>12. {g[i][1] : i \in DOMAIN g} = {"treeInfo", "address", "outputStateTreeIndex"} BY <1>9, <1>10
<1>13. v = [name \in {g[i][1] : i \in DOMAIN g} |-> v[name]] BY <1>12
<1>14. \A i \in DOMAIN g : L!Fits(g[i][2], v[g[i][1]])
  <2>1. L!Fits(g[1][2], v[g[1][1]]) BY <1>8, <1>9
  <2>2. (\E n : g[2][2] = Scalar(n)) /\ (\E n : g[3][2] = Scalar(n)) BY <1>9, TheScalars
  <2>3. L!Fits(g[2][2], v[g[2][1]]) /\ L!Fits(g[3][2], v[g[3][1]]) BY <2>2, ScalarsFit, SMTT(30)
  <2> QED BY <1>10, <2>1, <2>3
<1>15. O!Fits(Struct(g), v) BY <1>10, <1>11, <1>13, <1>14, StructO
<1> QED BY <1>1, <1>9, <1>15 DEF LightAccountMeta

LEMMA MetadataFits ==
    ASSUME NEW n \in 0..2, NEW v \in {<<>>, <<Entries(n)>>}
    PROVE  O!Fits(Option(Vector(Struct(<< <<"key", Text>>, <<"value", Text>> >>))), v)
<1>1. PICK f : f = << <<"key", Text>>, <<"value", Text>> >> OBVIOUS
<1>2. Sequence(f) /\ Len(f) = 2 /\ DOMAIN f = 1..2
  <2>1. f \in Seq({f[i] : i \in 1..2}) /\ Len(f) = 2 /\ DOMAIN f = 1..2 BY <1>1
  <2> QED BY <2>1 DEF Sequence
<1>3. \A i, j \in DOMAIN f : f[i][1] = f[j][1] => i = j BY <1>1, <1>2
<1>4. \A i \in DOMAIN f : \E m : f[i][2] = Scalar(m) BY <1>1, <1>2, TheScalars
<1>5. {f[i][1] : i \in DOMAIN f} = {"key", "value"} BY <1>1, <1>2
<1>6. PICK e : e = Entries(n) OBVIOUS
<1>7. e = [i \in 1..n |-> e[i]] BY <1>6 DEF Entries
<1>8. n \in Nat /\ n <= 2 OBVIOUS
<1>9. Sequence(e) /\ Len(e) = n BY <1>7, <1>8, Tabulated
<1>10. ASSUME NEW i \in 1..Len(e) PROVE R!Fits(Struct(f), e[i])
  <2>1. e[i] = [key |-> <<"key", ToString(i)>>, value |-> <<"value", ToString(i)>>]
    BY <1>6, <1>9, <1>10, Zenon DEF Entries
  <2>2. PICK k, w, x : k = <<"key", ToString(i)>> /\ w = <<"value", ToString(i)>> /\ x = e[i] OBVIOUS
  <2>3. x = [key |-> k, value |-> w] BY <2>1, <2>2, Zenon
  <2>4. x = [name \in {f[j][1] : j \in DOMAIN f} |-> x[name]] BY <1>5, <2>3
  <2>5. \A j \in DOMAIN f : FitsScalar(f[j][2], x[f[j][1]]) BY <1>4, ScalarsFit
  <2>6. R!Fits(Struct(f), x) BY <1>2, <1>3, <2>4, <2>5, StructR
  <2> QED BY <2>2, <2>6
<1>11. Len(e) <= MaxLength BY <1>8, <1>9 DEF MaxLength
<1>12. L!Fits(Vector(Struct(f)), e) BY <1>9, <1>10, <1>11, VectorFits
<1>15. v \in {<<>>, <<e>>} BY <1>6
<1>13. Sequence(v) /\ Len(v) <= 1 /\ Len(v) \in Nat /\ \A i \in 1..Len(v) : v[i] = e
  BY <1>15, Perhaps, Zenon
<1>14. O!Fits(Option(Vector(Struct(f))), v) BY <1>12, <1>13, OptionFits
<1> QED BY <1>1, <1>14

LEMMA MaybeAddressFits ==
    ASSUME NEW x, NEW v \in Maybe1(x)
    PROVE  O!Fits(Option(Pubkey), v)
<1>1. v \in {<<>>, <<x>>} BY DEF Maybe1
<1>2. Sequence(v) /\ Len(v) <= 1 BY <1>1, Perhaps
<1>3. \A i \in 1..Len(v) : L!Fits(Pubkey, v[i]) BY ScalarsFit, TheScalars
<1> QED BY <1>2, <1>3, OptionFits

-----------------------------------------------------------------------------
(* Words and layouts                                                        *)

LEMMA Address ==
    ASSUME NEW a
    PROVE  Sequence(addressToBytes(a)) /\ Len(addressToBytes(a)) = 32
           /\ \A i \in 1..32 : addressToBytes(a)[i] = a \o Number(i)
<1>1. PICK b : b = addressToBytes(a) OBVIOUS
<1>2. b = [i \in 1..32 |-> a \o Number(i)] BY <1>1 DEF addressToBytes
<1>3. b = [i \in 1..32 |-> b[i]] /\ \A i \in 1..32 : b[i] = a \o Number(i) BY <1>2
<1>4. Sequence(b) /\ Len(b) = 32 BY <1>3, Tabulated
<1> QED BY <1>1, <1>3, <1>4

\* A sequence of an even number, as Zeros is.
LEMMA ZerosAre ==
    ASSUME NEW n \in Nat
    PROVE  Sequence(Zeros(n)) /\ Len(Zeros(n)) = n /\ \A i \in 1..n : Zeros(n)[i] = Number(0)
<1>1. PICK z : z = Zeros(n) OBVIOUS
<1>2. z = [i \in 1..n |-> Number(0)] BY <1>1 DEF Zeros
<1>3. z = [i \in 1..n |-> z[i]] /\ \A i \in 1..n : z[i] = Number(0) BY <1>2
<1> QED BY <1>1, <1>3, Tabulated

\* The eight pieces of the universal layout.
Pieces8(u, v, t, m, p, o, h, c, x) ==
    /\ Sequence(u) /\ Len(u) = 131 + Len(x)
    /\ Located(u, 0, <<v>>) /\ Located(u, 1, t) /\ Located(u, 33, m) /\ Located(u, 65, p)
    /\ Located(u, 97, <<o>>) /\ Located(u, 98, h) /\ Located(u, 130, <<c>>) /\ Located(u, 131, x)

LEMMA Eight ==
    ASSUME NEW v, NEW t, NEW m, NEW p, NEW o, NEW h, NEW c, NEW x,
           Sequence(t), Sequence(m), Sequence(p), Sequence(h), Sequence(x),
           Len(t) = 32, Len(m) = 32, Len(p) = 32, Len(h) = 32,
           NEW u, u = <<v>> \o t \o m \o p \o <<o>> \o h \o <<c>> \o x
    PROVE  Pieces8(u, v, t, m, p, o, h, c, x)
<1>1. PICK a, d, e : a = <<v>> /\ d = <<o>> /\ e = <<c>> OBVIOUS
<1>2. Sequence(a) /\ Len(a) = 1 /\ Sequence(d) /\ Len(d) = 1 /\ Sequence(e) /\ Len(e) = 1 BY <1>1, Singleton
<1>3. PICK w : w = a \o t \o m \o p /\ u = w \o d \o h \o e \o x BY <1>1
<1>4. Pieces4(w, a, t, m, p) BY <1>2, <1>3, Four
<1>5. /\ Sequence(w) /\ Len(w) = 97 /\ Located(w, 0, a) /\ Located(w, 1, t) /\ Located(w, 33, m)
      /\ Located(w, 65, p)
  <2>1. /\ Sequence(w) /\ Len(w) = Len(a) + Len(t) + Len(m) + Len(p)
        /\ Located(w, 0, a) /\ Located(w, Len(a), t) /\ Located(w, Len(a) + Len(t), m)
        /\ Located(w, Len(a) + Len(t) + Len(m), p)
    BY <1>4, Zenon DEF Pieces4
  <2> QED BY <2>1, <1>2
<1>6. Pieces5(u, w, d, h, e, x) BY <1>2, <1>3, <1>5, Five
<1>7. Len(x) \in Nat BY Length
<1>8. /\ Sequence(u) /\ Len(u) = 131 + Len(x) /\ Located(u, 0, w) /\ Located(u, 97, d) /\ Located(u, 98, h)
      /\ Located(u, 130, e) /\ Located(u, 131, x)
  <2>1. /\ Sequence(u) /\ Len(u) = Len(w) + Len(d) + Len(h) + Len(e) + Len(x)
        /\ Located(u, 0, w) /\ Located(u, Len(w), d) /\ Located(u, Len(w) + Len(d), h)
        /\ Located(u, Len(w) + Len(d) + Len(h), e) /\ Located(u, Len(w) + Len(d) + Len(h) + Len(e), x)
    BY <1>6, Zenon DEF Pieces5
  <2> QED BY <2>1, <1>2, <1>5, <1>7
<1>9. /\ Located(u, 0 + 0, a) /\ Located(u, 0 + 1, t) /\ Located(u, 0 + 33, m) /\ Located(u, 0 + 65, p)
  <2>1. Located(u, 0, w) BY <1>8
  <2>2. Located(u, 0 + 0, a) BY <2>1, <1>5, Nested
  <2>3. Located(u, 0 + 1, t) BY <2>1, <1>5, Nested
  <2>4. Located(u, 0 + 33, m) BY <2>1, <1>5, Nested
  <2>5. Located(u, 0 + 65, p) BY <2>1, <1>5, Nested
  <2> QED BY <2>2, <2>3, <2>4, <2>5
<1>10. 0 + 0 = 0 /\ 0 + 1 = 1 /\ 0 + 33 = 33 /\ 0 + 65 = 65 OBVIOUS
<1>11. Located(u, 0, a) /\ Located(u, 1, t) /\ Located(u, 33, m) /\ Located(u, 65, p) BY <1>9, <1>10, Zenon
<1> QED BY <1>1, <1>8, <1>11, Zenon DEF Pieces8

LEMMA LaidIs ==
    ASSUME NEW version, NEW outc, NEW contentType, NEW length \in Nat
    PROVE  Sequence(Laid(version, outc, contentType, length))
           /\ Len(Laid(version, outc, contentType, length)) = 131 + length
<1>1. PICK u, v, t, m, p, o, h, c, x :
         /\ u = Laid(version, outc, contentType, length) /\ v = Number(version)
         /\ t = addressToBytes(<<"task">>) /\ m = addressToBytes(Mint) /\ p = addressToBytes(Client)
         /\ o = Number(outc) /\ h = addressToBytes(<<"hash">>) /\ c = Number(contentType)
         /\ x = [i \in 1..length |-> <<"x">>]
  OBVIOUS
<1>2. u = <<v>> \o t \o m \o p \o <<o>> \o h \o <<c>> \o x BY <1>1, Zenon DEF Laid
<1>3. Sequence(t) /\ Sequence(m) /\ Sequence(p) /\ Sequence(h) /\ Len(t) = 32 /\ Len(m) = 32 /\ Len(p) = 32
      /\ Len(h) = 32
  BY <1>1, Address
<1>4. x = [i \in 1..length |-> x[i]] BY <1>1
<1>5. Sequence(x) /\ Len(x) = length BY <1>4, Tabulated
<1>6. Pieces8(u, v, t, m, p, o, h, c, x) BY <1>2, <1>3, <1>5, Eight
<1>7. Sequence(u) /\ Len(u) = 131 + Len(x) BY <1>6, Zenon DEF Pieces8
<1> QED BY <1>1, <1>5, <1>7

LEMMA Begun ==
    ASSUME NEW b, Sequence(b), NEW n \in Nat, n <= Len(b)
    PROVE  Sequence(SubSeq(b, 1, n)) /\ Len(SubSeq(b, 1, n)) = n /\ \A i \in 1..n : SubSeq(b, 1, n)[i] = b[i]
<1>0. PICK q : q = SubSeq(b, 1, n) OBVIOUS
<1>1. PICK S : b \in Seq(S) BY DEF Sequence
<1>2. Len(b) \in Nat BY Length
<1>3. q \in Seq(S) BY <1>0, <1>1, <1>2
<1>4. Len(q) = n BY <1>0, <1>1, <1>2
<1>5. \A i \in 1..n : q[i] = b[i] BY <1>0, <1>1, <1>2, <1>4
<1>6. Sequence(q) BY <1>3 DEF Sequence
<1> QED BY <1>0, <1>4, <1>5, <1>6

LEMMA Shortened ==
    ASSUME NEW q, q = SubSeq(Laid(1, 0, 0, 0), 1, 130)
    PROVE  Sequence(q) /\ Len(q) <= MaxLength
<1>1. PICK l : l = Laid(1, 0, 0, 0) OBVIOUS
<1>2. Sequence(l) /\ Len(l) = 131 + 0 BY <1>1, LaidIs, ZenonT(40)
<1>3. Len(l) = 131 BY <1>2
<1>4. PICK n : n = 130 OBVIOUS
<1>6. n \in Nat /\ n <= Len(l) BY <1>3, <1>4
<1>7. Sequence(l) BY <1>2
<1>5. Sequence(SubSeq(l, 1, n)) /\ Len(SubSeq(l, 1, n)) = n BY <1>6, <1>7, Begun
<1> QED BY <1>1, <1>4, <1>5 DEF MaxLength

LEMMA DatasAre ==
    ASSUME NEW d \in Datas
    PROVE  Sequence(d) /\ Len(d) <= MaxLength
<1>1. CASE d = SubSeq(Laid(1, 0, 0, 0), 1, 130) BY <1>1, Shortened
<1>2. CASE \E a, b, c \in Nat, n \in {4, 512, 513} : d = Laid(a, b, c, n)
  <2>1. PICK a, b, c \in Nat, n \in {4, 512, 513} : d = Laid(a, b, c, n) BY <1>2
  <2>2. Sequence(d) /\ Len(d) = 131 + n BY <2>1, LaidIs
  <2> QED BY <2>1, <2>2 DEF MaxLength
<1> QED BY <1>1, <1>2 DEF Datas


LEMMA RegisterAgentFits ==
    ASSUME NEW v, v = [name |-> v.name, symbol |-> v.symbol, uri |-> v.uri, additionalMetadata |-> v.additionalMetadata, nonTransferable |-> v.nonTransferable],
           O!Fits(Option(Vector(Struct(<< <<"key", Text>>, <<"value", Text>> >>))), v.additionalMetadata)
    PROVE  Fits(Struct(RegisterAgentParams), v)
<1>1. PICK f : f = RegisterAgentParams OBVIOUS
<1>2. Sequence(f) /\ Len(f) = 5 /\ DOMAIN f = 1..5
  <2>1. f \in Seq({f[i] : i \in 1..5}) /\ Len(f) = 5 /\ DOMAIN f = 1..5 BY <1>1 DEF RegisterAgentParams
  <2> QED BY <2>1 DEF Sequence
<1>3. \A i, j \in DOMAIN f : f[i][1] = f[j][1] => i = j BY <1>1, <1>2 DEF RegisterAgentParams
<1>4. {f[i][1] : i \in DOMAIN f} = {"name", "symbol", "uri", "additionalMetadata", "nonTransferable"}
  BY <1>1, <1>2 DEF RegisterAgentParams
<1>5. v = [name \in {f[i][1] : i \in DOMAIN f} |-> v[name]] BY <1>4
<1>6. ASSUME NEW i \in DOMAIN f PROVE O!Fits(f[i][2], v[f[i][1]])
  <2>1. CASE i \in {1, 2, 3, 5}
    <3>1. \E m : f[i][2] = Scalar(m) BY <1>1, <2>1, TheScalars DEF RegisterAgentParams
    <3> QED BY <3>1, ScalarsFit
  <2>2. CASE i = 4
    <3>1. f[i][1] = "additionalMetadata" /\ f[i][2] = Option(Vector(Struct(<< <<"key", Text>>, <<"value", Text>> >>))) BY <1>1, <2>2, SMTT(30) DEF RegisterAgentParams
    <3> QED BY <3>1
  <2> QED BY <1>2, <2>1, <2>2
<1>7. W!Fits(Struct(f), v) BY <1>2, <1>3, <1>5, <1>6, StructW
<1> QED BY <1>1, <1>7 DEF Fits

LEMMA LinkEvmFits ==
    ASSUME NEW v, v = [evmAddress |-> v.evmAddress, chainId |-> v.chainId, signature |-> v.signature, recoveryId |-> v.recoveryId]
    PROVE  Fits(Struct(LinkEvmAddressParams), v)
<1>1. PICK f : f = LinkEvmAddressParams OBVIOUS
<1>2. Sequence(f) /\ Len(f) = 4 /\ DOMAIN f = 1..4
  <2>1. f \in Seq({f[i] : i \in 1..4}) /\ Len(f) = 4 /\ DOMAIN f = 1..4 BY <1>1 DEF LinkEvmAddressParams
  <2> QED BY <2>1 DEF Sequence
<1>3. \A i, j \in DOMAIN f : f[i][1] = f[j][1] => i = j BY <1>1, <1>2 DEF LinkEvmAddressParams
<1>4. {f[i][1] : i \in DOMAIN f} = {"evmAddress", "chainId", "signature", "recoveryId"}
  BY <1>1, <1>2 DEF LinkEvmAddressParams
<1>5. v = [name \in {f[i][1] : i \in DOMAIN f} |-> v[name]] BY <1>4
<1>6. ASSUME NEW i \in DOMAIN f PROVE O!Fits(f[i][2], v[f[i][1]])
  <2>1. CASE i \in {1, 2, 3, 4}
    <3>1. \E m : f[i][2] = Scalar(m) BY <1>1, <2>1, TheScalars DEF LinkEvmAddressParams
    <3> QED BY <3>1, ScalarsFit
  <2> QED BY <1>2, <2>1
<1>7. W!Fits(Struct(f), v) BY <1>2, <1>3, <1>5, <1>6, StructW
<1> QED BY <1>1, <1>7 DEF Fits

LEMMA SchemaConfigFits ==
    ASSUME NEW v, v = [sasSchema |-> v.sasSchema, signatureMode |-> v.signatureMode, storageType |-> v.storageType, delegationSchema |-> v.delegationSchema, closeable |-> v.closeable, name |-> v.name],
           O!Fits(Option(Pubkey), v.delegationSchema)
    PROVE  Fits(Struct(RegisterSchemaConfigParams), v)
<1>1. PICK f : f = RegisterSchemaConfigParams OBVIOUS
<1>2. Sequence(f) /\ Len(f) = 6 /\ DOMAIN f = 1..6
  <2>1. f \in Seq({f[i] : i \in 1..6}) /\ Len(f) = 6 /\ DOMAIN f = 1..6 BY <1>1 DEF RegisterSchemaConfigParams
  <2> QED BY <2>1 DEF Sequence
<1>3. \A i, j \in DOMAIN f : f[i][1] = f[j][1] => i = j BY <1>1, <1>2 DEF RegisterSchemaConfigParams
<1>4. {f[i][1] : i \in DOMAIN f} = {"sasSchema", "signatureMode", "storageType", "delegationSchema", "closeable", "name"}
  BY <1>1, <1>2 DEF RegisterSchemaConfigParams
<1>5. v = [name \in {f[i][1] : i \in DOMAIN f} |-> v[name]] BY <1>4
<1>6. ASSUME NEW i \in DOMAIN f PROVE O!Fits(f[i][2], v[f[i][1]])
  <2>1. CASE i \in {1, 2, 3, 5, 6}
    <3>1. \E m : f[i][2] = Scalar(m) BY <1>1, <2>1, TheScalars DEF RegisterSchemaConfigParams
    <3> QED BY <3>1, ScalarsFit
  <2>2. CASE i = 4
    <3>1. f[i][1] = "delegationSchema" /\ f[i][2] = Option(Pubkey) BY <1>1, <2>2, SMTT(30) DEF RegisterSchemaConfigParams
    <3> QED BY <3>1
  <2> QED BY <1>2, <2>1, <2>2
<1>7. W!Fits(Struct(f), v) BY <1>2, <1>3, <1>5, <1>6, StructW
<1> QED BY <1>1, <1>7 DEF Fits

LEMMA CreateFits ==
    ASSUME NEW v, v = [data |-> v.data, outputStateTreeIndex |-> v.outputStateTreeIndex, proof |-> v.proof, addressTreeInfo |-> v.addressTreeInfo],
           O!Fits(Sized, v.data),
           O!Fits(LightProof, v.proof),
           O!Fits(LightAddressTree, v.addressTreeInfo)
    PROVE  Fits(Struct(CreateParams), v)
<1>1. PICK f : f = CreateParams OBVIOUS
<1>2. Sequence(f) /\ Len(f) = 4 /\ DOMAIN f = 1..4
  <2>1. f \in Seq({f[i] : i \in 1..4}) /\ Len(f) = 4 /\ DOMAIN f = 1..4 BY <1>1 DEF CreateParams
  <2> QED BY <2>1 DEF Sequence
<1>3. \A i, j \in DOMAIN f : f[i][1] = f[j][1] => i = j BY <1>1, <1>2 DEF CreateParams
<1>4. {f[i][1] : i \in DOMAIN f} = {"data", "outputStateTreeIndex", "proof", "addressTreeInfo"}
  BY <1>1, <1>2 DEF CreateParams
<1>5. v = [name \in {f[i][1] : i \in DOMAIN f} |-> v[name]] BY <1>4
<1>6. ASSUME NEW i \in DOMAIN f PROVE O!Fits(f[i][2], v[f[i][1]])
  <2>1. CASE i \in {2}
    <3>1. \E m : f[i][2] = Scalar(m) BY <1>1, <2>1, TheScalars DEF CreateParams
    <3> QED BY <3>1, ScalarsFit
  <2>2. CASE i = 1
    <3>1. f[i][1] = "data" /\ f[i][2] = Sized BY <1>1, <2>2 DEF CreateParams
    <3> QED BY <3>1
  <2>3. CASE i = 3
    <3>1. f[i][1] = "proof" /\ f[i][2] = LightProof BY <1>1, <2>3 DEF CreateParams
    <3> QED BY <3>1
  <2>4. CASE i = 4
    <3>1. f[i][1] = "addressTreeInfo" /\ f[i][2] = LightAddressTree BY <1>1, <2>4, SMTT(30) DEF CreateParams
    <3> QED BY <3>1
  <2> QED BY <1>2, <2>1, <2>2, <2>3, <2>4
<1>7. W!Fits(Struct(f), v) BY <1>2, <1>3, <1>5, <1>6, StructW
<1> QED BY <1>1, <1>7 DEF Fits

LEMMA CreateRegularFits ==
    ASSUME NEW v, v = [data |-> v.data, expiry |-> v.expiry],
           O!Fits(Sized, v.data)
    PROVE  Fits(Struct(CreateRegularParams), v)
<1>1. PICK f : f = CreateRegularParams OBVIOUS
<1>2. Sequence(f) /\ Len(f) = 2 /\ DOMAIN f = 1..2
  <2>1. f \in Seq({f[i] : i \in 1..2}) /\ Len(f) = 2 /\ DOMAIN f = 1..2 BY <1>1 DEF CreateRegularParams
  <2> QED BY <2>1 DEF Sequence
<1>3. \A i, j \in DOMAIN f : f[i][1] = f[j][1] => i = j BY <1>1, <1>2 DEF CreateRegularParams
<1>4. {f[i][1] : i \in DOMAIN f} = {"data", "expiry"}
  BY <1>1, <1>2 DEF CreateRegularParams
<1>5. v = [name \in {f[i][1] : i \in DOMAIN f} |-> v[name]] BY <1>4
<1>6. ASSUME NEW i \in DOMAIN f PROVE O!Fits(f[i][2], v[f[i][1]])
  <2>1. CASE i \in {2}
    <3>1. \E m : f[i][2] = Scalar(m) BY <1>1, <2>1, TheScalars DEF CreateRegularParams
    <3> QED BY <3>1, ScalarsFit
  <2>2. CASE i = 1
    <3>1. f[i][1] = "data" /\ f[i][2] = Sized BY <1>1, <2>2 DEF CreateRegularParams
    <3> QED BY <3>1
  <2> QED BY <1>2, <2>1, <2>2
<1>7. W!Fits(Struct(f), v) BY <1>2, <1>3, <1>5, <1>6, StructW
<1> QED BY <1>1, <1>7 DEF Fits

LEMMA CloseFits ==
    ASSUME NEW v, v = [currentData |-> v.currentData, numSignatures |-> v.numSignatures, signature1 |-> v.signature1, signature2 |-> v.signature2, address |-> v.address, proof |-> v.proof, accountMeta |-> v.accountMeta],
           O!Fits(Sized, v.currentData),
           O!Fits(LightProof, v.proof),
           O!Fits(LightAccountMeta, v.accountMeta)
    PROVE  Fits(Struct(CloseParams), v)
<1>1. PICK f : f = CloseParams OBVIOUS
<1>2. Sequence(f) /\ Len(f) = 7 /\ DOMAIN f = 1..7
  <2>1. f \in Seq({f[i] : i \in 1..7}) /\ Len(f) = 7 /\ DOMAIN f = 1..7 BY <1>1 DEF CloseParams
  <2> QED BY <2>1 DEF Sequence
<1>3. \A i, j \in DOMAIN f : f[i][1] = f[j][1] => i = j BY <1>1, <1>2 DEF CloseParams
<1>4. {f[i][1] : i \in DOMAIN f} = {"currentData", "numSignatures", "signature1", "signature2", "address", "proof", "accountMeta"}
  BY <1>1, <1>2 DEF CloseParams
<1>5. v = [name \in {f[i][1] : i \in DOMAIN f} |-> v[name]] BY <1>4
<1>6. ASSUME NEW i \in DOMAIN f PROVE O!Fits(f[i][2], v[f[i][1]])
  <2>1. CASE i \in {2, 3, 4, 5}
    <3>1. \E m : f[i][2] = Scalar(m) BY <1>1, <2>1, TheScalars DEF CloseParams
    <3> QED BY <3>1, ScalarsFit
  <2>2. CASE i = 1
    <3>1. f[i][1] = "currentData" /\ f[i][2] = Sized BY <1>1, <2>2 DEF CloseParams
    <3> QED BY <3>1
  <2>3. CASE i = 6
    <3>1. f[i][1] = "proof" /\ f[i][2] = LightProof BY <1>1, <2>3 DEF CloseParams
    <3> QED BY <3>1
  <2>4. CASE i = 7
    <3>1. f[i][1] = "accountMeta" /\ f[i][2] = LightAccountMeta BY <1>1, <2>4 DEF CloseParams
    <3> QED BY <3>1
  <2> QED BY <1>2, <2>1, <2>2, <2>3, <2>4
<1>7. W!Fits(Struct(f), v) BY <1>2, <1>3, <1>5, <1>6, StructW, Zenon
<1> QED BY <1>1, <1>7 DEF Fits

LEMMA UpdateFits ==
    ASSUME NEW v, v = [newAuthority |-> v.newAuthority],
           O!Fits(Option(Pubkey), v.newAuthority)
    PROVE  Fits(Struct(<< <<"newAuthority", Option(Pubkey)>> >>), v)
<1>1. PICK f : f = << <<"newAuthority", Option(Pubkey)>> >> OBVIOUS
<1>2. Sequence(f) /\ Len(f) = 1 /\ DOMAIN f = 1..1
  <2>1. f \in Seq({f[i] : i \in 1..1}) /\ Len(f) = 1 /\ DOMAIN f = 1..1 BY <1>1
  <2> QED BY <2>1 DEF Sequence
<1>3. \A i, j \in DOMAIN f : f[i][1] = f[j][1] => i = j BY <1>1, <1>2
<1>4. {f[i][1] : i \in DOMAIN f} = {"newAuthority"}
  BY <1>1, <1>2
<1>5. v = [name \in {f[i][1] : i \in DOMAIN f} |-> v[name]] BY <1>4
<1>6. ASSUME NEW i \in DOMAIN f PROVE O!Fits(f[i][2], v[f[i][1]])
  <2>2. CASE i = 1
    <3>1. f[i][1] = "newAuthority" /\ f[i][2] = Option(Pubkey) BY <1>1, <2>2
    <3> QED BY <3>1
  <2> QED BY <1>2, <2>2
<1>7. W!Fits(Struct(f), v) BY <1>2, <1>3, <1>5, <1>6, StructW
<1> QED BY <1>1, <1>7 DEF Fits

LEMMA NothingFits == Fits(Struct(<<>>), NoArgs)
<1>1. PICK f, v : f = <<>> /\ v = NoArgs OBVIOUS
<1>2. Sequence(f) /\ DOMAIN f = {}
  <2>1. f \in Seq({}) /\ DOMAIN f = {} BY <1>1
  <2> QED BY <2>1 DEF Sequence
<1>3. {f[i][1] : i \in DOMAIN f} = {} BY <1>2
<1>4. v = [name \in {f[i][1] : i \in DOMAIN f} |-> v[name]] BY <1>1, <1>3 DEF NoArgs
<1>5. W!Fits(Struct(f), v) BY <1>2, <1>4, StructW
<1> QED BY <1>1, <1>5 DEF Fits

LEMMA ProvedFits ==
    ASSUME NEW v \in Maybe1(Proof)
    PROVE  O!Fits(LightProof, v)
<1>1. PICK p : p = Proof OBVIOUS
<1>2. p = [a |-> p.a, b |-> p.b, c |-> p.c] BY <1>1 DEF Proof
<1>3. v \in {<<>>, <<p>>} BY <1>1 DEF Maybe1
<1>4. Sequence(v) /\ Len(v) <= 1 /\ \A i \in 1..Len(v) : v[i] = p BY <1>3, Perhaps
<1>5. \A i \in 1..Len(v) : v[i] = [a |-> v[i].a, b |-> v[i].b, c |-> v[i].c] BY <1>2, <1>4
<1> QED BY <1>4, <1>5, ProofFits

\* What a caller of the generated client may give as arguments.
LEMMA ArgsFit ==
    ASSUME NEW ix \in Instructions, NEW v \in ArgsOf(ix)
    PROVE  Fits(Struct(Params[ix]), v)
<1>1. CASE ix = "closeCompressedAttestation"
  <2>1. /\ v = [currentData |-> v.currentData, numSignatures |-> v.numSignatures, signature1 |-> v.signature1,
                signature2 |-> v.signature2, address |-> v.address, proof |-> v.proof, accountMeta |-> v.accountMeta]
        /\ v.currentData = Laid(1, 0, 2, 4) /\ v.proof \in Maybe1(Proof) /\ v.accountMeta = AccountMeta
    BY <1>1 DEF ArgsOf
  <2>2. PICK n : n = 4 OBVIOUS
  <2>7. PICK l : l = Laid(1, 0, 2, n) OBVIOUS
  <2>8. n \in Nat BY <2>2
  <2>9. Sequence(l) /\ Len(l) = 131 + n BY <2>7, <2>8, LaidIs
  <2>10. Len(l) <= MaxLength BY <2>2, <2>9 DEF MaxLength
  <2>11. O!Fits(Sized, l) BY <2>9, <2>10, SizedFits
  <2>3. O!Fits(Sized, v.currentData) BY <2>1, <2>2, <2>7, <2>11
  <2>4. O!Fits(LightProof, v.proof) BY <2>1, ProvedFits
  <2>5. O!Fits(LightAccountMeta, v.accountMeta)
    <3>1. PICK m, t : m = AccountMeta /\ t = m.treeInfo OBVIOUS
    <3>2. m = [treeInfo |-> m.treeInfo, address |-> m.address, outputStateTreeIndex |-> m.outputStateTreeIndex]
      BY <3>1 DEF AccountMeta
    <3>3. t = [rootIndex |-> t.rootIndex, proveByIndex |-> t.proveByIndex,
               merkleTreePubkeyIndex |-> t.merkleTreePubkeyIndex,
               queuePubkeyIndex |-> t.queuePubkeyIndex, leafIndex |-> t.leafIndex]
      BY <3>1 DEF AccountMeta
    <3>4. O!Fits(LightAccountMeta, m) BY <3>1, <3>2, <3>3, AccountMetaFits
    <3> QED BY <2>1, <3>1, <3>4
  <2>6. Fits(Struct(CloseParams), v) BY <2>1, <2>3, <2>4, <2>5, CloseFits
  <2> QED BY <1>1, <2>6 DEF Params
<1>2. CASE ix \in {"closeRegularAttestation", "initialize"}
  <2>1. v = NoArgs BY <1>2 DEF ArgsOf
  <2>2. Params[ix] = <<>> BY <1>2 DEF Params
  <2> QED BY <2>1, <2>2, NothingFits
<1>3. CASE ix = "createCompressedAttestation"
  <2>1. /\ v = [data |-> v.data, outputStateTreeIndex |-> v.outputStateTreeIndex, proof |-> v.proof,
                addressTreeInfo |-> v.addressTreeInfo]
        /\ v.data \in Datas /\ v.proof \in Maybe1(Proof) /\ v.addressTreeInfo = AddressTreeInfo
    BY <1>3 DEF ArgsOf
  <2>2. Sequence(v.data) /\ Len(v.data) <= MaxLength BY <2>1, DatasAre
  <2>3. O!Fits(Sized, v.data) BY <2>2, SizedFits
  <2>4. O!Fits(LightProof, v.proof) BY <2>1, ProvedFits
  <2>5. O!Fits(LightAddressTree, v.addressTreeInfo)
    <3>1. PICK m : m = AddressTreeInfo OBVIOUS
    <3>2. m = [addressMerkleTreePubkeyIndex |-> m.addressMerkleTreePubkeyIndex,
               addressQueuePubkeyIndex |-> m.addressQueuePubkeyIndex, rootIndex |-> m.rootIndex]
      BY <3>1 DEF AddressTreeInfo
    <3>3. O!Fits(LightAddressTree, m) BY <3>2, AddressTreeFits
    <3> QED BY <2>1, <3>1, <3>3
  <2>6. Fits(Struct(CreateParams), v) BY <2>1, <2>3, <2>4, <2>5, CreateFits
  <2> QED BY <1>3, <2>6 DEF Params
<1>4. CASE ix = "createRegularAttestation"
  <2>1. v = [data |-> v.data, expiry |-> v.expiry] /\ v.data \in Datas BY <1>4 DEF ArgsOf
  <2>2. O!Fits(Sized, v.data) BY <2>1, DatasAre, SizedFits
  <2>3. Fits(Struct(CreateRegularParams), v) BY <2>1, <2>2, CreateRegularFits
  <2> QED BY <1>4, <2>3 DEF Params
<1>5. CASE ix = "linkEvmAddress"
  <2>1. v = [evmAddress |-> v.evmAddress, chainId |-> v.chainId, signature |-> v.signature,
             recoveryId |-> v.recoveryId]
    BY <1>5 DEF ArgsOf
  <2>2. Fits(Struct(LinkEvmAddressParams), v) BY <2>1, LinkEvmFits
  <2> QED BY <1>5, <2>2 DEF Params
<1>6. CASE ix = "registerAgent"
  <2>1. /\ v = [name |-> v.name, symbol |-> v.symbol, uri |-> v.uri, additionalMetadata |-> v.additionalMetadata,
                nonTransferable |-> v.nonTransferable]
        /\ v.additionalMetadata \in {<<>>} \cup {<<Entries(n)>> : n \in 0..2}
    BY <1>6 DEF ArgsOf
  <2>2. PICK n \in 0..2 : v.additionalMetadata \in {<<>>, <<Entries(n)>>} BY <2>1
  <2>3. O!Fits(Option(Vector(Struct(<< <<"key", Text>>, <<"value", Text>> >>))), v.additionalMetadata)
    BY <2>2, MetadataFits
  <2>4. Fits(Struct(RegisterAgentParams), v) BY <2>1, <2>3, RegisterAgentFits
  <2> QED BY <1>6, <2>4 DEF Params
<1>7. CASE ix = "registerSchemaConfig"
  <2>1. /\ v = [sasSchema |-> v.sasSchema, signatureMode |-> v.signatureMode, storageType |-> v.storageType,
                delegationSchema |-> v.delegationSchema, closeable |-> v.closeable, name |-> v.name]
        /\ v.delegationSchema \in Maybe1(<<"delegationSchema">>)
    BY <1>7 DEF ArgsOf
  <2>2. O!Fits(Option(Pubkey), v.delegationSchema) BY <2>1, MaybeAddressFits
  <2>3. Fits(Struct(RegisterSchemaConfigParams), v) BY <2>1, <2>2, SchemaConfigFits
  <2> QED BY <1>7, <2>3 DEF Params
<1>8. CASE ix = "updateRegistryAuthority"
  <2>1. v = [newAuthority |-> v.newAuthority] /\ v.newAuthority \in Maybe1(<<"newAuthority">>)
    BY <1>8 DEF ArgsOf
  <2>2. O!Fits(Option(Pubkey), v.newAuthority) BY <2>1, MaybeAddressFits
  <2>3. Fits(Struct(<< <<"newAuthority", Option(Pubkey)>> >>), v) BY <2>1, <2>2, UpdateFits
  <2> QED BY <1>8, <2>3 DEF Params
<1> QED BY <1>1, <1>2, <1>3, <1>4, <1>5, <1>6, <1>7, <1>8 DEF Instructions

-----------------------------------------------------------------------------
(* Numbers and addresses in bytes                                           *)

LEMMA Counted ==
    ASSUME NEW n \in 0..MaxLength
    PROVE  Count(Number(n)) = n
<1>1. \A m \in 0..MaxLength : Number(m) = Number(n) => m = n
  <2>1. \A m \in 0..MaxLength : Number(m) = Number(n) => ToString(m) = ToString(n) BY DEF Number
  <2> QED BY <2>1, NumberAssumption
<1>2. (CHOOSE m \in 0..MaxLength : Number(m) = Number(n)) = n BY <1>1
<1> QED BY <1>2, Zenon DEF Count

LEMMA CountedByte ==
    ASSUME NEW n \in 0..255
    PROVE  Count(Number(n)) = n
<1>1. n \in 0..MaxLength BY DEF MaxLength
<1> QED BY <1>1, Counted

LEMMA ByteAt ==
    ASSUME NEW b, NEW off, NEW n \in 0..255, Located(b, off, <<Number(n)>>)
    PROVE  At(b, off) = n
<1>1. b[off + 1] = Number(n) BY OneByte
<1> QED BY <1>1, CountedByte DEF At

LEMMA U16Is ==
    ASSUME NEW n
    PROVE  /\ Sequence(U16Bytes(n)) /\ Len(U16Bytes(n)) = 2
           /\ U16Bytes(n)[1] = Number(n % 256) /\ U16Bytes(n)[2] = Number(n \div 256)
<1>1. PICK x, y, u : x = Number(n % 256) /\ y = Number(n \div 256) /\ u = <<x, y>> OBVIOUS
<1>2. u \in Seq({x, y}) /\ Len(u) = 2 /\ u[1] = x /\ u[2] = y BY <1>1
<1>3. Sequence(u) BY <1>2 DEF Sequence
<1>4. U16Bytes(n) = u BY <1>1, Zenon DEF U16Bytes
<1> QED BY <1>1, <1>2, <1>3, <1>4, SMT

LEMMA U16Found ==
    ASSUME NEW b, NEW off, NEW n \in 0..MaxLength, Located(b, off, U16Bytes(n))
    PROVE  U16At(b, off) = n
<1>1. PICK p : p = U16Bytes(n) OBVIOUS
<1>2. off \in Nat /\ \A i \in 1..Len(p) : b[off + i] = p[i] BY <1>1 DEF Located
<1>3. Len(p) = 2 /\ p[1] = Number(n % 256) /\ p[2] = Number(n \div 256) BY <1>1, U16Is
<1>4. b[off + 1] = Number(n % 256) /\ b[off + 2] = Number(n \div 256) BY <1>2, <1>3
<1>5. n % 256 \in 0..255 /\ n \div 256 \in 0..255 /\ n = (n % 256) + 256 * (n \div 256) BY DEF MaxLength
<1>6. Count(b[off + 1]) = n % 256 /\ Count(b[off + 2]) = n \div 256 BY <1>4, <1>5, CountedByte
<1>7. off + 1 + 1 = off + 2 BY <1>2
<1>8. At(b, off) = n % 256 /\ At(b, off + 1) = n \div 256 BY <1>6, <1>7 DEF At
<1> QED BY <1>5, <1>8 DEF U16At

LEMMA FrontOf ==
    ASSUME NEW a, Sequence(a), NEW x
    PROVE  Front(a \o x) = a \/ Len(x) # 1 \/ ~Sequence(x)
<1> SUFFICES ASSUME Sequence(x), Len(x) = 1 PROVE Front(a \o x) = a OBVIOUS
<1>1. PICK s : s = a \o x OBVIOUS
<1>2. Sequence(s) /\ Len(s) = Len(a) + Len(x) /\ Located(s, 0, a) BY <1>1, Appended
<1>3. Len(a) \in Nat BY Length
<1>4. Len(s) - 1 = Len(a) /\ Len(a) <= Len(s) BY <1>2, <1>3
<1>5. PICK q : q = SubSeq(s, 1, Len(a)) OBVIOUS
<1>6. Sequence(q) /\ Len(q) = Len(a) /\ \A i \in 1..Len(a) : q[i] = s[i] BY <1>2, <1>3, <1>4, <1>5, Begun
<1>7. \A i \in 1..Len(a) : s[i] = a[i]
  <2>1. \A i \in 1..Len(a) : s[0 + i] = a[i] BY <1>2 DEF Located
  <2> QED BY <2>1, <1>3
<1>8. q = a BY <1>6, <1>7, Equal
<1>9. Front(s) = q BY <1>4, <1>5 DEF Front
<1> QED BY <1>1, <1>8, <1>9

LEMMA AddressBack ==
    ASSUME NEW a, Sequence(a)
    PROVE  bytesToAddress(addressToBytes(a)) = a
<1>1. PICK b, x : b = addressToBytes(a) /\ x = Number(1) OBVIOUS
<1>2. b[1] = a \o x
  <2>1. \A i \in 1..32 : b[i] = a \o Number(i) BY <1>1, Address
  <2>2. 1 \in 1..32 OBVIOUS
  <2> QED BY <1>1, <2>1, <2>2, Zenon
<1>3. Sequence(x) /\ Len(x) = 1 BY <1>1, Singleton DEF Number
<1>4. Front(b[1]) = a BY <1>2, <1>3, FrontOf
<1>5. bytesToAddress(b) = a BY <1>1, <1>4, Zenon DEF bytesToAddress
<1> QED BY <1>1, <1>5

-----------------------------------------------------------------------------
(* The Ed25519 instruction                                                  *)

EntryFine(entry) ==
    /\ Sequence(entry.publicKey) /\ Len(entry.publicKey) = 32
    /\ Sequence(entry.signature) /\ Len(entry.signature) = 64
    /\ Sequence(entry.message) /\ Len(entry.message) \in Nat
EntryOf(entry, signer) ==
    EntryFine(entry) /\ Sequence(signer) /\ entry.publicKey = addressToBytes(signer)

\* The data of the entry, from d on, end before n.
Ends(entry, d, n) == d + 96 + Len(entry.message) <= n

\* The offsets, the key, the signature and the message of an entry, at their places.
EntryAt(u, o, d, entry) ==
    /\ Located(u, o, U16Bytes(d + 32)) /\ Located(u, o + 4, U16Bytes(d))
    /\ Located(u, o + 8, U16Bytes(d + 96)) /\ Located(u, o + 10, U16Bytes(Len(entry.message)))
    /\ Located(u, d, entry.publicKey) /\ Located(u, d + 32, entry.signature)
    /\ Located(u, d + 96, entry.message)

\* What lies neither among the offsets at o nor among the data at d is left alone.
Spared(data, u, o, d, n) ==
    \A off, q : /\ Located(data, off, q)
                /\ off + Len(q) <= o \/ o + 14 <= off
                /\ off + Len(q) <= d \/ d + 96 + n <= off
                => Located(u, off, q)

Offsets7(s, a, c, e, f) ==
    /\ Sequence(s) /\ Len(s) = 14
    /\ Located(s, 0, a) /\ Located(s, 4, c) /\ Located(s, 8, e) /\ Located(s, 10, f)

LEMMA SevenPairs ==
    ASSUME NEW a, NEW b, NEW c, NEW d, NEW e, NEW f, NEW g,
           Sequence(a), Sequence(b), Sequence(c), Sequence(d), Sequence(e), Sequence(f), Sequence(g),
           Len(a) = 2, Len(b) = 2, Len(c) = 2, Len(d) = 2, Len(e) = 2, Len(f) = 2, Len(g) = 2,
           NEW s, s = a \o b \o c \o d \o e \o f \o g
    PROVE  Offsets7(s, a, c, e, f)
<1>1. PICK w : w = a \o b \o c \o d /\ s = w \o e \o f \o g OBVIOUS
<1>2. Pieces4(w, a, b, c, d) BY <1>1, Four
<1>3. /\ Sequence(w) /\ Len(w) = Len(a) + Len(b) + Len(c) + Len(d) /\ Located(w, 0, a)
      /\ Located(w, Len(a) + Len(b), c)
  BY <1>2, Zenon DEF Pieces4
<1>4. Sequence(w) /\ Len(w) = 8 /\ Located(w, 0, a) /\ Located(w, 4, c)
  <2>1. Len(a) + Len(b) + Len(c) + Len(d) = 8 /\ Len(a) + Len(b) = 4 OBVIOUS
  <2> QED BY <1>3, <2>1, Zenon
<1>5. Pieces4(s, w, e, f, g) BY <1>1, <1>4, Four
<1>6. /\ Sequence(s) /\ Len(s) = Len(w) + Len(e) + Len(f) + Len(g) /\ Located(s, 0, w)
      /\ Located(s, Len(w), e) /\ Located(s, Len(w) + Len(e), f)
  BY <1>5, Zenon DEF Pieces4
<1>7. Len(w) + Len(e) + Len(f) + Len(g) = 14 /\ Len(w) + Len(e) = 10 BY <1>4
<1>8. Sequence(s) /\ Len(s) = 14 /\ Located(s, 0, w) /\ Located(s, 8, e) /\ Located(s, 10, f)
  BY <1>4, <1>6, <1>7, Zenon
<1>9. Located(s, 0 + 0, a) BY <1>4, <1>8, Nested
<1>10. Located(s, 0 + 4, c) BY <1>4, <1>8, Nested
<1>11. 0 + 0 = 0 /\ 0 + 4 = 4 OBVIOUS
<1>12. Located(s, 0, a) /\ Located(s, 4, c) BY <1>9, <1>10, <1>11, Zenon
<1> QED BY <1>8, <1>12, Zenon DEF Offsets7

KeptBy(b, at, p, u) ==
    /\ Sequence(u) /\ Len(u) = Len(b) /\ Located(u, at, p)
    /\ \A off, q : /\ Located(b, off, q) /\ (off + Len(q) <= at \/ at + Len(p) <= off)
                   => Located(u, off, q)

LEMMA PutKeeps ==
    ASSUME NEW b, Sequence(b), NEW p, Sequence(p), NEW at \in Nat, at + Len(p) <= Len(b),
           NEW u, u = Put(b, at, p)
    PROVE  KeptBy(b, at, p, u)
<1>1. /\ Sequence(u) /\ Len(u) = Len(b) /\ Located(u, at, p)
      /\ \A off, q : /\ Located(b, off, q) /\ (off + Len(q) <= at \/ at + Len(p) <= off)
                     => Located(u, off, q)
  BY Kept
<1> QED BY <1>1, Zenon DEF KeptBy

LEMMA PutAll ==
    ASSUME NEW data, Sequence(data), NEW o \in Nat, NEW d \in Nat, o + 14 <= d,
           NEW s, Sequence(s), Len(s) = 14, NEW k, Sequence(k), Len(k) = 32,
           NEW g, Sequence(g), Len(g) = 64, NEW m, Sequence(m), d + 96 + Len(m) <= Len(data),
           NEW u, u = Put(Put(Put(Put(data, o, s), d, k), d + 32, g), d + 32 + 64, m)
    PROVE  /\ Sequence(u) /\ Len(u) = Len(data) /\ Located(u, o, s) /\ Located(u, d, k)
           /\ Located(u, d + 32, g) /\ Located(u, d + 96, m)
           /\ Spared(data, u, o, d, Len(m))
<1>1. PICK x, y, z : x = Put(data, o, s) /\ y = Put(x, d, k) /\ z = Put(y, d + 32, g) /\ u = Put(z, d + 32 + 64, m)
  OBVIOUS
<1>2. Len(data) \in Nat /\ Len(m) \in Nat BY Length
<1>3. PICK e, f : e = d + 32 /\ f = d + 96 /\ e \in Nat /\ f \in Nat /\ d + 32 + 64 = f OBVIOUS
<1>4. /\ Sequence(x) /\ Len(x) = Len(data) /\ Located(x, o, s)
      /\ \A off, q : /\ Located(data, off, q) /\ (off + Len(q) <= o \/ o + Len(s) <= off) => Located(x, off, q)
  <2>1. o + Len(s) <= Len(data) BY <1>2
  <2>3. KeptBy(data, o, s, x) BY <1>1, <2>1, PutKeeps
  <2> QED BY <2>3, Zenon DEF KeptBy
<1>5. /\ Sequence(y) /\ Len(y) = Len(data) /\ Located(y, d, k)
      /\ \A off, q : /\ Located(x, off, q) /\ (off + Len(q) <= d \/ d + Len(k) <= off) => Located(y, off, q)
  <2>1. d + Len(k) <= Len(x) BY <1>2, <1>4
  <2>3. KeptBy(x, d, k, y) BY <1>1, <1>4, <2>1, PutKeeps
  <2> QED BY <1>4, <2>3, Zenon DEF KeptBy
<1>6. /\ Sequence(z) /\ Len(z) = Len(data) /\ Located(z, e, g)
      /\ \A off, q : /\ Located(y, off, q) /\ (off + Len(q) <= e \/ e + Len(g) <= off) => Located(z, off, q)
  <2>1. e + Len(g) <= Len(y) BY <1>2, <1>3, <1>5
  <2>2. z = Put(y, e, g) BY <1>1, <1>3
  <2>3. KeptBy(y, e, g, z) BY <1>3, <1>5, <2>1, <2>2, PutKeeps
  <2> QED BY <1>5, <2>3, Zenon DEF KeptBy
<1>7. /\ Sequence(u) /\ Len(u) = Len(data) /\ Located(u, f, m)
      /\ \A off, q : /\ Located(z, off, q) /\ (off + Len(q) <= f \/ f + Len(m) <= off) => Located(u, off, q)
  <2>1. f + Len(m) <= Len(z) BY <1>2, <1>3, <1>6
  <2>2. u = Put(z, f, m) BY <1>1, <1>3
  <2>3. KeptBy(z, f, m, u) BY <1>3, <1>6, <2>1, <2>2, PutKeeps
  <2> QED BY <1>6, <2>3, Zenon DEF KeptBy
<1>8. Located(u, e, g)
  <2>1. e + Len(g) <= f BY <1>3
  <2> QED BY <1>6, <1>7, <2>1
<1>9. Located(u, d, k)
  <2>1. d + Len(k) <= e /\ d + Len(k) <= f BY <1>3
  <2> QED BY <1>5, <1>6, <1>7, <2>1
<1>10. Located(u, o, s)
  <2>1. o + Len(s) <= d /\ o + Len(s) <= e /\ o + Len(s) <= f BY <1>3
  <2> QED BY <1>4, <1>5, <1>6, <1>7, <2>1
<1>11. ASSUME NEW off, NEW q, Located(data, off, q), off + Len(q) <= o \/ o + 14 <= off,
              off + Len(q) <= d \/ d + 96 + Len(m) <= off
       PROVE  Located(u, off, q)
  <2>1. off \in Nat /\ Sequence(q) BY <1>11 DEF Located
  <2>2. Len(q) \in Nat BY <2>1, Length
  <2>3. off + Len(q) <= d \/ d + Len(k) <= off BY <1>2, <1>11, <2>1, <2>2
  <2>4. off + Len(q) <= e \/ e + Len(g) <= off BY <1>2, <1>3, <1>11, <2>1, <2>2
  <2>5. off + Len(q) <= f \/ f + Len(m) <= off BY <1>2, <1>3, <1>11, <2>1, <2>2
  <2>6. Located(x, off, q) BY <1>4, <1>11
  <2>7. Located(y, off, q) BY <1>5, <2>3, <2>6
  <2>8. Located(z, off, q) BY <1>6, <2>4, <2>7
  <2> QED BY <1>7, <2>5, <2>8
<1>12. Spared(data, u, o, d, Len(m)) BY <1>11, Zenon DEF Spared
<1> QED BY <1>3, <1>7, <1>8, <1>9, <1>10, <1>12

LEMMA SameIs == \E n : SameInstruction = U16Bytes(n)
BY SMT DEF SameInstruction

\* What is written is there, and the rest as it was.
WrittenTo(data, u, o, d, entry) ==
    /\ Sequence(u) /\ Len(u) = Len(data) /\ EntryAt(u, o, d, entry)
    /\ Spared(data, u, o, d, Len(entry.message))

LEMMA EntryWritten ==
    ASSUME NEW data, Sequence(data), NEW entry, NEW signer, EntryOf(entry, signer),
           NEW o \in Nat, NEW d \in Nat, o + 14 <= d,
           Ends(entry, d, Len(data)), NEW u, u = WriteEntry(data, entry, o, d)
    PROVE  WrittenTo(data, u, o, d, entry)
<1>1. PICK k, g, m : k = entry.publicKey /\ g = entry.signature /\ m = entry.message OBVIOUS
<1>2. /\ Sequence(k) /\ Len(k) = 32 /\ Sequence(g) /\ Len(g) = 64 /\ Sequence(m) /\ Len(m) \in Nat
  BY <1>1, Zenon DEF EntryOf, EntryFine
<1>3. PICK a, b, c, e, f : /\ a = U16Bytes(d + 32) /\ b = SameInstruction /\ c = U16Bytes(d)
                           /\ e = U16Bytes(d + 32 + 64) /\ f = U16Bytes(Len(m))
  OBVIOUS
<1>4. /\ Sequence(a) /\ Sequence(b) /\ Sequence(c) /\ Sequence(e) /\ Sequence(f)
      /\ Len(a) = 2 /\ Len(b) = 2 /\ Len(c) = 2 /\ Len(e) = 2 /\ Len(f) = 2
  <2>1. PICK w : SameInstruction = U16Bytes(w) BY SameIs
  <2>2. b = U16Bytes(w) BY <1>3, <2>1, Zenon
  <2>3. Sequence(a) /\ Len(a) = 2 BY <1>3, U16Is, SMT
  <2>4. Sequence(b) /\ Len(b) = 2 BY <2>2, U16Is, SMT
  <2>5. Sequence(c) /\ Len(c) = 2 BY <1>3, U16Is, SMT
  <2>6. Sequence(e) /\ Len(e) = 2 BY <1>3, U16Is, SMT
  <2>7. Sequence(f) /\ Len(f) = 2 BY <1>3, U16Is, SMT
  <2> QED BY <2>3, <2>4, <2>5, <2>6, <2>7
<1>5. PICK s : s = a \o b \o c \o b \o e \o f \o b OBVIOUS
<1>6. Offsets7(s, a, c, e, f) BY <1>4, <1>5, SevenPairs
<1>7. Sequence(s) /\ Len(s) = 14 /\ Located(s, 0, a) /\ Located(s, 4, c) /\ Located(s, 8, e) /\ Located(s, 10, f)
  BY <1>6, Zenon DEF Offsets7
<1>8. u = Put(Put(Put(Put(data, o, s), d, k), d + 32, g), d + 32 + 64, m)
  BY <1>1, <1>3, <1>5, Zenon DEF WriteEntry
<1>9. /\ Sequence(u) /\ Len(u) = Len(data) /\ Located(u, o, s) /\ Located(u, d, k)
      /\ Located(u, d + 32, g) /\ Located(u, d + 96, m) /\ Spared(data, u, o, d, Len(m))
  <2>1. d + 96 + Len(m) <= Len(data) BY <1>1, Zenon DEF Ends
  <2> QED BY <1>2, <1>7, <1>8, <2>1, PutAll
<1>10. Located(u, o + 0, a) BY <1>7, <1>9, Nested
<1>11. Located(u, o + 4, c) BY <1>7, <1>9, Nested
<1>12. Located(u, o + 8, e) BY <1>7, <1>9, Nested
<1>13. Located(u, o + 10, f) BY <1>7, <1>9, Nested
<1>14. o + 0 = o /\ d + 32 + 64 = d + 96 OBVIOUS
<1>15. EntryAt(u, o, d, entry)
  BY <1>1, <1>3, <1>9, <1>10, <1>11, <1>12, <1>13, <1>14, Zenon DEF EntryAt
<1> QED BY <1>1, <1>9, <1>15, Zenon DEF WrittenTo

\* The signature the program reads at the offsets of an entry.
Signed(entry, signer) == [pubkey |-> signer, sig |-> entry.signature, message |-> entry.message]

LEMMA EntryRead ==
    ASSUME NEW u, NEW o \in Nat, NEW d \in Nat, NEW entry, NEW signer, EntryOf(entry, signer),
           EntryAt(u, o, d, entry), Ends(entry, d, MaxLength)
    PROVE  SignatureAt(u, o) = Signed(entry, signer)
<1>1. PICK k, g, m : k = entry.publicKey /\ g = entry.signature /\ m = entry.message OBVIOUS
<1>2. /\ Sequence(k) /\ Len(k) = 32 /\ Sequence(g) /\ Len(g) = 64 /\ Sequence(m) /\ Len(m) \in Nat
  BY <1>1, Zenon DEF EntryOf, EntryFine
<1>3. PICK e, f, n : e = d + 32 /\ f = d + 96 /\ n = Len(m) OBVIOUS
<1>4. e \in 0..MaxLength /\ f \in 0..MaxLength /\ d \in 0..MaxLength /\ n \in 0..MaxLength
  <2>1. d + 96 + n <= MaxLength BY <1>1, <1>3, Zenon DEF Ends
  <2>2. n \in Nat BY <1>2, <1>3
  <2>3. MaxLength \in Nat BY DEF MaxLength
  <2> QED BY <1>3, <2>1, <2>2, <2>3
<1>5. /\ Located(u, o, U16Bytes(e)) /\ Located(u, o + 4, U16Bytes(d)) /\ Located(u, o + 8, U16Bytes(f))
      /\ Located(u, o + 10, U16Bytes(n)) /\ Located(u, d, k) /\ Located(u, e, g) /\ Located(u, f, m)
  BY <1>1, <1>3, Zenon DEF EntryAt
<1>6. U16At(u, o) = e /\ U16At(u, o + 4) = d /\ U16At(u, o + 8) = f /\ U16At(u, o + 10) = n
  BY <1>4, <1>5, U16Found, Zenon
<1>7. Slice(u, d, d + 32) = k
  <2>1. d + 32 = d + Len(k) BY <1>2
  <2> QED BY <1>5, <2>1, Sliced
<1>8. Slice(u, e, e + 64) = g
  <2>1. e + 64 = e + Len(g) BY <1>2
  <2> QED BY <1>5, <2>1, Sliced
<1>9. Slice(u, f, f + n) = m BY <1>3, <1>5, Sliced
<1>10. bytesToAddress(k) = signer
  <2>1. Sequence(signer) /\ k = addressToBytes(signer) BY <1>1, Zenon DEF EntryOf
  <2> QED BY <2>1, AddressBack, Zenon
<1>11. SignatureAt(u, o) = [pubkey |-> signer, sig |-> g, message |-> m]
  BY <1>6, <1>7, <1>8, <1>9, <1>10, Zenon DEF SignatureAt
<1> QED BY <1>1, <1>11, Zenon DEF Signed

LEMMA SecondAt ==
    ASSUME NEW n \in {1, 2}, NEW a \in Nat
    PROVE  2 + n * 14 + 96 + a \in Nat
OBVIOUS

LEMMA OneMore ==
    ASSUME NEW q \in Nat, NEW b \in Nat
    PROVE  q + 32 + 64 + b = q + 96 + b
OBVIOUS

\* Where the data of one entry, or of two, begin and end.
DataEnds(entries, n, a, b) ==
    /\ DataAt(entries)[1] = 2 + n * 14 /\ DataAt(entries)[2] = 2 + n * 14 + 96 + a
    /\ n = 2 => DataAt(entries)[3] = DataAt(entries)[2] + 96 + b
LEMMA DataAtIs ==
    ASSUME NEW entries, NEW n \in {1, 2}, Len(entries) = n,
           NEW a \in Nat, a = Len(entries[1].message), NEW b \in Nat, n = 2 => b = Len(entries[2].message)
    PROVE  DataEnds(entries, n, a, b)
<1> DEFINE Step(f, i) == IF i = 1 THEN 2 + Len(entries) * OFFSETS_SIZE
                         ELSE f[i - 1] + 32 + 64 + Len(entries[i - 1].message)
           Placed(f) == f = [i \in 1..Len(entries) + 1 |-> Step(f, i)]
           D == CHOOSE f : Placed(f)
<1>1. PICK w : w = [i \in 1..n + 1 |-> IF i = 1 THEN 2 + n * 14 ELSE IF i = 2 THEN 2 + n * 14 + 96 + a
                                       ELSE 2 + n * 14 + 96 + a + 96 + b]
  OBVIOUS
<1>2. \A i \in 1..n + 1 : w[i] = Step(w, i)
  <2>1. ASSUME NEW i \in 1..n + 1 PROVE w[i] = Step(w, i)
    <3>1. CASE i = 1 BY <1>1, <3>1 DEF OFFSETS_SIZE
    <3>2. CASE i = 2
      <4>1. i - 1 = 1 /\ 1 \in 1..n + 1 BY <3>2
      <4>2. w[1] = 2 + n * 14 /\ w[2] = 2 + n * 14 + 96 + a BY <1>1, <4>1, <3>2
      <4>3. w[2] = w[1] + 32 + 64 + a BY <4>2
      <4>4. Len(entries[i - 1].message) = a BY <4>1, Zenon
      <4>5. i # 1 BY <3>2
      <4> QED BY <3>2, <4>1, <4>3, <4>4, <4>5, Zenon
    <3>3. CASE i = 3
      <4>1. i - 1 = 2 /\ 2 \in 1..n + 1 /\ n = 2 BY <3>3
      <4>2. w[2] = 2 + n * 14 + 96 + a /\ w[3] = 2 + n * 14 + 96 + a + 96 + b BY <1>1, <4>1, <3>3
      <4>3. w[3] = w[2] + 32 + 64 + b BY <4>1, <4>2
      <4>4. Len(entries[i - 1].message) = b BY <4>1, Zenon
      <4>5. i # 1 BY <3>3
      <4> QED BY <3>3, <4>1, <4>3, <4>4, <4>5, Zenon
    <3> QED BY <3>1, <3>2, <3>3
  <2> QED BY <2>1
<1>3. Placed(w)
  <2>1. w = [i \in 1..n + 1 |-> w[i]] BY <1>1
  <2> QED BY <1>2, <2>1, Zenon
<1>4. Placed(D) BY <1>3, Zenon
<1>5. DataAt(entries) = D BY Zenon DEF DataAt
<1> HIDE DEF D
<1>6. \A i \in 1..n + 1 : D[i] = Step(D, i) BY <1>4, Zenon
<1>7. D[1] = 2 + n * 14
  <2>1. 1 \in 1..n + 1 OBVIOUS
  <2>2. D[1] = 2 + Len(entries) * OFFSETS_SIZE BY <1>6, <2>1, Zenon
  <2> QED BY <2>2 DEF OFFSETS_SIZE
<1>8. D[2] = 2 + n * 14 + 96 + a
  <2>1. 2 \in 1..n + 1 /\ 2 - 1 = 1 /\ 2 # 1 OBVIOUS
  <2>2. D[2] = D[1] + 32 + 64 + a BY <1>6, <2>1, SMT
  <2> QED BY <1>7, <2>2
<1>9. ASSUME n = 2 PROVE D[3] = D[2] + 96 + b
  <2>1. 3 \in 1..n + 1 /\ 3 - 1 = 2 /\ 3 # 1 BY <1>9
  <2>2. D[3] = Step(D, 3) BY <1>6, <2>1, Zenon
  <2>3. Step(D, 3) = D[2] + 32 + 64 + Len(entries[2].message) BY <2>1, Zenon
  <2>4. D[3] = D[2] + 32 + 64 + b BY <1>9, <2>2, <2>3, Zenon
  <2>5. D[2] \in Nat BY <1>8, SecondAt, ZenonT(40)
  <2>6. D[2] + 32 + 64 + b = D[2] + 96 + b BY <2>5, OneMore
  <2> QED BY <2>4, <2>6, Zenon
<1> QED BY <1>5, <1>7, <1>8, <1>9, Zenon DEF DataEnds

LEMMA BatchIs ==
    ASSUME NEW entries, NEW n \in {1, 2}, Len(entries) = n,
           NEW base, base = <<Number(n)>> \o Zeros(DataAt(entries)[n + 1] - 1),
           NEW x, x = WriteEntry(base, entries[1], 2, DataAt(entries)[1]),
           NEW y, y = WriteEntry(x, entries[2], 16, DataAt(entries)[2])
    PROVE  createBatchEd25519Instruction(entries) = IF n = 1 THEN x ELSE y
<1> DEFINE Step(f, i) ==
             IF i = 0 THEN <<Number(n)>> \o Zeros(DataAt(entries)[n + 1] - 1)
             ELSE WriteEntry(f[i - 1], entries[i], 2 + (i - 1) * OFFSETS_SIZE, DataAt(entries)[i])
           Laying(f) == f = [i \in 0..n |-> Step(f, i)]
           D == CHOOSE f : Laying(f)
<1>1. PICK w : w = [i \in 0..n |-> IF i = 0 THEN base ELSE IF i = 1 THEN x ELSE y] OBVIOUS
<1>2. /\ 0 \in 0..n /\ 1 \in 0..n /\ n \in 0..n /\ 1 - 1 = 0 /\ 2 - 1 = 1 /\ 1 # 0 /\ 2 # 0 /\ 2 # 1
      /\ 2 + 0 * OFFSETS_SIZE = 2 /\ 2 + 1 * OFFSETS_SIZE = 16
  BY DEF OFFSETS_SIZE
<1>3. \A i \in 0..n : w[i] = Step(w, i)
  <2>1. ASSUME NEW i \in 0..n PROVE w[i] = Step(w, i)
    <3>1. w[0] = base /\ w[1] = x BY <1>1, <1>2
    <3>2. CASE i = 0 BY <3>1, <3>2, Zenon
    <3>3. CASE i = 1
      <4>1. Step(w, 1) = WriteEntry(w[0], entries[1], 2, DataAt(entries)[1]) BY <1>2, Zenon
      <4> QED BY <3>1, <3>3, <4>1, Zenon
    <3>4. CASE i = 2
      <4>1. w[i] = y BY <1>1, <1>2, <3>4, Zenon
      <4>2. Step(w, 2) = WriteEntry(w[1], entries[2], 16, DataAt(entries)[2]) BY <1>2, Zenon
      <4> QED BY <3>1, <3>4, <4>1, <4>2, Zenon
    <3> QED BY <3>2, <3>3, <3>4
  <2> QED BY <2>1
<1>4. Laying(w)
  <2>1. w = [i \in 0..n |-> w[i]] BY <1>1
  <2> QED BY <1>3, <2>1, Zenon
<1>5. Laying(D) BY <1>4, Zenon
<1>6. createBatchEd25519Instruction(entries) = D[n] BY Zenon DEF createBatchEd25519Instruction
<1> HIDE DEF D
<1>7. \A i \in 0..n : D[i] = Step(D, i) BY <1>5, Zenon
<1>8. D[0] = base BY <1>2, <1>7, Zenon
<1>9. D[1] = x BY <1>2, <1>7, <1>8, ZenonT(40)
<1>10. ASSUME n = 2 PROVE D[2] = y
  <2>1. 2 \in 0..n BY <1>10
  <2>2. D[2] = Step(D, 2) BY <1>7, <2>1, Zenon
  <2>3. Step(D, 2) = WriteEntry(D[1], entries[2], 16, DataAt(entries)[2]) BY <1>2, Zenon
  <2> QED BY <1>9, <2>2, <2>3, Zenon
<1> QED BY <1>6, <1>9, <1>10

LEMMA ReadOne ==
    ASSUME NEW u, At(u, 0) = 1, NEW x, SignatureAt(u, 2) = x
    PROVE  SignaturesOf(u) = <<x>>
<1>1. SignaturesOf(u) = [i \in 1..1 |-> SignatureAt(u, 2 + (i - 1) * 14)] BY Zenon DEF SignaturesOf
<1>2. 2 + (1 - 1) * 14 = 2 OBVIOUS
<1> QED BY <1>1, <1>2

LEMMA ReadTwo ==
    ASSUME NEW u, At(u, 0) = 2, NEW x, SignatureAt(u, 2) = x, NEW y, SignatureAt(u, 16) = y
    PROVE  SignaturesOf(u) = <<x, y>>
<1>1. SignaturesOf(u) = [i \in 1..2 |-> SignatureAt(u, 2 + (i - 1) * 14)] BY Zenon DEF SignaturesOf
<1>2. 2 + (1 - 1) * 14 = 2 /\ 2 + (2 - 1) * 14 = 16 OBVIOUS
<1> QED BY <1>1, <1>2

\* An instruction before its entries are written: their number, and room for them.
Roomy(base, n, size) == Sequence(base) /\ Len(base) = size /\ Located(base, 0, <<Number(n)>>)

LEMMA RoomIs ==
    ASSUME NEW n, NEW k \in Nat, NEW base, base = <<Number(n)>> \o Zeros(k)
    PROVE  Roomy(base, n, k + 1)
<1>1. PICK x, z : x = <<Number(n)>> /\ z = Zeros(k) OBVIOUS
<1>2. Sequence(x) /\ Len(x) = 1 BY <1>1, Singleton
<1>3. Sequence(z) /\ Len(z) = k BY <1>1, ZerosAre
<1>4. base = x \o z BY <1>1
<1>5. Sequence(base) /\ Len(base) = Len(x) + Len(z) /\ Located(base, 0, x) BY <1>2, <1>3, <1>4, Appended, Zenon
<1>6. Len(base) = k + 1 BY <1>2, <1>3, <1>5
<1> QED BY <1>1, <1>5, <1>6, Zenon DEF Roomy

LEMMA MessageLength == ASSUME NEW entry, NEW signer, EntryOf(entry, signer) PROVE Len(entry.message) \in Nat
BY Zenon DEF EntryOf, EntryFine

LEMMA FirstByteKept ==
    ASSUME NEW data, NEW u, NEW n, Located(data, 0, <<Number(n)>>), NEW o \in Nat, NEW d \in Nat, 1 <= o, 1 <= d,
           NEW entry, WrittenTo(data, u, o, d, entry)
    PROVE  Located(u, 0, <<Number(n)>>)
<1>1. PICK z : z = <<Number(n)>> OBVIOUS
<1>2. 0 + Len(z) <= o /\ 0 + Len(z) <= d BY <1>1
<1>3. Located(data, 0, z) BY <1>1, Zenon
<1>4. Spared(data, u, o, d, Len(entry.message)) BY Zenon DEF WrittenTo
<1>5. Located(u, 0, z) BY <1>2, <1>3, <1>4, Zenon DEF Spared
<1> QED BY <1>1, <1>5, Zenon

\* How long an instruction is that carries one entry, or two.
OneFits(a, D) == D \in Nat /\ D - 1 \in Nat /\ (D - 1) + 1 = D /\ 16 + 96 + a <= D /\ 16 + 96 + a <= MaxLength
TwoFit(a, b, D, E) ==
    /\ D \in Nat /\ E \in Nat /\ E - 1 \in Nat /\ (E - 1) + 1 = E /\ 16 + 14 <= D
    /\ 30 + 96 + a <= D /\ 30 + 96 + a <= E /\ D + 96 + b <= E
    /\ 30 + 96 + a <= MaxLength /\ D + 96 + b <= MaxLength
Short1(entry) == 112 + Len(entry.message) <= MaxLength
Short2(entry, next) == 222 + Len(entry.message) + Len(next.message) <= MaxLength

LEMMA OneLength ==
    ASSUME NEW entry, NEW signer, EntryOf(entry, signer), Short1(entry), NEW a, a = Len(entry.message), NEW D
    PROVE  D = 2 + 1 * 14 + 96 + a => OneFits(a, D)
<1>1. a \in Nat BY MessageLength
<1>2. 112 + a <= MaxLength BY Zenon DEF Short1
<1>3. PICK M : M = MaxLength OBVIOUS
<1>4. M \in Nat /\ 112 + a <= M
  <2>1. MaxLength \in Nat BY DEF MaxLength
  <2> QED BY <1>2, <1>3, <2>1, Zenon
<1>5. SUFFICES ASSUME D = 2 + 1 * 14 + 96 + a PROVE OneFits(a, D) OBVIOUS
<1>6. D \in Nat /\ D - 1 \in Nat /\ (D - 1) + 1 = D /\ 16 + 96 + a <= D /\ 16 + 96 + a <= M
  BY <1>1, <1>4, <1>5
<1> QED BY <1>3, <1>6, Zenon DEF OneFits

Sums(a, b, D, E, M) ==
    /\ D \in Nat /\ E \in Nat /\ E - 1 \in Nat /\ (E - 1) + 1 = E /\ 16 + 14 <= D
    /\ 30 + 96 + a <= D /\ 30 + 96 + a <= E /\ D + 96 + b <= E
    /\ 30 + 96 + a <= M /\ D + 96 + b <= M
LEMMA SumsAre ==
    ASSUME NEW a \in Nat, NEW b \in Nat, NEW M \in Nat, 222 + a + b <= M, NEW D, D = 2 + 2 * 14 + 96 + a,
           NEW E, E = D + 96 + b
    PROVE  Sums(a, b, D, E, M)
BY DEF Sums

LEMMA BothLengths ==
    ASSUME NEW e, NEW signer, EntryOf(e, signer), NEW f, NEW other, EntryOf(f, other), Short2(e, f),
           NEW a, a = Len(e.message), NEW b, b = Len(f.message), NEW D, NEW E
    PROVE  D = 2 + 2 * 14 + 96 + a /\ E = D + 96 + b => TwoFit(a, b, D, E)
<1>1. a \in Nat /\ b \in Nat BY MessageLength
<1>2. 222 + a + b <= MaxLength BY Zenon DEF Short2
<1>3. PICK M : M = MaxLength OBVIOUS
<1>4. M \in Nat /\ 222 + a + b <= M
  <2>1. MaxLength \in Nat BY DEF MaxLength
  <2> QED BY <1>2, <1>3, <2>1, Zenon
<1>5. SUFFICES ASSUME D = 2 + 2 * 14 + 96 + a /\ E = D + 96 + b PROVE TwoFit(a, b, D, E) OBVIOUS
<1>6. Sums(a, b, D, E, M) BY <1>1, <1>4, <1>5, SumsAre, Zenon
<1> QED BY <1>3, <1>6, Zenon DEF Sums, TwoFit

\* One entry by itself.
LEMMA SingleRead ==
    ASSUME NEW entry, NEW signer, EntryOf(entry, signer), Short1(entry)
    PROVE  SignaturesOf(createEd25519Instruction(entry)) = <<Signed(entry, signer)>>
<1>1. PICK a, u, base, D : /\ a = Len(entry.message) /\ u = createEd25519Instruction(entry)
                        /\ base = <<Number(1)>> \o Zeros(1 + OFFSETS_SIZE + 32 + 64 + a)
                        /\ D = 2 + 1 * 14 + 96 + a
  OBVIOUS
<1>2. OneFits(a, D) BY <1>1, OneLength, Zenon
<1>3. D \in Nat /\ D - 1 \in Nat /\ (D - 1) + 1 = D /\ 16 + 96 + a <= D /\ 16 + 96 + a <= MaxLength
  BY <1>2, Zenon DEF OneFits
<1>4. 1 + OFFSETS_SIZE + 32 + 64 + a = D - 1 /\ 2 + OFFSETS_SIZE = 16
  <2>1. a \in Nat BY <1>1, MessageLength, Zenon
  <2> QED BY <1>1, <2>1 DEF OFFSETS_SIZE
<1>5. base = <<Number(1)>> \o Zeros(D - 1) BY <1>1, <1>4, Zenon
<1>6. Roomy(base, 1, D)
  <2>1. Roomy(base, 1, (D - 1) + 1) BY <1>3, <1>5, RoomIs, Zenon
  <2> QED BY <1>3, <2>1, Zenon
<1>7. Sequence(base) /\ Len(base) = D /\ Located(base, 0, <<Number(1)>>) BY <1>6, Zenon DEF Roomy
<1>8. u = WriteEntry(base, entry, 2, 16)
  BY <1>1, <1>4, Zenon DEF createEd25519Instruction
<1>9. 2 \in Nat /\ 16 \in Nat /\ 2 + 14 <= 16 /\ 1 <= 2 /\ 1 <= 16 /\ 1 \in 0..255 OBVIOUS
<1>10. Ends(entry, 16, Len(base)) /\ Ends(entry, 16, MaxLength)
  BY <1>1, <1>3, <1>7, Zenon DEF Ends
<1>11. WrittenTo(base, u, 2, 16, entry) BY <1>7, <1>8, <1>9, <1>10, EntryWritten, Zenon
<1>12. At(u, 0) = 1
  <2>1. Located(u, 0, <<Number(1)>>) BY <1>7, <1>9, <1>11, FirstByteKept, Zenon
  <2> QED BY <1>9, <2>1, ByteAt, Zenon
<1>13. EntryAt(u, 2, 16, entry) BY <1>11, Zenon DEF WrittenTo
<1>14. SignatureAt(u, 2) = Signed(entry, signer) BY <1>9, <1>10, <1>13, EntryRead
<1> QED BY <1>1, <1>12, <1>14, ReadOne, Zenon

\* One entry in a batch.
LEMMA BatchOfOneRead ==
    ASSUME NEW e, NEW signer, EntryOf(e, signer), Short1(e)
    PROVE  SignaturesOf(createBatchEd25519Instruction(<<e>>)) = <<Signed(e, signer)>>
<1>1. PICK entries, u, n : entries = <<e>> /\ u = createBatchEd25519Instruction(<<e>>) /\ n = 1 OBVIOUS
<1>2. Len(entries) = n /\ entries[1] = e /\ n \in {1, 2} /\ ~(n = 2) /\ n + 1 = 2 /\ 2 + n * 14 = 16 BY <1>1
<1>3. PICK a, D : a = Len(e.message) /\ D = DataAt(entries)[2] OBVIOUS
<1>4. a \in Nat BY <1>3, MessageLength, Zenon
<1>5. DataEnds(entries, n, a, a)
  <2>1. a = Len(entries[1].message) BY <1>2, <1>3, Zenon
  <2> QED BY <1>2, <1>4, <2>1, DataAtIs, Zenon
<1>6. DataAt(entries)[1] = 2 + n * 14 /\ D = 2 + n * 14 + 96 + a BY <1>3, <1>5, Zenon DEF DataEnds
<1>7. OneFits(a, D)
  <2>1. D = 2 + 1 * 14 + 96 + a BY <1>1, <1>6, Zenon
  <2> QED BY <1>3, <2>1, OneLength, Zenon
<1>8. D \in Nat /\ D - 1 \in Nat /\ (D - 1) + 1 = D /\ 16 + 96 + a <= D /\ 16 + 96 + a <= MaxLength
  BY <1>7, Zenon DEF OneFits
<1>9. PICK base : base = <<Number(n)>> \o Zeros(D - 1) OBVIOUS
<1>10. Roomy(base, n, D)
  <2>1. Roomy(base, n, (D - 1) + 1) BY <1>8, <1>9, RoomIs, Zenon
  <2> QED BY <1>8, <2>1, Zenon
<1>11. Sequence(base) /\ Len(base) = D /\ Located(base, 0, <<Number(n)>>) BY <1>10, Zenon DEF Roomy
<1>12. PICK x, y : x = WriteEntry(base, entries[1], 2, DataAt(entries)[1]) /\ y = WriteEntry(x, entries[2], 16, DataAt(entries)[2])
  OBVIOUS
<1>13. u = x
  <2>1. base = <<Number(n)>> \o Zeros(DataAt(entries)[n + 1] - 1) BY <1>2, <1>3, <1>9, Zenon
  <2>2. createBatchEd25519Instruction(entries) = IF n = 1 THEN x ELSE y BY <1>2, <1>12, <2>1, BatchIs
  <2> QED BY <1>1, <2>2, Zenon
<1>14. u = WriteEntry(base, e, 2, 16) BY <1>2, <1>6, <1>12, <1>13, Zenon
<1>15. 2 \in Nat /\ 16 \in Nat /\ 2 + 14 <= 16 /\ 1 <= 2 /\ 1 <= 16 /\ 1 \in 0..255 OBVIOUS
<1>16. Ends(e, 16, Len(base)) /\ Ends(e, 16, MaxLength)
  BY <1>3, <1>8, <1>11, Zenon DEF Ends
<1>17. WrittenTo(base, u, 2, 16, e) BY <1>11, <1>14, <1>15, <1>16, EntryWritten, Zenon
<1>18. At(u, 0) = 1
  <2>1. Located(u, 0, <<Number(n)>>) BY <1>11, <1>15, <1>17, FirstByteKept, Zenon
  <2> QED BY <1>1, <1>15, <2>1, ByteAt, Zenon
<1>19. EntryAt(u, 2, 16, e) BY <1>17, Zenon DEF WrittenTo
<1>20. SignatureAt(u, 2) = Signed(e, signer) BY <1>15, <1>16, <1>19, EntryRead
<1> QED BY <1>1, <1>18, <1>20, ReadOne, Zenon

\* An entry stays where another is written behind it.
LEMMA EntryKept ==
    ASSUME NEW x, NEW u, NEW D \in Nat, NEW f, WrittenTo(x, u, 16, D, f),
           NEW e, NEW signer, EntryOf(e, signer), EntryAt(x, 2, 30, e), Ends(e, 30, D)
    PROVE  EntryAt(u, 2, 30, e)
<1>1. ASSUME NEW off, NEW q, Located(x, off, q), off + Len(q) <= 16 \/ 16 + 14 <= off, off + Len(q) <= D
      PROVE  Located(u, off, q)
  <2>1. Spared(x, u, 16, D, Len(f.message)) BY Zenon DEF WrittenTo
  <2> QED BY <1>1, <2>1, Zenon DEF Spared
<1>2. PICK p1, p2, p3, p4 : /\ p1 = U16Bytes(30 + 32) /\ p2 = U16Bytes(30) /\ p3 = U16Bytes(30 + 96)
                            /\ p4 = U16Bytes(Len(e.message))
  OBVIOUS
<1>3. Len(p1) = 2 /\ Len(p2) = 2 /\ Len(p3) = 2 /\ Len(p4) = 2 BY <1>2, U16Is, SMT
<1>4. PICK k, g, m : k = e.publicKey /\ g = e.signature /\ m = e.message OBVIOUS
<1>5. Len(k) = 32 /\ Len(g) = 64 /\ Len(m) \in Nat BY <1>4, Zenon DEF EntryOf, EntryFine
<1>6. /\ Located(x, 2, p1) /\ Located(x, 2 + 4, p2) /\ Located(x, 2 + 8, p3) /\ Located(x, 2 + 10, p4)
      /\ Located(x, 30, k) /\ Located(x, 30 + 32, g) /\ Located(x, 30 + 96, m)
  BY <1>2, <1>4, Zenon DEF EntryAt
<1>7. 30 + 96 + Len(m) <= D BY <1>4, Zenon DEF Ends
<1>8. /\ 2 + Len(p1) <= 16 /\ 2 + 4 + Len(p2) <= 16 /\ 2 + 8 + Len(p3) <= 16 /\ 2 + 10 + Len(p4) <= 16
      /\ 2 + Len(p1) <= D /\ 2 + 4 + Len(p2) <= D /\ 2 + 8 + Len(p3) <= D /\ 2 + 10 + Len(p4) <= D
  BY <1>3, <1>5, <1>7
<1>9. 16 + 14 <= 30 /\ 16 + 14 <= 30 + 32 /\ 16 + 14 <= 30 + 96 OBVIOUS
<1>10. 30 + Len(k) <= D /\ 30 + 32 + Len(g) <= D BY <1>5, <1>7
<1>11. Located(u, 2, p1) /\ Located(u, 2 + 4, p2) /\ Located(u, 2 + 8, p3) /\ Located(u, 2 + 10, p4)
  BY <1>1, <1>6, <1>8, Zenon
<1>12. Located(u, 30, k) /\ Located(u, 30 + 32, g) /\ Located(u, 30 + 96, m)
  BY <1>1, <1>6, <1>7, <1>9, <1>10, Zenon
<1> QED BY <1>2, <1>4, <1>11, <1>12, Zenon DEF EntryAt

LEMMA BatchOfTwoRead ==
    ASSUME NEW e, NEW signer, EntryOf(e, signer), NEW f, NEW other, EntryOf(f, other), Short2(e, f)
    PROVE  SignaturesOf(createBatchEd25519Instruction(<<e, f>>)) = <<Signed(e, signer), Signed(f, other)>>
<1>1. PICK entries, u, n : entries = <<e, f>> /\ u = createBatchEd25519Instruction(<<e, f>>) /\ n = 2 OBVIOUS
<1>2. /\ Len(entries) = n /\ entries[1] = e /\ entries[2] = f /\ n \in {1, 2} /\ n # 1 /\ n + 1 = 3
      /\ 2 + n * 14 = 30
  BY <1>1
<1>3. PICK a, b, D, E : /\ a = Len(e.message) /\ b = Len(f.message)
                        /\ D = DataAt(entries)[2] /\ E = DataAt(entries)[3]
  OBVIOUS
<1>4. a \in Nat /\ b \in Nat BY <1>3, MessageLength, Zenon
<1>5. DataEnds(entries, n, a, b)
  <2>1. a = Len(entries[1].message) /\ b = Len(entries[2].message) BY <1>2, <1>3, Zenon
  <2> QED BY <1>2, <1>4, <2>1, DataAtIs, Zenon
<1>6. DataAt(entries)[1] = 2 + n * 14 /\ D = 2 + n * 14 + 96 + a /\ E = D + 96 + b
  BY <1>1, <1>3, <1>5, Zenon DEF DataEnds
<1>7. TwoFit(a, b, D, E)
  <2>1. D = 2 + 2 * 14 + 96 + a BY <1>1, <1>6, Zenon
  <2> QED BY <1>3, <1>6, <2>1, BothLengths, Zenon
<1>8. /\ D \in Nat /\ E \in Nat /\ E - 1 \in Nat /\ (E - 1) + 1 = E /\ 16 + 14 <= D
      /\ 30 + 96 + a <= D /\ 30 + 96 + a <= E /\ D + 96 + b <= E
      /\ 30 + 96 + a <= MaxLength /\ D + 96 + b <= MaxLength
  BY <1>7, Zenon DEF TwoFit
<1>9. PICK base : base = <<Number(n)>> \o Zeros(E - 1) OBVIOUS
<1>10. Roomy(base, n, E)
  <2>1. Roomy(base, n, (E - 1) + 1) BY <1>8, <1>9, RoomIs, Zenon
  <2> QED BY <1>8, <2>1, Zenon
<1>11. Sequence(base) /\ Len(base) = E /\ Located(base, 0, <<Number(n)>>) BY <1>10, Zenon DEF Roomy
<1>12. PICK x, y : x = WriteEntry(base, entries[1], 2, DataAt(entries)[1]) /\ y = WriteEntry(x, entries[2], 16, DataAt(entries)[2])
  OBVIOUS
<1>13. u = y
  <2>1. base = <<Number(n)>> \o Zeros(DataAt(entries)[n + 1] - 1) BY <1>2, <1>3, <1>9, Zenon
  <2>2. createBatchEd25519Instruction(entries) = IF n = 1 THEN x ELSE y BY <1>2, <1>12, <2>1, BatchIs
  <2> QED BY <1>1, <1>2, <2>2, Zenon
<1>14. x = WriteEntry(base, e, 2, 30) /\ u = WriteEntry(x, f, 16, D)
  BY <1>2, <1>3, <1>6, <1>12, <1>13, Zenon
<1>15. /\ 2 \in Nat /\ 16 \in Nat /\ 30 \in Nat /\ 2 + 14 <= 30 /\ 1 <= 2 /\ 1 <= 16 /\ 1 <= 30 /\ 2 \in 0..255
  OBVIOUS
<1>16. WrittenTo(base, x, 2, 30, e)
  <2>1. Ends(e, 30, Len(base)) BY <1>3, <1>8, <1>11, Zenon DEF Ends
  <2> QED BY <1>11, <1>14, <1>15, <2>1, EntryWritten, Zenon
<1>17. Sequence(x) /\ Len(x) = E /\ EntryAt(x, 2, 30, e) BY <1>11, <1>16, Zenon DEF WrittenTo
<1>18. WrittenTo(x, u, 16, D, f)
  <2>1. Ends(f, D, Len(x)) BY <1>3, <1>8, <1>17, Zenon DEF Ends
  <2> QED BY <1>8, <1>14, <1>15, <1>17, <2>1, EntryWritten, Zenon
<1>19. At(u, 0) = 2
  <2>1. Located(x, 0, <<Number(n)>>) BY <1>11, <1>15, <1>16, FirstByteKept, Zenon
  <2>2. 1 <= D BY <1>8
  <2>3. Located(u, 0, <<Number(n)>>) BY <1>8, <1>15, <1>18, <2>1, <2>2, FirstByteKept, Zenon
  <2> QED BY <1>1, <1>15, <2>3, ByteAt, Zenon
<1>20. SignatureAt(u, 2) = Signed(e, signer)
  <2>1. Ends(e, 30, D) /\ Ends(e, 30, MaxLength) BY <1>3, <1>8, Zenon DEF Ends
  <2>2. EntryAt(u, 2, 30, e) BY <1>8, <1>17, <1>18, <2>1, EntryKept, Zenon
  <2> QED BY <1>15, <2>1, <2>2, EntryRead
<1>21. SignatureAt(u, 16) = Signed(f, other)
  <2>1. Ends(f, D, MaxLength) BY <1>3, <1>8, Zenon DEF Ends
  <2>2. EntryAt(u, 16, D, f) BY <1>18, Zenon DEF WrittenTo
  <2> QED BY <1>8, <1>15, <2>1, <2>2, EntryRead
<1> QED BY <1>1, <1>19, <1>20, <1>21, ReadTwo, Zenon

-----------------------------------------------------------------------------
(* The signatures that the program extracts                                 *)

LEMMA FlatOne ==
    ASSUME NEW p, Len(p) = 1
    PROVE  FlattenSeq(p) = p[1]
<1> DEFINE Step(f, i) == IF i = 1 THEN p[i] ELSE f[i - 1] \o p[i]
           Joins(f) == f = [i \in 1..Len(p) |-> Step(f, i)]
           D == CHOOSE f : Joins(f)
<1>1. PICK w : w = [i \in 1..1 |-> p[1]] OBVIOUS
<1>2. \A i \in 1..1 : w[i] = Step(w, i) BY <1>1
<1>3. w = [i \in 1..1 |-> w[i]] BY <1>1
<1>4. Joins(w) BY <1>2, <1>3, Zenon
<1>5. Joins(D) BY <1>4, Zenon
<1>6. Len(p) # 0 /\ 1 \in 1..1 OBVIOUS
<1>7. FlattenSeq(p) = D[1] BY <1>6, Zenon DEF FlattenSeq
<1> HIDE DEF D
<1>8. D[1] = Step(D, 1) BY <1>5, <1>6, Zenon
<1> QED BY <1>7, <1>8, Zenon

LEMMA FlatTwo ==
    ASSUME NEW p, Len(p) = 2
    PROVE  FlattenSeq(p) = p[1] \o p[2]
<1> DEFINE Step(f, i) == IF i = 1 THEN p[i] ELSE f[i - 1] \o p[i]
           Joins(f) == f = [i \in 1..Len(p) |-> Step(f, i)]
           D == CHOOSE f : Joins(f)
<1>1. PICK w : w = [i \in 1..2 |-> IF i = 1 THEN p[1] ELSE p[1] \o p[2]] OBVIOUS
<1>a. 1 \in 1..2 /\ 2 \in 1..2 /\ 2 # 1 /\ 2 - 1 = 1 /\ \A i \in 1..2 : i = 1 \/ i = 2 OBVIOUS
<1>2. \A i \in 1..2 : w[i] = Step(w, i)
  <2>1. w[1] = Step(w, 1) BY <1>1, <1>a, Zenon
  <2>2. w[2] = Step(w, 2) BY <1>1, <1>a, Zenon
  <2> QED BY <1>a, <2>1, <2>2, Zenon
<1>3. w = [i \in 1..2 |-> w[i]] BY <1>1
<1>4. Joins(w) BY <1>2, <1>3, Zenon
<1>5. Joins(D) BY <1>4, Zenon
<1>6. Len(p) # 0 OBVIOUS
<1>7. FlattenSeq(p) = D[2] BY <1>6, Zenon DEF FlattenSeq
<1> HIDE DEF D
<1>8. D[1] = Step(D, 1) /\ D[2] = Step(D, 2) BY <1>5, <1>a, Zenon
<1> QED BY <1>7, <1>8, <1>a, Zenon

\* The signatures of all the instructions of a transaction.
AllOf(instructions) == FlattenSeq([i \in DOMAIN instructions |-> SignaturesOf(instructions[i])])

LEMMA AllOfOne ==
    ASSUME NEW x, NEW all, SignaturesOf(x) = all
    PROVE  AllOf(<<x>>) = all
<1>1. PICK p : p = [i \in DOMAIN <<x>> |-> SignaturesOf(<<x>>[i])] OBVIOUS
<1>2. DOMAIN p = 1..1 /\ p[1] = SignaturesOf(x)
  <2>1. DOMAIN <<x>> = 1..1 /\ 1 \in 1..1 /\ <<x>>[1] = x OBVIOUS
  <2> QED BY <1>1, <2>1, Zenon
<1>3. p = [i \in 1..1 |-> p[i]] BY <1>1, <1>2
<1>4. Len(p) = 1 BY <1>3, Tabulated
<1> QED BY <1>1, <1>2, <1>4, FlatOne, Zenon DEF AllOf

LEMMA Paired == \A s, t : <<s>> \o <<t>> = <<s, t>>
<1>1. ASSUME NEW s, NEW t PROVE <<s>> \o <<t>> = <<s, t>>
  <2>1. PICK u : u = <<s>> \o <<t>> OBVIOUS
  <2>2. PICK w : w = <<s, t>> OBVIOUS
  <2>3. Sequence(<<s>>) /\ Sequence(<<t>>) /\ Len(<<s>>) = 1 /\ Len(<<t>>) = 1 /\ <<s>>[1] = s /\ <<t>>[1] = t
    BY Singleton
  <2>4. Joined(u, <<s>>, <<t>>) BY <2>1, <2>3, Joining
  <2>5. Sequence(u) /\ Len(u) = 2 /\ u[1] = s /\ u[2] = t
    <3>1. Sequence(u) /\ Len(u) = 1 + 1 /\ (\A i \in 1..1 : u[i] = <<s>>[i]) /\ \A i \in 1..1 : u[1 + i] = <<t>>[i]
      BY <2>3, <2>4, Zenon DEF Joined
    <3>2. 1 \in 1..1 /\ 1 + 1 = 2 OBVIOUS
    <3> QED BY <2>3, <3>1, <3>2, Zenon
  <2>6. w \in Seq({s, t}) /\ Len(w) = 2 /\ w[1] = s /\ w[2] = t BY <2>2
  <2>7. Sequence(w) BY <2>6 DEF Sequence
  <2>8. \A i \in 1..2 : u[i] = w[i]
    <3>1. \A i \in 1..2 : i = 1 \/ i = 2 OBVIOUS
    <3> QED BY <2>5, <2>6, <3>1, Zenon
  <2>9. u = w BY <2>5, <2>6, <2>7, <2>8, Equal, Zenon
  <2> QED BY <2>1, <2>2, <2>9, Zenon
<1> QED BY <1>1

LEMMA AllOfTwo ==
    ASSUME NEW x, NEW y, NEW s, NEW t, SignaturesOf(x) = <<s>>, SignaturesOf(y) = <<t>>
    PROVE  AllOf(<<x, y>>) = <<s, t>>
<1>1. PICK p : p = [i \in DOMAIN <<x, y>> |-> SignaturesOf(<<x, y>>[i])] OBVIOUS
<1>2. DOMAIN p = 1..2 /\ p[1] = <<s>> /\ p[2] = <<t>>
  <2>1. DOMAIN <<x, y>> = 1..2 /\ 1 \in 1..2 /\ 2 \in 1..2 /\ <<x, y>>[1] = x /\ <<x, y>>[2] = y OBVIOUS
  <2> QED BY <1>1, <2>1, Zenon
<1>3. p = [i \in 1..2 |-> p[i]] BY <1>1, <1>2
<1>4. Len(p) = 2 BY <1>3, Tabulated
<1>5. FlattenSeq(p) = p[1] \o p[2] BY <1>4, FlatTwo
<1>6. <<s>> \o <<t>> = <<s, t>> BY Paired
<1> QED BY <1>1, <1>2, <1>5, <1>6, Zenon DEF AllOf

LEMMA SmallestIs ==
    ASSUME NEW S
    PROVE  /\ S \in SUBSET {1, 2} /\ 1 \in S => Min(S) = 1
           /\ S = {2} => Min(S) = 2
<1>1. ASSUME S \in SUBSET {1, 2}, 1 \in S PROVE Min(S) = 1
  <2>1. 1 \in S /\ \A y \in S : 1 =< y BY <1>1
  <2>2. \A x \in S : (\A y \in S : x =< y) => x = 1 BY <1>1
  <2> QED BY <2>1, <2>2 DEF Min
<1>2. ASSUME S = {2} PROVE Min(S) = 2
  BY <1>2 DEF Min
<1> QED BY <1>1, <1>2

\* Of one signature, for the one message that is expected.
LEMMA ExtractedOne ==
    ASSUME NEW instructions, NEW s, AllOf(instructions) = <<s>>, NEW agent, NEW counterparty, NEW m,
           NEW mode \in {CounterpartySigned, AgentOwnerSigned}
    PROVE  extract_ed25519_signatures(instructions, agent, counterparty, mode, <<m>>)
           = IF s.message = m /\ (mode = CounterpartySigned => s.pubkey = counterparty) THEN <<s>> ELSE <<>>
<1> DEFINE all == <<s>>
           With(message) == {i \in DOMAIN all : all[i].message = message}
           found == [i \in DOMAIN <<m>> |-> all[Min(With(<<m>>[i]))]]
<1>1. DOMAIN all = {1} /\ all[1] = s /\ DOMAIN <<m>> = {1} /\ <<m>>[1] = m OBVIOUS
<1>2. mode # DualSignature /\ (mode = CounterpartySigned => mode # AgentOwnerSigned)
  BY DEF DualSignature, CounterpartySigned, AgentOwnerSigned
<1>3. CASE s.message = m
  <2>1. With(m) = {1} BY <1>1, <1>3
  <2>2. Min(With(m)) = 1 BY <2>1, SmallestIs
  <2>3. found = <<s>>
    <3>1. \A i \in {1} : all[Min(With(<<m>>[i]))] = s BY <1>1, <2>2
    <3>2. found = [i \in {1} |-> s] BY <1>1, <3>1
    <3>3. <<s>> = [i \in {1} |-> s] OBVIOUS
    <3> QED BY <3>2, <3>3
  <2>4. \A i \in DOMAIN <<m>> : With(<<m>>[i]) # {} BY <1>1, <2>1
  <2>5. found[1].pubkey = s.pubkey BY <2>3, <1>1, Zenon
  <2> HIDE DEF found, With
  <2>6. extract_ed25519_signatures(instructions, agent, counterparty, mode, <<m>>)
        = IF (mode = CounterpartySigned => s.pubkey = counterparty) THEN found ELSE <<>>
    <3>1. CASE mode = CounterpartySigned
      BY <1>2, <2>4, <2>5, <3>1, Zenon DEF extract_ed25519_signatures, AllOf, found, With
    <3>2. CASE mode = AgentOwnerSigned
      <4>1. mode # CounterpartySigned BY <3>2, <1>2
      <4> QED BY <1>2, <2>4, <4>1, <3>2, Zenon DEF extract_ed25519_signatures, AllOf, found, With
    <3> QED BY <3>1, <3>2
  <2> QED BY <1>3, <2>3, <2>6, Zenon
<1>4. CASE s.message # m
  <2>1. With(m) = {} BY <1>1, <1>4
  <2>2. ~(\A i \in DOMAIN <<m>> : With(<<m>>[i]) # {}) BY <1>1, <2>1
  <2> QED BY <1>4, <2>2, Zenon DEF extract_ed25519_signatures, AllOf
<1> QED BY <1>3, <1>4

\* Where an expected message stands among the signatures.
Standing(all, message) == {i \in DOMAIN all : all[i].message = message}

BoundTwo(instructions, agent, counterparty, mode, expected, found) ==
    extract_ed25519_signatures(instructions, agent, counterparty, mode, expected)
    = IF found[1].pubkey = agent /\ found[2].pubkey = counterparty /\ found[1].pubkey # found[2].pubkey
      THEN found ELSE <<>>

LEMMA ExtractedForTwo ==
    ASSUME NEW instructions, NEW all, AllOf(instructions) = all, NEW agent, NEW counterparty,
           NEW expected, \A i \in DOMAIN expected : Standing(all, expected[i]) # {},
           NEW found, found = [i \in DOMAIN expected |-> all[Min(Standing(all, expected[i]))]],
           NEW mode, mode = DualSignature
    PROVE  BoundTwo(instructions, agent, counterparty, mode, expected, found)
<1>1. mode # CounterpartySigned /\ mode # AgentOwnerSigned
  BY DEF DualSignature, CounterpartySigned, AgentOwnerSigned
<1> QED BY <1>1, ZenonT(40) DEF extract_ed25519_signatures, AllOf, Standing, BoundTwo

\* Of two signatures, for the two messages of a mode with two parties.
LEMMA ExtractedTwo ==
    ASSUME NEW instructions, NEW s, NEW t, AllOf(instructions) = <<s, t>>, NEW agent, NEW counterparty,
           NEW m, NEW n, s.message = m, m # n, NEW mode, mode = DualSignature
    PROVE  extract_ed25519_signatures(instructions, agent, counterparty, mode, <<m, n>>)
           = IF t.message = n /\ s.pubkey = agent /\ t.pubkey = counterparty /\ s.pubkey # t.pubkey
             THEN <<s, t>> ELSE <<>>
<1> DEFINE all == <<s, t>>
           With(message) == Standing(all, message)
           found == [i \in DOMAIN <<m, n>> |-> all[Min(With(<<m, n>>[i]))]]
<1>1. DOMAIN all = {1, 2} /\ all[1] = s /\ all[2] = t OBVIOUS
<1>2. DOMAIN <<m, n>> = {1, 2} /\ <<m, n>>[1] = m /\ <<m, n>>[2] = n OBVIOUS
<1>a. mode # CounterpartySigned /\ mode # AgentOwnerSigned
  BY DEF DualSignature, CounterpartySigned, AgentOwnerSigned
<1>3. With(m) \in SUBSET {1, 2} /\ 1 \in With(m) BY <1>1 DEF Standing
<1>4. Min(With(m)) = 1 BY <1>3, SmallestIs
<1>5. CASE t.message = n
  <2>1. With(n) = {2} BY <1>1, <1>5 DEF Standing
  <2>2. Min(With(n)) = 2 BY <2>1, SmallestIs
  <2>3. found = <<s, t>>
    <3>1. all[Min(With(<<m, n>>[1]))] = s /\ all[Min(With(<<m, n>>[2]))] = t
      BY <1>1, <1>2, <1>4, <2>2, Zenon
    <3>2. \A i \in {1, 2} : all[Min(With(<<m, n>>[i]))] = <<s, t>>[i]
      <4>1. <<s, t>>[1] = s /\ <<s, t>>[2] = t OBVIOUS
      <4> QED BY <3>1, <4>1, Zenon
    <3> HIDE DEF With
    <3>3. found = [i \in {1, 2} |-> <<s, t>>[i]] BY <1>2, <3>2
    <3>4. <<s, t>> = [i \in {1, 2} |-> <<s, t>>[i]] OBVIOUS
    <3> QED BY <3>3, <3>4
  <2>4. \A i \in DOMAIN <<m, n>> : With(<<m, n>>[i]) # {}
    <3>1. With(m) # {} /\ With(n) # {} BY <1>3, <2>1
    <3> QED BY <3>1, <1>2, Zenon
  <2>5. found[1] = s /\ found[2] = t BY <2>3, <1>1, Zenon
  <2> HIDE DEF found, With
  <2>6. extract_ed25519_signatures(instructions, agent, counterparty, mode, <<m, n>>)
        = IF s.pubkey = agent /\ t.pubkey = counterparty /\ s.pubkey # t.pubkey THEN found ELSE <<>>
    <3>1. PICK e : e = <<m, n>> OBVIOUS
    <3>2. PICK a : a = <<s, t>> OBVIOUS
    <3>3. PICK F : F = found OBVIOUS
    <3>4. F = [i \in DOMAIN e |-> a[Min(Standing(a, e[i]))]] BY <3>1, <3>2, <3>3, Zenon DEF found, With
    <3>5. \A i \in DOMAIN e : Standing(a, e[i]) # {} BY <2>4, <3>1, <3>2, Zenon DEF With
    <3>6. AllOf(instructions) = a BY <3>2
    <3>7. BoundTwo(instructions, agent, counterparty, mode, e, F)
      BY <3>4, <3>5, <3>6, ExtractedForTwo, Zenon
    <3> QED BY <2>5, <3>1, <3>3, <3>7, Zenon DEF BoundTwo
  <2> QED BY <1>5, <2>3, <2>6, Zenon
<1>6. CASE t.message # n
  <2>1. With(n) = {}
    <3>1. \A i \in {1, 2} : all[i].message # n BY <1>1, <1>6
    <3> QED BY <1>1, <3>1 DEF Standing
  <2>2. ~(\A i \in DOMAIN <<m, n>> : With(<<m, n>>[i]) # {})
    <3>1. 2 \in DOMAIN <<m, n>> BY <1>2
    <3> QED BY <1>2, <2>1, <3>1, Zenon
  <2> QED BY <1>6, <2>2, Zenon DEF extract_ed25519_signatures, AllOf, Standing
<1> QED BY <1>5, <1>6

-----------------------------------------------------------------------------
(* The drafts, and their layout                                             *)

LEMMA TextIs ==
    ASSUME NEW n \in Nat
    PROVE  Sequence(TextOf(n)) /\ Len(TextOf(n)) = n /\ \A i \in 1..n : TextOf(n)[i] = <<"text", ToString(i)>>
<1>1. PICK f : f = TextOf(n) OBVIOUS
<1>2. f = [i \in 1..n |-> f[i]] BY <1>1 DEF TextOf
<1>3. \A i \in 1..n : f[i] = <<"text", ToString(i)>> BY <1>1, Zenon DEF TextOf
<1>4. Sequence(f) /\ Len(f) = n BY <1>2, Tabulated, Zenon
<1> QED BY <1>1, <1>3, <1>4, Zenon

\* A text that is sealed with a key: its bytes, and the tag behind them.
SealedWith(c, text, key) ==
    /\ Sequence(c) /\ Len(c) = Len(text) + 16
    /\ \A i \in 1..Len(text) : c[i] = key \o text[i]
    /\ \A i \in 1..16 : c[Len(text) + i] = key

LEMMA SealIs ==
    ASSUME NEW text, Sequence(text), NEW key
    PROVE  SealedWith(Seal(text, key), text, key)
<1>1. Len(text) \in Nat BY Length
<1>2. PICK a : a = [i \in 1..Len(text) |-> key \o text[i]] OBVIOUS
<1>3. PICK b : b = [i \in 1..16 |-> key] OBVIOUS
<1>4. Sequence(a) /\ Len(a) = Len(text) /\ \A i \in 1..Len(text) : a[i] = key \o text[i]
  <2>1. \A i \in 1..Len(text) : a[i] = key \o text[i] BY <1>2, Zenon
  <2>2. a = [i \in 1..Len(text) |-> a[i]] BY <1>2, <2>1
  <2> QED BY <1>1, <2>1, <2>2, Tabulated, Zenon
<1>5. Sequence(b) /\ Len(b) = 16 /\ \A i \in 1..16 : b[i] = key
  <2>1. 16 \in Nat OBVIOUS
  <2>2. \A i \in 1..16 : b[i] = key BY <1>3, Zenon
  <2>3. b = [i \in 1..16 |-> b[i]] BY <1>3, <2>2
  <2> QED BY <2>1, <2>2, <2>3, Tabulated, Zenon
<1>6. PICK c : c = Seal(text, key) OBVIOUS
<1>7. c = a \o b BY <1>2, <1>3, <1>6, Zenon DEF Seal, TAG_SIZE
<1>8. Joined(c, a, b) BY <1>4, <1>5, <1>7, Joining
<1>9. SealedWith(c, text, key) BY <1>4, <1>5, <1>8, Zenon DEF SealedWith, Joined
<1> QED BY <1>6, <1>9, Zenon

\* The pieces of an encrypted content.
ContentKey == EncryptionKey(<<"ephemeral">>, deriveEncryptionPublicKey(Owner))
Nonce == [i \in 1..NONCE_SIZE |-> <<"nonce">>]
Payloads(u, n) ==
    /\ Pieces4(u, <<Number(1)>>, addressToBytes(<<"ephemeral">>), Nonce, Seal(TextOf(n), ContentKey))
    /\ Len(u) = n + 73

LEMMA PayloadIs ==
    ASSUME NEW n \in Nat, NEW u, u = Payload(n)
    PROVE  Payloads(u, n)
<1>1. PICK e : e = encryptContent(TextOf(n), deriveEncryptionPublicKey(Owner)) OBVIOUS
<1>2. /\ e.version = 1 /\ e.ephemeralPubkey = addressToBytes(<<"ephemeral">>) /\ e.nonce = Nonce
      /\ e.ciphertext = Seal(TextOf(n), ContentKey)
  BY <1>1, Zenon DEF encryptContent, ENCRYPTION_VERSION, Nonce, ContentKey
<1>3. PICK a : a = <<Number(1)>> OBVIOUS
<1>4. PICK b : b = addressToBytes(<<"ephemeral">>) OBVIOUS
<1>5. PICK c : c = Nonce OBVIOUS
<1>6. PICK d : d = Seal(TextOf(n), ContentKey) OBVIOUS
<1>7. u = a \o b \o c \o d
  BY <1>1, <1>2, <1>3, <1>4, <1>5, <1>6, Zenon DEF Payload, serializeEncryptedPayload
<1>8. Sequence(a) /\ Len(a) = 1 BY <1>3, Singleton
<1>9. Sequence(b) /\ Len(b) = 32 BY <1>4, Address, Zenon
<1>10. Sequence(c) /\ Len(c) = 24
  <2>1. 24 \in Nat OBVIOUS
  <2>2. c = [i \in 1..24 |-> <<"nonce">>] BY <1>5 DEF Nonce, NONCE_SIZE
  <2>3. c = [i \in 1..24 |-> c[i]] BY <2>2
  <2> QED BY <2>1, <2>3, Tabulated, Zenon
<1>11. Sequence(d) /\ Len(d) = n + 16
  BY <1>6, TextIs, SealIs, Zenon DEF SealedWith
<1>12. Pieces4(u, a, b, c, d) BY <1>7, <1>8, <1>9, <1>10, <1>11, Four
<1>13. Len(u) = 1 + 32 + 24 + (n + 16) BY <1>8, <1>9, <1>10, <1>11, <1>12, Zenon DEF Pieces4
<1>14. Len(u) = n + 73 BY <1>13
<1> QED BY <1>3, <1>4, <1>5, <1>6, <1>12, <1>14, Zenon DEF Payloads

\* What is written in a draft: bytes of a type there is, and a text that opens if it is
\* encrypted.
WrittenFine(w) ==
    /\ w.contentType \in 0..7 /\ Sequence(w.content) /\ Len(w.content) \in Nat
    /\ w.contentType = Encrypted => \E n \in Nat : w.content = Payload(n)

LEMMA Types ==
    /\ None \in 0..7 /\ JSON \in 0..7 /\ UTF8 \in 0..7 /\ IPFS \in 0..7 /\ Arweave \in 0..7
    /\ Encrypted \in 0..7 /\ 7 \in 0..7 /\ None # Encrypted /\ JSON # Encrypted /\ UTF8 # Encrypted
    /\ IPFS # Encrypted /\ Arweave # Encrypted /\ 7 # Encrypted
BY DEF None, JSON, UTF8, IPFS, Arweave, Encrypted

LEMMA WritingsAre ==
    ASSUME NEW w \in Writings
    PROVE  WrittenFine(w)
<1>1. ASSUME NEW type \in 0..7, NEW content, Sequence(content), type # Encrypted, w = Written(type, content)
      PROVE  WrittenFine(w)
  <2>1. w.contentType = type /\ w.content = content BY <1>1, Zenon DEF Written
  <2>2. Len(content) \in Nat BY <1>1, Length, Zenon
  <2> QED BY <1>1, <2>1, <2>2, Zenon DEF WrittenFine
<1>2. \/ \E n \in TextLengths : w = Written(UTF8, TextOf(n))
      \/ \E type \in {None, JSON, IPFS, Arweave, 7} : w = Written(type, TextOf(3))
      \/ \E n \in PlainLengths : w = Written(Encrypted, Payload(n))
      \/ \E type \in {JSON, UTF8} : w = Written(type, ByteOrderMark \o TextOf(2))
      \/ w = Written(UTF8, TextOf(2) \o <<NotUtf8>>)
  BY Zenon DEF Writings
<1>3. 2 \in Nat /\ 3 \in Nat OBVIOUS
<1>4. ASSUME NEW n \in TextLengths, w = Written(UTF8, TextOf(n)) PROVE WrittenFine(w)
  <2>1. n \in Nat BY LengthsAssumption
  <2>2. Sequence(TextOf(n)) BY <2>1, TextIs, Zenon
  <2> QED BY <1>1, <1>4, <2>2, Types, Zenon
<1>5. ASSUME NEW type \in {None, JSON, IPFS, Arweave, 7}, w = Written(type, TextOf(3)) PROVE WrittenFine(w)
  <2>1. Sequence(TextOf(3)) BY <1>3, TextIs, Zenon
  <2>2. type \in 0..7 /\ type # Encrypted BY Types, Zenon
  <2> QED BY <1>1, <1>5, <2>1, <2>2, Zenon
<1>6. ASSUME NEW n \in PlainLengths, w = Written(Encrypted, Payload(n)) PROVE WrittenFine(w)
  <2>1. n \in Nat BY LengthsAssumption
  <2>2. w.contentType = Encrypted /\ w.content = Payload(n) BY <1>6, Zenon DEF Written
  <2>3. Payloads(w.content, n) BY <2>1, <2>2, PayloadIs, Zenon
  <2>4. Sequence(w.content) BY <2>3, Zenon DEF Payloads, Pieces4
  <2>5. Len(w.content) \in Nat BY <2>4, Length, Zenon
  <2> QED BY <2>1, <2>2, <2>4, <2>5, Types, Zenon DEF WrittenFine
<1>7. Sequence(ByteOrderMark)
  <2>1. ByteOrderMark \in Seq({<<"0xEF">>, <<"0xBB">>, <<"0xBF">>}) BY DEF ByteOrderMark
  <2> QED BY <2>1, Zenon DEF Sequence
<1>8. Sequence(TextOf(2)) BY <1>3, TextIs, Zenon
<1>9. ASSUME NEW type \in {JSON, UTF8}, w = Written(type, ByteOrderMark \o TextOf(2)) PROVE WrittenFine(w)
  <2>1. Sequence(ByteOrderMark \o TextOf(2)) BY <1>7, <1>8, Concatenated, Zenon
  <2>2. type \in 0..7 /\ type # Encrypted BY Types, Zenon
  <2> QED BY <1>1, <1>9, <2>1, <2>2, Zenon
<1>10. ASSUME w = Written(UTF8, TextOf(2) \o <<NotUtf8>>) PROVE WrittenFine(w)
  <2>1. Sequence(TextOf(2) \o <<NotUtf8>>) BY <1>8, Singleton, Concatenated, Zenon
  <2> QED BY <1>1, <1>10, <2>1, Types, Zenon
<1> QED BY <1>2, <1>4, <1>5, <1>6, <1>9, <1>10, Zenon

\* A sequence of words.
Bytes(b) == Sequence(b) /\ \A i \in 1..Len(b) : Sequence(b[i])

LEMMA NumberIs == \A n : Sequence(Number(n)) /\ Len(Number(n)) = 1
BY Singleton DEF Number

LEMMA AddressBytes ==
    ASSUME NEW a, Sequence(a)
    PROVE  Bytes(addressToBytes(a)) /\ Len(addressToBytes(a)) = 32
<1>1. PICK b : b = addressToBytes(a) OBVIOUS
<1>2. Sequence(b) /\ Len(b) = 32 /\ \A i \in 1..32 : b[i] = a \o Number(i) BY <1>1, Address, Zenon
<1>3. \A i \in 1..32 : Sequence(a \o Number(i)) BY NumberIs, Concatenated, Zenon
<1> QED BY <1>1, <1>2, <1>3, Zenon DEF Bytes

LEMMA ZeroBytes ==
    ASSUME NEW n \in Nat
    PROVE  Bytes(Zeros(n)) /\ Len(Zeros(n)) = n
BY ZerosAre, NumberIs, Zenon DEF Bytes

\* A draft as there are, and one of a size that createFeedback lets through.
DraftFine(d) ==
    /\ d.mode \in Modes /\ d.counterparty \in {Client, Owner, Mint} /\ d.outcome \in 0..2
    /\ Bytes(d.dataHash) /\ Sequence(d.dataHash) /\ Len(d.dataHash) = 32
    /\ d.taskRef = addressToBytes(<<"task">>) /\ d.tokenAccount = Mint
    /\ WrittenFine(d)
    /\ d = [mode |-> d.mode, counterparty |-> d.counterparty, outcome |-> d.outcome, dataHash |-> d.dataHash,
            taskRef |-> d.taskRef, tokenAccount |-> d.tokenAccount, contentType |-> d.contentType,
            content |-> d.content]

LEMMA DraftIs ==
    ASSUME NEW mode \in Modes, NEW party \in {Client, Owner, Mint}, NEW outc \in 0..2,
           NEW hash, Bytes(hash), Len(hash) = 32, NEW w, WrittenFine(w),
           NEW d, d = Draft(mode, party, outc, hash, w)
    PROVE  DraftFine(d)
<1>1. /\ d.mode = mode /\ d.counterparty = party /\ d.outcome = outc /\ d.dataHash = hash
      /\ d.taskRef = addressToBytes(<<"task">>) /\ d.tokenAccount = Mint
      /\ d.contentType = w.contentType /\ d.content = w.content
  BY Zenon DEF Draft
<1>2. WrittenFine(d) BY <1>1, Zenon DEF WrittenFine
<1>3. d = [mode |-> d.mode, counterparty |-> d.counterparty, outcome |-> d.outcome, dataHash |-> d.dataHash,
           taskRef |-> d.taskRef, tokenAccount |-> d.tokenAccount, contentType |-> d.contentType,
           content |-> d.content]
  BY <1>1, Zenon DEF Draft
<1>4. Sequence(hash) BY Zenon DEF Bytes
<1> QED BY <1>1, <1>2, <1>3, <1>4, Zenon DEF DraftFine

LEMMA DraftsAre ==
    ASSUME NEW d \in Drafts
    PROVE  DraftFine(d)
<1>1. \/ \E mode \in Modes, party \in {Client, Owner}, w \in Writings :
            d = Draft(mode, party, 2, addressToBytes(<<"hash">>), w)
      \/ \E mode \in Modes, outc \in 0..2 :
            d = Draft(mode, Client, outc, Zeros(32), Written(UTF8, TextOf(3)))
      \/ d = Draft(DualSignature, Mint, 2, addressToBytes(<<"hash">>), Written(UTF8, TextOf(3)))
  BY DEF Drafts
<1>2. 2 \in 0..2 /\ 3 \in Nat /\ 32 \in Nat OBVIOUS
<1>3. Bytes(addressToBytes(<<"hash">>)) /\ Len(addressToBytes(<<"hash">>)) = 32
  <2>1. Sequence(<<"hash">>) BY Singleton
  <2> QED BY <2>1, AddressBytes, Zenon
<1>4. Bytes(Zeros(32)) /\ Len(Zeros(32)) = 32 BY <1>2, ZeroBytes, Zenon
<1>5. WrittenFine(Written(UTF8, TextOf(3)))
  <2>1. PICK w : w = Written(UTF8, TextOf(3)) OBVIOUS
  <2>2. w.contentType = UTF8 /\ w.content = TextOf(3) BY <2>1, Zenon DEF Written
  <2>3. Sequence(TextOf(3)) /\ Len(TextOf(3)) \in Nat BY <1>2, TextIs, Length, Zenon
  <2>4. WrittenFine(w) BY <2>2, <2>3, Types, Zenon DEF WrittenFine
  <2> QED BY <2>1, <2>4, Zenon
<1>6. DualSignature \in Modes BY Zenon DEF Modes
<1>7. ASSUME NEW mode \in Modes, NEW party \in {Client, Owner}, NEW w \in Writings,
             d = Draft(mode, party, 2, addressToBytes(<<"hash">>), w)
      PROVE  DraftFine(d)
  <2>1. WrittenFine(w) BY WritingsAre, Zenon
  <2>2. party \in {Client, Owner, Mint} BY Zenon
  <2> QED BY <1>2, <1>3, <1>7, <2>1, <2>2, DraftIs, Zenon
<1>8. ASSUME NEW mode \in Modes, NEW outc \in 0..2,
             d = Draft(mode, Client, outc, Zeros(32), Written(UTF8, TextOf(3)))
      PROVE  DraftFine(d)
  <2>1. Client \in {Client, Owner, Mint} BY Zenon
  <2> QED BY <1>4, <1>5, <1>8, <2>1, DraftIs, Zenon
<1>9. ASSUME d = Draft(DualSignature, Mint, 2, addressToBytes(<<"hash">>), Written(UTF8, TextOf(3)))
      PROVE  DraftFine(d)
  <2>1. Mint \in {Client, Owner, Mint} BY Zenon
  <2> QED BY <1>2, <1>3, <1>5, <1>6, <1>9, <2>1, DraftIs, Zenon
<1> QED BY <1>1, <1>7, <1>8, <1>9, Zenon

LEMMA ContentOrder == \A n : n <= 70 /\ n \in Nat => n <= 240
OBVIOUS

\* How long the content may be.
Bounded(n, dual) == n <= 240 /\ (dual => n <= 70)

LEMMA ContentBounded ==
    ASSUME NEW d, Len(d.content) \in Nat, FitsMode(d)
    PROVE  Bounded(Len(d.content), d.mode = DualSignature)
<1>1. DualSignature # CounterpartySigned BY DEF DualSignature, CounterpartySigned
<1>2. CASE d.mode = DualSignature
  <2>1. validateContentSize(d.content, DualSignature) BY <1>2, Zenon DEF FitsMode
  <2>2. Len(d.content) <= 70
    BY <2>1 DEF validateContentSize, getMaxContentSize, MAX_DUAL_SIGNATURE_CONTENT_SIZE
  <2>3. Len(d.content) <= 240 BY <2>2, ContentOrder, SMT
  <2> QED BY <2>2, <2>3, Zenon DEF Bounded
<1>3. CASE d.mode # DualSignature
  <2>1. validateContentSize(d.content, CounterpartySigned) BY <1>3, Zenon DEF FitsMode
  <2>2. Len(d.content) <= 240
    BY <1>1, <2>1 DEF validateContentSize, getMaxContentSize, MAX_SINGLE_SIGNATURE_CONTENT_SIZE
  <2> QED BY <1>3, <2>2, Zenon DEF Bounded
<1> QED BY <1>2, <1>3

\* What is laid out of a draft.
LaidOut(d, data) ==
    Pieces8(data, Number(1), d.taskRef, addressToBytes(d.tokenAccount), addressToBytes(d.counterparty),
            Number(d.outcome), d.dataHash, Number(d.contentType), d.content)

LEMMA WholeSlice ==
    ASSUME NEW c, Sequence(c), NEW n \in Nat, ~(n <= Len(c))
    PROVE  Slice(c, 0, n) = c
<1>1. Slice(c, 0, n) = SubSeq(c, 1, Len(c)) BY DEF Slice
<1>2. Len(c) \in Nat BY Length
<1>3. Slice(c, 0, Len(c)) = SubSeq(c, 1, Len(c)) BY <1>2 DEF Slice
<1>4. 0 + Len(c) = Len(c) /\ Len(c) <= Len(c) /\ 0 \in Nat BY <1>2
<1>5. \A i \in 1..Len(c) : c[0 + i] = c[i] OBVIOUS
<1>6. Located(c, 0, c) BY <1>4, <1>5, Zenon DEF Located
<1>7. Slice(c, 0, Len(c)) = c BY <1>4, <1>6, Sliced
<1> QED BY <1>1, <1>3, <1>7

LEMMA SerializedIs ==
    ASSUME NEW d, DraftFine(d), FitsMode(d), NEW data, data = serializeUniversalLayout(d)
    PROVE  LaidOut(d, data)
<1>1. PICK t : t = d.taskRef OBVIOUS
<1>2. PICK m : m = addressToBytes(d.tokenAccount) OBVIOUS
<1>3. PICK p : p = addressToBytes(d.counterparty) OBVIOUS
<1>4. PICK h : h = d.dataHash OBVIOUS
<1>5. PICK x : x = d.content OBVIOUS
<1>6. Sequence(x) /\ Len(x) \in Nat BY <1>5, Zenon DEF DraftFine, WrittenFine
<1>7. Len(x) <= 240 BY <1>5, <1>6, ContentBounded, SMT DEF Bounded
<1>8. 512 \in Nat /\ ~(512 <= Len(x)) BY <1>6, <1>7
<1>9. Slice(x, 0, MAX_CONTENT_SIZE) = x BY <1>6, <1>8, WholeSlice DEF MAX_CONTENT_SIZE
<1>10. CURRENT_LAYOUT_VERSION = 1 BY DEF CURRENT_LAYOUT_VERSION
<1>11. data = <<Number(1)>> \o t \o m \o p \o <<Number(d.outcome)>> \o h \o <<Number(d.contentType)>> \o x
  BY <1>1, <1>2, <1>3, <1>4, <1>5, <1>9, <1>10, Zenon DEF serializeUniversalLayout
<1>12. Sequence(t) /\ Len(t) = 32
  <2>1. t = addressToBytes(<<"task">>) BY <1>1, Zenon DEF DraftFine
  <2> QED BY <2>1, Address, Zenon
<1>13. Sequence(m) /\ Len(m) = 32 /\ Sequence(p) /\ Len(p) = 32 BY <1>2, <1>3, Address, Zenon
<1>14. Sequence(h) /\ Len(h) = 32 BY <1>4, Zenon DEF DraftFine
<1>15. PICK v, o, c : v = Number(1) /\ o = Number(d.outcome) /\ c = Number(d.contentType) OBVIOUS
<1>16. data = <<v>> \o t \o m \o p \o <<o>> \o h \o <<c>> \o x BY <1>11, <1>15, Zenon
<1>17. Pieces8(data, v, t, m, p, o, h, c, x) BY <1>6, <1>12, <1>13, <1>14, <1>16, Eight
<1> QED BY <1>1, <1>2, <1>3, <1>4, <1>5, <1>15, <1>17, Zenon DEF LaidOut

\* What is read at the places of the layout.
ReadsAs(u, v, t, m, p, o, h, c, x) ==
    /\ Sequence(u) /\ Len(u) = 131 + Len(x) /\ Len(u) \in 131..371 /\ Len(u) - 131 = Len(x)
    /\ Slice(u, 1, 33) = t /\ Slice(u, 33, 65) = m /\ Slice(u, 65, 97) = p
    /\ Slice(u, 98, 130) = h /\ From(u, 131) = x
    /\ At(u, 0) = v /\ At(u, 97) = o /\ At(u, 130) = c

\* A word of thirty-two bytes at an offset.
WordAt(u, off, to, w) == Slice(u, off, to) = w

LEMMA WordRead ==
    ASSUME NEW u, NEW off, NEW w, Located(u, off, w)
    PROVE  WordAt(u, off, off + Len(w), w)
BY Sliced DEF WordAt

LEMMA Places == 33 = 1 + 32 /\ 65 = 33 + 32 /\ 97 = 65 + 32 /\ 130 = 98 + 32
OBVIOUS

LEMMA LayoutRead ==
    ASSUME NEW u, NEW v \in 0..255, NEW t, NEW m, NEW p, NEW o \in 0..255, NEW h, NEW c \in 0..255, NEW x,
           Len(t) = 32, Len(m) = 32, Len(p) = 32, Len(h) = 32, Len(x) \in Nat, Len(x) <= 240,
           Pieces8(u, Number(v), t, m, p, Number(o), h, Number(c), x)
    PROVE  ReadsAs(u, v, t, m, p, o, h, c, x)
<1>1. /\ Sequence(u) /\ Len(u) = 131 + Len(x) /\ Located(u, 1, t) /\ Located(u, 33, m)
      /\ Located(u, 65, p) /\ Located(u, 98, h) /\ Located(u, 131, x)
  BY Zenon DEF Pieces8
<1>2. Len(t) = 32 /\ Len(m) = 32 /\ Len(p) = 32 /\ Len(h) = 32 OBVIOUS
<1>3. WordAt(u, 1, 33, t)
  <2>1. WordAt(u, 1, 1 + Len(t), t) BY <1>1, WordRead, Zenon
  <2> QED BY <1>2, <2>1, SMT
<1>4. WordAt(u, 33, 65, m)
  <2>1. WordAt(u, 33, 33 + Len(m), m) BY <1>1, WordRead, Zenon
  <2> QED BY <1>2, <2>1, SMT
<1>5. WordAt(u, 65, 97, p)
  <2>1. WordAt(u, 65, 65 + Len(p), p) BY <1>1, WordRead, Zenon
  <2> QED BY <1>2, <2>1, SMT
<1>6. WordAt(u, 98, 130, h)
  <2>1. WordAt(u, 98, 98 + Len(h), h) BY <1>1, WordRead, ZenonT(40)
  <2> QED BY <1>2, <2>1, SMT
<1>7. WordAt(u, 131, Len(u), x)
  <2>1. WordAt(u, 131, 131 + Len(x), x) BY <1>1, WordRead, SMT
  <2> QED BY <1>1, <2>1, SMT
<1>8. At(u, 0) = v /\ At(u, 97) = o /\ At(u, 130) = c
  <2>1. ASSUME NEW off, NEW n \in 0..255, Located(u, off, <<Number(n)>>) PROVE At(u, off) = n
    BY <2>1, ByteAt
  <2>2. Located(u, 0, <<Number(v)>>) /\ Located(u, 97, <<Number(o)>>) /\ Located(u, 130, <<Number(c)>>)
    BY Zenon DEF Pieces8
  <2> QED BY <2>1, <2>2, ZenonT(40)
<1>9. Len(u) \in 131..371 /\ Len(u) - 131 = Len(x)
  <2>1. \A n \in Nat : \A k : n <= 240 /\ k = 131 + n => k \in 131..371 /\ k - 131 = n OBVIOUS
  <2> QED BY <1>1, <2>1, ZenonT(40)
<1> QED BY <1>1, <1>3, <1>4, <1>5, <1>6, <1>7, <1>8, <1>9, ZenonT(40) DEF ReadsAs, From, WordAt

DraftReads(d, data) ==
    ReadsAs(data, 1, d.taskRef, addressToBytes(d.tokenAccount), addressToBytes(d.counterparty),
            d.outcome, d.dataHash, d.contentType, d.content)

LEMMA DraftRead ==
    ASSUME NEW d, DraftFine(d), FitsMode(d), NEW data, data = serializeUniversalLayout(d)
    PROVE  DraftReads(d, data)
<1>1. PICK t, m, p, h, x : /\ t = d.taskRef /\ m = addressToBytes(d.tokenAccount)
                           /\ p = addressToBytes(d.counterparty) /\ h = d.dataHash /\ x = d.content
  OBVIOUS
<1>2. PICK o, c : o = d.outcome /\ c = d.contentType OBVIOUS
<1>3. Pieces8(data, Number(1), t, m, p, Number(o), h, Number(c), x)
  BY <1>1, <1>2, SerializedIs, Zenon DEF LaidOut
<1>4. t = addressToBytes(<<"task">>) /\ Len(h) = 32 /\ Len(x) \in Nat /\ o \in 0..2 /\ c \in 0..7
  BY <1>1, <1>2, Zenon DEF DraftFine, WrittenFine
<1>5. Len(t) = 32 /\ Len(m) = 32 /\ Len(p) = 32 BY <1>1, <1>4, Address, Zenon
<1>6. Len(x) <= 240 BY <1>1, <1>4, ContentBounded, SMT DEF Bounded
<1>7. 1 \in 0..255 /\ (\A i \in 0..2 : i \in 0..255) /\ \A i \in 0..7 : i \in 0..255 OBVIOUS
<1>8. ReadsAs(data, 1, t, m, p, o, h, c, x) BY <1>3, <1>4, <1>5, <1>6, <1>7, LayoutRead, ZenonT(40)
<1> QED BY <1>1, <1>2, <1>8, Zenon DEF DraftReads

\* The parties are sequences, and come back from their bytes.
LEMMA PartiesBack ==
    ASSUME NEW a \in {Client, Owner, Mint, SasSchema, <<"task">>, <<"ephemeral">>}
    PROVE  Sequence(a) /\ bytesToAddress(addressToBytes(a)) = a
<1>1. \E x : a = <<x>> BY DEF Client, Owner, Mint, SasSchema
<1>2. Sequence(a) BY <1>1, Singleton
<1>3. bytesToAddress(addressToBytes(a)) = a BY <1>2, AddressBack
<1> QED BY <1>2, <1>3

\* The SDK reads back the draft.
LEMMA Deserialized ==
    ASSUME NEW d, DraftFine(d), FitsMode(d), NEW data, data = serializeUniversalLayout(d)
    PROVE  deserializeUniversalLayout(data) = [f \in DOMAIN d \ {"mode"} |-> d[f]]
<1>1. DraftReads(d, data) BY DraftRead, Zenon
<1>2. /\ Len(data) \in 131..371
      /\ Slice(data, 1, 33) = d.taskRef /\ Slice(data, 33, 65) = addressToBytes(d.tokenAccount)
      /\ Slice(data, 65, 97) = addressToBytes(d.counterparty)
      /\ Slice(data, 98, 130) = d.dataHash /\ From(data, 131) = d.content
      /\ At(data, 97) = d.outcome /\ At(data, 130) = d.contentType
  BY <1>1, Zenon DEF DraftReads, ReadsAs
<1>3. d.tokenAccount = Mint /\ d.counterparty \in {Client, Owner, Mint} BY Zenon DEF DraftFine
<1>4. bytesToAddress(addressToBytes(d.tokenAccount)) = d.tokenAccount
      /\ bytesToAddress(addressToBytes(d.counterparty)) = d.counterparty
  <2>1. d.tokenAccount \in {Client, Owner, Mint, SasSchema, <<"task">>, <<"ephemeral">>} BY <1>3, Zenon
  <2>2. d.counterparty \in {Client, Owner, Mint, SasSchema, <<"task">>, <<"ephemeral">>} BY <1>3, Zenon
  <2> QED BY <2>1, <2>2, PartiesBack
<1>5. ~(Len(data) < MIN_BASE_LAYOUT_SIZE)
  <2>1. \A n \in 131..371 : ~(n < 131) OBVIOUS
  <2> QED BY <1>2, <2>1, Zenon DEF MIN_BASE_LAYOUT_SIZE
<1>6. Count(data[98]) = d.outcome /\ Count(data[131]) = d.contentType
  <2>1. 97 + 1 = 98 /\ 130 + 1 = 131 OBVIOUS
  <2> QED BY <1>2, <2>1, ZenonT(40) DEF At
<1>7. deserializeUniversalLayout(data)
      = [taskRef |-> d.taskRef, tokenAccount |-> d.tokenAccount, counterparty |-> d.counterparty,
         outcome |-> d.outcome, dataHash |-> d.dataHash, contentType |-> d.contentType, content |-> d.content]
  BY <1>2, <1>4, <1>5, <1>6, SMT DEF deserializeUniversalLayout
<1>8. d = [mode |-> d.mode, counterparty |-> d.counterparty, outcome |-> d.outcome, dataHash |-> d.dataHash,
           taskRef |-> d.taskRef, tokenAccount |-> d.tokenAccount, contentType |-> d.contentType,
           content |-> d.content]
  BY Zenon DEF DraftFine
<1>9. PICK a, b, c, e, f, g, h : /\ a = d.taskRef /\ b = d.tokenAccount /\ c = d.counterparty /\ e = d.outcome
                                 /\ f = d.dataHash /\ g = d.contentType /\ h = d.content
  OBVIOUS
<1>10. [taskRef |-> a, tokenAccount |-> b, counterparty |-> c, outcome |-> e, dataHash |-> f,
        contentType |-> g, content |-> h] = [n \in DOMAIN d \ {"mode"} |-> d[n]]
  BY <1>8, <1>9
<1> QED BY <1>7, <1>9, <1>10, Zenon

\* The program finds nothing to object to in its layout.
LEMMA LayoutValid ==
    ASSUME NEW d, DraftFine(d), FitsMode(d), NEW data, data = serializeUniversalLayout(d)
    PROVE  validate_universal_base(data)
<1>1. DraftReads(d, data) BY DraftRead, Zenon
<1>2. PICK n, l, o, c, y, z :
         n = Len(data) /\ l = At(data, 0) /\ o = At(data, 97) /\ c = At(data, 130) /\ y = 97 /\ z = 130
  OBVIOUS
<1>3. n \in 131..371 /\ l = 1 /\ o \in 0..2 /\ c \in 0..7
  <2>1. d.outcome \in 0..2 /\ d.contentType \in 0..7 BY Zenon DEF DraftFine, WrittenFine
  <2> QED BY <1>1, <1>2, <2>1, Zenon DEF DraftReads, ReadsAs
<1>4. n \in 131..768 /\ o <= 2 /\ c <= 15 /\ n - 131 <= 512 BY <1>3
<1>5. /\ ProgramOffsets.LAYOUT_VERSION = 0 /\ ProgramOffsets.OUTCOME = y
      /\ ProgramOffsets.CONTENT_TYPE = z /\ ProgramOffsets.CONTENT = 131
  BY <1>2 DEF ProgramOffsets
<1>6. n \in MIN_BASE_LAYOUT_SIZE..MAX_ATTESTATION_DATA_SIZE /\ n - ProgramOffsets.CONTENT <= MAX_CONTENT_SIZE
  BY <1>4, <1>5 DEF MIN_BASE_LAYOUT_SIZE, MAX_ATTESTATION_DATA_SIZE, MAX_CONTENT_SIZE
<1>7. /\ Len(data) = n /\ At(data, ProgramOffsets.LAYOUT_VERSION) = l
      /\ At(data, ProgramOffsets.OUTCOME) = o /\ At(data, ProgramOffsets.CONTENT_TYPE) = c
  BY <1>2, <1>5
<1>8. l = CURRENT_LAYOUT_VERSION /\ o <= 2 /\ c <= 15 BY <1>3, <1>4 DEF CURRENT_LAYOUT_VERSION
<1> QED BY <1>6, <1>7, <1>8, Zenon DEF validate_universal_base

-----------------------------------------------------------------------------
(* The messages                                                             *)

\* The text that is decoded of bytes, and where its bytes lie among them.
Undecoded(content, text) ==
    /\ Sequence(text) /\ Len(text) \in Nat /\ Len(text) <= Len(content)
    /\ NotUtf8 \in ToSet(content) => NotUtf8 \in ToSet(text)
    /\ content = <<>> => text = <<>>

LEMMA Mark ==
    /\ Sequence(ByteOrderMark) /\ Len(ByteOrderMark) = 3
    /\ \A i \in 1..3 : ByteOrderMark[i] # NotUtf8
<1>1. ByteOrderMark \in Seq({<<"0xEF">>, <<"0xBB">>, <<"0xBF">>}) BY DEF ByteOrderMark
<1>2. Len(ByteOrderMark) = 3 BY DEF ByteOrderMark
<1>3. ByteOrderMark[1] # NotUtf8 /\ ByteOrderMark[2] # NotUtf8 /\ ByteOrderMark[3] # NotUtf8
  BY DEF ByteOrderMark, NotUtf8
<1>4. \A i \in 1..3 : i = 1 \/ i = 2 \/ i = 3 OBVIOUS
<1> QED BY <1>1, <1>2, <1>3, <1>4, Zenon DEF Sequence

\* What follows the third byte.
AfterThree(content, text) ==
    /\ Sequence(text) /\ Len(text) \in Nat /\ Len(text) <= Len(content)
    /\ \A i \in 1..Len(content) : i > 3 => i - 3 \in 1..Len(text) /\ text[i - 3] = content[i]
    /\ content = <<>> => text = <<>>

LEMMA FromThree ==
    ASSUME NEW content, Sequence(content)
    PROVE  AfterThree(content, From(content, 3))
<1>1. PICK S : content \in Seq(S) BY Zenon DEF Sequence
<1>2. Len(content) \in Nat BY Length
<1>3. PICK text : text = SubSeq(content, 4, Len(content)) OBVIOUS
<1>4. From(content, 3) = text BY <1>2, <1>3 DEF From, Slice
<1>5. CASE 4 <= Len(content)
  <2>1. text \in Seq(S) /\ Len(text) = Len(content) - 3 /\ \A i \in 1..Len(content) - 3 : text[i] = content[i + 3]
    BY <1>1, <1>2, <1>3, <1>5
  <2>2. Len(text) \in Nat /\ Len(text) <= Len(content) BY <1>2, <1>5, <2>1
  <2>3. \A i \in 1..Len(content) : i > 3 => i - 3 \in 1..Len(text) /\ text[i - 3] = content[i]
    BY <1>2, <2>1
  <2>4. content # <<>> BY <1>5
  <2>5. Sequence(text) BY <2>1, Zenon DEF Sequence
  <2> QED BY <1>4, <2>2, <2>3, <2>4, <2>5, Zenon DEF AfterThree
<1>6. CASE ~(4 <= Len(content))
  <2>1. text = <<>> BY <1>1, <1>2, <1>3, <1>6
  <2>2. Sequence(<<>>) BY Empty, <1>1
  <2>3. Len(<<>>) = 0 /\ 0 \in Nat /\ 0 <= Len(content) BY <1>2
  <2>4. \A i \in 1..Len(content) : ~(i > 3) BY <1>2, <1>6
  <2> QED BY <1>4, <2>1, <2>2, <2>3, <2>4, Zenon DEF AfterThree
<1> QED BY <1>5, <1>6

LEMMA MarkFirst ==
    ASSUME NEW content, Sequence(content), Slice(content, 0, 3) = ByteOrderMark
    PROVE  /\ content # <<>>
           /\ \A i \in 1..Len(content) : content[i] = NotUtf8 => i > 3
<1>1. PICK S : content \in Seq(S) BY Zenon DEF Sequence
<1>2. Len(content) \in Nat BY Length
<1>3. 3 <= Len(content)
  <2>1. CASE ~(3 <= Len(content))
    <3>1. Slice(content, 0, 3) = SubSeq(content, 1, Len(content)) BY <1>2, <2>1 DEF Slice
    <3>2. Len(SubSeq(content, 1, Len(content))) = Len(content) BY <1>1, <1>2
    <3>3. Len(ByteOrderMark) = 3 BY Mark, Zenon
    <3>4. Len(content) = 3 BY <3>1, <3>2, <3>3, Zenon
    <3>5. 3 <= 3 OBVIOUS
    <3> QED BY <2>1, <3>4, <3>5, Zenon
  <2> QED BY <2>1
<1>4. Slice(content, 0, 3) = SubSeq(content, 1, 3) BY <1>3 DEF Slice
<1>5. \A i \in 1..3 : SubSeq(content, 1, 3)[i] = content[i] BY <1>1, <1>2, <1>3
<1>6. \A i \in 1..3 : content[i] # NotUtf8 BY <1>4, <1>5, Mark, Zenon
<1>7. content # <<>> BY <1>2, <1>3
<1>8. \A i \in 1..Len(content) : ~(i > 3) => i \in 1..3 BY <1>2
<1> QED BY <1>6, <1>7, <1>8, Zenon

TextIn(content) == IF Slice(content, 0, 3) = ByteOrderMark THEN From(content, 3) ELSE content

LEMMA UndecodedIs ==
    ASSUME NEW content, Sequence(content)
    PROVE  Undecoded(content, TextIn(content))
<1>1. Len(content) \in Nat BY Length
<1>2. CASE Slice(content, 0, 3) = ByteOrderMark
  <2>1. PICK text : text = From(content, 3) OBVIOUS
  <2>2. AfterThree(content, text) BY <2>1, FromThree, Zenon
  <2>3. content # <<>> /\ \A i \in 1..Len(content) : content[i] = NotUtf8 => i > 3 BY <1>2, MarkFirst
  <2>4. ASSUME NotUtf8 \in ToSet(content) PROVE NotUtf8 \in ToSet(text)
    <3>1. PICK i \in DOMAIN content : content[i] = NotUtf8 BY <2>4 DEF ToSet
    <3>2. i \in 1..Len(content) BY <3>1, Length, Zenon
    <3>3. i - 3 \in 1..Len(text) /\ text[i - 3] = NotUtf8 BY <2>2, <2>3, <3>1, <3>2, Zenon DEF AfterThree
    <3>4. Sequence(text) BY <2>2, Zenon DEF AfterThree
    <3>5. i - 3 \in DOMAIN text BY <3>3, <3>4, Length, Zenon
    <3> QED BY <3>3, <3>5 DEF ToSet
  <2> QED BY <1>2, <2>1, <2>2, <2>3, <2>4, Zenon DEF Undecoded, TextIn, AfterThree
<1>3. CASE Slice(content, 0, 3) # ByteOrderMark
  <2>1. TextIn(content) = content BY <1>3, Zenon DEF TextIn
  <2>2. Len(content) <= Len(content) BY <1>1
  <2> QED BY <1>1, <2>1, <2>2, Zenon DEF Undecoded
<1> QED BY <1>2, <1>3

\* What TextDecoder makes of bytes.
DecodedAs(content, decoded) ==
    /\ Sequence(decoded) /\ Len(decoded) \in Nat /\ Len(decoded) <= Len(content)
    /\ \A i \in DOMAIN decoded : decoded[i] # NotUtf8
    /\ NotUtf8 \in ToSet(content) => \E i \in DOMAIN decoded : decoded[i] = Replacement
    /\ content = <<>> => decoded = <<>>

LEMMA DecodedIs ==
    ASSUME NEW content, Sequence(content)
    PROVE  DecodedAs(content, TextDecode(content))
<1>1. PICK text : text = TextIn(content) OBVIOUS
<1>2. Undecoded(content, text) BY <1>1, UndecodedIs, Zenon
<1>3. Sequence(text) /\ Len(text) \in Nat /\ DOMAIN text = 1..Len(text)
  BY <1>2, Length, Zenon DEF Undecoded
<1>4. PICK decoded : decoded = [i \in 1..Len(text) |-> IF text[i] = NotUtf8 THEN Replacement ELSE text[i]]
  OBVIOUS
<1>5. TextDecode(content) = decoded BY <1>1, <1>4, Zenon DEF TextDecode, TextIn
<1>6. \A i \in 1..Len(text) : decoded[i] = IF text[i] = NotUtf8 THEN Replacement ELSE text[i] BY <1>4, Zenon
<1>7. Sequence(decoded) /\ Len(decoded) = Len(text) /\ DOMAIN decoded = 1..Len(text)
  <2>1. decoded = [i \in 1..Len(text) |-> decoded[i]] BY <1>4, <1>6
  <2> QED BY <1>3, <2>1, Tabulated, Zenon
<1>8. Replacement # NotUtf8 BY DEF Replacement, NotUtf8
<1>9. \A i \in DOMAIN decoded : decoded[i] # NotUtf8 BY <1>6, <1>7, <1>8, Zenon
<1>10. ASSUME NotUtf8 \in ToSet(content) PROVE \E i \in DOMAIN decoded : decoded[i] = Replacement
  <2>1. NotUtf8 \in ToSet(text) BY <1>2, <1>10, Zenon DEF Undecoded
  <2>2. PICK i \in DOMAIN text : text[i] = NotUtf8 BY <2>1 DEF ToSet
  <2> QED BY <1>3, <1>6, <1>7, <2>2, Zenon
<1>11. content = <<>> => decoded = <<>>
  <2>1. ASSUME content = <<>> PROVE decoded = <<>>
    <3>1. text = <<>> BY <1>2, <2>1, Zenon DEF Undecoded
    <3>2. Len(text) = 0 BY <3>1
    <3>3. Len(decoded) = 0 BY <1>7, <3>2, Zenon
    <3> QED BY <1>7, <3>3, Empty, Zenon
  <2> QED BY <2>1
<1> QED BY <1>2, <1>5, <1>7, <1>9, <1>10, <1>11, Zenon DEF DecodedAs, Undecoded

\* Text of these types is shown as it is.
Textual(type) == type \in {JSON, UTF8}

LEMMA Shown ==
    ASSUME NEW content, NEW type
    PROVE  /\ Textual(type) /\ content # <<>> =>
                /\ decodeContentForDisplay(content, type) = TextDecode(content)
                /\ decode_content_for_display(content, type)
                   = IF NotUtf8 \in ToSet(content) THEN ByteCount(content) ELSE content
           /\ ~Textual(type) \/ content = <<>> =>
                decodeContentForDisplay(content, type) = decode_content_for_display(content, type)
<1>1. /\ None # JSON /\ None # UTF8 /\ IPFS # JSON /\ IPFS # UTF8 /\ Arweave # JSON /\ Arweave # UTF8
      /\ Encrypted # JSON /\ Encrypted # UTF8
  BY DEF None, JSON, UTF8, IPFS, Arweave, Encrypted
<1>2. ASSUME Textual(type), content # <<>>
      PROVE  /\ decodeContentForDisplay(content, type) = TextDecode(content)
             /\ decode_content_for_display(content, type)
                = IF NotUtf8 \in ToSet(content) THEN ByteCount(content) ELSE content
  <2>1. type # None /\ type # IPFS /\ type # Arweave /\ type # Encrypted /\ type \in {JSON, UTF8}
    BY <1>1, <1>2, Zenon DEF Textual
  <2> QED BY <1>2, <2>1 DEF decodeContentForDisplay, decode_content_for_display
<1>3. ASSUME ~Textual(type) \/ content = <<>>
      PROVE  decodeContentForDisplay(content, type) = decode_content_for_display(content, type)
  <2>1. CASE content = <<>>
    BY <2>1 DEF decodeContentForDisplay, decode_content_for_display
  <2>2. CASE ~Textual(type)
    BY <2>2 DEF decodeContentForDisplay, decode_content_for_display, Textual
  <2> QED BY <1>3, <2>1, <2>2
<1> QED BY <1>2, <1>3

\* A number of bytes is one word of text, and not the replacement of a byte.
LEMMA CountShown ==
    ASSUME NEW content
    PROVE  /\ Sequence(ByteCount(content)) /\ Len(ByteCount(content)) = 1
           /\ \A i \in DOMAIN ByteCount(content) : ByteCount(content)[i] # Replacement
<1>1. PICK s : s = <<ToString(Len(content)), "bytes">> OBVIOUS
<1>2. ByteCount(content) = <<s>> BY <1>1, Zenon DEF ByteCount
<1>3. s # Replacement BY <1>1 DEF Replacement
<1>4. Sequence(<<s>>) /\ Len(<<s>>) = 1 /\ <<s>>[1] = s BY Singleton
<1>5. \A i \in DOMAIN <<s>> : <<s>>[i] # Replacement BY <1>3
<1> QED BY <1>2, <1>4, <1>5, Zenon

\* The two sides show the same, unless it is text that TextDecoder changes.
LEMMA ShownAlike ==
    ASSUME NEW content, Sequence(content), NEW type
    PROVE  decodeContentForDisplay(content, type) = decode_content_for_display(content, type)
           <=> ~(Textual(type) /\ Altered(content))
<1>1. DecodedAs(content, TextDecode(content)) BY DecodedIs, Zenon
<1>2. CASE ~Textual(type) BY <1>2, Shown, Zenon
<1>3. CASE content = <<>>
  <2>1. TextDecode(content) = content BY <1>1, <1>3, Zenon DEF DecodedAs
  <2> QED BY <1>3, <2>1, Shown, Zenon DEF Altered
<1>4. CASE Textual(type) /\ content # <<>>
  <2>1. /\ decodeContentForDisplay(content, type) = TextDecode(content)
        /\ decode_content_for_display(content, type)
           = IF NotUtf8 \in ToSet(content) THEN ByteCount(content) ELSE content
    BY <1>4, Shown, Zenon
  <2>2. CASE NotUtf8 \notin ToSet(content) BY <1>4, <2>1, <2>2, Zenon DEF Altered
  <2>3. CASE NotUtf8 \in ToSet(content)
    <3>1. TextDecode(content) # ByteCount(content) BY <1>1, <2>3, CountShown, Zenon DEF DecodedAs
    <3>2. PICK i \in DOMAIN content : content[i] = NotUtf8 BY <2>3 DEF ToSet
    <3>3. TextDecode(content) # content BY <1>1, <3>2, Zenon DEF DecodedAs
    <3> QED BY <1>4, <2>1, <2>3, <3>1, <3>3, Zenon DEF Altered
  <2> QED BY <2>2, <2>3
<1> QED BY <1>2, <1>3, <1>4

\* What is shown is not longer than what it stands for, or short.
ShortShown(shown, content) == Sequence(shown) /\ Len(shown) \in Nat /\ Len(shown) <= Len(content) + 2

LEMMA WordsAre ==
    ASSUME NEW x, NEW y
    PROVE  /\ Sequence(<<x>>) /\ Len(<<x>>) = 1 /\ Sequence(<<x>> \o <<y>>) /\ Len(<<x>> \o <<y>>) = 2
<1>1. PICK w : w = <<x, y>> OBVIOUS
<1>2. <<x>> \o <<y>> = w BY <1>1, Paired
<1>3. w \in Seq({x, y}) /\ Len(w) = 2 BY <1>1
<1> QED BY <1>2, <1>3, Singleton, Zenon DEF Sequence

LEMMA ShownShort ==
    ASSUME NEW content, Sequence(content), NEW type
    PROVE  /\ ShortShown(decodeContentForDisplay(content, type), content)
           /\ ShortShown(decode_content_for_display(content, type), content)
<1>1. Len(content) \in Nat BY Length
<1>2. 0 <= Len(content) + 2 /\ 1 <= Len(content) + 2 /\ 2 <= Len(content) + 2 /\ 1 \in Nat /\ 2 \in Nat
      /\ Len(content) <= Len(content) + 2
  BY <1>1
<1>3. \A x : ShortShown(<<x>>, content) BY <1>2, Singleton, Zenon DEF ShortShown
<1>4. \A x, y : ShortShown(<<x>> \o <<y>>, content) BY <1>2, WordsAre, Zenon DEF ShortShown
<1>5. ShortShown(content, content) BY <1>1, <1>2, Zenon DEF ShortShown
<1>6. ShortShown(TextDecode(content), content)
  <2>1. DecodedAs(content, TextDecode(content)) BY DecodedIs, Zenon
  <2>2. PICK n : n = Len(TextDecode(content)) OBVIOUS
  <2>3. n \in Nat /\ n <= Len(content) BY <2>1, <2>2, Zenon DEF DecodedAs
  <2>4. n <= Len(content) + 2 BY <1>1, <2>3
  <2> QED BY <2>1, <2>2, <2>3, <2>4, Zenon DEF DecodedAs, ShortShown
<1>7. /\ ShortShown(Nothing, content) /\ ShortShown(ByteCount(content), content) /\ ShortShown(Opaque, content)
      /\ \A b : ShortShown(<< <<"ipfs://">> >> \o Base58(b), content)
      /\ \A b : ShortShown(<< <<"ar://">> >> \o Base58(b), content)
  BY <1>3, <1>4, Zenon DEF Nothing, ByteCount, Opaque, Base58
<1>8. PICK a : a = decodeContentForDisplay(content, type) OBVIOUS
<1>9. \/ a \in {Nothing, TextDecode(content), Opaque, ByteCount(content)}
      \/ a = << <<"ipfs://">> >> \o Base58(content) \/ a = << <<"ar://">> >> \o Base58(content)
  BY <1>8, SMTT(30) DEF decodeContentForDisplay
<1>10. PICK b : b = decode_content_for_display(content, type) OBVIOUS
<1>11. \/ b \in {Nothing, content, Opaque, ByteCount(content)}
       \/ b = << <<"ipfs://">> >> \o Base58(content) \/ b = << <<"ar://">> >> \o Base58(content)
  BY <1>10 DEF decode_content_for_display
<1>12. ShortShown(a, content) BY <1>6, <1>7, <1>9, Zenon
<1>13. ShortShown(b, content) BY <1>5, <1>7, <1>11, Zenon
<1> QED BY <1>8, <1>10, <1>12, <1>13, Zenon

\* One piece between two others.
Between(u, p, d, z) == u = p \o d \o z

Enclosed(u, p, d, z) ==
    Sequence(u) /\ Len(u) = Len(p) + Len(d) + Len(z) /\ Located(u, 0, p) /\ Located(u, Len(p), d)

LEMMA PieceBetween ==
    ASSUME NEW p, NEW d, NEW z, Sequence(p), Sequence(d), Sequence(z), NEW u, Between(u, p, d, z)
    PROVE  Enclosed(u, p, d, z)
<1>1. PICK q : q = p \o d OBVIOUS
<1>2. Sequence(q) /\ Len(q) = Len(p) + Len(d) /\ Located(q, 0, p) /\ Located(q, Len(p), d)
  BY <1>1, Appended
<1>3. u = q \o z BY <1>1, Zenon DEF Between
<1>4. Sequence(u) /\ Len(u) = Len(q) + Len(z) /\ Located(u, 0, q) BY <1>2, <1>3, Appended
<1>5. Located(u, 0 + 0, p) /\ Located(u, 0 + Len(p), d) BY <1>2, <1>4, Nested, Zenon
<1>6. Len(p) \in Nat BY Length
<1>7. 0 + 0 = 0 /\ 0 + Len(p) = Len(p) BY <1>6
<1>8. Len(u) = Len(p) + Len(d) + Len(z) BY <1>2, <1>4
<1> QED BY <1>4, <1>5, <1>7, <1>8, Zenon DEF Enclosed

LEMMA SameSum == \A a \in Nat, b \in Nat, c \in Nat, k \in Nat : a + b + k = a + c + k => b = c
OBVIOUS

LEMMA Cancelled ==
    ASSUME NEW p, NEW d, NEW e, NEW z, Sequence(p), Sequence(d), Sequence(e), Sequence(z),
           NEW u, Between(u, p, d, z), Between(u, p, e, z)
    PROVE  d = e
<1>0. Enclosed(u, p, d, z) /\ Enclosed(u, p, e, z) BY PieceBetween, Zenon
<1>1. Len(u) = Len(p) + Len(d) + Len(z) /\ Located(u, Len(p), d) BY <1>0, Zenon DEF Enclosed
<1>2. Len(u) = Len(p) + Len(e) + Len(z) /\ Located(u, Len(p), e) BY <1>0, Zenon DEF Enclosed
<1>3. Len(p) \in Nat /\ Len(d) \in Nat /\ Len(e) \in Nat /\ Len(z) \in Nat BY Length
<1>4. Len(d) = Len(e) BY <1>1, <1>2, <1>3, SameSum
<1>5. \A i \in 1..Len(d) : d[i] = e[i] BY <1>1, <1>2, <1>4, Zenon DEF Located
<1> QED BY <1>4, <1>5, Equal, Zenon

\* The words before the details of a message.
Opening(schemaName, agent, task, label) ==
    << <<"SATI">> \o schemaName>> \o Base58(agent) \o Base58(task) \o label

LEMMA OpeningIs ==
    ASSUME NEW schemaName, NEW agent, NEW task, NEW l, NEW p, p = Opening(schemaName, agent, task, <<l>>)
    PROVE  Sequence(p) /\ Len(p) = 4 /\ Located(p, 0, << <<"SATI">> \o schemaName>>)
<1>1. PICK a, b, c, d : /\ a = << <<"SATI">> \o schemaName>> /\ b = Base58(agent) /\ c = Base58(task)
                        /\ d = <<l>>
  OBVIOUS
<1>2. Sequence(a) /\ Sequence(b) /\ Sequence(c) /\ Sequence(d)
      /\ Len(a) = 1 /\ Len(b) = 1 /\ Len(c) = 1 /\ Len(d) = 1
  BY <1>1, Singleton, Zenon DEF Base58
<1>3. p = a \o b \o c \o d BY <1>1, Zenon DEF Opening
<1>4. Pieces4(p, a, b, c, d) BY <1>2, <1>3, Four
<1>5. Len(p) = 1 + 1 + 1 + 1 BY <1>2, <1>4, Zenon DEF Pieces4
<1>6. Len(p) = 4 BY <1>5
<1> QED BY <1>1, <1>4, <1>6, Zenon DEF Pieces4

Closing == << <<"Sign to create this attestation.">> >>

LEMMA SiwsIs ==
    ASSUME NEW schemaName, NEW agent, NEW task, NEW label, NEW details
    PROVE  Siws(schemaName, agent, task, label, details)
           = Opening(schemaName, agent, task, label) \o details \o Closing
BY Zenon DEF Siws, Opening, Closing

\* A message: where it begins, and how long it is.
MessageOf(m, schemaName, n) ==
    /\ Sequence(m) /\ Len(m) = n + 5 /\ Located(m, 0, << <<"SATI">> \o schemaName>>)

LEMMA SiwsKnown ==
    ASSUME NEW schemaName, NEW agent, NEW task, NEW l, NEW details, Sequence(details),
           NEW m, m = Siws(schemaName, agent, task, <<l>>, details)
    PROVE  MessageOf(m, schemaName, Len(details))
<1>1. PICK p : p = Opening(schemaName, agent, task, <<l>>) OBVIOUS
<1>2. Sequence(p) /\ Len(p) = 4 /\ Located(p, 0, << <<"SATI">> \o schemaName>>) BY <1>1, OpeningIs, Zenon
<1>3. Sequence(Closing) /\ Len(Closing) = 1 BY Singleton DEF Closing
<1>4. Between(m, p, details, Closing) BY <1>1, SiwsIs, Zenon DEF Between
<1>5. Sequence(m) /\ Len(m) = Len(p) + Len(details) + Len(Closing) /\ Located(m, 0, p)
  <2>1. Enclosed(m, p, details, Closing) BY <1>2, <1>3, <1>4, PieceBetween, Zenon
  <2> QED BY <2>1, Zenon DEF Enclosed
<1>6. Len(details) \in Nat BY Length
<1>7. \A n \in Nat : 4 + n + 1 = n + 5 OBVIOUS
<1>8. Len(m) = Len(details) + 5 BY <1>2, <1>3, <1>5, <1>6, <1>7, Zenon
<1>9. Located(m, 0 + 0, << <<"SATI">> \o schemaName>>) BY <1>2, <1>5, Nested, Zenon
<1>10. 0 + 0 = 0 OBVIOUS
<1> QED BY <1>5, <1>8, <1>9, <1>10, Zenon DEF MessageOf

\* Messages that say the same say it with the same details.
Alike(u, v, d, e) == u = v <=> d = e

LEMMA SiwsAlike ==
    ASSUME NEW schemaName, NEW agent, NEW task, NEW l, NEW d, Sequence(d), NEW e, Sequence(e)
    PROVE  Alike(Siws(schemaName, agent, task, <<l>>, d), Siws(schemaName, agent, task, <<l>>, e), d, e)
<1>1. PICK u, v : u = Siws(schemaName, agent, task, <<l>>, d) /\ v = Siws(schemaName, agent, task, <<l>>, e)
  OBVIOUS
<1>2. ASSUME u = v PROVE d = e
  <2>1. PICK p : p = Opening(schemaName, agent, task, <<l>>) OBVIOUS
  <2>2. Sequence(p) BY <2>1, OpeningIs, Zenon
  <2>3. PICK z : z = Closing OBVIOUS
  <2>4. Sequence(z) BY <2>3, Singleton DEF Closing
  <2>5. Between(u, p, d, z) /\ Between(u, p, e, z) BY <1>1, <1>2, <2>1, <2>3, SiwsIs, Zenon DEF Between
  <2> QED BY <2>2, <2>4, <2>5, Cancelled, Zenon
<1>3. d = e => u = v BY <1>1, Zenon
<1>4. Alike(u, v, d, e) BY <1>2, <1>3, Zenon DEF Alike
<1> QED BY <1>1, <1>4, Zenon

\* What is written out of words, and hashed, is a word again.
LEMMA FlatIs == \A p : FlattenSeq(p) = R!Flat(p)
BY Zenon DEF FlattenSeq, R!Flat

LEMMA WordsJoined ==
    ASSUME NEW b, Bytes(b)
    PROVE  Sequence(FlattenSeq(b))
<1>1. R!Sequences(b) BY Zenon DEF Bytes, R!Sequences, R!Sequence, Sequence
<1>2. R!Sequence(R!Flat(b)) BY <1>1, R!FlatIsSequence, RNumbers, RInductive, Zenon
<1> QED BY <1>2, FlatIs, Zenon DEF R!Sequence, Sequence

LEMMA FrontIs ==
    ASSUME NEW s, Sequence(s)
    PROVE  Sequence(Front(s))
<1>1. PICK S : s \in Seq(S) BY DEF Sequence
<1>2. SubSeq(s, 1, Len(s) - 1) \in Seq(S) BY <1>1
<1> QED BY <1>2 DEF Front, Sequence

LEMMA SpellIs ==
    ASSUME NEW b, Bytes(b)
    PROVE  Sequence(Spell(b))
<1>1. Sequence(FlattenSeq(b)) BY WordsJoined, Zenon
<1>2. CASE Len(b) = 32
  <2>1. 2 \in 1..32 OBVIOUS
  <2>2. Sequence(b[2]) BY <1>2, <2>1, Zenon DEF Bytes
  <2>3. Sequence(Front(b[2])) BY <2>2, FrontIs, Zenon
  <2> QED BY <1>1, <1>2, <2>3, Zenon DEF Spell
<1>3. CASE Len(b) # 32 BY <1>1, <1>3, Zenon DEF Spell
<1> QED BY <1>2, <1>3

LEMMA KeccakIs ==
    ASSUME NEW p, Sequence(p), \A i \in 1..Len(p) : Bytes(p[i])
    PROVE  \E x : Sequence(x) /\ Keccak(p) = addressToBytes(<<"keccak">> \o x)
<1>1. PICK q : q = [i \in DOMAIN p |-> Spell(p[i])] OBVIOUS
<1>2. Len(p) \in Nat /\ DOMAIN p = 1..Len(p) BY Length
<1>3. q = [i \in 1..Len(p) |-> q[i]] /\ \A i \in 1..Len(p) : q[i] = Spell(p[i])
  <2>1. \A i \in 1..Len(p) : q[i] = Spell(p[i]) BY <1>1, <1>2, Zenon
  <2>2. q = [i \in 1..Len(p) |-> q[i]] BY <1>1, <1>2, <2>1
  <2> QED BY <2>1, <2>2
<1>4. Sequence(q) /\ Len(q) = Len(p) BY <1>2, <1>3, Tabulated, Zenon
<1>5. \A i \in 1..Len(q) : Sequence(q[i]) BY <1>3, <1>4, SpellIs, SMT
<1>6. Bytes(q) BY <1>4, <1>5, Zenon DEF Bytes
<1>7. Sequence(FlattenSeq(q)) BY <1>6, WordsJoined, Zenon
<1>8. Keccak(p) = addressToBytes(<<"keccak">> \o FlattenSeq(q)) BY <1>1, Zenon DEF Keccak
<1> QED BY <1>7, <1>8, Zenon

\* A hash is a word whose bytes begin with the name of the function.
Hashed(h) == \E x : Sequence(x) /\ h = addressToBytes(<<"keccak">> \o x)

LEMMA HashedBegins ==
    ASSUME NEW h, Hashed(h)
    PROVE  Sequence(h) /\ Len(h) = 32 /\ Bytes(h) /\ h[1][1] = "keccak"
<1>1. PICK x : Sequence(x) /\ h = addressToBytes(<<"keccak">> \o x) BY Zenon DEF Hashed
<1>2. PICK k : k = <<"keccak">> OBVIOUS
<1>3. Sequence(k) /\ Len(k) = 1 /\ k[1] = "keccak" BY <1>2, Singleton, Zenon
<1>4. PICK a : a = k \o x OBVIOUS
<1>5. Joined(a, k, x) BY <1>1, <1>3, <1>4, Joining
<1>6. Sequence(a) /\ a[1] = "keccak" /\ Len(a) = 1 + Len(x)
  <2>1. 1 \in 1..1 OBVIOUS
  <2> QED BY <1>3, <1>5, <2>1, Zenon DEF Joined
<1>7. PICK n : n = Number(1) OBVIOUS
<1>8. PICK w : w = a \o n OBVIOUS
<1>9. Sequence(n) BY <1>7, NumberIs, Zenon
<1>10. Joined(w, a, n) BY <1>6, <1>8, <1>9, Joining
<1>11. Len(x) \in Nat BY <1>1, Length, Zenon
<1>12. 1 \in 1..Len(a) BY <1>6, <1>11
<1>13. w[1] = "keccak" BY <1>6, <1>10, <1>12, Zenon DEF Joined
<1>14. h = addressToBytes(a) BY <1>1, <1>2, <1>4, Zenon
<1>15. 1 \in 1..32 OBVIOUS
<1>16. h[1] = w BY <1>7, <1>8, <1>14, <1>15, Address, Zenon
<1>17. Sequence(h) /\ Len(h) = 32 /\ Bytes(h) BY <1>6, <1>14, AddressBytes, Address, Zenon
<1> QED BY <1>13, <1>16, <1>17, Zenon

-----------------------------------------------------------------------------
(* What the parties of a draft sign, and what the program expects of them     *)

HashOf(d) == computeInteractionHash(SasSchema, d.taskRef, d.dataHash)
Readable(data) == buildCounterpartyMessage(SchemaName, data)
Expected(data) == build_siws_message(SchemaName, data)

LEMMA HashOfIs ==
    ASSUME NEW d, DraftFine(d)
    PROVE  Hashed(HashOf(d))
<1>1. PICK a, b, c, e : /\ a = << <<"SATI:interaction:v1">> >> /\ b = addressToBytes(SasSchema)
                        /\ c = d.taskRef /\ e = d.dataHash
  OBVIOUS
<1>2. Bytes(a)
  <2>1. PICK w : w = <<"SATI:interaction:v1">> OBVIOUS
  <2>2. Sequence(w) BY <2>1, Singleton
  <2>3. a = <<w>> BY <1>1, <2>1
  <2>4. Sequence(a) /\ Len(a) = 1 /\ a[1] = w BY <2>3, Singleton
  <2>5. \A i \in 1..1 : i = 1 OBVIOUS
  <2> QED BY <2>2, <2>4, <2>5, Zenon DEF Bytes
<1>3. Bytes(b)
  <2>1. Sequence(SasSchema) BY Singleton DEF SasSchema
  <2> QED BY <1>1, <2>1, AddressBytes, Zenon
<1>4. Bytes(c)
  <2>1. PICK t : t = <<"task">> OBVIOUS
  <2>2. Sequence(t) BY <2>1, Singleton
  <2>3. d.taskRef = addressToBytes(t) BY <2>1, Zenon DEF DraftFine
  <2> QED BY <1>1, <2>2, <2>3, AddressBytes, Zenon
<1>5. Bytes(e) BY <1>1, Zenon DEF DraftFine
<1>6. PICK p : p = <<a, b, c, e>> OBVIOUS
<1>7. p \in Seq({a, b, c, e}) /\ Len(p) = 4 /\ \A i \in 1..4 : p[i] \in {a, b, c, e} BY <1>6
<1>8. Sequence(p) BY <1>7, Zenon DEF Sequence
<1>9. \A i \in 1..Len(p) : Bytes(p[i]) BY <1>2, <1>3, <1>4, <1>5, <1>7, Zenon
<1>10. \E x : Sequence(x) /\ Keccak(p) = addressToBytes(<<"keccak">> \o x) BY <1>8, <1>9, KeccakIs, Zenon
<1>11. HashOf(d) = Keccak(p) BY <1>1, <1>6, Zenon DEF HashOf, computeInteractionHash
<1> QED BY <1>10, <1>11, Zenon DEF Hashed

\* The program and the SDK fill in the same form.
FormOf(d, details) ==
    Siws(SchemaName, addressToBytes(d.tokenAccount), d.taskRef, OutcomeLabel(d.outcome), details)
MessagesOf(d, data) ==
    /\ Readable(data) = FormOf(d, decodeContentForDisplay(d.content, d.contentType))
    /\ Expected(data) = FormOf(d, decode_content_for_display(d.content, d.contentType))
    /\ compute_interaction_hash(SasSchema, Slice(data, 1, 33), Slice(data, 98, 130)) = HashOf(d)

LEMMA TheOffsets ==
    /\ ProgramOffsets.TASK_REF = 1 /\ ProgramOffsets.TOKEN_ACCOUNT = 33 /\ ProgramOffsets.COUNTERPARTY = 65
    /\ ProgramOffsets.OUTCOME = 97 /\ ProgramOffsets.DATA_HASH = 98 /\ ProgramOffsets.CONTENT_TYPE = 130
    /\ ProgramOffsets.CONTENT = 131
    /\ OFFSETS.TASK_REF = 1 /\ OFFSETS.TOKEN_ACCOUNT = 33 /\ OFFSETS.COUNTERPARTY = 65
    /\ OFFSETS.OUTCOME = 97 /\ OFFSETS.CONTENT_TYPE = 130 /\ OFFSETS.CONTENT = 131
BY DEF ProgramOffsets, OFFSETS

LEMMA MessagesAre ==
    ASSUME NEW d, DraftFine(d), FitsMode(d), NEW data, data = serializeUniversalLayout(d)
    PROVE  MessagesOf(d, data)
<1>1. DraftReads(d, data) BY DraftRead, Zenon
<1>2. /\ Slice(data, 1, 33) = d.taskRef /\ Slice(data, 33, 65) = addressToBytes(d.tokenAccount)
      /\ Slice(data, 98, 130) = d.dataHash /\ From(data, 131) = d.content
      /\ At(data, 97) = d.outcome /\ At(data, 130) = d.contentType
  BY <1>1, Zenon DEF DraftReads, ReadsAs
<1>3. Readable(data) = FormOf(d, decodeContentForDisplay(d.content, d.contentType))
  BY <1>2, TheOffsets, Zenon DEF Readable, buildCounterpartyMessage, FormOf
<1>4. Expected(data) = FormOf(d, decode_content_for_display(d.content, d.contentType))
  BY <1>2, TheOffsets, Zenon DEF Expected, build_siws_message, FormOf
<1>5. compute_interaction_hash(SasSchema, Slice(data, 1, 33), Slice(data, 98, 130)) = HashOf(d)
  BY <1>2, Zenon DEF compute_interaction_hash, HashOf, computeInteractionHash
<1> QED BY <1>3, <1>4, <1>5, Zenon DEF MessagesOf

LEMMA FormKnown ==
    ASSUME NEW d, NEW details, Sequence(details), NEW m, m = FormOf(d, details)
    PROVE  MessageOf(m, SchemaName, Len(details))
<1>1. PICK l : OutcomeLabel(d.outcome) = <<l>> BY Zenon DEF OutcomeLabel
<1>2. m = Siws(SchemaName, addressToBytes(d.tokenAccount), d.taskRef, <<l>>, details)
  BY <1>1, Zenon DEF FormOf
<1> QED BY <1>2, SiwsKnown, Zenon

LEMMA FormsAlike ==
    ASSUME NEW d, NEW a, Sequence(a), NEW b, Sequence(b)
    PROVE  FormOf(d, a) = FormOf(d, b) <=> a = b
<1>1. PICK l : OutcomeLabel(d.outcome) = <<l>> BY Zenon DEF OutcomeLabel
<1>2. PICK t, k : t = addressToBytes(d.tokenAccount) /\ k = d.taskRef OBVIOUS
<1>3. PICK u, v : u = Siws(SchemaName, t, k, <<l>>, a) /\ v = Siws(SchemaName, t, k, <<l>>, b) OBVIOUS
<1>4. FormOf(d, a) = u /\ FormOf(d, b) = v BY <1>1, <1>2, <1>3, Zenon DEF FormOf
<1>5. Alike(u, v, a, b) BY <1>3, SiwsAlike, Zenon
<1>6. u = v <=> a = b BY <1>5, Zenon DEF Alike
<1> QED BY <1>4, <1>6

\* A text to be signed is not a hash, and fits an instruction.
TextFine(m) ==
    /\ Sequence(m) /\ Len(m) \in Nat /\ Len(m) <= 247 /\ \A h : Hashed(h) => h # m

LEMMA TextsDiffer ==
    ASSUME NEW h, Hashed(h), NEW m, NEW n, MessageOf(m, SchemaName, n)
    PROVE  h # m
<1>1. h[1][1] = "keccak" BY HashedBegins, Zenon
<1>2. PICK w : w = <<"SATI">> \o SchemaName OBVIOUS
<1>3. w[1] = "SATI"
  <2>1. Sequence(SchemaName) BY Singleton DEF SchemaName
  <2> QED BY <1>2, <2>1, Prepended, Zenon
<1>4. Located(m, 0, <<w>>) BY <1>2, Zenon DEF MessageOf
<1>5. m[0 + 1] = w BY <1>4, OneByte, Zenon
<1>6. 0 + 1 = 1 OBVIOUS
<1>7. m[1][1] = "SATI" BY <1>3, <1>5, <1>6, Zenon
<1> QED BY <1>1, <1>7

LEMMA TextLengths247 == \A a \in Nat, b \in Nat : a <= 240 /\ b <= a + 2 => b + 5 \in Nat /\ b + 5 <= 247
OBVIOUS

LEMMA TextIsFine ==
    ASSUME NEW d, Len(d.content) \in Nat, Len(d.content) <= 240, NEW details, ShortShown(details, d.content),
           NEW m, m = FormOf(d, details)
    PROVE  TextFine(m)
<1>1. Sequence(details) /\ Len(details) \in Nat /\ Len(details) <= Len(d.content) + 2
  BY Zenon DEF ShortShown
<1>2. MessageOf(m, SchemaName, Len(details)) BY <1>1, FormKnown, Zenon
<1>3. Sequence(m) /\ Len(m) = Len(details) + 5 BY <1>2, Zenon DEF MessageOf
<1>4. Len(details) + 5 \in Nat /\ Len(details) + 5 <= 247 BY <1>1, TextLengths247, Zenon
<1>5. Len(m) \in Nat /\ Len(m) <= 247 BY <1>3, <1>4
<1>6. \A h : Hashed(h) => h # m BY <1>2, TextsDiffer, Zenon
<1>7. PICK u : u = m OBVIOUS
<1>8. Sequence(u) /\ Len(u) \in Nat /\ Len(u) <= 247 /\ \A h : Hashed(h) => h # u
  BY <1>3, <1>5, <1>6, <1>7
<1>9. TextFine(u) BY <1>8, Zenon DEF TextFine
<1> QED BY <1>7, <1>9

\* What is known of the texts of a draft.
TextsKnown(d, data) ==
    /\ TextFine(Readable(data)) /\ TextFine(Expected(data))
    /\ Readable(data) = Expected(data) <=> ~(Textual(d.contentType) /\ Altered(d.content))

LEMMA TextsAre ==
    ASSUME NEW d, DraftFine(d), FitsMode(d), NEW data, data = serializeUniversalLayout(d)
    PROVE  TextsKnown(d, data)
<1>1. MessagesOf(d, data) BY MessagesAre, Zenon
<1>2. Sequence(d.content) /\ Len(d.content) \in Nat BY Zenon DEF DraftFine, WrittenFine
<1>3. Len(d.content) <= 240
  <2>1. Bounded(Len(d.content), d.mode = DualSignature) BY <1>2, ContentBounded, Zenon
  <2> QED BY <2>1, Zenon DEF Bounded
<1>4. PICK c, k : c = d.content /\ k = d.contentType OBVIOUS
<1>5. PICK a, b : a = decodeContentForDisplay(c, k) /\ b = decode_content_for_display(c, k) OBVIOUS
<1>6. ShortShown(a, c) /\ ShortShown(b, c) BY <1>2, <1>4, <1>5, ShownShort, Zenon
<1>7. Readable(data) = FormOf(d, a) /\ Expected(data) = FormOf(d, b) BY <1>1, <1>4, <1>5, Zenon DEF MessagesOf
<1>8. TextFine(Readable(data)) /\ TextFine(Expected(data)) BY <1>2, <1>3, <1>4, <1>6, <1>7, TextIsFine, Zenon
<1>9. a = b <=> ~(Textual(k) /\ Altered(c)) BY <1>2, <1>4, <1>5, ShownAlike, Zenon
<1>10. Sequence(a) /\ Sequence(b) BY <1>6, Zenon DEF ShortShown
<1>11. FormOf(d, a) = FormOf(d, b) <=> a = b BY <1>10, FormsAlike, Zenon
<1> QED BY <1>4, <1>7, <1>8, <1>9, <1>11, Zenon DEF TextsKnown

-----------------------------------------------------------------------------
(* What is signed, and what the program makes of it                          *)

\* The signature of a party, as the program reads it.
SignatureBy(signer, message) == [pubkey |-> signer, sig |-> Ed25519Signature(signer), message |-> message]

LEMMA SignatureIs ==
    ASSUME NEW signer
    PROVE  Sequence(Ed25519Signature(signer)) /\ Len(Ed25519Signature(signer)) = 64
<1>1. PICK f : f = Ed25519Signature(signer) OBVIOUS
<1>2. f = [i \in 1..64 |-> f[i]] BY <1>1 DEF Ed25519Signature
<1>3. Sequence(f) /\ Len(f) = 64
  <2>1. 64 \in Nat OBVIOUS
  <2> QED BY <1>2, <2>1, Tabulated, Zenon
<1> QED BY <1>1, <1>3

Entered(e, signer, message) ==
    EntryOf(e, signer) /\ e.message = message /\ Signed(e, signer) = SignatureBy(signer, message)

LEMMA EntryIs ==
    ASSUME NEW signer \in {Client, Owner, Mint}, NEW message, Sequence(message)
    PROVE  Entered(Entry(signer, message), signer, message)
<1>1. Sequence(signer)
  <2>1. signer \in {Client, Owner, Mint, SasSchema, <<"task">>, <<"ephemeral">>} OBVIOUS
  <2> QED BY <2>1, PartiesBack
<1>2. PICK e : e = Entry(signer, message) OBVIOUS
<1>3. /\ e.publicKey = addressToBytes(signer) /\ e.message = message /\ e.signature = Ed25519Signature(signer)
  BY <1>2, Zenon DEF Entry
<1>4. Len(message) \in Nat BY Length, Zenon
<1>5. Sequence(addressToBytes(signer)) /\ Len(addressToBytes(signer)) = 32 BY Address, Zenon
<1>6. EntryOf(e, signer)
  <2>1. PICK k, g : k = addressToBytes(signer) /\ g = Ed25519Signature(signer) OBVIOUS
  <2>2. Sequence(k) /\ Len(k) = 32 /\ Sequence(g) /\ Len(g) = 64 BY <1>5, <2>1, SignatureIs
  <2>3. e.publicKey = k /\ e.signature = g BY <1>3, <2>1
  <2>4. EntryFine(e) BY <1>3, <1>4, <2>2, <2>3, Zenon DEF EntryFine
  <2> QED BY <1>1, <1>3, <2>4, Zenon DEF EntryOf
<1>7. Signed(e, signer) = SignatureBy(signer, message) BY <1>3, Zenon DEF Signed, SignatureBy
<1> QED BY <1>2, <1>3, <1>6, <1>7, Zenon DEF Entered

\* The Ed25519 instructions of a feedback.
Carried(d, data, batched) ==
    IF batched THEN <<createBatchEd25519Instruction(Ed25519Entries(d, data))>>
    ELSE [i \in DOMAIN Ed25519Entries(d, data) |-> createEd25519Instruction(Ed25519Entries(d, data)[i])]

\* What each party signs, in the order of the roles.
Pledged(d, data) ==
    IF d.mode = DualSignature
    THEN <<SignatureBy(Owner, HashOf(d)), SignatureBy(d.counterparty, Readable(data))>>
    ELSE IF d.mode = CounterpartySigned THEN <<SignatureBy(d.counterparty, Readable(data))>>
    ELSE <<SignatureBy(Owner, HashOf(d))>>

LEMMA ModesDiffer ==
    /\ DualSignature # CounterpartySigned /\ DualSignature # AgentOwnerSigned
    /\ CounterpartySigned # AgentOwnerSigned
BY DEF DualSignature, CounterpartySigned, AgentOwnerSigned

LEMMA OneOf ==
    ASSUME NEW e, NEW x
    PROVE  e = <<x>> => /\ [i \in DOMAIN e |-> createEd25519Instruction(e[i])] = <<createEd25519Instruction(x)>>
                        /\ e[1] = x /\ Len(e) = 1
OBVIOUS

LEMMA TwoOf ==
    ASSUME NEW e, NEW x, NEW y
    PROVE  e = <<x, y>> =>
             /\ [i \in DOMAIN e |-> createEd25519Instruction(e[i])]
                = <<createEd25519Instruction(x), createEd25519Instruction(y)>>
             /\ e[1] = x /\ e[2] = y /\ Len(e) = 2
<1>1. ASSUME e = <<x, y>>
      PROVE  [i \in DOMAIN e |-> createEd25519Instruction(e[i])]
             = <<createEd25519Instruction(x), createEd25519Instruction(y)>>
  <2>1. PICK u, v : u = createEd25519Instruction(x) /\ v = createEd25519Instruction(y) OBVIOUS
  <2>2. DOMAIN e = {1, 2} /\ e[1] = x /\ e[2] = y BY <1>1
  <2>3. PICK f : f = [i \in DOMAIN e |-> createEd25519Instruction(e[i])] OBVIOUS
  <2>4. f[1] = u /\ f[2] = v
    <3>1. 1 \in {1, 2} /\ 2 \in {1, 2} OBVIOUS
    <3> QED BY <2>1, <2>2, <2>3, <3>1, Zenon
  <2>5. f = [i \in {1, 2} |-> f[i]]
    <3>1. \A i \in {1, 2} : f[i] = createEd25519Instruction(e[i]) BY <2>2, <2>3, Zenon
    <3> QED BY <2>2, <2>3, <3>1
  <2>6. f = <<u, v>> BY <2>4, <2>5
  <2> QED BY <2>1, <2>3, <2>6
<1>2. e = <<x, y>> => e[1] = x /\ e[2] = y /\ Len(e) = 2 OBVIOUS
<1> QED BY <1>1, <1>2

LEMMA OneCarried ==
    ASSUME NEW d, NEW data, NEW batched \in BOOLEAN, NEW signer \in {Client, Owner, Mint}, NEW m, Sequence(m),
           Len(m) \in Nat, Len(m) <= 247, Ed25519Entries(d, data) = <<Entry(signer, m)>>
    PROVE  AllOf(Carried(d, data, batched)) = <<SignatureBy(signer, m)>>
<1>1. PICK e : e = Entry(signer, m) OBVIOUS
<1>2. Entered(e, signer, m) BY <1>1, EntryIs, Zenon
<1>3. EntryOf(e, signer) /\ e.message = m /\ Signed(e, signer) = SignatureBy(signer, m)
  BY <1>2, Zenon DEF Entered
<1>4. Short1(e)
  <2>1. \A n \in Nat : n <= 247 => 112 + n <= 1000 OBVIOUS
  <2> QED BY <1>3, <2>1, SMT DEF Short1, MaxLength
<1>5. CASE batched
  <2>1. Carried(d, data, batched) = <<createBatchEd25519Instruction(<<e>>)>> BY <1>1, <1>5, Zenon DEF Carried
  <2>2. SignaturesOf(createBatchEd25519Instruction(<<e>>)) = <<Signed(e, signer)>>
    BY <1>3, <1>4, BatchOfOneRead
  <2> QED BY <1>3, <2>1, <2>2, AllOfOne
<1>6. CASE ~batched
  <2>1. PICK E : E = Ed25519Entries(d, data) OBVIOUS
  <2>2. E = <<e>> BY <1>1, <2>1
  <2>3. [i \in DOMAIN E |-> createEd25519Instruction(E[i])] = <<createEd25519Instruction(e)>> BY <2>2, OneOf
  <2>4. Carried(d, data, batched) = <<createEd25519Instruction(e)>> BY <1>6, <2>1, <2>3, Zenon DEF Carried
  <2>5. SignaturesOf(createEd25519Instruction(e)) = <<Signed(e, signer)>> BY <1>3, <1>4, SingleRead
  <2> QED BY <1>3, <2>4, <2>5, AllOfOne
<1> QED BY <1>5, <1>6

LEMMA TwoCarried ==
    ASSUME NEW d, NEW data, NEW batched \in BOOLEAN, NEW s \in {Client, Owner, Mint}, NEW m, Sequence(m),
           Len(m) = 32, NEW t \in {Client, Owner, Mint}, NEW n, Sequence(n),
           Len(n) \in Nat, Len(n) <= 247, Ed25519Entries(d, data) = <<Entry(s, m), Entry(t, n)>>
    PROVE  AllOf(Carried(d, data, batched)) = <<SignatureBy(s, m), SignatureBy(t, n)>>
<1>1. PICK e, f : e = Entry(s, m) /\ f = Entry(t, n) OBVIOUS
<1>2. Entered(e, s, m) /\ Entered(f, t, n) BY <1>1, EntryIs, Zenon
<1>3. /\ EntryOf(e, s) /\ e.message = m /\ Signed(e, s) = SignatureBy(s, m)
      /\ EntryOf(f, t) /\ f.message = n /\ Signed(f, t) = SignatureBy(t, n)
  BY <1>2, Zenon DEF Entered
<1>4. Short2(e, f)
  <2>1. PICK a, b : a = Len(e.message) /\ b = Len(f.message) OBVIOUS
  <2>2. a = 32 /\ b = Len(n) BY <1>3, <2>1, Zenon
  <2>3. 222 + a + b <= 1000 BY <2>2
  <2> QED BY <2>1, <2>3, ZenonT(40) DEF Short2, MaxLength
<1>5. Short1(e) /\ Short1(f)
  <2>1. PICK a, b : a = Len(e.message) /\ b = Len(f.message) OBVIOUS
  <2>2. a = 32 /\ b = Len(n) BY <1>3, <2>1, Zenon
  <2>3. 112 + a <= 1000 /\ 112 + b <= 1000 BY <2>2
  <2> QED BY <2>1, <2>3, SMT DEF Short1, MaxLength
<1>6. CASE batched
  <2>1. Carried(d, data, batched) = <<createBatchEd25519Instruction(<<e, f>>)>>
    BY <1>1, <1>6, Zenon DEF Carried
  <2>2. SignaturesOf(createBatchEd25519Instruction(<<e, f>>)) = <<Signed(e, s), Signed(f, t)>>
    BY <1>3, <1>4, BatchOfTwoRead
  <2> QED BY <1>3, <2>1, <2>2, AllOfOne
<1>7. CASE ~batched
  <2>1. PICK E : E = Ed25519Entries(d, data) OBVIOUS
  <2>2. E = <<e, f>> BY <1>1, <2>1
  <2>3. [i \in DOMAIN E |-> createEd25519Instruction(E[i])]
        = <<createEd25519Instruction(e), createEd25519Instruction(f)>>
    BY <2>2, TwoOf
  <2>4. Carried(d, data, batched) = <<createEd25519Instruction(e), createEd25519Instruction(f)>>
    BY <1>7, <2>1, <2>3, Zenon DEF Carried
  <2>5. SignaturesOf(createEd25519Instruction(e)) = <<Signed(e, s)>> BY <1>3, <1>5, SingleRead
  <2>6. SignaturesOf(createEd25519Instruction(f)) = <<Signed(f, t)>> BY <1>3, <1>5, SingleRead
  <2> QED BY <1>3, <2>4, <2>5, <2>6, AllOfTwo
<1> QED BY <1>6, <1>7

\* The program reads in the instructions what the parties signed.
LEMMA PledgesRead ==
    ASSUME NEW d, DraftFine(d), FitsMode(d), NEW data, data = serializeUniversalLayout(d),
           NEW batched \in BOOLEAN
    PROVE  AllOf(Carried(d, data, batched)) = Pledged(d, data)
<1>1. d.mode \in Modes /\ d.counterparty \in {Client, Owner, Mint} BY Zenon DEF DraftFine
<1>2. PICK h, m, c : h = HashOf(d) /\ m = Readable(data) /\ c = d.counterparty OBVIOUS
<1>3. Sequence(h) /\ Len(h) = 32 BY <1>2, HashOfIs, HashedBegins, Zenon
<1>4. Sequence(m) /\ Len(m) \in Nat /\ Len(m) <= 247
  <2>1. TextsKnown(d, data) BY TextsAre, Zenon
  <2> QED BY <1>2, <2>1, Zenon DEF TextsKnown, TextFine
<1>5. Owner \in {Client, Owner, Mint} /\ c \in {Client, Owner, Mint} BY <1>1, <1>2, Zenon
<1>6. CASE d.mode = DualSignature
  <2>1. Ed25519Entries(d, data) = <<Entry(Owner, h), Entry(c, m)>>
    BY <1>2, <1>6, ModesDiffer, Zenon DEF Ed25519Entries, HashOf, Readable
  <2>2. AllOf(Carried(d, data, batched)) = <<SignatureBy(Owner, h), SignatureBy(c, m)>>
    BY <1>3, <1>4, <1>5, <2>1, TwoCarried
  <2> QED BY <1>2, <1>6, <2>2, Zenon DEF Pledged
<1>7. CASE d.mode = CounterpartySigned
  <2>1. Ed25519Entries(d, data) = <<Entry(c, m)>>
    BY <1>2, <1>7, ModesDiffer, Zenon DEF Ed25519Entries, HashOf, Readable
  <2>2. AllOf(Carried(d, data, batched)) = <<SignatureBy(c, m)>> BY <1>4, <1>5, <2>1, OneCarried
  <2> QED BY <1>2, <1>7, <2>2, ModesDiffer, Zenon DEF Pledged
<1>8. CASE d.mode = AgentOwnerSigned
  <2>1. Ed25519Entries(d, data) = <<Entry(Owner, h)>>
    BY <1>2, <1>8, ModesDiffer, Zenon DEF Ed25519Entries, HashOf, Readable
  <2>2. 32 \in Nat /\ 32 <= 247 OBVIOUS
  <2>3. Sequence(h) /\ Len(h) \in Nat /\ Len(h) <= 247 BY <1>3, <2>2, Zenon
  <2>4. AllOf(Carried(d, data, batched)) = <<SignatureBy(Owner, h)>> BY <1>5, <2>1, <2>3, OneCarried
  <2> QED BY <1>2, <1>8, <2>4, ModesDiffer, Zenon DEF Pledged
<1> QED BY <1>1, <1>6, <1>7, <1>8, Zenon DEF Modes

\* What the program cannot accept: one key for both parties, or text that the two sides show
\* differently.
Misread(d) ==
    \/ d.mode = DualSignature /\ d.counterparty = Owner
    \/ d.mode # AgentOwnerSigned /\ Textual(d.contentType) /\ Altered(d.content)

Extracted(d, data, batched) ==
    extract_ed25519_signatures(Carried(d, data, batched), Owner, d.counterparty, d.mode,
                               build_expected_messages(SasSchema, SchemaName, d.mode, data))
ExtractedAs(d, data, found) ==
    (Misread(d) => found = <<>>) /\ (~Misread(d) => found = Pledged(d, data))

LEMMA ExpectedAre ==
    ASSUME NEW d, DraftFine(d), FitsMode(d), NEW data, data = serializeUniversalLayout(d)
    PROVE  build_expected_messages(SasSchema, SchemaName, d.mode, data)
           = IF d.mode = DualSignature THEN <<HashOf(d), Expected(data)>>
             ELSE IF d.mode = CounterpartySigned THEN <<Expected(data)>> ELSE <<HashOf(d)>>
<1>1. MessagesOf(d, data) BY MessagesAre, Zenon
<1>2. compute_interaction_hash(SasSchema, Slice(data, 1, 33), Slice(data, 98, 130)) = HashOf(d)
  BY <1>1, Zenon DEF MessagesOf
<1>3. d.mode \in Modes BY Zenon DEF DraftFine
<1>4. CASE d.mode = DualSignature
  BY <1>2, <1>4, TheOffsets, ModesDiffer, Zenon DEF build_expected_messages, Expected
<1>5. CASE d.mode = CounterpartySigned
  BY <1>2, <1>5, TheOffsets, ModesDiffer, Zenon DEF build_expected_messages, Expected
<1>6. CASE d.mode = AgentOwnerSigned
  BY <1>2, <1>6, TheOffsets, ModesDiffer, Zenon DEF build_expected_messages, Expected
<1> QED BY <1>3, <1>4, <1>5, <1>6, Zenon DEF Modes

LEMMA PledgesExtracted ==
    ASSUME NEW d, DraftFine(d), FitsMode(d), NEW data, data = serializeUniversalLayout(d),
           NEW batched \in BOOLEAN
    PROVE  ExtractedAs(d, data, Extracted(d, data, batched))
<1>1. PICK I, h, m, x, c, k : /\ I = Carried(d, data, batched) /\ h = HashOf(d) /\ m = Readable(data)
                              /\ x = Expected(data) /\ c = d.counterparty /\ k = d.mode
  OBVIOUS
<1>2. AllOf(I) = Pledged(d, data) BY <1>1, PledgesRead
<1>3. m = x <=> ~(Textual(d.contentType) /\ Altered(d.content))
  <2>1. TextsKnown(d, data) BY TextsAre, Zenon
  <2> QED BY <1>1, <2>1, Zenon DEF TextsKnown
<1>4. h # x
  <2>1. TextsKnown(d, data) BY TextsAre, Zenon
  <2>2. Hashed(h) BY <1>1, HashOfIs, Zenon
  <2> QED BY <1>1, <2>1, <2>2, Zenon DEF TextsKnown, TextFine
<1>5. PICK s, t : s = SignatureBy(Owner, h) /\ t = SignatureBy(c, m) OBVIOUS
<1>6. s.pubkey = Owner /\ s.message = h /\ t.pubkey = c /\ t.message = m BY <1>5 DEF SignatureBy
<1>7. PICK E : E = build_expected_messages(SasSchema, SchemaName, d.mode, data) OBVIOUS
<1>8. PICK f : f = extract_ed25519_signatures(I, Owner, c, k, E) OBVIOUS
<1>9. f = Extracted(d, data, batched) BY <1>1, <1>7, <1>8, Zenon DEF Extracted
<1>10. k \in Modes BY <1>1, Zenon DEF DraftFine
<1>11. CASE k = DualSignature
  <2>1. E = <<h, x>> BY <1>1, <1>7, <1>11, ExpectedAre
  <2>2. Pledged(d, data) = <<s, t>> BY <1>1, <1>5, <1>11, Zenon DEF Pledged
  <2>3. AllOf(I) = <<s, t>> BY <1>2, <2>2
  <2>4. f = IF t.message = x /\ s.pubkey = Owner /\ t.pubkey = c /\ s.pubkey # t.pubkey THEN <<s, t>> ELSE <<>>
    BY <1>4, <1>6, <1>8, <1>11, <2>1, <2>3, ExtractedTwo
  <2>5. f = IF m = x /\ Owner # c THEN Pledged(d, data) ELSE <<>> BY <1>6, <2>2, <2>4, Zenon
  <2>6. Misread(d) <=> ~(m = x /\ Owner # c) BY <1>1, <1>3, <1>11, ModesDiffer, Zenon DEF Misread
  <2> QED BY <1>9, <2>5, <2>6, Zenon DEF ExtractedAs
<1>12. CASE k = CounterpartySigned
  <2>1. E = <<x>> BY <1>1, <1>7, <1>12, ExpectedAre, ModesDiffer
  <2>2. Pledged(d, data) = <<t>> BY <1>1, <1>5, <1>12, ModesDiffer, Zenon DEF Pledged
  <2>3. AllOf(I) = <<t>> BY <1>2, <2>2
  <2>4. k \in {CounterpartySigned, AgentOwnerSigned} BY <1>12
  <2>5. f = IF t.message = x /\ (k = CounterpartySigned => t.pubkey = c) THEN <<t>> ELSE <<>>
    BY <1>8, <2>1, <2>3, <2>4, ExtractedOne
  <2>6. f = IF m = x THEN Pledged(d, data) ELSE <<>> BY <1>6, <2>2, <2>5, Zenon
  <2>7. Misread(d) <=> m # x BY <1>1, <1>3, <1>12, ModesDiffer, Zenon DEF Misread
  <2> QED BY <1>9, <2>6, <2>7, Zenon DEF ExtractedAs
<1>13. CASE k = AgentOwnerSigned
  <2>1. E = <<h>> BY <1>1, <1>7, <1>13, ExpectedAre, ModesDiffer
  <2>2. Pledged(d, data) = <<s>> BY <1>1, <1>5, <1>13, ModesDiffer, Zenon DEF Pledged
  <2>3. AllOf(I) = <<s>> BY <1>2, <2>2
  <2>4. k \in {CounterpartySigned, AgentOwnerSigned} BY <1>13
  <2>5. f = IF s.message = h /\ (k = CounterpartySigned => s.pubkey = c) THEN <<s>> ELSE <<>>
    BY <1>8, <2>1, <2>3, <2>4, ExtractedOne
  <2>6. f = Pledged(d, data) BY <1>6, <1>13, <2>2, <2>5, ModesDiffer, Zenon
  <2>7. ~Misread(d) BY <1>1, <1>13, ModesDiffer, Zenon DEF Misread
  <2> QED BY <1>9, <2>6, <2>7, Zenon DEF ExtractedAs
<1> QED BY <1>10, <1>11, <1>12, <1>13, Zenon DEF Modes

\* The signatures of a draft that is accepted, in the order of its entries.
LEMMA PledgesAre ==
    ASSUME NEW d, DraftFine(d), NEW data
    PROVE  /\ Pledged(d, data) # <<>> /\ Pledged(d, data)[1].sig = Ed25519Entries(d, data)[1].signature
           /\ Len(Pledged(d, data)) = Len(Ed25519Entries(d, data)) /\ Len(Pledged(d, data)) \in {1, 2}
           /\ Len(Pledged(d, data)) = 2 => Pledged(d, data)[2].sig = Ed25519Entries(d, data)[2].signature
           /\ d.mode = AgentOwnerSigned => Pledged(d, data)[1].pubkey = Owner
<1>1. PICK h, m, c : h = HashOf(d) /\ m = Readable(data) /\ c = d.counterparty OBVIOUS
<1>2. PICK s, t : s = SignatureBy(Owner, h) /\ t = SignatureBy(c, m) OBVIOUS
<1>3. PICK e, f : e = Entry(Owner, h) /\ f = Entry(c, m) OBVIOUS
<1>4. s.sig = e.signature /\ t.sig = f.signature /\ s.pubkey = Owner BY <1>2, <1>3 DEF SignatureBy, Entry
<1>5. d.mode \in Modes BY Zenon DEF DraftFine
<1>6. PICK P, E : P = Pledged(d, data) /\ E = Ed25519Entries(d, data) OBVIOUS
<1>7. CASE d.mode = DualSignature
  <2>1. P = <<s, t>> BY <1>1, <1>2, <1>6, <1>7, Zenon DEF Pledged
  <2>2. E = <<e, f>> BY <1>1, <1>3, <1>6, <1>7, ModesDiffer, Zenon DEF Ed25519Entries, HashOf, Readable
  <2>3. d.mode # AgentOwnerSigned BY <1>7, ModesDiffer
  <2> QED BY <1>4, <1>6, <2>1, <2>2, <2>3
<1>8. CASE d.mode = CounterpartySigned
  <2>1. P = <<t>> BY <1>1, <1>2, <1>6, <1>8, ModesDiffer, Zenon DEF Pledged
  <2>2. E = <<f>> BY <1>1, <1>3, <1>6, <1>8, ModesDiffer, Zenon DEF Ed25519Entries, HashOf, Readable
  <2>3. d.mode # AgentOwnerSigned BY <1>8, ModesDiffer
  <2> QED BY <1>4, <1>6, <2>1, <2>2, <2>3
<1>9. CASE d.mode = AgentOwnerSigned
  <2>1. P = <<s>> BY <1>1, <1>2, <1>6, <1>9, ModesDiffer, ZenonT(40) DEF Pledged
  <2>2. E = <<e>> BY <1>1, <1>3, <1>6, <1>9, ModesDiffer, Zenon DEF Ed25519Entries, HashOf, Readable
  <2> QED BY <1>4, <1>6, <2>1, <2>2
<1> QED BY <1>5, <1>7, <1>8, <1>9, Zenon DEF Modes

-----------------------------------------------------------------------------
(* Accounts and events, field by field                                       *)

\* A field of an account or an event: a scalar, or perhaps an address.
FieldFine(c, x) == (\E n : c = Scalar(n)) \/ (c = Option(Pubkey) /\ Sequence(x) /\ Len(x) <= 1)

\* What the part of a struct lays out is what its codec lays out on its own.
Alone(c, x) == Options!Encode(c, x) = Encode(c, x)

LEMMA ScalarAlone ==
    ASSUME NEW n, NEW x
    PROVE  Alone(Scalar(n), x)
<1>1. PICK s : s = <<Cell(n, x)>> OBVIOUS
<1>2. Options!Encode(Scalar(n), x) = s /\ Encode(Scalar(n), x) = s BY <1>1, ScalarField, Zenon
<1> QED BY <1>2, Zenon DEF Alone

LEMMA OptionAlone ==
    ASSUME NEW of, NEW x, NEW s, s = [i \in 1..Len(x) |-> Options!Encode(of, x[i])],
           NEW t, t = [i \in 1..Len(x) |-> Lists!Encode(of, x[i])], s = t
    PROVE  Alone(Option(of), x)
<1>1. PICK c : c = Option(of) OBVIOUS
<1>2. c.shape = "option" /\ c.of = of BY <1>1 DEF Option
<1>3. Options!Flat(t) = Whole!Flat(t) BY Zenon DEF Options!Flat, Whole!Flat
<1>4. Options!Prefix(c) = 1 /\ Whole!Prefix(c) = 1 BY <1>2 DEF Options!Prefix, Whole!Prefix
<1>5. Options!Encode(c, x) = <<Options!Cell(1, Options!Number(Len(x)))>> \o Options!Flat(t)
  BY <1>2, <1>4 DEF Options!Encode
<1>6. Whole!Encode(c, x) = <<Whole!Cell(1, Whole!Number(Len(x)))>> \o Whole!Flat(s)
  BY <1>2, <1>4 DEF Whole!Encode
<1>7. Options!Cell(1, Options!Number(Len(x))) = Whole!Cell(1, Whole!Number(Len(x)))
  BY DEF Options!Cell, Whole!Cell, Options!Number, Whole!Number
<1>8. Options!Encode(c, x) = Whole!Encode(c, x) BY <1>3, <1>5, <1>6, <1>7, Zenon
<1> QED BY <1>1, <1>8, Zenon DEF Alone, Encode

LEMMA FieldAlone ==
    ASSUME NEW c, NEW x, FieldFine(c, x)
    PROVE  Alone(c, x) /\ O!Fits(c, x)
<1>1. CASE \E n : c = Scalar(n) BY <1>1, ScalarAlone, ScalarsFit, Zenon
<1>2. CASE c = Option(Pubkey) /\ Sequence(x) /\ Len(x) <= 1
  <2>1. \A v : Options!Encode(Pubkey, v) = <<Cell(32, v)>> /\ Lists!Encode(Pubkey, v) = <<Cell(32, v)>>
    BY DEF Options!Encode, Options!Cell, Lists!Encode, Lists!Cell, Cell, Pubkey, Scalar
  <2>2. PICK s, t : /\ s = [i \in 1..Len(x) |-> Options!Encode(Pubkey, x[i])]
                    /\ t = [i \in 1..Len(x) |-> Lists!Encode(Pubkey, x[i])]
    OBVIOUS
  <2>3. s = [i \in 1..Len(x) |-> <<Cell(32, x[i])>>] BY <2>1, <2>2, Zenon
  <2>4. t = [i \in 1..Len(x) |-> <<Cell(32, x[i])>>] BY <2>1, <2>2, Zenon
  <2>5. Alone(Option(Pubkey), x) BY <2>2, <2>3, <2>4, OptionAlone
  <2>6. \A i \in 1..Len(x) : L!Fits(Pubkey, x[i]) BY ScalarsFit, TheScalars
  <2>7. O!Fits(Option(Pubkey), x) BY <1>2, <2>6, OptionFits
  <2> QED BY <1>2, <2>5, <2>7, Zenon
<1> QED BY <1>1, <1>2, Zenon DEF FieldFine

PartOf(field, value) == Encode(field[2], value[field[1]])

\* A struct of such fields, and a value for it.
Fielded(F, v) ==
    /\ Sequence(F) /\ F # <<>> /\ Len(F) \in Nat /\ DOMAIN F = 1..Len(F)
    /\ \A i, j \in DOMAIN F : F[i][1] = F[j][1] => i = j
    /\ v = [name \in {F[i][1] : i \in DOMAIN F} |-> v[name]]
    /\ \A i \in DOMAIN F : FieldFine(F[i][2], v[F[i][1]])

LEMMA FieldedFits ==
    ASSUME NEW F, NEW v, Fielded(F, v)
    PROVE  Fits(Struct(F), v)
<1>1. /\ Sequence(F) /\ \A i, j \in DOMAIN F : F[i][1] = F[j][1] => i = j
      /\ \A i \in DOMAIN F : FieldFine(F[i][2], v[F[i][1]])
  BY Zenon DEF Fielded
<1>2. v = [name \in {F[i][1] : i \in DOMAIN F} |-> v[name]] BY Zenon DEF Fielded
<1>3. \A i \in DOMAIN F : O!Fits(F[i][2], v[F[i][1]]) BY <1>1, FieldAlone, Zenon
<1> QED BY <1>1, <1>2, <1>3, StructW DEF Fits

\* The parts of a struct, one behind the other, up to the n-th.
LaidBy(f, F, v, n) ==
    /\ f[1] = PartOf(F[1], v) /\ \A i \in 1..n : i # 1 => f[i] = f[i - 1] \o PartOf(F[i], v)
    /\ Encode(Struct(F), v) = f[n]

LEMMA FieldsLaid ==
    ASSUME NEW F, NEW v, Fielded(F, v)
    PROVE  \E f : LaidBy(f, F, v, Len(F))
<1>1. PICK n : n = Len(F) OBVIOUS
<1>2. Sequence(F) /\ F # <<>> /\ n \in Nat /\ DOMAIN F = 1..n BY <1>1, Zenon DEF Fielded
<1>3. \A i \in 1..n : Options!Encode(F[i][2], v[F[i][1]]) = PartOf(F[i], v)
  <2>1. \A i \in 1..n : FieldFine(F[i][2], v[F[i][1]]) BY <1>2, Zenon DEF Fielded
  <2> QED BY <2>1, FieldAlone, Zenon DEF Alone, PartOf
<1>4. PICK s : s = [i \in 1..n |-> PartOf(F[i], v)] OBVIOUS
<1>5. s = [i \in 1..n |-> Options!Encode(F[i][2], v[F[i][1]])] BY <1>3, <1>4, Zenon
<1>6. PICK c : c = Struct(F) OBVIOUS
<1>7. c.shape = "struct" /\ F = c.fields BY <1>6, StructFields
<1>8. W!Encode(c, v) = W!Flat(s)
  <2>1. W!Encode(c, v) = W!Flat([i \in 1..Len(F) |-> Options!Encode(F[i][2], v[F[i][1]])])
    BY <1>7 DEF W!Encode
  <2> QED BY <1>1, <1>5, <2>1, Zenon
<1>9. Encode(c, v) = W!Flat(s) BY <1>8, WholeEncode, Zenon DEF Encode
<1>10. Sequence(s) /\ Len(s) = n
  <2>1. \A i \in 1..n : s[i] = PartOf(F[i], v) BY <1>4
  <2>2. s = [i \in 1..n |-> s[i]] BY <1>4, <2>1
  <2> QED BY <1>2, <2>2, Tabulated
<1>11. n # 0 BY <1>1, <1>2, Empty
<1>12. W!Sequence(s) /\ s # <<>>
  <2>1. s # <<>> BY <1>10, <1>11
  <2> QED BY <1>10, <2>1, Zenon DEF W!Sequence, Sequence
<1>13. PICK f : W!Steps(f, s) BY <1>12, WNumbers, WInductive, W!FlattenSteps, Zenon
<1>14. 1 \in 1..n BY <1>2, <1>11
<1>15. /\ f[1] = s[1] /\ \A i \in 1..n : i # 1 => f[i] = f[i - 1] \o s[i]
       /\ W!Flat(s) = f[n]
  BY <1>10, <1>13, Zenon DEF W!Steps
<1>16. f[1] = PartOf(F[1], v) BY <1>4, <1>14, <1>15, Zenon
<1>17. \A i \in 1..n : i # 1 => f[i] = f[i - 1] \o PartOf(F[i], v) BY <1>4, <1>15, Zenon
<1>18. Encode(Struct(F), v) = f[n] BY <1>6, <1>9, <1>15, Zenon
<1>19. LaidBy(f, F, v, n) BY <1>16, <1>17, <1>18, Zenon DEF LaidBy
<1> QED BY <1>1, <1>19, Zenon

\* What is written is read.
LEMMA FieldsRead ==
    ASSUME NEW F, NEW v, Fielded(F, v)
    PROVE  Decode(Struct(F), Encode(Struct(F), v)).value = v
<1>1. PICK c, b : c = Struct(F) /\ b = Encode(c, v) OBVIOUS
<1>2. Fits(c, v) BY <1>1, FieldedFits, Zenon
<1>3. Sequence(<<>>) BY Empty DEF Sequence
<1>4. Sequence(b) /\ Decode(c, b \o <<>>) = [value |-> v, rest |-> <<>>] BY <1>1, <1>2, <1>3, CodecsRoundTrip
<1>5. b \o <<>> = b BY <1>4, Empty
<1>6. Decode(c, b) = [value |-> v, rest |-> <<>>] BY <1>4, <1>5, Zenon
<1>7. Decode(c, b).value = v BY <1>6
<1> QED BY <1>1, <1>7, Zenon

\* The first eight parts, one by one.
Begins(f, F, v, n) ==
    /\ f[1] = PartOf(F[1], v) /\ Encode(Struct(F), v) = f[n]
    /\ n \in {2, 3, 4, 5, 6, 7, 8} => f[2] = f[1] \o PartOf(F[2], v)
    /\ n \in {3, 4, 5, 6, 7, 8} => f[3] = f[2] \o PartOf(F[3], v)
    /\ n \in {4, 5, 6, 7, 8} => f[4] = f[3] \o PartOf(F[4], v)
    /\ n \in {5, 6, 7, 8} => f[5] = f[4] \o PartOf(F[5], v)
    /\ n \in {6, 7, 8} => f[6] = f[5] \o PartOf(F[6], v)
    /\ n \in {7, 8} => f[7] = f[6] \o PartOf(F[7], v) 
    /\ n \in {8} => f[8] = f[7] \o PartOf(F[8], v)

LEMMA Beginning ==
    ASSUME NEW F, NEW v, Fielded(F, v)
    PROVE  \E f : Begins(f, F, v, Len(F))
<1>1. PICK f : LaidBy(f, F, v, Len(F)) BY FieldsLaid
<1>2. PICK n : n = Len(F) OBVIOUS
<1>3. /\ f[1] = PartOf(F[1], v) /\ Encode(Struct(F), v) = f[n]
      /\ \A i \in 1..n : i # 1 => f[i] = f[i - 1] \o PartOf(F[i], v)
  BY <1>1, <1>2, Zenon DEF LaidBy
<1>4. \A i \in {2, 3, 4, 5, 6, 7, 8} : i \in 1..n => f[i] = f[i - 1] \o PartOf(F[i], v)
  <2>1. \A i \in {2, 3, 4, 5, 6, 7, 8} : i # 1 OBVIOUS
  <2> QED BY <1>3, <2>1, Zenon
<1>5. 2 - 1 = 1 /\ 3 - 1 = 2 /\ 4 - 1 = 3 /\ 5 - 1 = 4 /\ 6 - 1 = 5 /\ 7 - 1 = 6 /\ 8 - 1 = 7 OBVIOUS
<1>6. /\ n \in {2, 3, 4, 5, 6, 7, 8} => 2 \in 1..n
      /\ n \in {3, 4, 5, 6, 7, 8} => 3 \in 1..n
      /\ n \in {4, 5, 6, 7, 8} => 4 \in 1..n
      /\ n \in {5, 6, 7, 8} => 5 \in 1..n
      /\ n \in {6, 7, 8} => 6 \in 1..n
      /\ n \in {7, 8} => 7 \in 1..n
      /\ n \in {8} => 8 \in 1..n
  OBVIOUS
<1>7. /\ 2 \in 1..n => f[2] = f[1] \o PartOf(F[2], v)
      /\ 3 \in 1..n => f[3] = f[2] \o PartOf(F[3], v)
      /\ 4 \in 1..n => f[4] = f[3] \o PartOf(F[4], v)
      /\ 5 \in 1..n => f[5] = f[4] \o PartOf(F[5], v)
      /\ 6 \in 1..n => f[6] = f[5] \o PartOf(F[6], v)
      /\ 7 \in 1..n => f[7] = f[6] \o PartOf(F[7], v)
      /\ 8 \in 1..n => f[8] = f[7] \o PartOf(F[8], v)
  BY <1>4, <1>5, Zenon
<1>8. Begins(f, F, v, n) BY <1>3, <1>6, <1>7, Zenon DEF Begins
<1> QED BY <1>2, <1>8

FirstThen(s, t) == <<s[1]>> \o t = s

LEMMA FirstOf ==
    ASSUME NEW s, Sequence(s), NEW t, Sequence(t), Len(s) = Len(t) + 1, \A i \in 1..Len(t) : s[i + 1] = t[i]
    PROVE  FirstThen(s, t)
<1>1. PICK u, x : x = s[1] /\ u = <<x>> \o t OBVIOUS
<1>2. Sequence(<<x>>) /\ Len(<<x>>) = 1 /\ <<x>>[1] = x BY Singleton
<1>3. Joined(u, <<x>>, t) BY <1>1, <1>2, Joining
<1>4. Sequence(u) /\ Len(u) = 1 + Len(t) /\ u[1] = x /\ \A i \in 1..Len(t) : u[1 + i] = t[i]
  <2>1. /\ Sequence(u) /\ Len(u) = 1 + Len(t) /\ \A i \in 1..1 : u[i] = <<x>>[i]
        /\ \A i \in 1..Len(t) : u[1 + i] = t[i]
    BY <1>2, <1>3, Zenon DEF Joined
  <2> QED BY <1>2, <2>1
<1>5. Len(t) \in Nat BY Length
<1>6. ASSUME NEW i \in 1..Len(s) PROVE u[i] = s[i]
  <2>1. CASE i = 1 BY <1>1, <1>4, <2>1
  <2>2. CASE i # 1
    <3>1. PICK j \in 1..Len(t) : i = j + 1
      <4>1. i - 1 \in 1..Len(t) /\ i = (i - 1) + 1 BY <1>5, <2>2
      <4> QED BY <4>1
    <3>2. 1 + j = i BY <3>1, <1>5
    <3> QED BY <1>4, <3>1, <3>2
  <2> QED BY <2>1, <2>2
<1>7. u = s
  <2>1. Len(u) = Len(s) BY <1>4, <1>5
  <2>2. \A i \in 1..Len(u) : u[i] = s[i] BY <1>6, <2>1
  <2> QED BY <1>4, <2>1, <2>2, Equal
<1> QED BY <1>1, <1>7, Zenon DEF FirstThen

\* What the codec reads of the bytes.
Reads(codec, bytes, value) == Decode(codec, bytes).value = value

LEMMA RegistryInitializedRead ==
    ASSUME NEW a, NEW b
    PROVE  Reads(RegistryInitialized,
                 Encode(Pubkey, a) \o Encode(Pubkey, b),
                 [authority |-> a, groupMint |-> b])
<1>1. PICK F, v, u : /\ F = << <<"authority", Pubkey>>, <<"groupMint", Pubkey>> >>
                     /\ v = [authority |-> a, groupMint |-> b]
                     /\ u = Encode(Pubkey, a) \o Encode(Pubkey, b)
  OBVIOUS
<1>2. Sequence(F) /\ Len(F) = 2 /\ DOMAIN F = 1..2
  <2>1. F \in Seq({F[i] : i \in 1..2}) /\ Len(F) = 2 /\ DOMAIN F = 1..2 BY <1>1
  <2> QED BY <2>1, Zenon DEF Sequence
<1>3. /\ F[1][1] = "authority" /\ F[1][2] = Pubkey
      /\ F[2][1] = "groupMint" /\ F[2][2] = Pubkey
  BY <1>1, Zenon
<1>4. \A i, j \in DOMAIN F : F[i][1] = F[j][1] => i = j BY <1>2, <1>3
<1>5. {F[i][1] : i \in DOMAIN F} = {"authority", "groupMint"} BY <1>2, <1>3
<1>6. DOMAIN v = {"authority", "groupMint"} /\ v["authority"] = a /\ v["groupMint"] = b
  BY <1>1
<1>7. v = [name \in {F[i][1] : i \in DOMAIN F} |-> v[name]] BY <1>1, <1>5, <1>6
<1>8. \A i \in DOMAIN F : FieldFine(F[i][2], v[F[i][1]])
  <2>1. FieldFine(F[1][2], v[F[1][1]]) BY <1>3, TheScalars, Zenon DEF FieldFine
  <2>2. FieldFine(F[2][2], v[F[2][1]]) BY <1>3, TheScalars, Zenon DEF FieldFine
  <2> QED BY <1>2, <2>1, <2>2
<1>9. Fielded(F, v)
  <2>1. F # <<>> /\ Len(F) \in Nat /\ DOMAIN F = 1..Len(F) BY <1>1, <1>2
  <2> QED BY <1>2, <1>4, <1>7, <1>8, <2>1, Zenon DEF Fielded
<1>10. PICK f : Begins(f, F, v, 2) BY <1>2, <1>9, Beginning, Zenon
<1>11. /\ PartOf(F[1], v) = Encode(Pubkey, a)
       /\ PartOf(F[2], v) = Encode(Pubkey, b)
  BY <1>3, <1>6, Zenon DEF PartOf
<1>12. /\ f[1] = PartOf(F[1], v)
       /\ f[2] = f[1] \o PartOf(F[2], v)
       /\ Encode(Struct(F), v) = f[2]
  BY <1>10, Zenon DEF Begins
<1>13. u = Encode(Struct(F), v)
  <2>1. u = Encode(Pubkey, a) \o Encode(Pubkey, b) BY <1>1, Zenon
  <2> QED BY <1>11, <1>12, <2>1, Zenon
<1>14. RegistryInitialized = Struct(F)
  BY <1>1 DEF RegistryInitialized
<1>15. Decode(RegistryInitialized, u).value = v BY <1>9, <1>13, <1>14, FieldsRead, Zenon
<1> QED BY <1>1, <1>15, Zenon DEF Reads

LEMMA RegistryAuthorityUpdatedRead ==
    ASSUME NEW a, NEW b, Sequence(b), Len(b) <= 1
    PROVE  Reads(RegistryAuthorityUpdated,
                 Encode(Pubkey, a) \o Encode(Option(Pubkey), b),
                 [oldAuthority |-> a, newAuthority |-> b])
<1>1. PICK F, v, u : /\ F = << <<"oldAuthority", Pubkey>>, <<"newAuthority", Option(Pubkey)>> >>
                     /\ v = [oldAuthority |-> a, newAuthority |-> b]
                     /\ u = Encode(Pubkey, a) \o Encode(Option(Pubkey), b)
  OBVIOUS
<1>2. Sequence(F) /\ Len(F) = 2 /\ DOMAIN F = 1..2
  <2>1. F \in Seq({F[i] : i \in 1..2}) /\ Len(F) = 2 /\ DOMAIN F = 1..2 BY <1>1
  <2> QED BY <2>1, Zenon DEF Sequence
<1>3. /\ F[1][1] = "oldAuthority" /\ F[1][2] = Pubkey
      /\ F[2][1] = "newAuthority" /\ F[2][2] = Option(Pubkey)
  BY <1>1, Zenon
<1>4. \A i, j \in DOMAIN F : F[i][1] = F[j][1] => i = j BY <1>2, <1>3
<1>5. {F[i][1] : i \in DOMAIN F} = {"oldAuthority", "newAuthority"} BY <1>2, <1>3
<1>6. DOMAIN v = {"oldAuthority", "newAuthority"} /\ v["oldAuthority"] = a /\ v["newAuthority"] = b
  BY <1>1
<1>7. v = [name \in {F[i][1] : i \in DOMAIN F} |-> v[name]] BY <1>1, <1>5, <1>6
<1>8. \A i \in DOMAIN F : FieldFine(F[i][2], v[F[i][1]])
  <2>1. FieldFine(F[1][2], v[F[1][1]]) BY <1>3, TheScalars, Zenon DEF FieldFine
  <2>2. FieldFine(F[2][2], v[F[2][1]]) BY <1>3, <1>6, Zenon DEF FieldFine
  <2> QED BY <1>2, <2>1, <2>2
<1>9. Fielded(F, v)
  <2>1. F # <<>> /\ Len(F) \in Nat /\ DOMAIN F = 1..Len(F) BY <1>1, <1>2
  <2> QED BY <1>2, <1>4, <1>7, <1>8, <2>1, Zenon DEF Fielded
<1>10. PICK f : Begins(f, F, v, 2) BY <1>2, <1>9, Beginning, Zenon
<1>11. /\ PartOf(F[1], v) = Encode(Pubkey, a)
       /\ PartOf(F[2], v) = Encode(Option(Pubkey), b)
  BY <1>3, <1>6, Zenon DEF PartOf
<1>12. /\ f[1] = PartOf(F[1], v)
       /\ f[2] = f[1] \o PartOf(F[2], v)
       /\ Encode(Struct(F), v) = f[2]
  BY <1>10, Zenon DEF Begins
<1>13. u = Encode(Struct(F), v)
  <2>1. u = Encode(Pubkey, a) \o Encode(Option(Pubkey), b) BY <1>1, Zenon
  <2> QED BY <1>11, <1>12, <2>1, Zenon
<1>14. RegistryAuthorityUpdated = Struct(F)
  BY <1>1 DEF RegistryAuthorityUpdated
<1>15. Decode(RegistryAuthorityUpdated, u).value = v BY <1>9, <1>13, <1>14, FieldsRead, Zenon
<1> QED BY <1>1, <1>15, Zenon DEF Reads

LEMMA AgentRegisteredRead ==
    ASSUME NEW a, NEW b, NEW c, NEW d, NEW e, NEW g
    PROVE  Reads(AgentRegistered,
                 Encode(Pubkey, a) \o Encode(Pubkey, b) \o Encode(U64, c) \o Encode(Text, d) \o Encode(Text, e) \o Encode(Bool, g),
                 [mint |-> a, owner |-> b, memberNumber |-> c, name |-> d, uri |-> e, nonTransferable |-> g])
<1>1. PICK F, v, u : /\ F = << <<"mint", Pubkey>>, <<"owner", Pubkey>>, <<"memberNumber", U64>>, <<"name", Text>>, <<"uri", Text>>, <<"nonTransferable", Bool>> >>
                     /\ v = [mint |-> a, owner |-> b, memberNumber |-> c, name |-> d, uri |-> e, nonTransferable |-> g]
                     /\ u = Encode(Pubkey, a) \o Encode(Pubkey, b) \o Encode(U64, c) \o Encode(Text, d) \o Encode(Text, e) \o Encode(Bool, g)
  OBVIOUS
<1>2. Sequence(F) /\ Len(F) = 6 /\ DOMAIN F = 1..6
  <2>1. F \in Seq({F[i] : i \in 1..6}) /\ Len(F) = 6 /\ DOMAIN F = 1..6 BY <1>1
  <2> QED BY <2>1, Zenon DEF Sequence
<1>3. /\ F[1][1] = "mint" /\ F[1][2] = Pubkey
      /\ F[2][1] = "owner" /\ F[2][2] = Pubkey
      /\ F[3][1] = "memberNumber" /\ F[3][2] = U64
      /\ F[4][1] = "name" /\ F[4][2] = Text
      /\ F[5][1] = "uri" /\ F[5][2] = Text
      /\ F[6][1] = "nonTransferable" /\ F[6][2] = Bool
  BY <1>1, Zenon
<1>4. \A i, j \in DOMAIN F : F[i][1] = F[j][1] => i = j BY <1>2, <1>3
<1>5. {F[i][1] : i \in DOMAIN F} = {"mint", "owner", "memberNumber", "name", "uri", "nonTransferable"} BY <1>2, <1>3
<1>6. DOMAIN v = {"mint", "owner", "memberNumber", "name", "uri", "nonTransferable"} /\ v["mint"] = a /\ v["owner"] = b /\ v["memberNumber"] = c /\ v["name"] = d /\ v["uri"] = e /\ v["nonTransferable"] = g
  BY <1>1
<1>7. v = [name \in {F[i][1] : i \in DOMAIN F} |-> v[name]] BY <1>1, <1>5, <1>6
<1>8. \A i \in DOMAIN F : FieldFine(F[i][2], v[F[i][1]])
  <2>1. FieldFine(F[1][2], v[F[1][1]]) BY <1>3, TheScalars, Zenon DEF FieldFine
  <2>2. FieldFine(F[2][2], v[F[2][1]]) BY <1>3, TheScalars, Zenon DEF FieldFine
  <2>3. FieldFine(F[3][2], v[F[3][1]]) BY <1>3, TheScalars, Zenon DEF FieldFine
  <2>4. FieldFine(F[4][2], v[F[4][1]]) BY <1>3, TheScalars, Zenon DEF FieldFine
  <2>5. FieldFine(F[5][2], v[F[5][1]]) BY <1>3, TheScalars, Zenon DEF FieldFine
  <2>6. FieldFine(F[6][2], v[F[6][1]]) BY <1>3, TheScalars, Zenon DEF FieldFine
  <2> QED BY <1>2, <2>1, <2>2, <2>3, <2>4, <2>5, <2>6
<1>9. Fielded(F, v)
  <2>1. F # <<>> /\ Len(F) \in Nat /\ DOMAIN F = 1..Len(F) BY <1>1, <1>2
  <2> QED BY <1>2, <1>4, <1>7, <1>8, <2>1, Zenon DEF Fielded
<1>10. PICK f : Begins(f, F, v, 6) BY <1>2, <1>9, Beginning, Zenon
<1>11. /\ PartOf(F[1], v) = Encode(Pubkey, a)
       /\ PartOf(F[2], v) = Encode(Pubkey, b)
       /\ PartOf(F[3], v) = Encode(U64, c)
       /\ PartOf(F[4], v) = Encode(Text, d)
       /\ PartOf(F[5], v) = Encode(Text, e)
       /\ PartOf(F[6], v) = Encode(Bool, g)
  BY <1>3, <1>6, Zenon DEF PartOf
<1>12. /\ f[1] = PartOf(F[1], v)
       /\ f[2] = f[1] \o PartOf(F[2], v)
       /\ f[3] = f[2] \o PartOf(F[3], v)
       /\ f[4] = f[3] \o PartOf(F[4], v)
       /\ f[5] = f[4] \o PartOf(F[5], v)
       /\ f[6] = f[5] \o PartOf(F[6], v)
       /\ Encode(Struct(F), v) = f[6]
  BY <1>10, Zenon DEF Begins
<1>13. u = Encode(Struct(F), v)
  <2>1. u = Encode(Pubkey, a) \o Encode(Pubkey, b) \o Encode(U64, c) \o Encode(Text, d) \o Encode(Text, e) \o Encode(Bool, g) BY <1>1, Zenon
  <2> QED BY <1>11, <1>12, <2>1, Zenon
<1>14. AgentRegistered = Struct(F)
  BY <1>1 DEF AgentRegistered
<1>15. Decode(AgentRegistered, u).value = v BY <1>9, <1>13, <1>14, FieldsRead, Zenon
<1> QED BY <1>1, <1>15, Zenon DEF Reads

LEMMA SchemaConfigRegisteredRead ==
    ASSUME NEW a, NEW b, NEW c, NEW d, NEW e, NEW g, Sequence(d), Len(d) <= 1
    PROVE  Reads(SchemaConfigRegistered,
                 Encode(Pubkey, a) \o Encode(U8, b) \o Encode(U8, c) \o Encode(Option(Pubkey), d) \o Encode(Bool, e) \o Encode(Text, g),
                 [schema |-> a, signatureMode |-> b, storageType |-> c, delegationSchema |-> d, closeable |-> e, name |-> g])
<1>1. PICK F, v, u : /\ F = << <<"schema", Pubkey>>, <<"signatureMode", U8>>, <<"storageType", U8>>, <<"delegationSchema", Option(Pubkey)>>, <<"closeable", Bool>>, <<"name", Text>> >>
                     /\ v = [schema |-> a, signatureMode |-> b, storageType |-> c, delegationSchema |-> d, closeable |-> e, name |-> g]
                     /\ u = Encode(Pubkey, a) \o Encode(U8, b) \o Encode(U8, c) \o Encode(Option(Pubkey), d) \o Encode(Bool, e) \o Encode(Text, g)
  OBVIOUS
<1>2. Sequence(F) /\ Len(F) = 6 /\ DOMAIN F = 1..6
  <2>1. F \in Seq({F[i] : i \in 1..6}) /\ Len(F) = 6 /\ DOMAIN F = 1..6 BY <1>1
  <2> QED BY <2>1, Zenon DEF Sequence
<1>3. /\ F[1][1] = "schema" /\ F[1][2] = Pubkey
      /\ F[2][1] = "signatureMode" /\ F[2][2] = U8
      /\ F[3][1] = "storageType" /\ F[3][2] = U8
      /\ F[4][1] = "delegationSchema" /\ F[4][2] = Option(Pubkey)
      /\ F[5][1] = "closeable" /\ F[5][2] = Bool
      /\ F[6][1] = "name" /\ F[6][2] = Text
  BY <1>1, Zenon
<1>4. \A i, j \in DOMAIN F : F[i][1] = F[j][1] => i = j BY <1>2, <1>3
<1>5. {F[i][1] : i \in DOMAIN F} = {"schema", "signatureMode", "storageType", "delegationSchema", "closeable", "name"} BY <1>2, <1>3
<1>6. DOMAIN v = {"schema", "signatureMode", "storageType", "delegationSchema", "closeable", "name"} /\ v["schema"] = a /\ v["signatureMode"] = b /\ v["storageType"] = c /\ v["delegationSchema"] = d /\ v["closeable"] = e /\ v["name"] = g
  BY <1>1
<1>7. v = [name \in {F[i][1] : i \in DOMAIN F} |-> v[name]] BY <1>1, <1>5, <1>6
<1>8. \A i \in DOMAIN F : FieldFine(F[i][2], v[F[i][1]])
  <2>1. FieldFine(F[1][2], v[F[1][1]]) BY <1>3, TheScalars, Zenon DEF FieldFine
  <2>2. FieldFine(F[2][2], v[F[2][1]]) BY <1>3, TheScalars, Zenon DEF FieldFine
  <2>3. FieldFine(F[3][2], v[F[3][1]]) BY <1>3, TheScalars, Zenon DEF FieldFine
  <2>4. FieldFine(F[4][2], v[F[4][1]]) BY <1>3, <1>6, Zenon DEF FieldFine
  <2>5. FieldFine(F[5][2], v[F[5][1]]) BY <1>3, TheScalars, Zenon DEF FieldFine
  <2>6. FieldFine(F[6][2], v[F[6][1]]) BY <1>3, TheScalars, Zenon DEF FieldFine
  <2> QED BY <1>2, <2>1, <2>2, <2>3, <2>4, <2>5, <2>6
<1>9. Fielded(F, v)
  <2>1. F # <<>> /\ Len(F) \in Nat /\ DOMAIN F = 1..Len(F) BY <1>1, <1>2
  <2> QED BY <1>2, <1>4, <1>7, <1>8, <2>1, Zenon DEF Fielded
<1>10. PICK f : Begins(f, F, v, 6) BY <1>2, <1>9, Beginning, Zenon
<1>11. /\ PartOf(F[1], v) = Encode(Pubkey, a)
       /\ PartOf(F[2], v) = Encode(U8, b)
       /\ PartOf(F[3], v) = Encode(U8, c)
       /\ PartOf(F[4], v) = Encode(Option(Pubkey), d)
       /\ PartOf(F[5], v) = Encode(Bool, e)
       /\ PartOf(F[6], v) = Encode(Text, g)
  BY <1>3, <1>6, Zenon DEF PartOf
<1>12. /\ f[1] = PartOf(F[1], v)
       /\ f[2] = f[1] \o PartOf(F[2], v)
       /\ f[3] = f[2] \o PartOf(F[3], v)
       /\ f[4] = f[3] \o PartOf(F[4], v)
       /\ f[5] = f[4] \o PartOf(F[5], v)
       /\ f[6] = f[5] \o PartOf(F[6], v)
       /\ Encode(Struct(F), v) = f[6]
  BY <1>10, Zenon DEF Begins
<1>13. u = Encode(Struct(F), v)
  <2>1. u = Encode(Pubkey, a) \o Encode(U8, b) \o Encode(U8, c) \o Encode(Option(Pubkey), d) \o Encode(Bool, e) \o Encode(Text, g) BY <1>1, Zenon
  <2> QED BY <1>11, <1>12, <2>1, Zenon
<1>14. SchemaConfigRegistered = Struct(F)
  BY <1>1 DEF SchemaConfigRegistered, SignatureMode, StorageType, U8
<1>15. Decode(SchemaConfigRegistered, u).value = v BY <1>9, <1>13, <1>14, FieldsRead, Zenon
<1> QED BY <1>1, <1>15, Zenon DEF Reads

LEMMA EvmAddressLinkedRead ==
    ASSUME NEW a, NEW b, NEW c, NEW d
    PROVE  Reads(EvmAddressLinked,
                 Encode(Pubkey, a) \o Encode(FixedBytes(20), b) \o Encode(Text, c) \o Encode(I64, d),
                 [agentMint |-> a, evmAddress |-> b, chainId |-> c, linkedAt |-> d])
<1>1. PICK F, v, u : /\ F = << <<"agentMint", Pubkey>>, <<"evmAddress", FixedBytes(20)>>, <<"chainId", Text>>, <<"linkedAt", I64>> >>
                     /\ v = [agentMint |-> a, evmAddress |-> b, chainId |-> c, linkedAt |-> d]
                     /\ u = Encode(Pubkey, a) \o Encode(FixedBytes(20), b) \o Encode(Text, c) \o Encode(I64, d)
  OBVIOUS
<1>2. Sequence(F) /\ Len(F) = 4 /\ DOMAIN F = 1..4
  <2>1. F \in Seq({F[i] : i \in 1..4}) /\ Len(F) = 4 /\ DOMAIN F = 1..4 BY <1>1
  <2> QED BY <2>1, Zenon DEF Sequence
<1>3. /\ F[1][1] = "agentMint" /\ F[1][2] = Pubkey
      /\ F[2][1] = "evmAddress" /\ F[2][2] = FixedBytes(20)
      /\ F[3][1] = "chainId" /\ F[3][2] = Text
      /\ F[4][1] = "linkedAt" /\ F[4][2] = I64
  BY <1>1, Zenon
<1>4. \A i, j \in DOMAIN F : F[i][1] = F[j][1] => i = j BY <1>2, <1>3
<1>5. {F[i][1] : i \in DOMAIN F} = {"agentMint", "evmAddress", "chainId", "linkedAt"} BY <1>2, <1>3
<1>6. DOMAIN v = {"agentMint", "evmAddress", "chainId", "linkedAt"} /\ v["agentMint"] = a /\ v["evmAddress"] = b /\ v["chainId"] = c /\ v["linkedAt"] = d
  BY <1>1
<1>7. v = [name \in {F[i][1] : i \in DOMAIN F} |-> v[name]] BY <1>1, <1>5, <1>6
<1>8. \A i \in DOMAIN F : FieldFine(F[i][2], v[F[i][1]])
  <2>1. FieldFine(F[1][2], v[F[1][1]]) BY <1>3, TheScalars, Zenon DEF FieldFine
  <2>2. FieldFine(F[2][2], v[F[2][1]]) BY <1>3, TheScalars, Zenon DEF FieldFine
  <2>3. FieldFine(F[3][2], v[F[3][1]]) BY <1>3, TheScalars, Zenon DEF FieldFine
  <2>4. FieldFine(F[4][2], v[F[4][1]]) BY <1>3, TheScalars, Zenon DEF FieldFine
  <2> QED BY <1>2, <2>1, <2>2, <2>3, <2>4
<1>9. Fielded(F, v)
  <2>1. F # <<>> /\ Len(F) \in Nat /\ DOMAIN F = 1..Len(F) BY <1>1, <1>2
  <2> QED BY <1>2, <1>4, <1>7, <1>8, <2>1, Zenon DEF Fielded
<1>10. PICK f : Begins(f, F, v, 4) BY <1>2, <1>9, Beginning, Zenon
<1>11. /\ PartOf(F[1], v) = Encode(Pubkey, a)
       /\ PartOf(F[2], v) = Encode(FixedBytes(20), b)
       /\ PartOf(F[3], v) = Encode(Text, c)
       /\ PartOf(F[4], v) = Encode(I64, d)
  BY <1>3, <1>6, Zenon DEF PartOf
<1>12. /\ f[1] = PartOf(F[1], v)
       /\ f[2] = f[1] \o PartOf(F[2], v)
       /\ f[3] = f[2] \o PartOf(F[3], v)
       /\ f[4] = f[3] \o PartOf(F[4], v)
       /\ Encode(Struct(F), v) = f[4]
  BY <1>10, Zenon DEF Begins
<1>13. u = Encode(Struct(F), v)
  <2>1. u = Encode(Pubkey, a) \o Encode(FixedBytes(20), b) \o Encode(Text, c) \o Encode(I64, d) BY <1>1, Zenon
  <2> QED BY <1>11, <1>12, <2>1, Zenon
<1>14. EvmAddressLinked = Struct(F)
  BY <1>1 DEF EvmAddressLinked
<1>15. Decode(EvmAddressLinked, u).value = v BY <1>9, <1>13, <1>14, FieldsRead, Zenon
<1> QED BY <1>1, <1>15, Zenon DEF Reads

LEMMA AttestationCreatedRead ==
    ASSUME NEW a, NEW b, NEW c, NEW d, NEW e
    PROVE  Reads(AttestationCreated,
                 Encode(Pubkey, a) \o Encode(Pubkey, b) \o Encode(Pubkey, c) \o Encode(U8, d) \o Encode(Pubkey, e),
                 [sasSchema |-> a, tokenAccount |-> b, counterparty |-> c, storageType |-> d, address |-> e])
<1>1. PICK F, v, u : /\ F = << <<"sasSchema", Pubkey>>, <<"tokenAccount", Pubkey>>, <<"counterparty", Pubkey>>, <<"storageType", U8>>, <<"address", Pubkey>> >>
                     /\ v = [sasSchema |-> a, tokenAccount |-> b, counterparty |-> c, storageType |-> d, address |-> e]
                     /\ u = Encode(Pubkey, a) \o Encode(Pubkey, b) \o Encode(Pubkey, c) \o Encode(U8, d) \o Encode(Pubkey, e)
  OBVIOUS
<1>2. Sequence(F) /\ Len(F) = 5 /\ DOMAIN F = 1..5
  <2>1. F \in Seq({F[i] : i \in 1..5}) /\ Len(F) = 5 /\ DOMAIN F = 1..5 BY <1>1
  <2> QED BY <2>1, Zenon DEF Sequence
<1>3. /\ F[1][1] = "sasSchema" /\ F[1][2] = Pubkey
      /\ F[2][1] = "tokenAccount" /\ F[2][2] = Pubkey
      /\ F[3][1] = "counterparty" /\ F[3][2] = Pubkey
      /\ F[4][1] = "storageType" /\ F[4][2] = U8
      /\ F[5][1] = "address" /\ F[5][2] = Pubkey
  BY <1>1, Zenon
<1>4. \A i, j \in DOMAIN F : F[i][1] = F[j][1] => i = j BY <1>2, <1>3
<1>5. {F[i][1] : i \in DOMAIN F} = {"sasSchema", "tokenAccount", "counterparty", "storageType", "address"} BY <1>2, <1>3
<1>6. DOMAIN v = {"sasSchema", "tokenAccount", "counterparty", "storageType", "address"} /\ v["sasSchema"] = a /\ v["tokenAccount"] = b /\ v["counterparty"] = c /\ v["storageType"] = d /\ v["address"] = e
  BY <1>1
<1>7. v = [name \in {F[i][1] : i \in DOMAIN F} |-> v[name]] BY <1>1, <1>5, <1>6
<1>8. \A i \in DOMAIN F : FieldFine(F[i][2], v[F[i][1]])
  <2>1. FieldFine(F[1][2], v[F[1][1]]) BY <1>3, TheScalars, Zenon DEF FieldFine
  <2>2. FieldFine(F[2][2], v[F[2][1]]) BY <1>3, TheScalars, Zenon DEF FieldFine
  <2>3. FieldFine(F[3][2], v[F[3][1]]) BY <1>3, TheScalars, Zenon DEF FieldFine
  <2>4. FieldFine(F[4][2], v[F[4][1]]) BY <1>3, TheScalars, Zenon DEF FieldFine
  <2>5. FieldFine(F[5][2], v[F[5][1]]) BY <1>3, TheScalars, Zenon DEF FieldFine
  <2> QED BY <1>2, <2>1, <2>2, <2>3, <2>4, <2>5
<1>9. Fielded(F, v)
  <2>1. F # <<>> /\ Len(F) \in Nat /\ DOMAIN F = 1..Len(F) BY <1>1, <1>2
  <2> QED BY <1>2, <1>4, <1>7, <1>8, <2>1, Zenon DEF Fielded
<1>10. PICK f : Begins(f, F, v, 5) BY <1>2, <1>9, Beginning, Zenon
<1>11. /\ PartOf(F[1], v) = Encode(Pubkey, a)
       /\ PartOf(F[2], v) = Encode(Pubkey, b)
       /\ PartOf(F[3], v) = Encode(Pubkey, c)
       /\ PartOf(F[4], v) = Encode(U8, d)
       /\ PartOf(F[5], v) = Encode(Pubkey, e)
  BY <1>3, <1>6, Zenon DEF PartOf
<1>12. /\ f[1] = PartOf(F[1], v)
       /\ f[2] = f[1] \o PartOf(F[2], v)
       /\ f[3] = f[2] \o PartOf(F[3], v)
       /\ f[4] = f[3] \o PartOf(F[4], v)
       /\ f[5] = f[4] \o PartOf(F[5], v)
       /\ Encode(Struct(F), v) = f[5]
  BY <1>10, Zenon DEF Begins
<1>13. u = Encode(Struct(F), v)
  <2>1. u = Encode(Pubkey, a) \o Encode(Pubkey, b) \o Encode(Pubkey, c) \o Encode(U8, d) \o Encode(Pubkey, e) BY <1>1, Zenon
  <2> QED BY <1>11, <1>12, <2>1, Zenon
<1>14. AttestationCreated = Struct(F)
  BY <1>1 DEF AttestationCreated, StorageType, U8
<1>15. Decode(AttestationCreated, u).value = v BY <1>9, <1>13, <1>14, FieldsRead, Zenon
<1> QED BY <1>1, <1>15, Zenon DEF Reads

LEMMA AgentIndexRead ==
    ASSUME NEW a, NEW b, NEW c
    PROVE  Reads(AgentIndexFields,
                 Encode(FixedBytes(8), a) \o Encode(Pubkey, b) \o Encode(U8, c),
                 [discriminator |-> a, mint |-> b, bump |-> c])
<1>1. PICK F, v, u : /\ F = << <<"discriminator", FixedBytes(8)>>, <<"mint", Pubkey>>, <<"bump", U8>> >>
                     /\ v = [discriminator |-> a, mint |-> b, bump |-> c]
                     /\ u = Encode(FixedBytes(8), a) \o Encode(Pubkey, b) \o Encode(U8, c)
  OBVIOUS
<1>2. Sequence(F) /\ Len(F) = 3 /\ DOMAIN F = 1..3
  <2>1. F \in Seq({F[i] : i \in 1..3}) /\ Len(F) = 3 /\ DOMAIN F = 1..3 BY <1>1
  <2> QED BY <2>1, Zenon DEF Sequence
<1>3. /\ F[1][1] = "discriminator" /\ F[1][2] = FixedBytes(8)
      /\ F[2][1] = "mint" /\ F[2][2] = Pubkey
      /\ F[3][1] = "bump" /\ F[3][2] = U8
  BY <1>1, Zenon
<1>4. \A i, j \in DOMAIN F : F[i][1] = F[j][1] => i = j BY <1>2, <1>3
<1>5. {F[i][1] : i \in DOMAIN F} = {"discriminator", "mint", "bump"} BY <1>2, <1>3
<1>6. DOMAIN v = {"discriminator", "mint", "bump"} /\ v["discriminator"] = a /\ v["mint"] = b /\ v["bump"] = c
  BY <1>1
<1>7. v = [name \in {F[i][1] : i \in DOMAIN F} |-> v[name]] BY <1>1, <1>5, <1>6
<1>8. \A i \in DOMAIN F : FieldFine(F[i][2], v[F[i][1]])
  <2>1. FieldFine(F[1][2], v[F[1][1]]) BY <1>3, TheScalars, Zenon DEF FieldFine
  <2>2. FieldFine(F[2][2], v[F[2][1]]) BY <1>3, TheScalars, Zenon DEF FieldFine
  <2>3. FieldFine(F[3][2], v[F[3][1]]) BY <1>3, TheScalars, Zenon DEF FieldFine
  <2> QED BY <1>2, <2>1, <2>2, <2>3
<1>9. Fielded(F, v)
  <2>1. F # <<>> /\ Len(F) \in Nat /\ DOMAIN F = 1..Len(F) BY <1>1, <1>2
  <2> QED BY <1>2, <1>4, <1>7, <1>8, <2>1, Zenon DEF Fielded
<1>10. PICK f : Begins(f, F, v, 3) BY <1>2, <1>9, Beginning, Zenon
<1>11. /\ PartOf(F[1], v) = Encode(FixedBytes(8), a)
       /\ PartOf(F[2], v) = Encode(Pubkey, b)
       /\ PartOf(F[3], v) = Encode(U8, c)
  BY <1>3, <1>6, Zenon DEF PartOf
<1>12. /\ f[1] = PartOf(F[1], v)
       /\ f[2] = f[1] \o PartOf(F[2], v)
       /\ f[3] = f[2] \o PartOf(F[3], v)
       /\ Encode(Struct(F), v) = f[3]
  BY <1>10, Zenon DEF Begins
<1>13. u = Encode(Struct(F), v)
  <2>1. u = Encode(FixedBytes(8), a) \o Encode(Pubkey, b) \o Encode(U8, c) BY <1>1, Zenon
  <2> QED BY <1>11, <1>12, <2>1, Zenon
<1>14. AgentIndexFields = Struct(F)
  <2>1. PICK x : x = << <<"mint", Pubkey>>, <<"bump", U8>> >> OBVIOUS
  <2>2. <<F[1]>> \o x = F
    <3>1. x \in Seq({x[i] : i \in 1..2}) /\ Len(x) = 2 BY <2>1
    <3>2. Sequence(x) BY <3>1, Zenon DEF Sequence
    <3>3. \A i \in 1..2 : F[i + 1] = x[i]
      <4>1. F[2] = x[1] /\ F[3] = x[2] BY <1>1, <2>1
      <4> QED BY <4>1
    <3>4. Len(F) = Len(x) + 1 BY <1>2, <3>1
    <3>5. \A i \in 1..Len(x) : F[i + 1] = x[i] BY <3>1, <3>3
    <3>6. FirstThen(F, x) BY <1>2, <3>2, <3>4, <3>5, FirstOf, Zenon
    <3> QED BY <3>6, Zenon DEF FirstThen
  <2>3. << <<"discriminator", FixedBytes(8)>> >> = <<F[1]>> BY <1>1
  <2> QED BY <2>1, <2>2, <2>3 DEF AgentIndexFields, WithDiscriminator
<1>15. Decode(AgentIndexFields, u).value = v BY <1>9, <1>13, <1>14, FieldsRead, Zenon
<1> QED BY <1>1, <1>15, Zenon DEF Reads

LEMMA RegistryConfigRead ==
    ASSUME NEW a, NEW b, NEW c, NEW d, NEW e
    PROVE  Reads(RegistryConfigFields,
                 Encode(FixedBytes(8), a) \o Encode(Pubkey, b) \o Encode(Pubkey, c) \o Encode(U64, d) \o Encode(U8, e),
                 [discriminator |-> a, groupMint |-> b, authority |-> c, totalAgents |-> d, bump |-> e])
<1>1. PICK F, v, u : /\ F = << <<"discriminator", FixedBytes(8)>>, <<"groupMint", Pubkey>>, <<"authority", Pubkey>>, <<"totalAgents", U64>>, <<"bump", U8>> >>
                     /\ v = [discriminator |-> a, groupMint |-> b, authority |-> c, totalAgents |-> d, bump |-> e]
                     /\ u = Encode(FixedBytes(8), a) \o Encode(Pubkey, b) \o Encode(Pubkey, c) \o Encode(U64, d) \o Encode(U8, e)
  OBVIOUS
<1>2. Sequence(F) /\ Len(F) = 5 /\ DOMAIN F = 1..5
  <2>1. F \in Seq({F[i] : i \in 1..5}) /\ Len(F) = 5 /\ DOMAIN F = 1..5 BY <1>1
  <2> QED BY <2>1, Zenon DEF Sequence
<1>3. /\ F[1][1] = "discriminator" /\ F[1][2] = FixedBytes(8)
      /\ F[2][1] = "groupMint" /\ F[2][2] = Pubkey
      /\ F[3][1] = "authority" /\ F[3][2] = Pubkey
      /\ F[4][1] = "totalAgents" /\ F[4][2] = U64
      /\ F[5][1] = "bump" /\ F[5][2] = U8
  BY <1>1, Zenon
<1>4. \A i, j \in DOMAIN F : F[i][1] = F[j][1] => i = j BY <1>2, <1>3
<1>5. {F[i][1] : i \in DOMAIN F} = {"discriminator", "groupMint", "authority", "totalAgents", "bump"} BY <1>2, <1>3
<1>6. DOMAIN v = {"discriminator", "groupMint", "authority", "totalAgents", "bump"} /\ v["discriminator"] = a /\ v["groupMint"] = b /\ v["authority"] = c /\ v["totalAgents"] = d /\ v["bump"] = e
  BY <1>1
<1>7. v = [name \in {F[i][1] : i \in DOMAIN F} |-> v[name]] BY <1>1, <1>5, <1>6
<1>8. \A i \in DOMAIN F : FieldFine(F[i][2], v[F[i][1]])
  <2>1. FieldFine(F[1][2], v[F[1][1]]) BY <1>3, TheScalars, Zenon DEF FieldFine
  <2>2. FieldFine(F[2][2], v[F[2][1]]) BY <1>3, TheScalars, Zenon DEF FieldFine
  <2>3. FieldFine(F[3][2], v[F[3][1]]) BY <1>3, TheScalars, Zenon DEF FieldFine
  <2>4. FieldFine(F[4][2], v[F[4][1]]) BY <1>3, TheScalars, Zenon DEF FieldFine
  <2>5. FieldFine(F[5][2], v[F[5][1]]) BY <1>3, TheScalars, Zenon DEF FieldFine
  <2> QED BY <1>2, <2>1, <2>2, <2>3, <2>4, <2>5
<1>9. Fielded(F, v)
  <2>1. F # <<>> /\ Len(F) \in Nat /\ DOMAIN F = 1..Len(F) BY <1>1, <1>2
  <2> QED BY <1>2, <1>4, <1>7, <1>8, <2>1, Zenon DEF Fielded
<1>10. PICK f : Begins(f, F, v, 5) BY <1>2, <1>9, Beginning, Zenon
<1>11. /\ PartOf(F[1], v) = Encode(FixedBytes(8), a)
       /\ PartOf(F[2], v) = Encode(Pubkey, b)
       /\ PartOf(F[3], v) = Encode(Pubkey, c)
       /\ PartOf(F[4], v) = Encode(U64, d)
       /\ PartOf(F[5], v) = Encode(U8, e)
  BY <1>3, <1>6, Zenon DEF PartOf
<1>12. /\ f[1] = PartOf(F[1], v)
       /\ f[2] = f[1] \o PartOf(F[2], v)
       /\ f[3] = f[2] \o PartOf(F[3], v)
       /\ f[4] = f[3] \o PartOf(F[4], v)
       /\ f[5] = f[4] \o PartOf(F[5], v)
       /\ Encode(Struct(F), v) = f[5]
  BY <1>10, Zenon DEF Begins
<1>13. u = Encode(Struct(F), v)
  <2>1. u = Encode(FixedBytes(8), a) \o Encode(Pubkey, b) \o Encode(Pubkey, c) \o Encode(U64, d) \o Encode(U8, e) BY <1>1, Zenon
  <2> QED BY <1>11, <1>12, <2>1, Zenon
<1>14. RegistryConfigFields = Struct(F)
  <2>1. PICK x : x = << <<"groupMint", Pubkey>>, <<"authority", Pubkey>>, <<"totalAgents", U64>>, <<"bump", U8>> >> OBVIOUS
  <2>2. <<F[1]>> \o x = F
    <3>1. x \in Seq({x[i] : i \in 1..4}) /\ Len(x) = 4 BY <2>1
    <3>2. Sequence(x) BY <3>1, Zenon DEF Sequence
    <3>3. \A i \in 1..4 : F[i + 1] = x[i]
      <4>1. F[2] = x[1] /\ F[3] = x[2] /\ F[4] = x[3] /\ F[5] = x[4] BY <1>1, <2>1
      <4> QED BY <4>1
    <3>4. Len(F) = Len(x) + 1 BY <1>2, <3>1
    <3>5. \A i \in 1..Len(x) : F[i + 1] = x[i] BY <3>1, <3>3
    <3>6. FirstThen(F, x) BY <1>2, <3>2, <3>4, <3>5, FirstOf, Zenon
    <3> QED BY <3>6, Zenon DEF FirstThen
  <2>3. << <<"discriminator", FixedBytes(8)>> >> = <<F[1]>> BY <1>1
  <2> QED BY <2>1, <2>2, <2>3 DEF RegistryConfigFields, WithDiscriminator
<1>15. Decode(RegistryConfigFields, u).value = v BY <1>9, <1>13, <1>14, FieldsRead, Zenon
<1> QED BY <1>1, <1>15, Zenon DEF Reads

LEMMA SchemaConfigRead ==
    ASSUME NEW a, NEW b, NEW c, NEW d, NEW e, NEW g, NEW h, NEW k, Sequence(e), Len(e) <= 1
    PROVE  Reads(SchemaConfigFields,
                 Encode(FixedBytes(8), a) \o Encode(Pubkey, b) \o Encode(U8, c) \o Encode(U8, d) \o Encode(Option(Pubkey), e) \o Encode(Bool, g) \o Encode(Text, h) \o Encode(U8, k),
                 [discriminator |-> a, sasSchema |-> b, signatureMode |-> c, storageType |-> d, delegationSchema |-> e, closeable |-> g, name |-> h, bump |-> k])
<1>1. PICK F, v, u : /\ F = << <<"discriminator", FixedBytes(8)>>, <<"sasSchema", Pubkey>>, <<"signatureMode", U8>>, <<"storageType", U8>>, <<"delegationSchema", Option(Pubkey)>>, <<"closeable", Bool>>, <<"name", Text>>, <<"bump", U8>> >>
                     /\ v = [discriminator |-> a, sasSchema |-> b, signatureMode |-> c, storageType |-> d, delegationSchema |-> e, closeable |-> g, name |-> h, bump |-> k]
                     /\ u = Encode(FixedBytes(8), a) \o Encode(Pubkey, b) \o Encode(U8, c) \o Encode(U8, d) \o Encode(Option(Pubkey), e) \o Encode(Bool, g) \o Encode(Text, h) \o Encode(U8, k)
  OBVIOUS
<1>2. Sequence(F) /\ Len(F) = 8 /\ DOMAIN F = 1..8
  <2>1. F \in Seq({F[i] : i \in 1..8}) /\ Len(F) = 8 /\ DOMAIN F = 1..8 BY <1>1
  <2> QED BY <2>1, Zenon DEF Sequence
<1>3. /\ F[1][1] = "discriminator" /\ F[1][2] = FixedBytes(8)
      /\ F[2][1] = "sasSchema" /\ F[2][2] = Pubkey
      /\ F[3][1] = "signatureMode" /\ F[3][2] = U8
      /\ F[4][1] = "storageType" /\ F[4][2] = U8
      /\ F[5][1] = "delegationSchema" /\ F[5][2] = Option(Pubkey)
      /\ F[6][1] = "closeable" /\ F[6][2] = Bool
      /\ F[7][1] = "name" /\ F[7][2] = Text
      /\ F[8][1] = "bump" /\ F[8][2] = U8
  BY <1>1, Zenon
<1>4. \A i, j \in DOMAIN F : F[i][1] = F[j][1] => i = j BY <1>2, <1>3
<1>5. {F[i][1] : i \in DOMAIN F} = {"discriminator", "sasSchema", "signatureMode", "storageType", "delegationSchema", "closeable", "name", "bump"} BY <1>2, <1>3
<1>6. DOMAIN v = {"discriminator", "sasSchema", "signatureMode", "storageType", "delegationSchema", "closeable", "name", "bump"} /\ v["discriminator"] = a /\ v["sasSchema"] = b /\ v["signatureMode"] = c /\ v["storageType"] = d /\ v["delegationSchema"] = e /\ v["closeable"] = g /\ v["name"] = h /\ v["bump"] = k
  BY <1>1
<1>7. v = [name \in {F[i][1] : i \in DOMAIN F} |-> v[name]] BY <1>1, <1>5, <1>6
<1>8. \A i \in DOMAIN F : FieldFine(F[i][2], v[F[i][1]])
  <2>1. FieldFine(F[1][2], v[F[1][1]]) BY <1>3, TheScalars, Zenon DEF FieldFine
  <2>2. FieldFine(F[2][2], v[F[2][1]]) BY <1>3, TheScalars, Zenon DEF FieldFine
  <2>3. FieldFine(F[3][2], v[F[3][1]]) BY <1>3, TheScalars, Zenon DEF FieldFine
  <2>4. FieldFine(F[4][2], v[F[4][1]]) BY <1>3, TheScalars, Zenon DEF FieldFine
  <2>5. FieldFine(F[5][2], v[F[5][1]]) BY <1>3, <1>6, Zenon DEF FieldFine
  <2>6. FieldFine(F[6][2], v[F[6][1]]) BY <1>3, TheScalars, Zenon DEF FieldFine
  <2>7. FieldFine(F[7][2], v[F[7][1]]) BY <1>3, TheScalars, Zenon DEF FieldFine
  <2>8. FieldFine(F[8][2], v[F[8][1]]) BY <1>3, TheScalars, Zenon DEF FieldFine
  <2> QED BY <1>2, <2>1, <2>2, <2>3, <2>4, <2>5, <2>6, <2>7, <2>8
<1>9. Fielded(F, v)
  <2>1. F # <<>> /\ Len(F) \in Nat /\ DOMAIN F = 1..Len(F) BY <1>1, <1>2
  <2> QED BY <1>2, <1>4, <1>7, <1>8, <2>1, Zenon DEF Fielded
<1>10. PICK f : Begins(f, F, v, 8) BY <1>2, <1>9, Beginning, Zenon
<1>11. /\ PartOf(F[1], v) = Encode(FixedBytes(8), a)
       /\ PartOf(F[2], v) = Encode(Pubkey, b)
       /\ PartOf(F[3], v) = Encode(U8, c)
       /\ PartOf(F[4], v) = Encode(U8, d)
       /\ PartOf(F[5], v) = Encode(Option(Pubkey), e)
       /\ PartOf(F[6], v) = Encode(Bool, g)
       /\ PartOf(F[7], v) = Encode(Text, h)
       /\ PartOf(F[8], v) = Encode(U8, k)
  BY <1>3, <1>6, Zenon DEF PartOf
<1>12. /\ f[1] = PartOf(F[1], v)
       /\ f[2] = f[1] \o PartOf(F[2], v)
       /\ f[3] = f[2] \o PartOf(F[3], v)
       /\ f[4] = f[3] \o PartOf(F[4], v)
       /\ f[5] = f[4] \o PartOf(F[5], v)
       /\ f[6] = f[5] \o PartOf(F[6], v)
       /\ f[7] = f[6] \o PartOf(F[7], v)
       /\ f[8] = f[7] \o PartOf(F[8], v)
       /\ Encode(Struct(F), v) = f[8]
  BY <1>10, Zenon DEF Begins
<1>13. u = Encode(Struct(F), v)
  <2>1. u = Encode(FixedBytes(8), a) \o Encode(Pubkey, b) \o Encode(U8, c) \o Encode(U8, d) \o Encode(Option(Pubkey), e) \o Encode(Bool, g) \o Encode(Text, h) \o Encode(U8, k) BY <1>1, Zenon
  <2> QED BY <1>11, <1>12, <2>1, Zenon
<1>14. SchemaConfigFields = Struct(F)
  <2>1. PICK x : x = << <<"sasSchema", Pubkey>>, <<"signatureMode", U8>>, <<"storageType", U8>>, <<"delegationSchema", Option(Pubkey)>>, <<"closeable", Bool>>, <<"name", Text>>, <<"bump", U8>> >> OBVIOUS
  <2>2. <<F[1]>> \o x = F
    <3>1. x \in Seq({x[i] : i \in 1..7}) /\ Len(x) = 7 BY <2>1
    <3>2. Sequence(x) BY <3>1, Zenon DEF Sequence
    <3>3. \A i \in 1..7 : F[i + 1] = x[i]
      <4>1. F[2] = x[1] /\ F[3] = x[2] /\ F[4] = x[3] /\ F[5] = x[4] /\ F[6] = x[5] /\ F[7] = x[6] /\ F[8] = x[7] BY <1>1, <2>1
      <4> QED BY <4>1
    <3>4. Len(F) = Len(x) + 1 BY <1>2, <3>1
    <3>5. \A i \in 1..Len(x) : F[i + 1] = x[i] BY <3>1, <3>3
    <3>6. FirstThen(F, x) BY <1>2, <3>2, <3>4, <3>5, FirstOf, Zenon
    <3> QED BY <3>6, Zenon DEF FirstThen
  <2>3. << <<"discriminator", FixedBytes(8)>> >> = <<F[1]>> BY <1>1
  <2> QED BY <2>1, <2>2, <2>3 DEF SchemaConfigFields, WithDiscriminator, SignatureMode, StorageType, U8
<1>15. Decode(SchemaConfigFields, u).value = v BY <1>9, <1>13, <1>14, FieldsRead, Zenon
<1> QED BY <1>1, <1>15, Zenon DEF Reads
==============================================================================
