---------------------------- MODULE CodecProofs ----------------------------
(***************************************************************************)
(* Theorems about Codec, for every schema and every message: the reader    *)
(* goes the way the writer went, until the octets end.                     *)
(***************************************************************************)
EXTENDS Codec, TLAPS

-----------------------------------------------------------------------------
(* Sequences.                                                              *)

LEMMA FcnIsSeq ==
  ASSUME NEW S, NEW n \in Nat, NEW f \in [1..n -> S]
  PROVE  f \in Seq(S) /\ Len(f) = n
OBVIOUS

LEMMA Element ==
  ASSUME NEW S, NEW s \in Seq(S)
  PROVE  /\ Len(s) \in Nat /\ DOMAIN s = 1..Len(s)
         /\ \A i \in 1..Len(s) : s[i] \in S
OBVIOUS

LEMMA Joined ==
  ASSUME NEW S, NEW s \in Seq(S), NEW t \in Seq(S)
  PROVE  /\ s \o t \in Seq(S) /\ Len(s \o t) = Len(s) + Len(t)
         /\ \A i \in 1..Len(s) : (s \o t)[i] = s[i]
         /\ \A i \in 1..Len(t) : (s \o t)[Len(s) + i] = t[i]
OBVIOUS

LEMMA Appended ==
  ASSUME NEW S, NEW s \in Seq(S), NEW e \in S
  PROVE  /\ Append(s, e) \in Seq(S) /\ Len(Append(s, e)) = Len(s) + 1
         /\ \A i \in 1..Len(s) : Append(s, e)[i] = s[i]
         /\ Append(s, e)[Len(s) + 1] = e
OBVIOUS

LEMMA Behind ==
  ASSUME NEW S, NEW s \in Seq(S), s # << >>
  PROVE  /\ Head(s) \in S /\ Tail(s) \in Seq(S) /\ Len(Tail(s)) = Len(s) - 1
         /\ \A i \in 1..(Len(s) - 1) : Tail(s)[i] = s[i + 1]
OBVIOUS

LEMMA Cut ==
  ASSUME NEW S, NEW s \in Seq(S), NEW i \in Nat \ {0}, NEW j \in Nat, j <= Len(s), i <= j + 1
  PROVE  /\ SubSeq(s, i, j) \in Seq(S) /\ Len(SubSeq(s, i, j)) = j - i + 1
         /\ \A k \in 1..(j - i + 1) : SubSeq(s, i, j)[k] = s[i + k - 1]
OBVIOUS

LEMMA SameSeq ==
  ASSUME NEW S, NEW s \in Seq(S), NEW t \in Seq(S), Len(s) = Len(t),
         \A i \in 1..Len(s) : s[i] = t[i]
  PROVE  s = t
OBVIOUS

-----------------------------------------------------------------------------
(* Sizes and padding.                                                      *)

Sizes == {1, 2, 4, 8}

LEMMA SizeTyped == \A c : Size(c) \in Sizes
BY DEF Size, Sizes

LEMMA SizeOfCount == Size("I") = 4 /\ Alignment("T") = 4
BY DEF Size, Alignment

LEMMA AlignmentTyped == \A c : Alignment(c) \in Sizes
BY SizeTyped DEF Alignment

LEMMA PadFacts ==
  ASSUME NEW x \in Int, NEW s \in Sizes
  PROVE  /\ Pad(x, s) \in 0..(s - 1)
         /\ (x + Pad(x, s)) % s = 0
         /\ x % s = 0 => Pad(x, s) = 0
<1>1. CASE s = 1
  BY <1>1 DEF Pad
<1>2. CASE s = 2
  BY <1>2 DEF Pad
<1>3. CASE s = 4
  BY <1>3 DEF Pad
<1>4. CASE s = 8
  BY <1>4 DEF Pad
<1>5. QED
  BY <1>1, <1>2, <1>3, <1>4 DEF Sizes

\* What is a multiple of a size is one of every smaller size.
LEMMA Divides ==
  ASSUME NEW x \in Nat, NEW s \in Sizes, NEW r \in Sizes, r <= s, x % s = 0
  PROVE  x % r = 0
<1>1. CASE s = 1
  BY <1>1 DEF Sizes
<1>2. CASE s = 2
  BY <1>2 DEF Sizes
<1>3. CASE s = 4
  BY <1>3 DEF Sizes
<1>4. CASE s = 8
  BY <1>4 DEF Sizes
<1>5. QED
  BY <1>1, <1>2, <1>3, <1>4 DEF Sizes

LEMMA SumOfMultiples ==
  ASSUME NEW x \in Int, NEW y \in Nat, NEW s \in Sizes, x % s = 0, y % s = 0
  PROVE  (x + y) % s = 0
<1>1. CASE s = 1
  BY <1>1
<1>2. CASE s = 2
  BY <1>2
<1>3. CASE s = 4
  BY <1>3
<1>4. CASE s = 8
  BY <1>4
<1>5. QED
  BY <1>1, <1>2, <1>3, <1>4 DEF Sizes

LEMMA MaxAlignFacts ==
  ASSUME NEW t \in DOMAIN Schema, Fast(t)
  PROVE  /\ MaxAlign(t) \in Sizes
         /\ \A i \in DOMAIN Schema[t] : Size(Schema[t][i].of) <= MaxAlign(t)
         /\ \E i \in DOMAIN Schema[t] : Size(Schema[t][i].of) = MaxAlign(t)
<1> DEFINE Has(k) == \E i \in DOMAIN Schema[t] : Size(Schema[t][i].of) = k
<1>1. \A i \in DOMAIN Schema[t] : Size(Schema[t][i].of) \in Sizes
  BY SizeTyped
<1>2. 1 \in DOMAIN Schema[t]
  BY SchemaAssumption DEF Fast
<1>3. \E k \in {1, 2, 4, 8} : Has(k)
  BY <1>1, <1>2 DEF Sizes
<1>4. \E k \in {1, 2, 4, 8} : Has(k) /\ \A i \in DOMAIN Schema[t] : Size(Schema[t][i].of) <= k
  <2>1. CASE Has(8)
    BY <1>1, <2>1 DEF Sizes
  <2>2. CASE Has(4) /\ ~Has(8)
    BY <1>1, <2>2 DEF Sizes
  <2>3. CASE Has(2) /\ ~Has(4) /\ ~Has(8)
    BY <1>1, <2>3 DEF Sizes
  <2>4. CASE Has(1) /\ ~Has(2) /\ ~Has(4) /\ ~Has(8)
    BY <1>1, <2>4 DEF Sizes
  <2>5. QED
    BY <1>3, <2>1, <2>2, <2>3, <2>4
<1>5. QED
  BY <1>4 DEF MaxAlign, Sizes

-----------------------------------------------------------------------------
(* What is to do.                                                          *)

Items == [of : Codes, n : Int, from : Nat]

LEMMA WholeTyped == \A t \in DOMAIN Schema : Whole(t) \in Seq(Items) /\ Whole(t) # << >>
BY DEF Whole, Items, Codes

LEMMA FieldsTyped ==
  ASSUME NEW t \in DOMAIN Schema, NEW at \in Nat
  PROVE  FieldsOf(t, at) \in Seq(Items)
<1>1. Schema[t] \in Seq([of : Codes, n : Int])
  BY SchemaAssumption
<1>2. \A i \in 1..Len(Schema[t]) : Schema[t][i] \in [of : Codes, n : Int]
  BY <1>1, Element
<1> DEFINE n == Len(Schema[t])
           start == IF Fast(t) THEN at ELSE 0
<1>3. n \in Nat /\ DOMAIN Schema[t] = 1..n /\ start \in Nat
  BY <1>1
<1>4. FieldsOf(t, at) = [i \in 1..n |-> [of |-> Schema[t][i].of, n |-> Schema[t][i].n, from |-> start]]
  BY <1>3 DEF FieldsOf
<1> HIDE DEF n, start
<1>5. \A i \in 1..n : [of |-> Schema[t][i].of, n |-> Schema[t][i].n, from |-> start] \in Items
  BY <1>2, <1>3 DEF Items, n
<1>6. FieldsOf(t, at) \in [1..n -> Items]
  BY <1>4, <1>5
<1>7. QED
  BY <1>3, <1>6, FcnIsSeq

LEMMA InsideTyped ==
  ASSUME NEW f \in Items, NEW k, f.n # 1 => k \in Int, NEW at \in Nat
  PROVE  Inside(f, k, at) \in Seq(Items)
<1>1. CASE f.n # 1
  <2>1. k \in Int
    BY <1>1
  <2>2. CASE k >= 0
    BY <1>1, <2>1, <2>2 DEF Inside, Elements, Items
  <2>3. CASE k < 0
    BY <1>1, <2>1, <2>3 DEF Inside, Elements, Items
  <2>4. QED
    BY <2>1, <2>2, <2>3
<1>2. CASE f.n = 1 /\ Entered(f)
  <2>1. f.of \in DOMAIN Schema
    BY <1>2 DEF Entered, IsLeaf, Items, Codes
  <2>2. QED
    BY <1>2, <2>1, FieldsTyped DEF Inside
<1>3. CASE f.n = 1 /\ ~Entered(f)
  BY <1>3 DEF Inside
<1>4. QED
  BY <1>1, <1>2, <1>3

LEMMA PlaceTyped ==
  ASSUME NEW f \in Items, NEW p \in Nat
  PROVE  Place(f, p) \in Nat /\ Place(f, p) >= p
<1>1. CASE IsLeaf(f)
  <2> DEFINE s == Alignment(Code(f))
  <2>1. s \in Sizes /\ p - f.from \in Int
    BY AlignmentTyped DEF Items
  <2> HIDE DEF s
  <2>2. Pad(p - f.from, s) \in 0..(s - 1)
    BY <2>1, PadFacts
  <2>3. Place(f, p) = p + Pad(p - f.from, s)
    BY <1>1 DEF Place, s
  <2>4. s \in Nat
    BY <2>1 DEF Sizes
  <2>5. QED
    BY <2>2, <2>3, <2>4
<1>2. CASE ~IsLeaf(f) /\ Entered(f) /\ Fast(f.of)
  <2>1. f.of \in DOMAIN Schema
    BY <1>2 DEF Entered, IsLeaf, Items, Codes
  <2> DEFINE s == MaxAlign(f.of)
  <2>2. s \in Sizes
    BY <1>2, <2>1, MaxAlignFacts
  <2> HIDE DEF s
  <2>3. Pad(p, s) \in 0..(s - 1)
    BY <2>2, PadFacts
  <2>4. Place(f, p) = p + Pad(p, s)
    BY <1>2 DEF Place, s
  <2>5. s \in Nat
    BY <2>2 DEF Sizes
  <2>6. QED
    BY <2>3, <2>4, <2>5
<1>3. CASE ~IsLeaf(f) /\ ~(Entered(f) /\ Fast(f.of))
  BY <1>3 DEF Place
<1>4. QED
  BY <1>1, <1>2, <1>3
-----------------------------------------------------------------------------
(* The octets of a leaf.                                                   *)

\* What a leaf may be: nothing is longer than the reader believes in.
Proper(f, v) ==
  IF f.n < 0 THEN v \in 0..MaxAlloc
  ELSE IF f.of = "T" THEN v \in Seq(Nat) /\ Len(v) < MaxAlloc
  ELSE IF f.of = "b" THEN v \in {0, 1} ELSE v \in Nat

LEMMA ZerosFacts ==
  ASSUME NEW k \in Nat
  PROVE  /\ Zeros(k) \in Seq(Nat) /\ Len(Zeros(k)) = k
         /\ \A i \in 1..k : Zeros(k)[i] = 0
BY DEF Zeros

LEMMA NumberFacts ==
  ASSUME NEW c, NEW v \in Nat
  PROVE  Number(c, v) \in Seq(Nat) /\ Len(Number(c, v)) = Size(c) /\ Number(c, v)[1] = v
<1>1. Size(c) \in Nat /\ Size(c) >= 1
  BY SizeTyped DEF Sizes
<1>2. Zeros(Size(c) - 1) \in Seq(Nat) /\ Len(Zeros(Size(c) - 1)) = Size(c) - 1
  BY <1>1, ZerosFacts
<1>3. <<v>> \in Seq(Nat) /\ Len(<<v>>) = 1 /\ <<v>>[1] = v
  OBVIOUS
<1>4. QED
  BY <1>1, <1>2, <1>3, Joined DEF Number

LEMMA OctetsOfNumber ==
  ASSUME NEW f \in Items, IsLeaf(f), Code(f) # "T", NEW v, Proper(f, v)
  PROVE  /\ v \in Nat /\ Octets(Code(f), v) \in Seq(Nat)
         /\ Len(Octets(Code(f), v)) = Size(Code(f)) /\ Octets(Code(f), v)[1] = v
         /\ Code(f) = "b" => v \in {0, 1}
         /\ f.n < 0 \/ f.of = "T" => v <= MaxAlloc
<1>1. v \in Nat
  BY SchemaAssumption DEF Proper, Code
<1>2. Octets(Code(f), v) = Number(Code(f), v)
  BY DEF Octets
<1>3. Code(f) = "b" => v \in {0, 1}
  BY DEF Code, Proper, IsLeaf, Primitives
<1>4. f.n < 0 \/ f.of = "T" => v <= MaxAlloc
  BY SchemaAssumption DEF Code, Proper
<1>5. QED
  BY <1>1, <1>2, <1>3, <1>4, NumberFacts

LEMMA OctetsOfString ==
  ASSUME NEW f \in Items, IsLeaf(f), Code(f) = "T", NEW v, Proper(f, v)
  PROVE  /\ v \in Seq(Nat) /\ Len(v) \in Nat /\ Len(v) < MaxAlloc /\ Octets(Code(f), v) \in Seq(Nat)
         /\ Len(Octets(Code(f), v)) = Len(v) + 5 /\ Octets(Code(f), v)[1] = Len(v) + 1
         /\ \A i \in 1..Len(v) : Octets(Code(f), v)[i + 4] = v[i]
<1>1. v \in Seq(Nat) /\ Len(v) \in Nat /\ Len(v) < MaxAlloc
  BY DEF Proper, Code
<1> DEFINE head == Number("I", Len(v) + 1)
<1>2. Octets(Code(f), v) = head \o v \o <<0>>
  BY DEF Octets
<1>3. head \in Seq(Nat) /\ Len(head) = 4 /\ head[1] = Len(v) + 1
  <2>1. Len(v) + 1 \in Nat
    BY <1>1
  <2>2. QED
    BY <2>1, NumberFacts, SizeOfCount
<1>4. <<0>> \in Seq(Nat) /\ Len(<<0>>) = 1
  OBVIOUS
<1> HIDE DEF head
<1> DEFINE front == head \o v
<1>5. /\ front \in Seq(Nat) /\ Len(front) = Len(v) + 4 /\ front[1] = Len(v) + 1
      /\ \A i \in 1..Len(v) : front[4 + i] = v[i]
  <2>1. /\ front \in Seq(Nat) /\ Len(front) = Len(head) + Len(v)
        /\ \A i \in 1..Len(head) : front[i] = head[i]
        /\ \A i \in 1..Len(v) : front[Len(head) + i] = v[i]
    <3> HIDE DEF head
    <3>1. head \in Seq(Nat) /\ v \in Seq(Nat)
      BY <1>1, <1>3
    <3>2. QED
      BY <3>1, Joined
  <2> HIDE DEF front
  <2>2. QED
    BY <1>1, <1>3, <2>1
<1> HIDE DEF front
<1>6. /\ front \o <<0>> \in Seq(Nat) /\ Len(front \o <<0>>) = Len(v) + 5
      /\ \A i \in 1..(Len(v) + 4) : (front \o <<0>>)[i] = front[i]
  BY <1>1, <1>4, <1>5, Joined
<1>7. Octets(Code(f), v) = front \o <<0>>
  BY <1>2 DEF front
<1> DEFINE o == Octets(Code(f), v)
<1>8. o \in Seq(Nat) /\ Len(o) = Len(v) + 5 /\ \A i \in 1..(Len(v) + 4) : o[i] = front[i]
  BY <1>6, <1>7
<1> HIDE DEF o
<1>9. 1 \in 1..(Len(v) + 4) /\ \A i \in 1..Len(v) : i + 4 \in 1..(Len(v) + 4) /\ i + 4 = 4 + i
  BY <1>1
<1>10. o[1] = Len(v) + 1 /\ \A i \in 1..Len(v) : o[i + 4] = v[i]
  BY <1>5, <1>8, <1>9
<1>11. QED
  BY <1>1, <1>8, <1>10 DEF o

\* The octets o are in w from at on; the octets b are the first of w.
Holds(w, at, o) == at + Len(o) <= Len(w) /\ \A i \in 1..Len(o) : w[at + i] = o[i]
Prefix(b, w) == Len(b) <= Len(w) /\ \A i \in 1..Len(b) : b[i] = w[i]

\* A buffer b that begins as the octets w do fits leaf v, which is at at, if and
\* only if it is long enough, and then v is what is read.
LEMMA LeafReads ==
  ASSUME NEW f \in Items, IsLeaf(f), NEW v, Proper(f, v), NEW at \in Nat,
         NEW w \in Seq(Nat), NEW b \in Seq(Nat),
         Holds(w, at, Octets(Code(f), v)), Prefix(b, w)
  PROVE  /\ Fits(f, b, at) <=> at + Len(Octets(Code(f), v)) <= Len(b)
         /\ Fits(f, b, at) => /\ Extent(f, b, at) = Len(Octets(Code(f), v))
                              /\ Reads(f, b, at) = v
<1> DEFINE o == Octets(Code(f), v)
<1>0. Len(b) \in Nat
  BY Element
<1>01. ASSUME Len(o) \in Nat, NEW i \in 1..Len(o), at + i <= Len(b)
       PROVE  b[at + i] = o[i]
  <2>1. at + i \in 1..Len(b)
    BY <1>0, <1>01
  <2>2. w[at + i] = o[i]
    BY DEF Holds
  <2>3. QED
    BY <2>1, <2>2 DEF Prefix
<1>1. CASE Code(f) # "T"
  <2>1. /\ v \in Nat /\ o \in Seq(Nat) /\ Len(o) = Size(Code(f)) /\ o[1] = v
        /\ Code(f) = "b" => v \in {0, 1}
        /\ f.n < 0 \/ f.of = "T" => v <= MaxAlloc
    BY <1>1, OctetsOfNumber
  <2> HIDE DEF o
  <2>2. Size(Code(f)) \in Nat /\ Size(Code(f)) >= 1 /\ Alignment(Code(f)) = Size(Code(f))
    BY <1>1, SizeTyped DEF Sizes, Alignment
  <2>3. Extent(f, b, at) = Size(Code(f))
    BY <1>1 DEF Extent
  <2>4. ASSUME at < Len(b) PROVE Octet(b, at) = v
    <3>1. 1 \in 1..Len(o) /\ at + 1 <= Len(b) /\ Len(o) \in Nat
      BY <1>0, <2>1, <2>2, <2>4
    <3>2. b[at + 1] = o[1]
      BY <1>01, <3>1
    <3>3. QED
      BY <2>1, <2>4, <3>2 DEF Octet
  <2>5. Need(b, at, Size(Code(f))) <=> at + Len(o) <= Len(b)
    BY <2>1 DEF Need
  <2>6. at + Len(o) <= Len(b) => at < Len(b)
    BY <2>1, <2>2
  <2>7. Fits(f, b, at) <=> at + Len(o) <= Len(b)
    BY <2>1, <2>2, <2>3, <2>4, <2>5, <2>6 DEF Fits
  <2>8. at < Len(b) => Reads(f, b, at) = v
    BY <1>1, <2>1, <2>4 DEF Reads
  <2>9. QED
    BY <2>1, <2>3, <2>6, <2>7, <2>8 DEF o
<1>2. CASE Code(f) = "T"
  <2>1. /\ v \in Seq(Nat) /\ Len(v) \in Nat /\ Len(v) < MaxAlloc /\ o \in Seq(Nat)
        /\ Len(o) = Len(v) + 5 /\ o[1] = Len(v) + 1
    BY <1>2, OctetsOfString
  <2>0. \A i \in 1..Len(v) : o[i + 4] = v[i]
    <3> HIDE DEF o
    <3>1. QED
      BY <1>2, OctetsOfString DEF o
  <2> HIDE DEF o
  <2>12. Len(v) \in Nat /\ Len(o) = Len(v) + 5 /\ Len(b) \in Nat
    BY <1>0, <2>1
  <2>2. ASSUME at < Len(b) PROVE Octet(b, at) = Len(v) + 1
    <3>1. 1 \in 1..Len(o) /\ at + 1 <= Len(b) /\ Len(o) \in Nat
      BY <1>0, <2>1, <2>2
    <3>2. b[at + 1] = o[1]
      BY <1>01, <3>1
    <3>3. QED
      BY <2>1, <2>2, <3>2 DEF Octet
  <2>3. at < Len(b) => Extent(f, b, at) = Len(v) + 5
    BY <1>2, <2>1, <2>2, SizeOfCount DEF Extent
  <2>4. Alignment(Code(f)) = 4
    BY <1>2, SizeOfCount
  <2>5. Fits(f, b, at) => at < Len(b)
    BY <2>4 DEF Fits, Need
  <2>6. at + Len(o) <= Len(b) => at < Len(b) /\ at + 4 <= Len(b)
    BY <2>12
  <2>7. at < Len(b) => (Need(b, at, Extent(f, b, at)) <=> at + Len(o) <= Len(b))
    BY <2>1, <2>3 DEF Need
  <2>8. at < Len(b) => Octet(b, at) <= MaxAlloc
    BY <2>1, <2>2, SchemaAssumption
  <2>9. Fits(f, b, at) <=> at + Len(o) <= Len(b)
    <3>1. ASSUME Fits(f, b, at) PROVE at + Len(o) <= Len(b)
      BY <2>5, <2>7, <3>1 DEF Fits
    <3>2. ASSUME at + Len(o) <= Len(b) PROVE Fits(f, b, at)
      <4>1. at < Len(b) /\ Need(b, at, 4)
        BY <2>6, <3>2 DEF Need
      <4>2. QED
        BY <2>4, <2>7, <2>8, <3>2, <4>1 DEF Fits
    <3>3. QED
      BY <3>1, <3>2
  <2>10. ASSUME at + Len(o) <= Len(b) PROVE Reads(f, b, at) = v
    <3>1. Reads(f, b, at) = SubSeq(b, at + 5, at + Len(v) + 4)
      <4>1. Octet(b, at) = Len(v) + 1
        BY <2>2, <2>6, <2>10
      <4>2. at + Octet(b, at) + 3 = at + Len(v) + 4 /\ at + Len(v) + 4 <= Len(b)
        BY <1>0, <2>1, <2>10, <4>1
      <4>3. QED
        BY <1>2, <4>2 DEF Reads, Slice
    <3>2. /\ at + Len(v) + 4 <= Len(b) /\ at + 5 \in Nat \ {0} /\ at + Len(v) + 4 \in Nat
          /\ at + 5 <= (at + Len(v) + 4) + 1 /\ (at + Len(v) + 4) - (at + 5) + 1 = Len(v)
      BY <2>12, <2>10
    <3>3. /\ SubSeq(b, at + 5, at + Len(v) + 4) \in Seq(Nat)
          /\ Len(SubSeq(b, at + 5, at + Len(v) + 4)) = Len(v)
          /\ \A k \in 1..Len(v) : SubSeq(b, at + 5, at + Len(v) + 4)[k] = b[at + 5 + k - 1]
      <4> DEFINE i == at + 5
                 j == at + Len(v) + 4
      <4>1. i \in Nat \ {0} /\ j \in Nat /\ j <= Len(b) /\ i <= j + 1 /\ j - i + 1 = Len(v)
        BY <3>2
      <4> HIDE DEF i, j
      <4>2. /\ SubSeq(b, i, j) \in Seq(Nat) /\ Len(SubSeq(b, i, j)) = j - i + 1
            /\ \A k \in 1..(j - i + 1) : SubSeq(b, i, j)[k] = b[i + k - 1]
        BY <4>1, Cut
      <4>3. QED
        BY <4>1, <4>2 DEF i, j
    <3>4. ASSUME NEW k \in 1..Len(v) PROVE b[at + 5 + k - 1] = v[k]
      <4>0. k \in Nat /\ k >= 1 /\ k <= Len(v) /\ at + Len(o) <= Len(b)
        BY <2>10, <2>12
      <4>1. k + 4 \in 1..Len(o) /\ at + 5 + k - 1 = at + (k + 4) /\ at + (k + 4) <= Len(b)
        BY <4>0, <2>12
      <4>2. b[at + (k + 4)] = o[k + 4]
        BY <1>01, <2>12, <4>1
      <4>3. QED
        BY <2>0, <4>1, <4>2
    <3>5. QED
      BY <2>1, <3>1, <3>3, <3>4, SameSeq
  <2>11. QED
    BY <2>1, <2>3, <2>6, <2>9, <2>10 DEF o
<1>3. QED
  BY <1>1, <1>2
-----------------------------------------------------------------------------
(* The way of the writer.                                                  *)

\* What is to do after the first octets and leaves.
States == [todo : Seq(Items), pos : Nat, n : Nat]

\* From s to t in one step, w being the octets and ls the leaves of the message.
Move(s, t, w, ls) ==
  LET f == Head(s.todo)
      at == Place(f, s.pos)
      v == ls[s.n + 1].v
  IN /\ s.todo # << >>
     /\ \/ /\ IsLeaf(f) /\ s.n < Len(ls)
           /\ Proper(f, v) /\ Holds(w, at, Octets(Code(f), v))
           /\ t = [todo |-> Inside(f, v, at) \o Tail(s.todo),
                   pos |-> at + Len(Octets(Code(f), v)), n |-> s.n + 1]
        \/ /\ ~IsLeaf(f)
           /\ t = [todo |-> Inside(f, f.n, at) \o Tail(s.todo), pos |-> at, n |-> s.n]

Trace(T, first, w, ls) ==
  /\ T \in Seq(States) /\ T # << >>
  /\ T[1] = [todo |-> Whole(first), pos |-> 0, n |-> 0]
  /\ \A i \in 1..(Len(T) - 1) : Move(T[i], T[i + 1], w, ls)

LEMMA OctetsLength ==
  ASSUME NEW f \in Items, IsLeaf(f), NEW v, Proper(f, v)
  PROVE  Octets(Code(f), v) \in Seq(Nat) /\ Len(Octets(Code(f), v)) \in Nat
<1>1. Octets(Code(f), v) \in Seq(Nat)
  BY OctetsOfNumber, OctetsOfString
<1>2. QED
  BY <1>1, Element

LEMMA HoldsStays ==
  ASSUME NEW w \in Seq(Nat), NEW w2 \in Seq(Nat), Prefix(w, w2),
         NEW at \in Nat, NEW o \in Seq(Nat), Holds(w, at, o)
  PROVE  Holds(w2, at, o)
<1>1. Len(w) \in Nat /\ Len(w2) \in Nat /\ Len(o) \in Nat
  BY Element
<1>2. at + Len(o) <= Len(w) /\ Len(w) <= Len(w2)
  BY DEF Holds, Prefix
<1>3. ASSUME NEW i \in 1..Len(o) PROVE w2[at + i] = o[i]
  <2>1. w[at + i] = o[i]
    BY DEF Holds
  <2>2. at + i \in 1..Len(w)
    BY <1>1, <1>2
  <2>3. w[at + i] = w2[at + i]
    BY <2>2 DEF Prefix
  <2>4. QED
    BY <2>1, <2>3
<1>4. at + Len(o) <= Len(w2)
  BY <1>1, <1>2
<1>5. QED
  BY <1>3, <1>4 DEF Holds

LEMMA MoveStays ==
  ASSUME NEW s \in States, NEW t, NEW w \in Seq(Nat), NEW w2 \in Seq(Nat), Prefix(w, w2),
         NEW ls, NEW ls2, Len(ls) \in Nat, Len(ls2) \in Nat, Prefix(ls, ls2),
         Move(s, t, w, ls)
  PROVE  Move(s, t, w2, ls2)
<1> DEFINE f == Head(s.todo)
           at == Place(f, s.pos)
           v == ls[s.n + 1].v
<1>1. s.todo # << >> /\ s.todo \in Seq(Items) /\ s.pos \in Nat /\ s.n \in Nat
  BY DEF Move, States
<1>2. f \in Items
  BY <1>1, Behind
<1>3. at \in Nat
  BY <1>1, <1>2, PlaceTyped
<1>4. CASE IsLeaf(f)
  <2>1. /\ s.n < Len(ls) /\ Proper(f, v) /\ Holds(w, at, Octets(Code(f), v))
        /\ t = [todo |-> Inside(f, v, at) \o Tail(s.todo),
                pos |-> at + Len(Octets(Code(f), v)), n |-> s.n + 1]
    BY <1>4 DEF Move
  <2>2. Octets(Code(f), v) \in Seq(Nat)
    BY <1>2, <1>4, <2>1, OctetsLength
  <2>3. Holds(w2, at, Octets(Code(f), v))
    BY <1>3, <2>1, <2>2, HoldsStays
  <2>4. Len(ls) <= Len(ls2)
    BY DEF Prefix
  <2>5. s.n < Len(ls2) /\ s.n + 1 \in 1..Len(ls)
    BY <1>1, <2>1, <2>4
  <2>6. ls2[s.n + 1] = ls[s.n + 1]
    BY <2>5 DEF Prefix
  <2>7. QED
    BY <1>1, <1>4, <2>1, <2>3, <2>5, <2>6 DEF Move
<1>5. CASE ~IsLeaf(f)
  BY <1>5 DEF Move
<1>6. QED
  BY <1>4, <1>5

LEMMA TraceGrows ==
  ASSUME NEW T, NEW first, NEW w \in Seq(Nat), NEW w2 \in Seq(Nat), Prefix(w, w2),
         NEW ls, NEW ls2, Len(ls) \in Nat, Len(ls2) \in Nat, Prefix(ls, ls2),
         Trace(T, first, w, ls), NEW t \in States, Move(T[Len(T)], t, w2, ls2)
  PROVE  /\ Trace(Append(T, t), first, w2, ls2)
         /\ Append(T, t)[Len(Append(T, t))] = t
<1> DEFINE U == Append(T, t)
<1>1. T \in Seq(States) /\ T # << >> /\ Len(T) \in Nat /\ Len(T) >= 1
  <2>1. T \in Seq(States) /\ T # << >>
    BY DEF Trace
  <2>2. QED
    BY <2>1
<1>2. /\ U \in Seq(States) /\ Len(U) = Len(T) + 1
      /\ \A i \in 1..Len(T) : U[i] = T[i]
      /\ U[Len(T) + 1] = t
  BY <1>1, Appended
<1> HIDE DEF U
<1>3. U # << >> /\ U[1] = T[1]
  BY <1>1, <1>2
<1>4. ASSUME NEW i \in 1..(Len(U) - 1) PROVE Move(U[i], U[i + 1], w2, ls2)
  <2>1. CASE i = Len(T)
    BY <1>1, <1>2, <2>1
  <2>2. CASE i # Len(T)
    <3>1. i \in 1..(Len(T) - 1) /\ i \in 1..Len(T) /\ i + 1 \in 1..Len(T)
      BY <1>1, <1>2, <2>2
    <3>2. Move(T[i], T[i + 1], w, ls)
      BY <3>1 DEF Trace
    <3>3. T[i] \in States
      BY <1>1, <3>1, Element
    <3>4. Move(T[i], T[i + 1], w2, ls2)
      BY <3>2, <3>3, MoveStays
    <3>5. QED
      BY <1>2, <3>1, <3>4
  <2>3. QED
    BY <2>1, <2>2
<1>5. Trace(U, first, w2, ls2)
  BY <1>2, <1>3, <1>4 DEF Trace
<1>6. QED
  BY <1>1, <1>2, <1>5 DEF U

-----------------------------------------------------------------------------
(* Types.                                                                  *)

Values == Nat \cup Seq(Nat)
Written == [of : Primitives \cup {"T"}, at : Nat, v : Values]

TypeOK ==
  /\ stage \in {"writing", "trying", "reading", "read", "refused"}
  /\ type \in DOMAIN Schema /\ message \in DOMAIN content
  /\ todo \in Seq(Items)
  /\ wire \in Seq(Nat) /\ leaves \in Seq(Written)
  /\ payload \in Seq(Nat) /\ reply \in BOOLEAN /\ cut \in BOOLEAN
  /\ offsets \in Seq(Nat) /\ buf \in Seq(Nat) /\ pos \in Nat /\ got \in Seq(Values)

\* The leaf a message has is one its field may be.
LEMMA ValueProper ==
  ASSUME TypeOK, NEW f \in Items, IsLeaf(f), Len(leaves) < Len(content[message])
  PROVE  Proper(f, Value(f, content[message][Len(leaves) + 1]))
<1> DEFINE i == Len(leaves) + 1
           leaf == content[message][i]
<1>1. content[message] \in Seq(Leaves) /\ message \in DOMAIN content /\ Len(leaves) \in Nat
  BY ContentAssumption DEF TypeOK
<1>2. i \in 1..Len(content[message]) /\ i \in DOMAIN content[message]
  BY <1>1
<1>3. leaf \in Leaves /\ Len(leaf.text) < MaxAlloc /\ leaf.count <= MaxAlloc
  BY <1>1, <1>2, ContentAssumption, Element
<1> HIDE DEF leaf
<1>4. leaf.number \in Nat /\ leaf.text \in Seq(Nat) /\ leaf.count \in 0..MaxAlloc
  BY <1>3, SchemaAssumption DEF Leaves
<1>5. Proper(f, Value(f, leaf))
  BY <1>3, <1>4 DEF Proper, Value
<1>6. QED
  BY <1>5 DEF leaf

LEMMA ProperTyped ==
  ASSUME NEW f \in Items, IsLeaf(f), NEW v, Proper(f, v)
  PROVE  v \in Values /\ (f.n # 1 => v \in Int)
BY SchemaAssumption DEF Proper, Values, IsLeaf

LEMMA CodeTyped ==
  ASSUME NEW f \in Items, IsLeaf(f)
  PROVE  Code(f) \in Primitives \cup {"T"}
BY DEF Code, IsLeaf, Primitives

\* Zeros behind octets, up to at.
LEMMA Spaced ==
  ASSUME NEW w \in Seq(Nat), NEW at \in Nat, NEW d \in Nat, at = Len(w) + d
  PROVE  /\ w \o Zeros(d) \in Seq(Nat) /\ Len(w \o Zeros(d)) = at
         /\ Prefix(w, w \o Zeros(d))
         /\ \A i \in (Len(w) + 1)..at : (w \o Zeros(d))[i] = 0
<1> DEFINE z == Zeros(d)
           u == w \o z
<1>1. Len(w) \in Nat
  BY Element
<1>2. z \in Seq(Nat) /\ Len(z) = d /\ \A i \in 1..d : z[i] = 0
  BY ZerosFacts
<1> HIDE DEF z
<1>3. u \in Seq(Nat) /\ Len(u) = Len(w) + Len(z)
  BY <1>2, Joined
<1>4. \A i \in 1..Len(w) : u[i] = w[i]
  BY <1>2, Joined
<1>5. \A i \in 1..Len(z) : u[Len(w) + i] = z[i]
  BY <1>2, Joined
<1> HIDE DEF u
<1>6. Len(u) = at
  BY <1>1, <1>2, <1>3
<1>7. Prefix(w, u)
  BY <1>1, <1>4, <1>6 DEF Prefix
<1>8. ASSUME NEW i \in (Len(w) + 1)..at PROVE u[i] = 0
  <2>1. i - Len(w) \in 1..d /\ i - Len(w) \in 1..Len(z) /\ Len(w) + (i - Len(w)) = i
    BY <1>1, <1>2
  <2>2. u[Len(w) + (i - Len(w))] = z[i - Len(w)] /\ z[i - Len(w)] = 0
    BY <1>2, <1>5, <2>1
  <2>3. QED
    BY <2>1, <2>2
<1>9. QED
  BY <1>3, <1>6, <1>7, <1>8 DEF z, u

\* Octets behind those.
LEMMA Padded ==
  ASSUME NEW w \in Seq(Nat), NEW at \in Nat, NEW d \in Nat, at = Len(w) + d, NEW o \in Seq(Nat)
  PROVE  /\ w \o Zeros(d) \o o \in Seq(Nat)
         /\ Len(w \o Zeros(d) \o o) = at + Len(o)
         /\ Prefix(w, w \o Zeros(d) \o o)
         /\ Holds(w \o Zeros(d) \o o, at, o)
         /\ \A i \in (Len(w) + 1)..at : (w \o Zeros(d) \o o)[i] = 0
<1> DEFINE u == w \o Zeros(d)
           x == u \o o
<1>1. Len(w) \in Nat /\ Len(o) \in Nat
  BY Element
<1>2. u \in Seq(Nat) /\ Len(u) = at /\ Prefix(w, u) /\ \A i \in (Len(w) + 1)..at : u[i] = 0
  BY Spaced
<1> HIDE DEF u
<1>3. x \in Seq(Nat) /\ Len(x) = Len(u) + Len(o)
  BY <1>2, Joined
<1>4. \A i \in 1..Len(u) : x[i] = u[i]
  BY <1>2, Joined
<1>5. \A i \in 1..Len(o) : x[Len(u) + i] = o[i]
  BY <1>2, Joined
<1> HIDE DEF x
<1>6. Holds(x, at, o)
  <2>1. at + Len(o) <= Len(x)
    BY <1>1, <1>2, <1>3
  <2>2. \A i \in 1..Len(o) : x[at + i] = o[i]
    BY <1>2, <1>5
  <2>3. QED
    BY <2>1, <2>2 DEF Holds
<1>7. Prefix(w, x)
  <2>1. Len(w) <= Len(x)
    BY <1>1, <1>2, <1>3
  <2>2. ASSUME NEW i \in 1..Len(w) PROVE w[i] = x[i]
    <3>1. i \in 1..Len(u)
      BY <1>1, <1>2
    <3>2. w[i] = u[i]
      BY <1>2 DEF Prefix
    <3>3. QED
      BY <1>4, <3>1, <3>2
  <2>3. QED
    BY <2>1, <2>2 DEF Prefix
<1>8. ASSUME NEW i \in (Len(w) + 1)..at PROVE x[i] = 0
  <2>1. i \in 1..Len(u)
    BY <1>1, <1>2
  <2>2. QED
    BY <1>2, <1>4, <2>1
<1>9. Len(x) = at + Len(o)
  BY <1>2, <1>3
<1>10. QED
  BY <1>3, <1>6, <1>7, <1>8, <1>9 DEF u, x

\* One more leaf, whatever it is, and the octets it takes.
LEMMA WriteLeafStep ==
  ASSUME TypeOK, NEW f, NEW v, NEW at, todo # << >>, f = Head(todo), IsLeaf(f),
         Len(leaves) < Len(content[message]),
         v = Value(f, content[message][Len(leaves) + 1]), at = Place(f, Len(wire)),
         NEW w2, w2 = wire \o Zeros(at - Len(wire)) \o Octets(Code(f), v)
  PROVE  /\ f \in Items /\ Proper(f, v) /\ at \in Nat /\ at >= Len(wire)
         /\ w2 \in Seq(Nat) /\ Prefix(wire, w2)
         /\ Len(w2) = at + Len(Octets(Code(f), v)) /\ Holds(w2, at, Octets(Code(f), v))
         /\ \A i \in (Len(wire) + 1)..at : w2[i] = 0
         /\ [of |-> Code(f), at |-> at, v |-> v] \in Written
         /\ Inside(f, v, at) \o Tail(todo) \in Seq(Items)
<1> DEFINE o == Octets(Code(f), v)
<1>1. f \in Items /\ Tail(todo) \in Seq(Items)
  BY Behind DEF TypeOK
<1>2. Len(wire) \in Nat /\ wire \in Seq(Nat)
  BY DEF TypeOK
<1>3. at \in Nat /\ at >= Len(wire)
  BY <1>1, <1>2, PlaceTyped
<1>4. Proper(f, v)
  BY <1>1, ValueProper
<1>5. o \in Seq(Nat)
  BY <1>1, <1>4, OctetsLength
<1> HIDE DEF o
<1> DEFINE d == at - Len(wire)
<1>6. w2 = wire \o Zeros(d) \o o
  BY DEF o
<1>7. d \in Nat /\ at = Len(wire) + d
  BY <1>2, <1>3
<1> HIDE DEF d
<1>8. /\ w2 \in Seq(Nat) /\ Len(w2) = at + Len(o) /\ Prefix(wire, w2) /\ Holds(w2, at, o)
      /\ \A i \in (Len(wire) + 1)..at : w2[i] = 0
  <2> DEFINE x == wire \o Zeros(d) \o o
  <2>1. /\ x \in Seq(Nat) /\ Len(x) = at + Len(o) /\ Prefix(wire, x) /\ Holds(x, at, o)
        /\ \A i \in (Len(wire) + 1)..at : x[i] = 0
    <3>1. wire \in Seq(Nat) /\ o \in Seq(Nat) /\ at \in Nat /\ d \in Nat /\ at = Len(wire) + d
      BY <1>2, <1>3, <1>5, <1>7
    <3>2. x \in Seq(Nat)
      BY <3>1, Padded
    <3>3. Len(x) = at + Len(o)
      BY <3>1, Padded
    <3>4. Prefix(wire, x)
      BY <3>1, Padded
    <3>5. Holds(x, at, o)
      BY <3>1, Padded
    <3>6. \A i \in (Len(wire) + 1)..at : x[i] = 0
      BY <3>1, Padded
    <3>7. QED
      BY <3>2, <3>3, <3>4, <3>5, <3>6
  <2> HIDE DEF x
  <2>2. w2 = x
    BY <1>6 DEF x
  <2>3. QED
    BY <2>1, <2>2
<1>14. [of |-> Code(f), at |-> at, v |-> v] \in Written
  BY <1>1, <1>3, <1>4, ProperTyped, CodeTyped DEF Written
<1>15. Inside(f, v, at) \in Seq(Items)
  BY <1>1, <1>3, <1>4, ProperTyped, InsideTyped
<1>16. Inside(f, v, at) \o Tail(todo) \in Seq(Items)
  BY <1>1, <1>15, Joined
<1>17. QED
  BY <1>1, <1>3, <1>4, <1>8, <1>14, <1>16 DEF o

\* What is inside a field that is no leaf.
LEMMA InsideStep ==
  ASSUME NEW list \in Seq(Items), list # << >>, NEW f, f = Head(list), ~IsLeaf(f),
         NEW p \in Nat, NEW at, at = Place(f, p)
  PROVE  /\ f \in Items /\ at \in Nat /\ at >= p
         /\ Inside(f, f.n, at) \o Tail(list) \in Seq(Items)
<1>1. f \in Items /\ Tail(list) \in Seq(Items)
  BY Behind
<1>2. at \in Nat /\ at >= p
  BY <1>1, PlaceTyped
<1>3. f.n \in Int
  BY <1>1 DEF Items
<1>4. Inside(f, f.n, at) \in Seq(Items)
  BY <1>1, <1>2, <1>3, InsideTyped
<1>5. QED
  BY <1>1, <1>2, <1>4, Joined

LEMMA PaddingTyped ==
  ASSUME NEW w \in Seq(Nat), NEW at \in Nat, at >= Len(w)
  PROVE  /\ w \o Zeros(at - Len(w)) \in Seq(Nat) /\ Len(w \o Zeros(at - Len(w))) = at
         /\ Prefix(w, w \o Zeros(at - Len(w)))
         /\ \A i \in (Len(w) + 1)..at : (w \o Zeros(at - Len(w)))[i] = 0
<1> DEFINE d == at - Len(w)
           x == w \o Zeros(d)
<1>1. d \in Nat /\ at = Len(w) + d
  OBVIOUS
<1> HIDE DEF d
<1>3. x \in Seq(Nat) /\ Len(x) = at
  BY <1>1, Spaced
<1>4. Prefix(w, x)
  BY <1>1, Spaced
<1>5. \A i \in (Len(w) + 1)..at : x[i] = 0
  BY <1>1, Spaced
<1> HIDE DEF x
<1>6. QED
  BY <1>3, <1>4, <1>5 DEF d, x

LEMMA OctetTyped ==
  ASSUME NEW b \in Seq(Nat), NEW p \in Nat
  PROVE  Octet(b, p) \in Nat
<1>1. CASE p < Len(b)
  <2>1. p + 1 \in 1..Len(b)
    BY <1>1, Element
  <2>2. QED
    BY <1>1, <2>1, Element DEF Octet
<1>2. CASE ~(p < Len(b))
  BY <1>2 DEF Octet
<1>3. QED
  BY <1>1, <1>2

\* A field that fits reads as a value of its kind, whatever the octets are.
LEMMA ReadTyped ==
  ASSUME NEW f \in Items, IsLeaf(f), NEW b \in Seq(Nat), NEW p \in Nat, Fits(f, b, p)
  PROVE  /\ Extent(f, b, p) \in Nat
         /\ Reads(f, b, p) \in Values
         /\ f.n # 1 => Reads(f, b, p) \in Int
<1>1. Octet(b, p) \in Nat
  BY OctetTyped
<1>2. Size(Code(f)) \in Nat /\ Size("I") = 4
  BY SizeTyped, SizeOfCount DEF Sizes
<1>3. Extent(f, b, p) \in Nat
  BY <1>1, <1>2 DEF Extent
<1>4. CASE Code(f) # "T"
  BY <1>1, <1>3, <1>4 DEF Reads, Values
<1>5. CASE Code(f) = "T"
  <2>1. f.n = 1
    BY <1>5 DEF Code, IsLeaf
  <2>2. p + 4 + Octet(b, p) <= Len(b)
    BY <1>1, <1>2, <1>5 DEF Fits, Need, Extent
  <2> DEFINE j == p + Octet(b, p) + 3
  <2>0. j <= Len(b)
    BY <1>1, <2>2, Element
  <2>3. Reads(f, b, p) = SubSeq(b, p + 5, j)
    BY <1>5, <2>0 DEF Reads, Slice
  <2>4. j \in Nat /\ j <= Len(b) /\ p + 5 \in Nat \ {0}
    BY <1>1, <2>2, Element
  <2> HIDE DEF j
  <2>5. SubSeq(b, p + 5, j) \in Seq(Nat)
    <3>1. CASE p + 5 <= j + 1
      BY <2>4, <3>1, Cut
    <3>2. CASE ~(p + 5 <= j + 1)
      <4>1. SubSeq(b, p + 5, j) = << >>
        BY <2>4, <3>2
      <4>2. << >> \in Seq(Nat)
        OBVIOUS
      <4>3. QED
        BY <4>1, <4>2
    <3>3. QED
      BY <3>1, <3>2
  <2>6. QED
    BY <1>3, <2>1, <2>3, <2>5 DEF Values
<1>6. QED
  BY <1>4, <1>5

LEMMA ReadLeafStep ==
  ASSUME TypeOK, todo # << >>, NEW f, f = Head(todo), IsLeaf(f), NEW at, at = Place(f, pos),
         Fits(f, buf, at)
  PROVE  /\ f \in Items /\ at \in Nat /\ at >= pos
         /\ at + Extent(f, buf, at) \in Nat /\ Reads(f, buf, at) \in Values
         /\ Inside(f, Reads(f, buf, at), at) \o Tail(todo) \in Seq(Items)
<1>1. f \in Items /\ Tail(todo) \in Seq(Items)
  BY Behind DEF TypeOK
<1>2. at \in Nat /\ at >= pos
  BY <1>1, PlaceTyped DEF TypeOK
<1>3. /\ Extent(f, buf, at) \in Nat /\ Reads(f, buf, at) \in Values
      /\ f.n # 1 => Reads(f, buf, at) \in Int
  BY <1>1, <1>2, ReadTyped DEF TypeOK
<1>4. Inside(f, Reads(f, buf, at), at) \in Seq(Items)
  BY <1>1, <1>2, <1>3, InsideTyped
<1>5. QED
  BY <1>1, <1>2, <1>3, <1>4, Joined

LEMMA DeliverTyped ==
  ASSUME TypeOK, NEW datagram \in Seq(Nat), NEW places \in Seq(Nat), Deliver(datagram, places)
  PROVE  payload' \in Seq(Nat) /\ cut' \in BOOLEAN
<1>1. PICK k \in 0..Len(datagram) :
        payload' = SubSeq(datagram, 1, k) /\ cut' = (k < Len(datagram))
  BY DEF Deliver
<1>2. SubSeq(datagram, 1, k) \in Seq(Nat)
  BY Cut
<1>3. QED
  BY <1>1, <1>2

LEMMA TypesKept == ASSUME TypeOK, [Next]_vars PROVE TypeOK'
<1> USE DEF TypeOK
<1>1. CASE WriteLeaf
  <2> DEFINE f == Head(todo)
             v == Value(f, content[message][Len(leaves) + 1])
             at == Place(f, Len(wire))
  <2>1. /\ todo # << >> /\ IsLeaf(f) /\ Len(leaves) < Len(content[message])
        /\ wire' = wire \o Zeros(at - Len(wire)) \o Octets(Code(f), v)
        /\ leaves' = Append(leaves, [of |-> Code(f), at |-> at, v |-> v])
        /\ todo' = Inside(f, v, at) \o Tail(todo)
        /\ UNCHANGED <<stage, type, message, pos, got, arrived, reader>>
    BY <1>1 DEF WriteLeaf
  <2> HIDE DEF f, v, at
  <2>2. /\ wire' \in Seq(Nat) /\ todo' \in Seq(Items)
        /\ [of |-> Code(f), at |-> at, v |-> v] \in Written
    BY <2>1, WriteLeafStep DEF f, v, at
  <2>3. leaves' \in Seq(Written)
    BY <2>1, <2>2, Appended
  <2>4. QED
    BY <2>1, <2>2, <2>3 DEF arrived, reader
<1>2. CASE WriteInside
  <2> DEFINE f == Head(todo)
             at == Place(f, Len(wire))
  <2>1. /\ todo # << >> /\ ~IsLeaf(f) /\ wire' = wire \o Zeros(at - Len(wire))
        /\ todo' = Inside(f, f.n, at) \o Tail(todo)
        /\ UNCHANGED <<stage, type, message, leaves, pos, got, arrived, reader>>
    BY <1>2 DEF WriteInside
  <2>2. Len(wire) \in Nat
    BY Element
  <2> HIDE DEF f, at
  <2>3. at \in Nat /\ at >= Len(wire) /\ todo' \in Seq(Items)
    BY <2>1, <2>2, InsideStep DEF f, at
  <2>4. wire' \in Seq(Nat)
    BY <2>1, <2>3, PaddingTyped
  <2>5. QED
    BY <2>1, <2>3, <2>4 DEF arrived, reader
<1>3. CASE Publish
  <2>1. <<0>> \in Seq(Nat)
    OBVIOUS
  <2>2. payload' \in Seq(Nat) /\ cut' \in BOOLEAN
    BY <1>3, <2>1, DeliverTyped DEF Publish
  <2>3. QED
    BY <1>3, <2>1, <2>2 DEF Publish, Deliver, written
<1>4. CASE Respond
  <2>1. RelatedRequest \in Seq(Nat) /\ ReplyOffsets \in Seq(Nat)
    BY DEF RelatedRequest, ReplyOffsets
  <2>2. RelatedRequest \o wire \in Seq(Nat)
    BY <2>1, Joined
  <2>3. payload' \in Seq(Nat) /\ cut' \in BOOLEAN
    BY <1>4, <2>1, <2>2, DeliverTyped DEF Respond
  <2>4. QED
    BY <1>4, <2>1, <2>3 DEF Respond, Deliver, written
<1>5. CASE Try
  <2>1. Head(offsets) \in Nat /\ Tail(offsets) \in Seq(Nat)
    BY <1>5, Behind DEF Try
  <2>2. CASE Len(payload) < Head(offsets)
    BY <1>5, <2>1, <2>2 DEF Try, written, arrived
  <2>3. CASE ~(Len(payload) < Head(offsets))
    <3>1. SubSeq(payload, Head(offsets) + 1, Len(payload)) \in Seq(Nat)
      BY <2>1, <2>3, Cut
    <3>2. Whole(type) \in Seq(Items)
      BY WholeTyped
    <3>3. /\ stage' = "reading" /\ todo' = Whole(type)
          /\ buf' = SubSeq(payload, Head(offsets) + 1, Len(payload))
          /\ pos' = 0 /\ got' = << >> /\ offsets' = Tail(offsets) /\ UNCHANGED <<written, arrived>>
      BY <1>5, <2>3 DEF Try
    <3>4. << >> \in Seq(Values)
      OBVIOUS
    <3>5. buf' \in Seq(Nat) /\ todo' \in Seq(Items) /\ got' \in Seq(Values) /\ offsets' \in Seq(Nat)
      BY <2>1, <3>1, <3>2, <3>3, <3>4
    <3>6. QED
      BY <3>3, <3>5 DEF written, arrived
  <2>4. QED
    BY <2>2, <2>3
<1>6. CASE Refuse
  BY <1>6 DEF Refuse, written, arrived, reader
<1>7. CASE ReadLeaf
  <2> DEFINE f == Head(todo)
             at == Place(f, pos)
  <2>1. /\ todo # << >> /\ IsLeaf(f) /\ Fits(f, buf, at)
        /\ pos' = at + Extent(f, buf, at)
        /\ got' = Append(got, Reads(f, buf, at))
        /\ todo' = Inside(f, Reads(f, buf, at), at) \o Tail(todo)
        /\ UNCHANGED <<stage, written, arrived, reader>>
    BY <1>7 DEF ReadLeaf
  <2> HIDE DEF f, at
  <2>2. /\ pos' \in Nat /\ todo' \in Seq(Items) /\ Reads(f, buf, at) \in Values
    BY <2>1, ReadLeafStep DEF f, at
  <2>3. got' \in Seq(Values)
    BY <2>1, <2>2, Appended
  <2>4. QED
    BY <2>1, <2>2, <2>3 DEF written, arrived, reader
<1>8. CASE ReadFails
  BY <1>8 DEF ReadFails, written, arrived, reader
<1>9. CASE ReadInside
  <2> DEFINE f == Head(todo)
             at == Place(f, pos)
  <2>1. /\ todo # << >> /\ ~IsLeaf(f) /\ pos' = at
        /\ todo' = Inside(f, f.n, at) \o Tail(todo)
        /\ UNCHANGED <<stage, got, written, arrived, reader>>
    BY <1>9 DEF ReadInside
  <2> HIDE DEF f, at
  <2>2. pos' \in Nat /\ todo' \in Seq(Items)
    BY <2>1, InsideStep DEF f, at
  <2>3. QED
    BY <2>1, <2>2 DEF written, arrived, reader
<1>10. CASE Return
  BY <1>10 DEF Return, written, arrived, reader
<1>11. CASE UNCHANGED vars
  BY <1>11 DEF vars, written, arrived, reader
<1>12. QED
  BY <1>1, <1>2, <1>3, <1>4, <1>5, <1>6, <1>7, <1>8, <1>9, <1>10, <1>11 DEF Next
-----------------------------------------------------------------------------
(* What was written, and what arrived.                                     *)

\* The writer came here step by step, the first octets and leaves in place.
WriterInv ==
  \E T : /\ Trace(T, type, wire, leaves)
         /\ T[Len(T)] = [todo |-> IF stage = "writing" THEN todo ELSE << >>,
                         pos |-> Len(wire), n |-> Len(leaves)]

Clean == ~(reply /\ cut)

ArrivedInv ==
  stage # "writing" /\ Clean =>
    /\ reply => payload = RelatedRequest \o wire
    /\ ~reply => Prefix(payload, wire) /\ (cut <=> Len(payload) < Len(wire))

LEMMA WriterStarts == ASSUME Init PROVE WriterInv
<1> DEFINE s == [todo |-> Whole(type), pos |-> 0, n |-> 0]
           T == <<s>>
<1>1. Whole(type) \in Seq(Items)
  BY WholeTyped DEF Init
<1>2. s \in States
  BY <1>1 DEF States
<1>3. Len(wire) = 0 /\ Len(leaves) = 0 /\ todo = Whole(type) /\ stage = "writing"
  BY DEF Init
<1>4. s = [todo |-> IF stage = "writing" THEN todo ELSE << >>, pos |-> Len(wire), n |-> Len(leaves)]
  BY <1>3
<1>5. s.todo = Whole(type) /\ s.pos = 0 /\ s.n = 0
  OBVIOUS
<1> HIDE DEF s
<1>6. T \in Seq(States) /\ T # << >> /\ Len(T) = 1 /\ T[1] = s
  BY <1>2
<1> HIDE DEF T
<1>7. \A i \in 1..(Len(T) - 1) : Move(T[i], T[i + 1], wire, leaves)
  BY <1>6
<1>8. Trace(T, type, wire, leaves)
  BY <1>6, <1>7 DEF Trace, s
<1>9. T[Len(T)] = [todo |-> IF stage = "writing" THEN todo ELSE << >>, pos |-> Len(wire), n |-> Len(leaves)]
  BY <1>4, <1>6
<1>10. QED
  BY <1>8, <1>9 DEF WriterInv

LEMMA WriterRests ==
  ASSUME WriterInv, UNCHANGED written, stage' # "writing", stage = "writing" => todo = << >>
  PROVE  WriterInv'
BY DEF WriterInv, written

LEMMA SameState ==
  ASSUME NEW a, NEW p, NEW n, NEW s, s = [todo |-> a, pos |-> p, n |-> n]
  PROVE  s.todo = a /\ s.pos = p /\ s.n = n
OBVIOUS

LEMMA StateTyped ==
  ASSUME NEW a \in Seq(Items), NEW p \in Nat, NEW n \in Nat
  PROVE  [todo |-> a, pos |-> p, n |-> n] \in States
BY DEF States

LEMMA WriterSteps == ASSUME TypeOK, TypeOK', WriterInv, WriteLeaf \/ WriteInside PROVE WriterInv'
<1>1. stage = "writing" /\ stage' = "writing" /\ type' = type
  BY DEF WriteLeaf, WriteInside
<1>2. PICK T : /\ Trace(T, type, wire, leaves)
               /\ T[Len(T)] = [todo |-> todo, pos |-> Len(wire), n |-> Len(leaves)]
  BY <1>1 DEF WriterInv
<1> DEFINE s == T[Len(T)]
           t == [todo |-> todo', pos |-> Len(wire'), n |-> Len(leaves')]
<1>3. s.todo = todo /\ s.pos = Len(wire) /\ s.n = Len(leaves)
  BY <1>2, SameState
<1>4. wire \in Seq(Nat) /\ leaves \in Seq(Written) /\ todo \in Seq(Items)
  BY DEF TypeOK
<1>5. wire' \in Seq(Nat) /\ leaves' \in Seq(Written) /\ todo' \in Seq(Items)
  BY DEF TypeOK
<1>6. Len(wire') \in Nat /\ Len(leaves') \in Nat /\ Len(wire) \in Nat /\ Len(leaves) \in Nat
  BY <1>4, <1>5, Element
<1>7. t \in States
  BY <1>5, <1>6, StateTyped
<1>8. Prefix(wire, wire') /\ Prefix(leaves, leaves') /\ Move(s, t, wire', leaves')
  <2>1. CASE WriteLeaf
    <3> DEFINE f == Head(todo)
               v == Value(f, content[message][Len(leaves) + 1])
               at == Place(f, Len(wire))
               l == [of |-> Code(f), at |-> at, v |-> v]
    <3>1. /\ todo # << >> /\ IsLeaf(f) /\ Len(leaves) < Len(content[message])
          /\ wire' = wire \o Zeros(at - Len(wire)) \o Octets(Code(f), v)
          /\ leaves' = Append(leaves, l)
          /\ todo' = Inside(f, v, at) \o Tail(todo)
      BY <2>1 DEF WriteLeaf
    <3>2. l.v = v
      OBVIOUS
    <3> HIDE DEF f, v, at, l
    <3>3. /\ Proper(f, v) /\ Prefix(wire, wire')
          /\ Len(wire') = at + Len(Octets(Code(f), v)) /\ Holds(wire', at, Octets(Code(f), v))
          /\ l \in Written
      BY <3>1, WriteLeafStep DEF f, v, at, l
    <3>4. /\ Len(leaves') = Len(leaves) + 1 /\ leaves'[Len(leaves) + 1] = l
          /\ \A i \in 1..Len(leaves) : leaves'[i] = leaves[i]
      BY <1>4, <3>1, <3>3, Appended
    <3>5. Prefix(leaves, leaves')
      BY <1>6, <3>4 DEF Prefix
    <3>6. t = [todo |-> Inside(f, v, at) \o Tail(todo),
               pos |-> at + Len(Octets(Code(f), v)), n |-> Len(leaves) + 1]
      BY <3>1, <3>3, <3>4
    <3>7. Len(leaves) < Len(leaves') /\ leaves'[Len(leaves) + 1].v = v
      BY <1>6, <3>2, <3>4
    <3> HIDE DEF s, t
    <3>8. Move(s, t, wire', leaves')
      BY <1>3, <3>1, <3>3, <3>6, <3>7 DEF Move, f, at
    <3>9. QED
      BY <3>3, <3>5, <3>8
  <2>2. CASE WriteInside
    <3> DEFINE f == Head(todo)
               at == Place(f, Len(wire))
    <3>1. /\ todo # << >> /\ ~IsLeaf(f) /\ wire' = wire \o Zeros(at - Len(wire))
          /\ todo' = Inside(f, f.n, at) \o Tail(todo) /\ leaves' = leaves
      BY <2>2 DEF WriteInside
    <3> HIDE DEF f, at
    <3>2. at \in Nat /\ at >= Len(wire)
      BY <1>4, <1>6, <3>1, InsideStep DEF f, at
    <3>3. Prefix(wire, wire') /\ Len(wire') = at
      BY <1>4, <3>1, <3>2, PaddingTyped
    <3>4. Prefix(leaves, leaves')
      BY <1>6, <3>1 DEF Prefix
    <3>5. t = [todo |-> Inside(f, f.n, at) \o Tail(todo), pos |-> at, n |-> Len(leaves)]
      BY <3>1, <3>3
    <3> HIDE DEF s, t
    <3>6. Move(s, t, wire', leaves')
      BY <1>3, <3>1, <3>5 DEF Move, f, at
    <3>7. QED
      BY <3>3, <3>4, <3>6
  <2>3. QED
    BY <2>1, <2>2
<1> HIDE DEF t
<1>9. Trace(Append(T, t), type, wire', leaves') /\ Append(T, t)[Len(Append(T, t))] = t
  <2> DEFINE w == wire
             w2 == wire'
             ls == leaves
             ls2 == leaves'
  <2>1. /\ w \in Seq(Nat) /\ w2 \in Seq(Nat) /\ Prefix(w, w2) /\ Len(ls) \in Nat /\ Len(ls2) \in Nat
        /\ Prefix(ls, ls2) /\ Trace(T, type, w, ls) /\ t \in States /\ Move(T[Len(T)], t, w2, ls2)
    BY <1>2, <1>4, <1>5, <1>6, <1>7, <1>8
  <2> HIDE DEF w, w2, ls, ls2
  <2>2. Trace(Append(T, t), type, w2, ls2) /\ Append(T, t)[Len(Append(T, t))] = t
    BY <2>1, TraceGrows
  <2>3. QED
    BY <2>2 DEF w2, ls2
<1>10. \E U : Trace(U, type, wire', leaves') /\ U[Len(U)] = t
  BY <1>9
<1>11. QED
  BY <1>1, <1>10 DEF WriterInv, t

LEMMA ArrivedKept ==
  ASSUME TypeOK, ArrivedInv, [Next]_vars
  PROVE  ArrivedInv'
<1>1. CASE WriteLeaf \/ WriteInside
  BY <1>1 DEF WriteLeaf, WriteInside, ArrivedInv
<1>2. CASE Publish
  <2>1. PICK k \in 0..Len(wire) : payload' = SubSeq(wire, 1, k) /\ cut' = (k < Len(wire))
    BY <1>2 DEF Publish, Deliver
  <2>2. reply' = FALSE /\ wire' = wire /\ wire \in Seq(Nat)
    BY <1>2 DEF Publish, Deliver, written, TypeOK
  <2>3. k \in Nat /\ k <= Len(wire) /\ k - 1 + 1 = k /\ 1 <= k + 1 /\ 1 \in Nat \ {0}
    BY <2>2, Element
  <2>4. Len(SubSeq(wire, 1, k)) = k /\ \A i \in 1..k : SubSeq(wire, 1, k)[i] = wire[i]
    BY <2>2, <2>3
  <2>5. Prefix(payload', wire)
    BY <2>1, <2>3, <2>4 DEF Prefix
  <2>6. cut' <=> Len(payload') < Len(wire)
    BY <2>1, <2>4
  <2>7. QED
    BY <2>2, <2>5, <2>6 DEF ArrivedInv
<1>3. CASE Respond
  <2> DEFINE d == RelatedRequest \o wire
  <2>1. PICK k \in 0..Len(d) : payload' = SubSeq(d, 1, k) /\ cut' = (k < Len(d))
    BY <1>3 DEF Respond, Deliver
  <2>2. reply' = TRUE /\ wire' = wire /\ wire \in Seq(Nat)
    BY <1>3 DEF Respond, Deliver, written, TypeOK
  <2>3. RelatedRequest \in Seq(Nat)
    BY DEF RelatedRequest
  <2>4. d \in Seq(Nat)
    BY <2>2, <2>3, Joined
  <2> HIDE DEF d
  <2>5. Len(d) \in Nat /\ k \in Nat /\ k <= Len(d)
    BY <2>4, Element
  <2>6. ASSUME ~cut' PROVE payload' = d
    <3>0. ~(k < Len(d))
      BY <2>1, <2>6
    <3>1. k = Len(d)
      BY <2>5, <3>0
    <3>2. SubSeq(d, 1, Len(d)) = d
      BY <2>4
    <3>3. QED
      BY <2>1, <3>1, <3>2
  <2>7. QED
    BY <2>2, <2>6 DEF ArrivedInv, Clean, d
<1>4. CASE Try \/ Refuse \/ ReadLeaf \/ ReadFails \/ ReadInside \/ Return
  <2>1. UNCHANGED <<written, arrived>> /\ stage # "writing"
    BY <1>4 DEF Try, Refuse, ReadLeaf, ReadFails, ReadInside, Return
  <2>2. QED
    BY <2>1 DEF ArrivedInv, Clean, written, arrived
<1>5. CASE UNCHANGED vars
  BY <1>5 DEF vars, written, arrived, ArrivedInv, Clean
<1>6. QED
  BY <1>1, <1>2, <1>3, <1>4, <1>5 DEF Next

LEMMA WriterKept ==
  ASSUME TypeOK, TypeOK', WriterInv, [Next]_vars
  PROVE  WriterInv'
<1>1. CASE WriteLeaf \/ WriteInside
  BY <1>1, WriterSteps
<1>2. CASE Publish \/ Respond \/ Try \/ Refuse \/ ReadLeaf \/ ReadFails \/ ReadInside \/ Return
  <2>1. /\ UNCHANGED written /\ stage' # "writing"
        /\ stage = "writing" => todo = << >>
    BY <1>2 DEF Publish, Respond, Deliver, Try, Refuse, ReadLeaf, ReadFails, ReadInside, Return
  <2>2. QED
    BY <2>1, WriterRests
<1>3. CASE UNCHANGED vars
  BY <1>3 DEF vars, written, WriterInv
<1>4. QED
  BY <1>1, <1>2, <1>3 DEF Next
-----------------------------------------------------------------------------
(* The way of the reader.                                                  *)

\* The reader is at the i-th place of the writer's way T, the leaves on it read.
Follows(T, i) ==
  /\ Trace(T, type, wire, leaves)
  /\ T[Len(T)] = [todo |-> << >>, pos |-> Len(wire), n |-> Len(leaves)]
  /\ i \in 1..Len(T)
  /\ todo = T[i].todo /\ pos = T[i].pos /\ Len(got) = T[i].n
  /\ Len(got) <= Len(leaves) /\ \A j \in 1..Len(got) : got[j] = leaves[j].v

\* Only between two fields can padding lead past the end of the buffer.
InBuffer == pos <= Len(buf) \/ (todo # << >> /\ IsLeaf(Head(todo)))

Underway ==
  /\ Prefix(buf, wire) /\ (cut <=> Len(buf) < Len(wire)) /\ (cut => offsets = << >>)
  /\ InBuffer
  /\ \E T, i : Follows(T, i)

ReaderInv ==
  Clean =>
    /\ stage = "trying" => \/ offsets = IF reply THEN ReplyOffsets ELSE <<0>>
                           \/ cut /\ offsets = << >>
    /\ stage = "refused" => cut
    /\ stage \in {"reading", "read"} => Underway
    /\ stage = "read" => todo = << >>

\* The writer had something to do wherever it was not done.
LEMMA NextMove ==
  ASSUME TypeOK, NEW T, NEW i, Follows(T, i), todo # << >>
  PROVE  i + 1 \in 1..Len(T) /\ i \in Nat /\ T[i] \in States /\ T[i + 1] \in States
         /\ Move(T[i], T[i + 1], wire, leaves)
<1>1. T \in Seq(States) /\ T # << >> /\ i \in 1..Len(T) /\ todo = T[i].todo
  BY DEF Follows, Trace
<1>2. Len(T) \in Nat
  BY <1>1, Element
<1>3. T[Len(T)].todo = << >>
  BY DEF Follows
<1>4. i # Len(T)
  BY <1>1, <1>3
<1>5. i \in 1..(Len(T) - 1) /\ i + 1 \in 1..Len(T) /\ i \in Nat
  BY <1>1, <1>2, <1>4
<1>6. QED
  BY <1>1, <1>5, Element DEF Follows, Trace

\* What the writer did next with a leaf.
LEMMA NextLeaf ==
  ASSUME TypeOK, NEW T, NEW i, Follows(T, i), todo # << >>, IsLeaf(Head(todo))
  PROVE  LET f == Head(todo)
             at == Place(f, pos)
             v == leaves[Len(got) + 1].v
         IN /\ Len(got) + 1 \in 1..Len(leaves)
            /\ Proper(f, v) /\ Holds(wire, at, Octets(Code(f), v))
            /\ T[i + 1] = [todo |-> Inside(f, v, at) \o Tail(todo),
                           pos |-> at + Len(Octets(Code(f), v)), n |-> Len(got) + 1]
<1>1. Move(T[i], T[i + 1], wire, leaves)
  BY NextMove
<1>2. T[i].todo = todo /\ T[i].pos = pos /\ T[i].n = Len(got)
  BY DEF Follows
<1>3. Len(got) \in Nat /\ Len(leaves) \in Nat
  BY Element DEF TypeOK
<1>4. Len(got) < Len(leaves)
  BY <1>1, <1>2 DEF Move
<1>5. Len(got) + 1 \in 1..Len(leaves)
  BY <1>3, <1>4
<1>6. QED
  BY <1>1, <1>2, <1>5 DEF Move

\* A leaf fits the buffer if the octets the writer gave it are in it, and reads as it.
LEMMA LeafFits ==
  ASSUME TypeOK, Prefix(buf, wire), NEW T, NEW i, Follows(T, i), todo # << >>,
         IsLeaf(Head(todo)), NEW f, f = Head(todo), NEW at, at = Place(f, pos),
         NEW v, v = leaves[Len(got) + 1].v
  PROVE  LET end == at + Len(Octets(Code(f), v))
         IN /\ end \in Nat /\ end <= Len(wire)
            /\ Fits(f, buf, at) <=> end <= Len(buf)
            /\ Fits(f, buf, at) => at + Extent(f, buf, at) = end /\ Reads(f, buf, at) = v
<1>1. f \in Items
  BY Behind DEF TypeOK
<1>2. at \in Nat
  BY <1>1, PlaceTyped DEF TypeOK
<1>3. Proper(f, v) /\ Holds(wire, at, Octets(Code(f), v))
  BY NextLeaf
<1>4. Len(Octets(Code(f), v)) \in Nat
  BY <1>1, <1>3, OctetsLength
<1>5. wire \in Seq(Nat) /\ buf \in Seq(Nat)
  BY DEF TypeOK
<1>6. /\ Fits(f, buf, at) <=> at + Len(Octets(Code(f), v)) <= Len(buf)
      /\ Fits(f, buf, at) => /\ Extent(f, buf, at) = Len(Octets(Code(f), v))
                             /\ Reads(f, buf, at) = v
  BY <1>1, <1>2, <1>3, <1>5, LeafReads
<1>7. at + Len(Octets(Code(f), v)) <= Len(wire)
  BY <1>3 DEF Holds
<1>8. QED
  BY <1>2, <1>4, <1>6, <1>7

LEMMA ReaderReadsLeaf ==
  ASSUME TypeOK, TypeOK', Underway, ReadLeaf
  PROVE  Underway'
<1> DEFINE f == Head(todo)
           at == Place(f, pos)
           v == leaves[Len(got) + 1].v
           end == at + Len(Octets(Code(f), v))
<1>1. PICK T, i : Follows(T, i)
  BY DEF Underway
<1>2. /\ todo # << >> /\ IsLeaf(f) /\ Fits(f, buf, at)
      /\ pos' = at + Extent(f, buf, at)
      /\ got' = Append(got, Reads(f, buf, at))
      /\ todo' = Inside(f, Reads(f, buf, at), at) \o Tail(todo)
      /\ UNCHANGED <<written, arrived, reader>>
  BY DEF ReadLeaf
<1>3. Prefix(buf, wire)
  BY DEF Underway
<1>4. /\ Len(got) + 1 \in 1..Len(leaves)
      /\ T[i + 1] = [todo |-> Inside(f, v, at) \o Tail(todo), pos |-> end, n |-> Len(got) + 1]
  BY <1>1, <1>2, NextLeaf
<1>5. i + 1 \in 1..Len(T)
  BY <1>1, <1>2, NextMove
<1> HIDE DEF f, at, v
<1>6. end <= Len(buf) /\ at + Extent(f, buf, at) = end /\ Reads(f, buf, at) = v
  BY <1>1, <1>2, <1>3, LeafFits DEF f, at, v
<1> HIDE DEF end
<1>7. pos' = end /\ got' = Append(got, v) /\ todo' = Inside(f, v, at) \o Tail(todo)
  BY <1>2, <1>6
<1>8. UNCHANGED <<type, wire, leaves, buf, offsets, cut>>
  BY <1>2 DEF written, arrived, reader
<1>9. T[i + 1].todo = todo' /\ T[i + 1].pos = pos' /\ T[i + 1].n = Len(got) + 1
  BY <1>4, <1>7
<1>10. got \in Seq(Values) /\ v \in Values
  <2>1. leaves[Len(got) + 1] \in Written
    BY <1>4, Element DEF TypeOK
  <2>2. QED
    BY <2>1 DEF v, Written, TypeOK
<1>11. /\ Len(got') = Len(got) + 1 /\ got'[Len(got) + 1] = v
       /\ \A j \in 1..Len(got) : got'[j] = got[j]
  BY <1>7, <1>10, Appended
<1>12. Len(got) \in Nat /\ Len(leaves) \in Nat
  BY <1>10, Element DEF TypeOK
<1>13. Len(got') <= Len(leaves)
  BY <1>4, <1>11, <1>12
<1>14. ASSUME NEW j \in 1..Len(got') PROVE got'[j] = leaves[j].v
  <2>1. CASE j = Len(got) + 1
    BY <1>11, <2>1 DEF v
  <2>2. CASE j # Len(got) + 1
    <3>1. j \in 1..Len(got)
      BY <1>11, <1>12, <2>2
    <3>2. got[j] = leaves[j].v
      BY <1>1, <3>1 DEF Follows
    <3>3. QED
      BY <1>11, <3>1, <3>2
  <2>3. QED
    BY <2>1, <2>2
<1>15. Follows(T, i + 1)'
  BY <1>1, <1>5, <1>8, <1>9, <1>11, <1>13, <1>14 DEF Follows
<1>16. InBuffer'
  BY <1>6, <1>7, <1>8 DEF InBuffer
<1>17. \E U, j : Follows(U, j)'
  BY <1>15
<1>18. QED
  BY <1>8, <1>16, <1>17 DEF Underway

LEMMA ReaderEnters ==
  ASSUME TypeOK, TypeOK', Underway, ReadInside
  PROVE  Underway'
<1> DEFINE f == Head(todo)
           at == Place(f, pos)
<1>1. PICK T, i : Follows(T, i)
  BY DEF Underway
<1>2. /\ todo # << >> /\ ~IsLeaf(f) /\ pos' = at
      /\ todo' = Inside(f, f.n, at) \o Tail(todo)
      /\ UNCHANGED <<got, written, arrived, reader>>
  BY DEF ReadInside
<1>3. /\ i + 1 \in 1..Len(T) /\ Move(T[i], T[i + 1], wire, leaves)
  BY <1>1, <1>2, NextMove
<1>4. T[i].todo = todo /\ T[i].pos = pos /\ T[i].n = Len(got)
  BY <1>1 DEF Follows
<1>5. T[i + 1] = [todo |-> Inside(f, f.n, at) \o Tail(todo), pos |-> at, n |-> Len(got)]
  BY <1>2, <1>3, <1>4 DEF Move
<1>6. T[i + 1].todo = todo' /\ T[i + 1].pos = pos' /\ T[i + 1].n = Len(got)
  BY <1>2, <1>5
<1>7. UNCHANGED <<type, wire, leaves, buf, offsets, cut>> /\ got' = got
  BY <1>2 DEF written, arrived, reader
<1>8. Follows(T, i + 1)'
  BY <1>1, <1>3, <1>6, <1>7 DEF Follows
<1>9. InBuffer'
  <2>1. pos <= Len(buf)
    BY <1>2 DEF Underway, InBuffer
  <2>2. CASE Entered(f) /\ Fast(f.of)
    <3>1. f \in Items
      BY <1>2, Behind DEF TypeOK
    <3>2. f.of \in DOMAIN Schema
      BY <2>2, <3>1 DEF Entered, IsLeaf, Items, Codes
    <3> DEFINE g == FieldsOf(f.of, at)
    <3>3. Inside(f, f.n, at) = g
      BY <2>2 DEF Inside, Entered
    <3>4. /\ Schema[f.of] \in Seq([of : Codes, n : Int]) /\ Schema[f.of] # << >>
          /\ \A j \in DOMAIN Schema[f.of] : Schema[f.of][j].n = 1 /\ Schema[f.of][j].of \in Primitives
      BY <2>2, <3>2, SchemaAssumption DEF Fast
    <3>5. 1 \in DOMAIN Schema[f.of]
      BY <3>4
    <3>6. g[1].n = 1 /\ g[1].of \in Primitives
      BY <3>4, <3>5 DEF FieldsOf
    <3>7. g \in Seq(Items) /\ Len(g) \in Nat \ {0}
      <4>1. at \in Nat
        BY <3>1, PlaceTyped DEF TypeOK
      <4>2. g \in Seq(Items)
        BY <3>2, <4>1, FieldsTyped
      <4>3. 1 \in DOMAIN g
        BY <3>5 DEF FieldsOf
      <4> HIDE DEF g
      <4>4. QED
        BY <4>2, <4>3
    <3> HIDE DEF g
    <3>8. Tail(todo) \in Seq(Items)
      BY <1>2, Behind DEF TypeOK
    <3>9. todo' # << >> /\ Head(todo') = g[1]
      BY <1>2, <3>3, <3>7, <3>8
    <3>10. QED
      BY <3>6, <3>9 DEF InBuffer, IsLeaf
  <2>3. CASE ~(Entered(f) /\ Fast(f.of))
    <3>1. pos' = pos
      BY <1>2, <2>3 DEF Place
    <3>2. QED
      BY <1>7, <2>1, <3>1 DEF InBuffer
  <2>4. QED
    BY <2>2, <2>3
<1>10. \E U, j : Follows(U, j)'
  BY <1>8
<1>11. QED
  BY <1>7, <1>9, <1>10 DEF Underway

\* Reading fails in a buffer that lost octets only.
LEMMA ReaderFails ==
  ASSUME TypeOK, Underway, ReadFails
  PROVE  cut
<1> DEFINE f == Head(todo)
           at == Place(f, pos)
           v == leaves[Len(got) + 1].v
           end == at + Len(Octets(Code(f), v))
<1>1. PICK T, i : Follows(T, i)
  BY DEF Underway
<1>2. todo # << >> /\ IsLeaf(f) /\ ~Fits(f, buf, at)
  BY DEF ReadFails
<1>3. Prefix(buf, wire) /\ (cut <=> Len(buf) < Len(wire))
  BY DEF Underway
<1> HIDE DEF f, at, v
<1>4. end \in Nat /\ end <= Len(wire) /\ ~(end <= Len(buf))
  BY <1>1, <1>2, <1>3, LeafFits DEF f, at, v
<1> HIDE DEF end
<1>5. Len(buf) \in Nat /\ Len(wire) \in Nat
  BY Element DEF TypeOK
<1>6. Len(buf) < Len(wire)
  BY <1>4, <1>5
<1>7. QED
  BY <1>3, <1>6
\* Where deserialize begins, at an offset the body does begin at.
LEMMA ReaderStarts ==
  ASSUME TypeOK, TypeOK', WriterInv, ArrivedInv, ReaderInv, Clean, Try
  PROVE  stage' = "reading" /\ Underway'
<1>1. stage = "trying" /\ offsets # << >>
  BY DEF Try
<1>2. offsets = IF reply THEN ReplyOffsets ELSE <<0>>
  BY <1>1 DEF ReaderInv
<1>3. UNCHANGED <<type, wire, leaves, reply, cut>> /\ offsets' = Tail(offsets)
  BY DEF Try, written, arrived
<1>4. wire \in Seq(Nat) /\ payload \in Seq(Nat) /\ Len(wire) \in Nat /\ Len(payload) \in Nat
  BY Element DEF TypeOK
<1>5. /\ Len(payload) >= Head(offsets) /\ (cut => Tail(offsets) = << >>)
      /\ Prefix(SubSeq(payload, Head(offsets) + 1, Len(payload)), wire)
      /\ (cut <=> Len(SubSeq(payload, Head(offsets) + 1, Len(payload))) < Len(wire))
  <2>1. CASE reply
    <3>1. ~cut /\ payload = RelatedRequest \o wire
      BY <1>1, <2>1 DEF ArrivedInv, Clean
    <3>2. Head(offsets) = 4
      BY <1>2, <2>1 DEF ReplyOffsets
    <3>3. RelatedRequest \in Seq(Nat) /\ Len(RelatedRequest) = 4
      BY DEF RelatedRequest
    <3>4. Len(payload) = 4 + Len(wire) /\ \A i \in 1..Len(wire) : payload[4 + i] = wire[i]
      <4> DEFINE r == RelatedRequest
      <4>1. payload = r \o wire /\ r \in Seq(Nat) /\ Len(r) = 4
        BY <3>1, <3>3
      <4> HIDE DEF r
      <4>2. Len(r \o wire) = Len(r) + Len(wire)
        BY <1>4, <4>1, Joined
      <4>3. \A i \in 1..Len(wire) : (r \o wire)[Len(r) + i] = wire[i]
        <5>1. r \in Seq(Nat) /\ wire \in Seq(Nat)
          BY <1>4, <4>1
        <5>2. QED
          BY <5>1, Joined
      <4>4. QED
        BY <4>1, <4>2, <4>3
    <3> DEFINE k == Len(payload)
               b == SubSeq(payload, 5, k)
    <3>5. b \in Seq(Nat) /\ Len(b) = k - 5 + 1 /\ \A i \in 1..(k - 5 + 1) : b[i] = payload[5 + i - 1]
      <4>1. k \in Nat /\ k <= Len(payload) /\ 5 <= k + 1 /\ 5 \in Nat \ {0}
        BY <1>4, <3>4
      <4> HIDE DEF k
      <4>2. QED
        BY <1>4, <4>1, Cut
    <3> HIDE DEF b
    <3>6. Len(b) = Len(wire)
      BY <1>4, <3>4, <3>5
    <3>7. ASSUME NEW i \in 1..Len(b) PROVE b[i] = wire[i]
      <4>1. i \in 1..Len(wire) /\ i \in 1..(k - 5 + 1) /\ 5 + i - 1 = 4 + i
        BY <1>4, <3>5, <3>6
      <4>2. b[i] = payload[4 + i]
        BY <3>5, <4>1
      <4>3. QED
        BY <3>4, <4>1, <4>2
    <3>8. Prefix(b, wire) /\ ~(Len(b) < Len(wire))
      BY <1>4, <3>6, <3>7 DEF Prefix
    <3>9. b = SubSeq(payload, Head(offsets) + 1, Len(payload))
      BY <3>2 DEF b
    <3>10. Len(payload) >= Head(offsets)
      BY <1>4, <3>2, <3>4
    <3>11. QED
      BY <3>1, <3>8, <3>9, <3>10
  <2>2. CASE ~reply
    <3>1. Prefix(payload, wire) /\ (cut <=> Len(payload) < Len(wire))
      BY <1>1, <2>2 DEF ArrivedInv, Clean
    <3>2. Head(offsets) = 0 /\ Tail(offsets) = << >>
      BY <1>2, <2>2
    <3>3. SubSeq(payload, Head(offsets) + 1, Len(payload)) = payload
      BY <1>4, <3>2
    <3>4. Len(payload) >= Head(offsets)
      BY <1>4, <3>2
    <3>5. QED
      BY <3>1, <3>2, <3>3, <3>4
  <2>3. QED
    BY <2>1, <2>2
<1>6. ~(Len(payload) < Head(offsets))
  BY <1>2, <1>4, <1>5 DEF ReplyOffsets
<1>7. /\ stage' = "reading" /\ todo' = Whole(type)
      /\ buf' = SubSeq(payload, Head(offsets) + 1, Len(payload))
      /\ pos' = 0 /\ got' = << >>
  BY <1>6 DEF Try
<1>8. PICK T : /\ Trace(T, type, wire, leaves)
               /\ T[Len(T)] = [todo |-> << >>, pos |-> Len(wire), n |-> Len(leaves)]
  BY <1>1 DEF WriterInv
<1>9. T[1].todo = Whole(type) /\ T[1].pos = 0 /\ T[1].n = 0 /\ 1 \in 1..Len(T)
  BY <1>8 DEF Trace
<1>10. Len(got') = 0 /\ Len(leaves) \in Nat
  BY <1>7, Element DEF TypeOK
<1>11. Follows(T, 1)'
  BY <1>3, <1>7, <1>8, <1>9, <1>10 DEF Follows
<1>12. pos' <= Len(buf')
  <2>1. buf' \in Seq(Nat)
    BY DEF TypeOK
  <2>2. QED
    BY <1>7, <2>1, Element
<1>13. InBuffer'
  BY <1>12 DEF InBuffer
<1>14. \E U, j : Follows(U, j)'
  BY <1>11
<1>15. Prefix(buf', wire') /\ (cut' <=> Len(buf') < Len(wire')) /\ (cut' => offsets' = << >>)
  BY <1>3, <1>5, <1>7
<1>16. QED
  BY <1>7, <1>13, <1>14, <1>15 DEF Underway

LEMMA ReaderKept ==
  ASSUME TypeOK, TypeOK', WriterInv, ArrivedInv, ReaderInv, [Next]_vars
  PROVE  ReaderInv'
<1> SUFFICES ASSUME Clean'
             PROVE  /\ stage' = "trying" => \/ offsets' = IF reply' THEN ReplyOffsets ELSE <<0>>
                                            \/ cut' /\ offsets' = << >>
                    /\ stage' = "refused" => cut'
                    /\ stage' \in {"reading", "read"} => Underway'
                    /\ stage' = "read" => todo' = << >>
  BY DEF ReaderInv
<1>1. CASE WriteLeaf \/ WriteInside
  BY <1>1 DEF WriteLeaf, WriteInside
<1>2. CASE Publish \/ Respond
  BY <1>2 DEF Publish, Respond, Deliver
<1>3. CASE Try
  <2>1. Clean
    BY <1>3 DEF Try, arrived, Clean
  <2>2. stage' = "reading" /\ Underway'
    BY <1>3, <2>1, ReaderStarts
  <2>3. QED
    BY <2>2
<1>4. CASE Refuse
  <2>1. Clean /\ cut' = cut
    BY <1>4 DEF Refuse, arrived, Clean
  <2>2. cut
    <3>1. stage = "trying" /\ offsets = << >>
      BY <1>4 DEF Refuse
    <3>2. ReplyOffsets # << >> /\ <<0>> # << >>
      BY DEF ReplyOffsets
    <3>3. QED
      BY <2>1, <3>1, <3>2 DEF ReaderInv
  <2>3. QED
    BY <1>4, <2>1, <2>2 DEF Refuse
<1>5. CASE ReadLeaf
  <2>1. Clean /\ stage = "reading" /\ stage' = "reading"
    BY <1>5 DEF ReadLeaf, arrived, Clean
  <2>2. Underway
    BY <2>1 DEF ReaderInv
  <2>3. QED
    BY <1>5, <2>1, <2>2, ReaderReadsLeaf
<1>6. CASE ReadFails
  <2>1. Clean /\ stage = "reading" /\ stage' = "trying" /\ UNCHANGED <<cut, offsets>>
    BY <1>6 DEF ReadFails, arrived, reader, Clean
  <2>2. Underway
    BY <2>1 DEF ReaderInv
  <2>3. cut
    BY <1>6, <2>2, ReaderFails
  <2>4. offsets = << >>
    BY <2>2, <2>3 DEF Underway
  <2>5. QED
    BY <2>1, <2>3, <2>4
<1>7. CASE ReadInside
  <2>1. Clean /\ stage = "reading" /\ stage' = "reading"
    BY <1>7 DEF ReadInside, arrived, Clean
  <2>2. Underway
    BY <2>1 DEF ReaderInv
  <2>3. QED
    BY <1>7, <2>1, <2>2, ReaderEnters
<1>8. CASE Return
  <2>1. Clean /\ stage = "reading" /\ stage' = "read" /\ todo = << >> /\ todo' = todo
        /\ UNCHANGED <<type, wire, leaves, pos, got, buf, offsets, cut>>
    BY <1>8 DEF Return, written, arrived, reader, Clean
  <2>2. Underway
    BY <2>1 DEF ReaderInv
  <2>3. Underway'
    BY <2>1, <2>2 DEF Underway, InBuffer, Follows
  <2>4. QED
    BY <2>1, <2>3
<1>9. CASE UNCHANGED vars
  BY <1>9 DEF vars, written, arrived, reader, ReaderInv, Clean, Underway, InBuffer, Follows
<1>10. QED
  BY <1>1, <1>2, <1>3, <1>4, <1>5, <1>6, <1>7, <1>8, <1>9 DEF Next

-----------------------------------------------------------------------------
(* Theorems.                                                               *)

CodecInv == TypeOK /\ WriterInv /\ ArrivedInv /\ ReaderInv

LEMMA Starts == ASSUME Init PROVE CodecInv
<1>1. TypeOK
  <2>1. Whole(type) \in Seq(Items)
    BY WholeTyped DEF Init
  <2>2. << >> \in Seq(Nat) /\ << >> \in Seq(Written) /\ << >> \in Seq(Values)
    OBVIOUS
  <2>3. QED
    BY <2>1, <2>2 DEF Init, TypeOK
<1>2. WriterInv
  BY WriterStarts
<1>3. stage = "writing"
  BY DEF Init
<1>4. QED
  BY <1>1, <1>2, <1>3 DEF CodecInv, ArrivedInv, ReaderInv

LEMMA CodecInvariant == Spec => []CodecInv
<1>1. Init => CodecInv
  BY Starts
<1>2. CodecInv /\ [Next]_vars => CodecInv'
  <2> SUFFICES ASSUME CodecInv, [Next]_vars PROVE CodecInv'
    OBVIOUS
  <2>1. TypeOK'
    BY TypesKept DEF CodecInv
  <2>2. WriterInv'
    BY <2>1, WriterKept DEF CodecInv
  <2>3. ArrivedInv'
    BY ArrivedKept DEF CodecInv
  <2>4. ReaderInv'
    BY <2>1, ReaderKept DEF CodecInv
  <2>5. QED
    BY <2>1, <2>2, <2>3, <2>4 DEF CodecInv
<1>3. QED
  BY <1>1, <1>2, PTL DEF Spec

\* Every variable has its type, whatever octets are read.
THEOREM CodecTypes == Spec => []TypeOK
<1>1. CodecInv => TypeOK
  BY DEF CodecInv
<1>2. QED
  BY <1>1, CodecInvariant, PTL

\* A reader that is done has followed the writer to the end.
LEMMA AtTheEnd ==
  ASSUME TypeOK, Underway, todo = << >>
  PROVE  got = Sent /\ pos = Len(wire) /\ pos <= Len(buf)
<1>1. PICK T, i : Follows(T, i)
  BY DEF Underway
<1>2. T \in Seq(States) /\ i \in 1..Len(T) /\ T[i].todo = << >>
  BY <1>1 DEF Follows, Trace
<1>3. i = Len(T)
  <2>1. ASSUME i # Len(T) PROVE FALSE
    <3>1. Len(T) \in Nat
      BY <1>2, Element
    <3>2. i \in 1..(Len(T) - 1)
      BY <1>2, <2>1, <3>1
    <3>3. Move(T[i], T[i + 1], wire, leaves)
      BY <1>1, <3>2 DEF Follows, Trace
    <3>4. QED
      BY <1>2, <3>3 DEF Move
  <2>2. QED
    BY <2>1
<1>4. pos = Len(wire) /\ Len(got) = Len(leaves)
  BY <1>1, <1>3 DEF Follows
<1>5. \A j \in 1..Len(got) : got[j] = leaves[j].v
  BY <1>1 DEF Follows
<1>6. got \in Seq(Values) /\ leaves \in Seq(Written) /\ Len(leaves) \in Nat /\ DOMAIN leaves = 1..Len(leaves)
  BY Element DEF TypeOK
<1>7. Sent \in Seq(Values) /\ Len(Sent) = Len(leaves)
  <2>1. \A j \in 1..Len(leaves) : leaves[j].v \in Values
    <3>1. \A j \in 1..Len(leaves) : leaves[j] \in Written
      BY <1>6, Element
    <3>2. QED
      BY <3>1 DEF Written
  <2>2. Sent = [j \in 1..Len(leaves) |-> leaves[j].v]
    BY <1>6 DEF Sent
  <2>3. Sent \in [1..Len(leaves) -> Values]
    BY <2>1, <2>2
  <2>4. QED
    BY <1>6, <2>3, FcnIsSeq
<1>8. \A j \in 1..Len(got) : got[j] = Sent[j]
  BY <1>4, <1>5, <1>6 DEF Sent
<1>9. got = Sent
  BY <1>4, <1>6, <1>7, <1>8, SameSeq
<1>10. pos <= Len(buf)
  BY DEF Underway, InBuffer
<1>11. QED
  BY <1>4, <1>9, <1>10

LEMMA Outcome ==
  ASSUME CodecInv, Done, Clean
  PROVE  IF cut THEN stage = "refused"
         ELSE stage = "read" /\ got = Sent /\ pos = Len(wire)
<1>1. ReaderInv /\ TypeOK /\ stage \in {"read", "refused"}
  BY DEF CodecInv, Done
<1>2. CASE stage = "refused"
  BY <1>1, <1>2 DEF ReaderInv
<1>3. CASE stage = "read"
  <2>1. Underway /\ todo = << >>
    BY <1>1, <1>3 DEF ReaderInv
  <2>2. got = Sent /\ pos = Len(wire) /\ pos <= Len(buf)
    BY <1>1, <2>1, AtTheEnd
  <2>3. Len(buf) \in Nat /\ Len(wire) \in Nat
    BY <1>1, Element DEF TypeOK
  <2>4. ~(Len(buf) < Len(wire))
    BY <2>2, <2>3
  <2>5. ~cut
    BY <2>1, <2>4 DEF Underway
  <2>6. QED
    BY <1>3, <2>2, <2>5
<1>4. QED
  BY <1>1, <1>2, <1>3

\* For every schema and message: what is read of a whole datagram is the message
\* that was written, to its last octet (test_messages.py).
THEOREM MessagesComeBack == Spec => []RoundTrip
<1>1. CodecInv => RoundTrip
  BY Outcome DEF RoundTrip, Clean
<1>2. QED
  BY <1>1, CodecInvariant, PTL

\* Wherever the cut falls, a datagram that lost its end is refused: no shorter
\* message is made of it (CDRReader._need).
THEOREM CutsAreRefused == Spec => []TruncationCaught
<1>1. CodecInv => TruncationCaught
  BY Outcome DEF TruncationCaught, Clean
<1>2. QED
  BY <1>1, CodecInvariant, PTL

\* A reply is read behind the related request (ServiceClient._decode).
THEOREM RepliesAreDecoded == Spec => []ReplyDecoded
<1>1. CodecInv => ReplyDecoded
  BY Outcome DEF ReplyDecoded, Clean
<1>2. QED
  BY <1>1, CodecInvariant, PTL
-----------------------------------------------------------------------------
(* CDR's places.                                                           *)

\* Where the octets of the first i leaves end.
End(ls, i) == IF i = 0 THEN 0 ELSE ls[i].at + Len(Octets(ls[i].of, ls[i].v))

\* The leaf l is where CDR puts it behind the octets that end at e.
Placed(l, e, w) ==
  /\ Octets(l.of, l.v) \in Seq(Nat) /\ e \in Nat
  /\ l.at % Alignment(l.of) = 0 /\ l.at - e \in 0..(Alignment(l.of) - 1)
  /\ Holds(w, l.at, Octets(l.of, l.v))
  /\ \A j \in (e + 1)..l.at : w[j] = 0

\* A field that alignment treats as CDR does, given that it has its place.
Straight(f) ==
  /\ IsLeaf(f) => f.from % Alignment(Code(f)) = 0
  /\ f.of \in DOMAIN Schema =>
       /\ f.of \notin Misaligned
       /\ Fast(f.of) => \A j \in DOMAIN Schema[f.of] :
                          Size(Schema[f.of][j].of) <= Size(Schema[f.of][1].of)

AllStraight(list) == \A i \in 1..Len(list) : Straight(list[i])

\* The wire ends where the last leaf does, or is padded for a leaf to come.
Gap(w, e, list) ==
  \/ Len(w) = e
  \/ /\ list # << >> /\ IsLeaf(Head(list)) /\ Head(list).from = Len(w)
     /\ Len(w) % Alignment(Code(Head(list))) = 0
     /\ Len(w) - e \in 0..(Alignment(Code(Head(list))) - 1)
     /\ \A j \in (e + 1)..Len(w) : w[j] = 0

PlacesInv ==
  type \notin Misaligned /\ stage = "writing" =>
    /\ \A i \in 1..Len(leaves) : Placed(leaves[i], End(leaves, i - 1), wire)
    /\ End(leaves, Len(leaves)) \in Nat
    /\ Gap(wire, End(leaves, Len(leaves)), todo)
    /\ AllStraight(todo) \/ (todo = Whole(type) /\ wire = << >> /\ leaves = << >>)

LEMMA ZeroIsMultiple == \A s \in Sizes : 0 % s = 0
<1> SUFFICES ASSUME NEW s \in Sizes PROVE 0 % s = 0
  OBVIOUS
<1>1. s \in {1, 2, 4, 8}
  BY DEF Sizes
<1>2. QED
  BY <1>1

LEMMA FieldsStraight ==
  ASSUME NEW t \in DOMAIN Schema \ Misaligned, NEW at \in Nat, Fast(t) => at % MaxAlign(t) = 0
  PROVE  AllStraight(FieldsOf(t, at))
<1>1. /\ FieldsOf(t, at) \in Seq(Items) /\ DOMAIN FieldsOf(t, at) = DOMAIN Schema[t]
      /\ Schema[t] \in Seq([of : Codes, n : Int])
  BY FieldsTyped, SchemaAssumption DEF FieldsOf
<1>2. 1..Len(FieldsOf(t, at)) = DOMAIN Schema[t]
  BY <1>1, Element
<1>3. ASSUME NEW i \in DOMAIN Schema[t] PROVE Straight(FieldsOf(t, at)[i])
  <2> DEFINE f == FieldsOf(t, at)[i]
  <2>1. /\ f.of = Schema[t][i].of /\ f.n = Schema[t][i].n
        /\ f.from = IF Fast(t) THEN at ELSE 0
    BY DEF FieldsOf
  <2> HIDE DEF f
  <2>2. f.of \in DOMAIN Schema =>
          /\ f.of \notin Misaligned
          /\ Fast(f.of) => \A j \in DOMAIN Schema[f.of] :
                             Size(Schema[f.of][j].of) <= Size(Schema[f.of][1].of)
    BY <2>1, MisalignedAssumption
  <2>3. f.from % Alignment(Code(f)) = 0
    <3>1. CASE Fast(t)
      <4>1. f.n = 1 /\ f.of \in Primitives
        BY <2>1, <3>1 DEF Fast
      <4>2. Alignment(Code(f)) = Size(f.of)
        BY <4>1 DEF Code, Alignment, Primitives
      <4>3. MaxAlign(t) \in Sizes /\ Size(f.of) <= MaxAlign(t) /\ Size(f.of) \in Sizes
        BY <2>1, <3>1, MaxAlignFacts, SizeTyped
      <4>4. at % Size(f.of) = 0
        BY <3>1, <4>3, Divides
      <4>5. QED
        BY <2>1, <3>1, <4>2, <4>4
    <3>2. CASE ~Fast(t)
      BY <2>1, <3>2, AlignmentTyped, ZeroIsMultiple
    <3>3. QED
      BY <3>1, <3>2
  <2>4. QED
    BY <2>2, <2>3 DEF Straight, f
<1>4. QED
  BY <1>2, <1>3 DEF AllStraight

LEMMA InsideStraight ==
  ASSUME NEW f \in Items, f.of \in DOMAIN Schema => f.of \notin Misaligned,
         f.of \in DOMAIN Schema /\ Fast(f.of) /\ f.n # 1 =>
           \A j \in DOMAIN Schema[f.of] : Size(Schema[f.of][j].of) <= Size(Schema[f.of][1].of),
         NEW k, f.n # 1 => k \in Int, NEW at \in Nat,
         Entered(f) /\ Fast(f.of) => at % MaxAlign(f.of) = 0
  PROVE  AllStraight(Inside(f, k, at))
<1>1. CASE f.n # 1
  <2>1. Inside(f, k, at) = Elements(f.of, k) /\ k \in Int
    BY <1>1 DEF Inside
  <2>2. Inside(f, k, at) \in Seq(Items)
    BY InsideTyped
  <2>3. 1..Len(Inside(f, k, at)) = 1..k
    <3>1. DOMAIN Inside(f, k, at) = 1..k
      BY <2>1 DEF Elements
    <3>2. QED
      BY <2>2, <3>1, Element
  <2>4. ASSUME NEW i \in 1..k PROVE Straight(Elements(f.of, k)[i])
    <3> DEFINE e == Elements(f.of, k)[i]
    <3>1. e.of = f.of /\ e.n = 1 /\ e.from = 0
      BY DEF Elements
    <3> HIDE DEF e
    <3>2. QED
      BY <1>1, <3>1, AlignmentTyped, ZeroIsMultiple DEF Straight, e
  <2>5. QED
    BY <2>1, <2>3, <2>4 DEF AllStraight
<1>2. CASE f.n = 1 /\ Entered(f)
  <2>1. f.of \in DOMAIN Schema
    BY <1>2 DEF Entered, IsLeaf, Items, Codes
  <2>2. QED
    BY <1>2, <2>1, FieldsStraight DEF Inside
<1>3. CASE f.n = 1 /\ ~Entered(f)
  BY <1>3 DEF Inside, AllStraight
<1>4. QED
  BY <1>1, <1>2, <1>3

LEMMA JoinedStraight ==
  ASSUME NEW a \in Seq(Items), NEW b \in Seq(Items), AllStraight(a), AllStraight(b)
  PROVE  AllStraight(a \o b)
<1>1. /\ Len(a \o b) = Len(a) + Len(b) /\ Len(a) \in Nat /\ Len(b) \in Nat
      /\ \A i \in 1..Len(a) : (a \o b)[i] = a[i]
      /\ \A i \in 1..Len(b) : (a \o b)[Len(a) + i] = b[i]
  BY Joined, Element
<1>2. ASSUME NEW i \in 1..Len(a \o b) PROVE Straight((a \o b)[i])
  <2>1. CASE i <= Len(a)
    BY <1>1, <2>1 DEF AllStraight
  <2>2. CASE ~(i <= Len(a))
    <3>1. i - Len(a) \in 1..Len(b) /\ Len(a) + (i - Len(a)) = i
      BY <1>1, <2>2
    <3>2. (a \o b)[Len(a) + (i - Len(a))] = b[i - Len(a)]
      BY <1>1, <3>1
    <3>3. QED
      BY <3>1, <3>2 DEF AllStraight
  <2>3. QED
    BY <2>1, <2>2
<1>3. QED
  BY <1>2 DEF AllStraight

LEMMA TailStraight ==
  ASSUME NEW a \in Seq(Items), a # << >>, AllStraight(a)
  PROVE  Straight(Head(a)) /\ AllStraight(Tail(a)) /\ Tail(a) \in Seq(Items)
<1>1. /\ Tail(a) \in Seq(Items) /\ Len(Tail(a)) = Len(a) - 1 /\ Len(a) \in Nat /\ Len(a) >= 1
      /\ \A i \in 1..(Len(a) - 1) : Tail(a)[i] = a[i + 1]
  <2>1. Len(a) \in Nat /\ Len(a) >= 1
    BY Element
  <2>2. QED
    BY <2>1, Behind
<1>2. Head(a) = a[1] /\ 1 \in 1..Len(a)
  BY <1>1
<1>3. ASSUME NEW i \in 1..Len(Tail(a)) PROVE Straight(Tail(a)[i])
  <2>1. i \in 1..(Len(a) - 1) /\ i + 1 \in 1..Len(a)
    BY <1>1
  <2>2. QED
    BY <1>1, <2>1 DEF AllStraight
<1>4. QED
  BY <1>1, <1>2, <1>3 DEF AllStraight

LEMMA PlacedStays ==
  ASSUME NEW l \in Written, NEW e, NEW w \in Seq(Nat), NEW w2 \in Seq(Nat), Prefix(w, w2), Placed(l, e, w)
  PROVE  Placed(l, e, w2)
<1>1. l.at \in Nat /\ e \in Nat /\ Octets(l.of, l.v) \in Seq(Nat) /\ Holds(w, l.at, Octets(l.of, l.v))
  BY DEF Written, Placed
<1>2. Holds(w2, l.at, Octets(l.of, l.v))
  BY <1>1, HoldsStays
<1>3. ASSUME NEW j \in (e + 1)..l.at PROVE w2[j] = 0
  <2>1. l.at <= Len(w) /\ Len(w) \in Nat
    <3>1. l.at + Len(Octets(l.of, l.v)) <= Len(w)
      BY <1>1 DEF Holds
    <3>2. Len(Octets(l.of, l.v)) \in Nat /\ Len(w) \in Nat
      BY <1>1, Element
    <3>3. QED
      BY <1>1, <3>1, <3>2
  <2>2. j \in 1..Len(w)
    BY <1>1, <2>1
  <2>3. w[j] = 0
    BY DEF Placed
  <2>4. QED
    BY <2>2, <2>3 DEF Prefix
<1>4. QED
  BY <1>2, <1>3 DEF Placed

\* A leaf goes to the first multiple of its size behind the last leaf.
LEMMA LeafPlace ==
  ASSUME NEW f \in Items, IsLeaf(f), f.from % Alignment(Code(f)) = 0,
         NEW w \in Seq(Nat), NEW e \in Nat, NEW list, f = Head(list), Gap(w, e, list),
         NEW at, at = Place(f, Len(w)), NEW w2, Prefix(w, w2),
         \A j \in (Len(w) + 1)..at : w2[j] = 0
  PROVE  /\ at % Alignment(Code(f)) = 0 /\ at - e \in 0..(Alignment(Code(f)) - 1)
         /\ \A j \in (e + 1)..at : w2[j] = 0
<1> DEFINE s == Alignment(Code(f))
           p == Len(w)
           x == p - f.from
<1>1. s \in Sizes /\ s \in Nat /\ p \in Nat /\ f.from \in Nat /\ x \in Int
  BY AlignmentTyped, Element DEF Sizes, Items
<1>2. at = p + Pad(x, s)
  BY DEF Place
<1>3. f.from % s = 0
  OBVIOUS
<1>4. \/ p = e
      \/ f.from = p /\ p % s = 0 /\ p - e \in 0..(s - 1) /\ \A j \in (e + 1)..p : w[j] = 0
  BY DEF Gap
<1>5. Pad(x, s) \in 0..(s - 1) /\ (x + Pad(x, s)) % s = 0 /\ (x % s = 0 => Pad(x, s) = 0)
  BY <1>1, PadFacts
<1>6. \A j \in (p + 1)..at : w2[j] = 0
  OBVIOUS
<1>7. \A j \in 1..p : w2[j] = w[j]
  BY DEF Prefix
<1>8. x = p - f.from
  OBVIOUS
<1> DEFINE from == f.from
           d == Pad(x, s)
<1>9. from \in Nat /\ from % s = 0 /\ d \in 0..(s - 1) /\ (x + d) % s = 0 /\ (x % s = 0 => d = 0)
      /\ at = p + d /\ x = p - from
  BY <1>1, <1>2, <1>3, <1>5, <1>8
<1>10. \/ p = e
       \/ from = p /\ p % s = 0 /\ p - e \in 0..(s - 1) /\ \A j \in (e + 1)..p : w[j] = 0
  BY <1>4
<1> HIDE DEF s, p, x, d, from
<1>11. CASE p = e
  <2>1. x + d \in Int /\ (x + d) + from = at
    BY <1>1, <1>9
  <2>2. ((x + d) + from) % s = 0
    BY <1>1, <1>9, <2>1, SumOfMultiples
  <2>3. at % s = 0
    BY <2>1, <2>2
  <2>4. at - e \in 0..(s - 1)
    BY <1>1, <1>9, <1>11
  <2>5. QED
    BY <1>6, <1>11, <2>3, <2>4 DEF s
<1>12. CASE from = p /\ p % s = 0 /\ p - e \in 0..(s - 1) /\ \A j \in (e + 1)..p : w[j] = 0
  <2>1. x = 0
    BY <1>1, <1>9, <1>12
  <2>2. d = 0
    BY <1>1, <1>9, <2>1, ZeroIsMultiple
  <2>3. at = p
    BY <1>1, <1>9, <2>2
  <2>4. ASSUME NEW j \in (e + 1)..at PROVE w2[j] = 0
    <3>1. j \in 1..p
      BY <1>1, <2>3
    <3>2. QED
      BY <1>7, <1>12, <2>3, <3>1
  <2>5. QED
    BY <1>12, <2>3, <2>4 DEF s
<1>13. QED
  BY <1>10, <1>11, <1>12

LEMMA PlacesAfterLeaf ==
  ASSUME TypeOK, TypeOK', PlacesInv, WriteLeaf
  PROVE  PlacesInv'
<1> SUFFICES ASSUME type \notin Misaligned PROVE PlacesInv'
  BY DEF PlacesInv, WriteLeaf
<1> DEFINE f == Head(todo)
           v == Value(f, content[message][Len(leaves) + 1])
           at == Place(f, Len(wire))
           l == [of |-> Code(f), at |-> at, v |-> v]
           n == Len(leaves)
           e == End(leaves, n)
<1>1. /\ todo # << >> /\ IsLeaf(f) /\ Len(leaves) < Len(content[message])
      /\ wire' = wire \o Zeros(at - Len(wire)) \o Octets(Code(f), v)
      /\ leaves' = Append(leaves, l)
      /\ todo' = Inside(f, v, at) \o Tail(todo)
      /\ stage = "writing" /\ type' = type
  BY DEF WriteLeaf
<1>2. l.of = Code(f) /\ l.at = at /\ l.v = v
  OBVIOUS
<1>3. /\ \A i \in 1..Len(leaves) : Placed(leaves[i], End(leaves, i - 1), wire)
      /\ e \in Nat /\ Gap(wire, e, todo)
      /\ AllStraight(todo) \/ (todo = Whole(type) /\ wire = << >> /\ leaves = << >>)
  BY <1>1 DEF PlacesInv
<1> HIDE DEF f, v, at, l, n
<1>4. /\ f \in Items /\ Proper(f, v) /\ at \in Nat /\ at >= Len(wire)
      /\ wire' \in Seq(Nat) /\ Prefix(wire, wire')
      /\ Len(wire') = at + Len(Octets(Code(f), v)) /\ Holds(wire', at, Octets(Code(f), v))
      /\ \A i \in (Len(wire) + 1)..at : wire'[i] = 0
      /\ l \in Written
  BY <1>1, WriteLeafStep DEF f, v, at, l
<1>5. AllStraight(todo)
  <2>1. ASSUME todo = Whole(type) PROVE FALSE
    <3>1. f.of = type /\ f.n = 1 /\ type \in DOMAIN Schema
      BY <2>1 DEF f, Whole, TypeOK
    <3>2. QED
      BY <1>1, <3>1, SchemaAssumption DEF IsLeaf
  <2>2. QED
    BY <1>3, <2>1
<1>6. Straight(f) /\ AllStraight(Tail(todo)) /\ Tail(todo) \in Seq(Items)
  BY <1>1, <1>5, TailStraight DEF f, TypeOK
<1>7. wire \in Seq(Nat) /\ leaves \in Seq(Written) /\ Len(leaves) \in Nat /\ n = Len(leaves)
  BY Element DEF TypeOK, n
<1>8. /\ at % Alignment(Code(f)) = 0 /\ at - e \in 0..(Alignment(Code(f)) - 1)
      /\ \A j \in (e + 1)..at : wire'[j] = 0
  <2>1. f.from % Alignment(Code(f)) = 0
    BY <1>1, <1>6 DEF Straight
  <2>2. f = Head(todo) /\ at = Place(f, Len(wire))
    BY DEF f, at
  <2> DEFINE w == wire
             w2 == wire'
             list == todo
  <2>3. /\ f \in Items /\ IsLeaf(f) /\ w \in Seq(Nat) /\ e \in Nat /\ f = Head(list)
        /\ Gap(w, e, list) /\ at = Place(f, Len(w)) /\ Prefix(w, w2)
        /\ \A j \in (Len(w) + 1)..at : w2[j] = 0
    BY <1>1, <1>3, <1>4, <1>7, <2>2
  <2> HIDE DEF e, w, w2, list
  <2>4. /\ at % Alignment(Code(f)) = 0 /\ at - e \in 0..(Alignment(Code(f)) - 1)
        /\ \A j \in (e + 1)..at : w2[j] = 0
    BY <2>1, <2>3, LeafPlace
  <2>5. QED
    BY <2>4 DEF w2
<1>9. Octets(Code(f), v) \in Seq(Nat) /\ Len(Octets(Code(f), v)) \in Nat
  BY <1>1, <1>4, OctetsLength
<1>10. Placed(l, e, wire')
  BY <1>2, <1>3, <1>4, <1>8, <1>9 DEF Placed
<1>11. /\ Len(leaves') = n + 1 /\ leaves'[n + 1] = l
       /\ \A i \in 1..n : leaves'[i] = leaves[i]
  BY <1>1, <1>4, <1>7, Appended
<1>12. \A i \in 0..n : End(leaves', i) = End(leaves, i)
  <2>1. ASSUME NEW i \in 0..n PROVE End(leaves', i) = End(leaves, i)
    <3>1. CASE i = 0
      BY <3>1 DEF End
    <3>2. CASE i # 0
      <4>1. i \in 1..n
        BY <1>7, <3>2
      <4>2. QED
        BY <1>11, <4>1 DEF End
    <3>3. QED
      BY <3>1, <3>2
  <2>2. QED
    BY <2>1
<1>13. End(leaves', n + 1) = Len(wire')
  <2>1. n + 1 # 0
    BY <1>7
  <2>2. End(leaves', n + 1) = l.at + Len(Octets(l.of, l.v))
    BY <1>11, <2>1 DEF End
  <2>3. QED
    BY <1>2, <1>4, <2>2
<1>14. ASSUME NEW i \in 1..Len(leaves') PROVE Placed(leaves'[i], End(leaves', i - 1), wire')
  <2>1. CASE i = n + 1
    <3>1. End(leaves', i - 1) = e
      BY <1>7, <1>12, <2>1
    <3>2. QED
      BY <1>10, <1>11, <2>1, <3>1
  <2>2. CASE i # n + 1
    <3>1. i \in 1..n /\ i - 1 \in 0..n
      BY <1>7, <1>11, <2>2
    <3>2. leaves[i] \in Written /\ Placed(leaves[i], End(leaves, i - 1), wire)
      BY <1>3, <1>7, <3>1, Element
    <3>3. Placed(leaves[i], End(leaves, i - 1), wire')
      BY <1>4, <1>7, <3>2, PlacedStays
    <3>4. QED
      BY <1>11, <1>12, <3>1, <3>3
  <2>3. QED
    BY <2>1, <2>2
<1>15. AllStraight(todo')
  <2>1. ~Entered(f)
    BY <1>1 DEF Entered
  <2>2. f.n # 1 => v \in Int
    BY <1>1, <1>4, ProperTyped
  <2>3. AllStraight(Inside(f, v, at))
    BY <1>4, <1>6, <2>1, <2>2, InsideStraight DEF Straight
  <2>4. Inside(f, v, at) \in Seq(Items)
    BY <1>4, <2>2, InsideTyped
  <2>5. QED
    BY <1>1, <1>6, <2>3, <2>4, JoinedStraight
<1>16. End(leaves', Len(leaves')) \in Nat /\ Gap(wire', End(leaves', Len(leaves')), todo')
  BY <1>4, <1>9, <1>11, <1>13 DEF Gap
<1>17. QED
  BY <1>14, <1>15, <1>16 DEF PlacesInv

LEMMA PlacesInside ==
  ASSUME TypeOK, TypeOK', PlacesInv, WriteInside
  PROVE  PlacesInv'
<1> SUFFICES ASSUME type \notin Misaligned PROVE PlacesInv'
  BY DEF PlacesInv, WriteInside
<1> DEFINE f == Head(todo)
           at == Place(f, Len(wire))
           e == End(leaves, Len(leaves))
<1>1. /\ todo # << >> /\ ~IsLeaf(f) /\ wire' = wire \o Zeros(at - Len(wire))
      /\ todo' = Inside(f, f.n, at) \o Tail(todo)
      /\ stage = "writing" /\ type' = type /\ leaves' = leaves
  BY DEF WriteInside
<1>2. /\ \A i \in 1..Len(leaves) : Placed(leaves[i], End(leaves, i - 1), wire)
      /\ e \in Nat /\ Gap(wire, e, todo)
      /\ AllStraight(todo) \/ (todo = Whole(type) /\ wire = << >> /\ leaves = << >>)
  BY <1>1 DEF PlacesInv
<1>3. wire \in Seq(Nat) /\ leaves \in Seq(Written) /\ todo \in Seq(Items) /\ Len(wire) \in Nat
  BY Element DEF TypeOK
<1>4. Len(wire) = e
  BY <1>1, <1>2 DEF Gap
<1> HIDE DEF f, at, e
<1>5. f \in Items /\ at \in Nat /\ at >= Len(wire)
  BY <1>1, <1>3, InsideStep DEF f, at
<1>6. /\ wire' \in Seq(Nat) /\ Len(wire') = at /\ Prefix(wire, wire')
      /\ \A i \in (Len(wire) + 1)..at : wire'[i] = 0
  BY <1>1, <1>3, <1>5, PaddingTyped
<1>7. Tail(todo) \in Seq(Items) /\ AllStraight(Tail(todo))
  <2>1. CASE AllStraight(todo)
    BY <1>1, <1>3, <2>1, TailStraight
  <2>2. CASE todo = Whole(type)
    <3>1. Tail(todo) = << >>
      BY <2>2 DEF Whole
    <3>2. << >> \in Seq(Items) /\ 1..Len(<< >>) = {}
      OBVIOUS
    <3>3. QED
      BY <3>1, <3>2 DEF AllStraight
  <2>3. QED
    BY <1>2, <2>1, <2>2
<1>8. \A i \in 1..Len(leaves) : Placed(leaves[i], End(leaves, i - 1), wire')
  <2>1. \A i \in 1..Len(leaves) : leaves[i] \in Written
    BY <1>3, Element
  <2>2. QED
    BY <1>2, <1>3, <1>6, <2>1, PlacedStays
<1>9. f.n \in Int /\ Inside(f, f.n, at) \in Seq(Items)
  <2>1. f.n \in Int
    BY <1>5 DEF Items
  <2>2. QED
    BY <1>5, <2>1, InsideTyped
<1>10. f.of \in DOMAIN Schema => f.of \notin Misaligned
  <2>1. CASE AllStraight(todo)
    BY <1>1, <1>3, <2>1, TailStraight DEF f, Straight
  <2>2. CASE todo = Whole(type)
    BY <2>2 DEF f, Whole
  <2>3. QED
    BY <1>2, <2>1, <2>2
<1>11. CASE Entered(f) /\ Fast(f.of)
  <2> DEFINE t == f.of
             s == MaxAlign(t)
             p == Len(wire)
  <2>1. t \in DOMAIN Schema /\ f.n = 1
    BY <1>5, <1>11 DEF Entered, IsLeaf, Items, Codes
  <2>2. /\ s \in Sizes
        /\ \A i \in DOMAIN Schema[t] : Size(Schema[t][i].of) <= s
        /\ \E i \in DOMAIN Schema[t] : Size(Schema[t][i].of) = s
    BY <1>11, <2>1, MaxAlignFacts
  <2>3. at = p + Pad(p, s)
    BY <1>1, <1>11 DEF Place, at
  <2>4. Inside(f, f.n, at) = FieldsOf(t, at)
    BY <1>11, <2>1 DEF Inside
  <2> HIDE DEF s, p
  <2>5. p \in Nat /\ s \in Nat
    BY <1>3, <2>2 DEF p, Sizes
  <2>6. Pad(p, s) \in 0..(s - 1) /\ (p + Pad(p, s)) % s = 0
    <3>1. p \in Int /\ s \in Sizes
      BY <2>2, <2>5
    <3>2. QED
      BY <3>1, PadFacts
  <2>7. at % s = 0 /\ at - p \in 0..(s - 1)
    BY <2>3, <2>5, <2>6
  <2>8. AllStraight(Inside(f, f.n, at))
    BY <1>5, <1>10, <2>1, <2>4, <2>7, FieldsStraight DEF s
  <2>9. AllStraight(todo')
    BY <1>1, <1>7, <1>9, <2>8, JoinedStraight
  <2>10. Gap(wire', e, todo')
    <3>1. CASE AllStraight(todo)
      <4> DEFINE g == FieldsOf(t, at)
      <4>1. Straight(f)
        BY <1>1, <1>3, <3>1, TailStraight DEF f
      <4>2. \A j \in DOMAIN Schema[t] : Size(Schema[t][j].of) <= Size(Schema[t][1].of)
        BY <1>11, <2>1, <4>1 DEF Straight
      <4>3. 1 \in DOMAIN Schema[t] /\ Schema[t][1].n = 1 /\ Schema[t][1].of \in Primitives
        <5>1. Schema[t] \in Seq([of : Codes, n : Int]) /\ Schema[t] # << >>
          BY <1>11, <2>1, SchemaAssumption DEF Fast
        <5>2. 1 \in DOMAIN Schema[t]
          BY <5>1
        <5>3. QED
          BY <1>11, <5>2 DEF Fast
      <4>4. Size(Schema[t][1].of) = s
        <5>1. Size(Schema[t][1].of) <= s /\ s <= Size(Schema[t][1].of)
          BY <2>2, <4>2, <4>3
        <5>2. Size(Schema[t][1].of) \in Nat
          BY SizeTyped DEF Sizes
        <5>3. QED
          BY <2>5, <5>1, <5>2
      <4>5. g[1].n = 1 /\ g[1].of = Schema[t][1].of /\ g[1].from = at
        BY <1>11, <4>3 DEF FieldsOf
      <4>6. g \in Seq(Items) /\ Len(g) \in Nat \ {0}
        <5>1. g \in Seq(Items) /\ 1 \in DOMAIN g
          BY <1>9, <2>4, <4>3 DEF FieldsOf
        <5> HIDE DEF g
        <5>2. QED
          BY <5>1
      <4>7. todo' = g \o Tail(todo)
        BY <1>1, <2>4
      <4> HIDE DEF g
      <4>8. todo' # << >> /\ Head(todo') = g[1]
        BY <1>7, <4>6, <4>7
      <4>9. IsLeaf(g[1]) /\ Alignment(Code(g[1])) = s
        BY <4>3, <4>4, <4>5 DEF IsLeaf, Code, Alignment, Primitives
      <4>10. Len(wire') = at /\ p = e /\ \A j \in (e + 1)..Len(wire') : wire'[j] = 0
        BY <1>4, <1>6 DEF p
      <4>11. QED
        BY <2>7, <4>5, <4>8, <4>9, <4>10 DEF Gap
    <3>2. CASE todo = Whole(type) /\ wire = << >> /\ leaves = << >>
      <4>1. p = 0
        BY <3>2 DEF p
      <4>2. Pad(p, s) = 0
        BY <2>2, <4>1, PadFacts, ZeroIsMultiple
      <4>3. Len(wire') = e
        BY <1>4, <1>6, <2>3, <2>5, <4>1, <4>2 DEF p
      <4>4. QED
        BY <4>3 DEF Gap
    <3>3. QED
      BY <1>2, <3>1, <3>2
  <2>11. QED
    BY <1>1, <1>2, <1>8, <2>9, <2>10 DEF PlacesInv, e
<1>12. CASE ~(Entered(f) /\ Fast(f.of))
  <2>1. at = Len(wire)
    BY <1>1, <1>12 DEF Place, at
  <2>2. Gap(wire', e, todo')
    BY <1>4, <1>6, <2>1 DEF Gap
  <2>3. f.of \in DOMAIN Schema /\ Fast(f.of) /\ f.n # 1 =>
          \A j \in DOMAIN Schema[f.of] : Size(Schema[f.of][j].of) <= Size(Schema[f.of][1].of)
    <3>1. CASE AllStraight(todo)
      BY <1>1, <1>3, <3>1, TailStraight DEF f, Straight
    <3>2. CASE todo = Whole(type)
      BY <3>2 DEF f, Whole
    <3>3. QED
      BY <1>2, <3>1, <3>2
  <2>4. AllStraight(Inside(f, f.n, at))
    BY <1>5, <1>9, <1>10, <1>12, <2>3, InsideStraight
  <2>5. AllStraight(todo')
    BY <1>1, <1>7, <1>9, <2>4, JoinedStraight
  <2>6. QED
    BY <1>1, <1>2, <1>8, <2>2, <2>5 DEF PlacesInv, e
<1>13. QED
  BY <1>11, <1>12

LEMMA PlacesStart == ASSUME Init PROVE PlacesInv
<1>1. todo = Whole(type) /\ wire = << >> /\ leaves = << >> /\ Len(leaves) = 0 /\ Len(wire) = 0
  BY DEF Init
<1>2. End(leaves, Len(leaves)) = 0
  BY <1>1 DEF End
<1>3. QED
  BY <1>1, <1>2 DEF PlacesInv, Gap

LEMMA PlacesKept == ASSUME TypeOK, TypeOK', PlacesInv, [Next]_vars PROVE PlacesInv'
<1>1. CASE WriteLeaf
  BY <1>1, PlacesAfterLeaf
<1>2. CASE WriteInside
  BY <1>2, PlacesInside
<1>3. CASE Publish \/ Respond \/ Try \/ Refuse \/ ReadLeaf \/ ReadFails \/ ReadInside \/ Return
  <2>1. stage' # "writing"
    BY <1>3 DEF Publish, Respond, Deliver, Try, Refuse, ReadLeaf, ReadFails, ReadInside, Return
  <2>2. QED
    BY <2>1 DEF PlacesInv
<1>4. CASE UNCHANGED vars
  <2>1. /\ type' = type /\ stage' = stage /\ leaves' = leaves
        /\ wire' = wire /\ todo' = todo
    BY <1>4 DEF vars, written
  <2>2. QED
    BY <2>1 DEF PlacesInv, Placed, Gap, AllStraight, Whole
<1>5. QED
  BY <1>1, <1>2, <1>3, <1>4 DEF Next

\* The octets between the ends of two leaves: padding, and the later leaf.
LEMMA PlacedSlice ==
  ASSUME NEW l \in Written, NEW e, NEW w \in Seq(Nat), Placed(l, e, w),
         NEW o, o = Octets(l.of, l.v)
  PROVE  SubSeq(w, e + 1, l.at + Len(o)) = Zeros(l.at - e) \o o
<1>1. /\ o \in Seq(Nat) /\ e \in Nat /\ Holds(w, l.at, o)
      /\ l.at - e \in 0..(Alignment(l.of) - 1) /\ \A j \in (e + 1)..l.at : w[j] = 0
  BY DEF Placed
<1>2. l.at \in Nat /\ Len(o) \in Nat /\ Len(w) \in Nat
  BY <1>1, Element DEF Written
<1>3. l.at + Len(o) <= Len(w) /\ \A j \in 1..Len(o) : w[l.at + j] = o[j]
  BY <1>1 DEF Holds
<1>4. PICK d \in Nat : l.at = e + d /\ l.at - e = d
  <2>1. Alignment(l.of) \in Nat
    BY AlignmentTyped DEF Sizes
  <2>2. l.at - e \in Nat /\ l.at = e + (l.at - e)
    BY <1>1, <1>2, <2>1
  <2>3. QED
    BY <2>2
<1> DEFINE z == Zeros(d)
           x == z \o o
           first == e + 1
           last == l.at + Len(o)
           y == SubSeq(w, first, last)
<1>5. z \in Seq(Nat) /\ Len(z) = d /\ \A j \in 1..d : z[j] = 0
  BY ZerosFacts
<1> HIDE DEF z
<1>6. /\ x \in Seq(Nat) /\ Len(x) = d + Len(o)
      /\ \A j \in 1..d : x[j] = z[j]
      /\ \A j \in 1..Len(o) : x[d + j] = o[j]
  <2>1. /\ x \in Seq(Nat) /\ Len(x) = Len(z) + Len(o)
        /\ \A j \in 1..Len(z) : x[j] = z[j]
        /\ \A j \in 1..Len(o) : x[Len(z) + j] = o[j]
    <3>1. z \in Seq(Nat) /\ o \in Seq(Nat)
      BY <1>1, <1>5
    <3> HIDE DEF z
    <3>2. QED
      BY <3>1, Joined
  <2> HIDE DEF x
  <2>2. QED
    BY <1>5, <2>1
<1> HIDE DEF x
<1>7. first \in Nat \ {0} /\ last \in Nat /\ last <= Len(w) /\ first <= last + 1
  BY <1>1, <1>2, <1>3, <1>4
<1>8. last - first + 1 = d + Len(o)
  BY <1>1, <1>2, <1>4
<1>9. first - 1 = e
  BY <1>1
<1> HIDE DEF first, last
<1>10. /\ y \in Seq(Nat) /\ Len(y) = last - first + 1
       /\ \A j \in 1..(last - first + 1) : y[j] = w[first + j - 1]
  BY <1>7, Cut
<1> HIDE DEF y
<1>11. ASSUME NEW j \in 1..(d + Len(o)) PROVE y[j] = x[j]
  <2>1. y[j] = w[e + j]
    <3>1. first + j - 1 = e + j
      BY <1>1, <1>7, <1>9
    <3>2. QED
      BY <1>8, <1>10, <3>1
  <2>2. CASE j <= d
    <3>1. j \in 1..d /\ e + j \in (e + 1)..l.at
      BY <1>1, <1>2, <1>4, <2>2
    <3>2. w[e + j] = 0 /\ x[j] = 0
      BY <1>1, <1>5, <1>6, <3>1
    <3>3. QED
      BY <2>1, <3>2
  <2>3. CASE ~(j <= d)
    <3>1. PICK k \in 1..Len(o) : j = d + k /\ e + j = l.at + k
      <4>1. j - d \in 1..Len(o) /\ j = d + (j - d) /\ e + j = l.at + (j - d)
        BY <1>1, <1>2, <1>4, <2>3
      <4>2. QED
        BY <4>1
    <3>2. w[l.at + k] = o[k] /\ x[d + k] = o[k]
      BY <1>3, <1>6
    <3>3. QED
      BY <2>1, <3>1, <3>2
  <2>4. QED
    BY <2>2, <2>3
<1>12. y = x
  BY <1>6, <1>8, <1>10, <1>11, SameSeq
<1>13. QED
  BY <1>4, <1>9, <1>12 DEF x, y, z, first, last

LEMMA PlacesAreCDRs == ASSUME TypeOK, PlacesInv PROVE WireIsCDR
<1> SUFFICES ASSUME stage = "writing", todo = << >>, type \notin Misaligned
             PROVE  /\ Len(wire) = EndOf(Len(leaves))
                    /\ \A i \in DOMAIN leaves :
                         LET l == leaves[i] IN
                         /\ l.at % Alignment(l.of) = 0
                         /\ l.at - EndOf(i - 1) \in 0..(Alignment(l.of) - 1)
                         /\ SubSeq(wire, EndOf(i - 1) + 1, EndOf(i))
                              = Zeros(l.at - EndOf(i - 1)) \o Octets(l.of, l.v)
  BY DEF WireIsCDR
<1>1. \A i \in 1..Len(leaves) : Placed(leaves[i], End(leaves, i - 1), wire)
  BY DEF PlacesInv
<1>2. Gap(wire, End(leaves, Len(leaves)), todo)
  BY DEF PlacesInv
<1>3. \A i : End(leaves, i) = EndOf(i)
  BY DEF End, EndOf
<1>4. Len(wire) = EndOf(Len(leaves))
  BY <1>2, <1>3 DEF Gap
<1>5. /\ wire \in Seq(Nat) /\ DOMAIN leaves = 1..Len(leaves) /\ Len(leaves) \in Nat
      /\ \A i \in 1..Len(leaves) : leaves[i] \in Written
  BY Element DEF TypeOK
<1>6. ASSUME NEW i \in DOMAIN leaves
      PROVE  LET l == leaves[i] IN
             /\ l.at % Alignment(l.of) = 0
             /\ l.at - EndOf(i - 1) \in 0..(Alignment(l.of) - 1)
             /\ SubSeq(wire, EndOf(i - 1) + 1, EndOf(i))
                  = Zeros(l.at - EndOf(i - 1)) \o Octets(l.of, l.v)
  <2> DEFINE l == leaves[i]
             e == EndOf(i - 1)
             o == Octets(l.of, l.v)
  <2>1. i \in 1..Len(leaves) /\ l \in Written /\ i # 0
    BY <1>5
  <2>2. Placed(l, e, wire)
    BY <1>1, <1>3, <2>1
  <2>3. EndOf(i) = l.at + Len(o)
    BY <2>1 DEF EndOf
  <2> HIDE DEF l, e, o
  <2>4. l.at % Alignment(l.of) = 0 /\ l.at - e \in 0..(Alignment(l.of) - 1)
    BY <2>2 DEF Placed
  <2>5. o = Octets(l.of, l.v)
    BY DEF o
  <2>6. SubSeq(wire, e + 1, l.at + Len(o)) = Zeros(l.at - e) \o o
    BY <1>5, <2>1, <2>2, <2>5, PlacedSlice
  <2>7. QED
    BY <2>3, <2>4, <2>6 DEF l, e, o
<1>7. QED
  BY <1>4, <1>6

\* Whatever the schema, the octets are CDR's: every leaf at the first multiple
\* of its size behind the last one, zeros between them and nothing else
\* (writer.py, Msg._fast, Msg._max_align).
THEOREM WireFollowsCDR == Spec => []WireIsCDR
<1>1. Init => PlacesInv
  BY PlacesStart
<1>2. CodecInv /\ CodecInv' /\ PlacesInv /\ [Next]_vars => PlacesInv'
  BY PlacesKept DEF CodecInv
<1>3. CodecInv /\ PlacesInv => WireIsCDR
  BY PlacesAreCDRs DEF CodecInv
<1>4. QED
  BY <1>1, <1>2, <1>3, CodecInvariant, PTL DEF Spec
=============================================================================
