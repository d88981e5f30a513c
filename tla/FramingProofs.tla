--------------------------- MODULE FramingProofs ---------------------------
(***************************************************************************)
(* Theorems about Framing, for every list of payloads, checksum, limit,    *)
(* way the reads cut the line and number of damaged frames: what stuffing  *)
(* makes of an octet, that the parser unstuffs a whole frame to what it    *)
(* was made of wherever it is resumed, and that it passes none over.       *)
(***************************************************************************)
EXTENDS Framing, FiniteSetTheorems, TLAPS

-----------------------------------------------------------------------------
(* Frames.                                                                 *)

LEMMA OctetNat == \A octet \in Octet : octet \in Nat /\ octet <= 255
BY DEF Octet

LEMMA FlippedTyped ==
  ASSUME NEW octet \in Octet
  PROVE  Flipped(octet) \in Octet
<1>1. PICK q \in Int, m \in 0..31 : octet = 32 * q + m /\ octet \div 32 = q
  BY DEF Octet
<1>2. q \in 0..7
  BY <1>1 DEF Octet
<1>3. ASSUME q % 2 = 1 PROVE octet - 32 \in Octet
  BY <1>1, <1>2, <1>3 DEF Octet
<1>4. ASSUME q % 2 # 1 PROVE octet + 32 \in Octet
  BY <1>1, <1>2, <1>4 DEF Octet
<1>5. QED
  BY <1>1, <1>3, <1>4 DEF Flipped, XOR_FLAG

LEMMA FlippedTwice ==
  ASSUME NEW octet \in Special
  PROVE  /\ Flipped(Flipped(octet)) = octet
         /\ Flipped(octet) \notin Special
BY DEF Special, BEGIN_FLAG, ESC_FLAG, XOR_FLAG, Flipped

LEMMA SpecialsFinite ==
  ASSUME NEW data, NEW i \in Nat
  PROVE  /\ IsFiniteSet({m \in 1..i : data[m] \in Special})
         /\ Cardinality({m \in 1..i : data[m] \in Special}) \in Nat
<1>1. IsFiniteSet(1..i)
  BY FS_Interval
<1>2. {m \in 1..i : data[m] \in Special} \in SUBSET (1..i)
  OBVIOUS
<1>3. IsFiniteSet({m \in 1..i : data[m] \in Special})
  BY <1>1, <1>2, FS_Subset
<1>4. QED
  BY <1>3, FS_CardinalityType

\* Stuffing makes one octet of data one octet long, or two.
LEMMA StuffedStep ==
  ASSUME NEW data, NEW i \in Nat \ {0}
  PROVE  Stuffed(data, i) = Stuffed(data, i - 1) + (IF data[i] \in Special THEN 2 ELSE 1)
<1> DEFINE Before == {m \in 1..(i - 1) : data[m] \in Special}
           Upto == {m \in 1..i : data[m] \in Special}
<1>1. IsFiniteSet(Before) /\ Cardinality(Before) \in Nat
  BY SpecialsFinite, i - 1 \in Nat
<1>2. CASE data[i] \in Special
  <2>1. Upto = Before \cup {i} /\ i \notin Before
    BY <1>2
  <2>2. Cardinality(Upto) = Cardinality(Before) + 1
    BY <1>1, <2>1, FS_AddElement
  <2>3. QED
    BY <1>1, <1>2, <2>2 DEF Stuffed
<1>3. CASE data[i] \notin Special
  <2>1. Upto = Before
    BY <1>3
  <2>2. Cardinality(Upto) = Cardinality(Before)
    BY <2>1
  <2>3. QED
    BY <1>1, <1>3, <2>2 DEF Stuffed
<1>4. QED
  BY <1>2, <1>3

LEMMA StuffedTyped ==
  ASSUME NEW data
  PROVE  /\ Stuffed(data, 0) = 0
         /\ \A i \in Nat : Stuffed(data, i) \in Nat
<1>1. {m \in 1..0 : data[m] \in Special} = {}
  OBVIOUS
<1>2. Cardinality({m \in 1..0 : data[m] \in Special}) = 0
  BY <1>1, FS_EmptySet
<1>3. Stuffed(data, 0) = 0
  BY <1>2 DEF Stuffed
<1>4. ASSUME NEW i \in Nat PROVE Stuffed(data, i) \in Nat
  <2>1. Cardinality({m \in 1..i : data[m] \in Special}) \in Nat
    BY SpecialsFinite
  <2>2. QED
    BY <2>1 DEF Stuffed
<1>5. QED
  BY <1>3, <1>4

LEMMA StuffedGrows ==
  ASSUME NEW data, NEW i \in Nat, NEW k \in Nat, i <= k
  PROVE  Stuffed(data, i) + (k - i) <= Stuffed(data, k)
<1> DEFINE Few == {m \in 1..i : data[m] \in Special}
           Many == {m \in 1..k : data[m] \in Special}
<1>1. IsFiniteSet(Few) /\ Cardinality(Few) \in Nat /\ IsFiniteSet(Many) /\ Cardinality(Many) \in Nat
  BY SpecialsFinite
<1>2. Few \in SUBSET Many
  OBVIOUS
<1>3. Cardinality(Few) <= Cardinality(Many)
  BY <1>1, <1>2, FS_Subset
<1> HIDE DEF Few, Many
<1>4. i + Cardinality(Few) + (k - i) <= k + Cardinality(Many)
  BY <1>1, <1>3
<1>5. QED
  BY <1>4 DEF Stuffed, Few, Many

\* The octets on the line that come of one octet of data know it.
LEMMA PlaceUnique ==
  ASSUME NEW data, NEW n \in Nat, DOMAIN data = 1..n,
         NEW i \in 1..n, NEW p \in Nat,
         Stuffed(data, i - 1) < p, p <= Stuffed(data, i)
  PROVE  StuffedAt(data, p) = i
<1>1. ASSUME NEW k \in 1..n, Stuffed(data, k - 1) < p, p <= Stuffed(data, k)
      PROVE  k = i
  <2>1. i \in Nat /\ k \in Nat /\ i - 1 \in Nat /\ k - 1 \in Nat
    OBVIOUS
  <2>2. \A m \in Nat : Stuffed(data, m) \in Nat
    BY StuffedTyped
  <2>3. CASE k < i
    <3>1. Stuffed(data, k) <= Stuffed(data, i - 1)
      <4>1. Stuffed(data, k) + ((i - 1) - k) <= Stuffed(data, i - 1)
        BY <2>1, <2>3, StuffedGrows
      <4>2. QED
        BY <2>1, <2>2, <2>3, <4>1
    <3>2. QED
      BY <1>1, <2>1, <2>2, <3>1
  <2>4. CASE i < k
    <3>1. Stuffed(data, i) <= Stuffed(data, k - 1)
      <4>1. Stuffed(data, i) + ((k - 1) - i) <= Stuffed(data, k - 1)
        BY <2>1, <2>4, StuffedGrows
      <4>2. QED
        BY <2>1, <2>2, <2>4, <4>1
    <3>2. QED
      BY <1>1, <2>1, <2>2, <3>1
  <2>5. QED
    BY <2>1, <2>3, <2>4
<1>2. QED
  BY <1>1 DEF StuffedAt

\* Every octet on the line comes of an octet of data.
LEMMA PlaceFound ==
  ASSUME NEW data, NEW n \in Nat, DOMAIN data = 1..n,
         NEW p \in 1..Stuffed(data, n)
  PROVE  /\ StuffedAt(data, p) \in 1..n
         /\ Stuffed(data, StuffedAt(data, p) - 1) < p
         /\ p <= Stuffed(data, StuffedAt(data, p))
<1> DEFINE Past == {k \in Nat : p <= Stuffed(data, k)}
<1>1. n \in Past /\ p \in Nat /\ p >= 1
  BY StuffedTyped
<1>2. PICK k \in Past : \A l \in Past : ~(<<l, k>> \in OpToRel(<, Nat))
  <2>1. Past # {} /\ Past \subseteq Nat
    BY <1>1
  <2>2. QED
    BY <2>1, NatLessThanWellFounded, WFMin
<1>3. \A l \in Past : ~(l < k)
  BY <1>2 DEF OpToRel
<1>4. k \in Nat /\ p <= Stuffed(data, k)
  OBVIOUS
<1>5. k # 0
  BY <1>1, <1>4, StuffedTyped
<1>6. k \in 1..n
  BY <1>1, <1>3, <1>4, <1>5
<1>7. Stuffed(data, k - 1) < p
  <2>1. k - 1 \in Nat /\ k - 1 < k
    BY <1>4, <1>5
  <2>2. Stuffed(data, k - 1) \in Nat
    BY <2>1, StuffedTyped
  <2>3. QED
    BY <1>1, <1>3, <2>1, <2>2
<1>8. StuffedAt(data, p) = k
  BY <1>1, <1>4, <1>6, <1>7, PlaceUnique
<1>9. QED
  BY <1>4, <1>6, <1>7, <1>8

\* What the octets of a stuffed frame are: no flag among them, and octet i of
\* the data where StuffedStep says, escaped if need be.
LEMMA StuffFacts ==
  ASSUME NEW data \in Seq(Octet)
  PROVE  /\ Stuff(data) \in Seq(Octet)
         /\ Len(Stuff(data)) = Stuffed(data, Len(data))
         /\ \A p \in 1..Len(Stuff(data)) : Stuff(data)[p] # BEGIN_FLAG
<1> DEFINE n == Len(data)
<1>1. n \in Nat /\ DOMAIN data = 1..n /\ Stuffed(data, n) \in Nat
  <2>1. n \in Nat /\ DOMAIN data = 1..n
    OBVIOUS
  <2> HIDE DEF n
  <2>2. QED
    BY <2>1, StuffedTyped
<1>2. Special \subseteq Octet /\ ESC_FLAG \in Octet /\ ESC_FLAG # BEGIN_FLAG /\ BEGIN_FLAG \in Special
  BY DEF Special, Octet, ESC_FLAG, BEGIN_FLAG
<1>3. ASSUME NEW p \in 1..Stuffed(data, n)
      PROVE  Stuff(data)[p] \in Octet /\ Stuff(data)[p] # BEGIN_FLAG
  <2> DEFINE i == StuffedAt(data, p)
  <2>1. i \in 1..n /\ p <= Stuffed(data, i)
    BY <1>1, PlaceFound
  <2>2. i \in Nat
    <3>1. \A k \in 1..n : k \in Nat
      OBVIOUS
    <3>2. QED
      BY <2>1, <3>1
  <2>3. data[i] \in Octet
    BY <2>1
  <2>4. Stuff(data)[p] = CASE data[i] \notin Special -> data[i]
                           [] data[i] \in Special /\ p < Stuffed(data, i) -> ESC_FLAG
                           [] data[i] \in Special /\ p = Stuffed(data, i) -> Flipped(data[i])
    BY DEF Stuff
  <2> HIDE DEF i
  <2>5. CASE data[i] \notin Special
    BY <1>2, <2>3, <2>4, <2>5
  <2>6. CASE data[i] \in Special /\ p < Stuffed(data, i)
    BY <1>2, <2>4, <2>6
  <2>7. CASE data[i] \in Special /\ p = Stuffed(data, i)
    <3>1. Stuff(data)[p] = Flipped(data[i])
      <4>1. Stuffed(data, i) \in Nat
        BY <2>2, StuffedTyped
      <4>2. QED
        BY <2>4, <2>7, <4>1
    <3>2. QED
      BY <1>2, <2>3, <2>7, <3>1, FlippedTyped, FlippedTwice
  <2>8. p < Stuffed(data, i) \/ p = Stuffed(data, i)
    <3>1. Stuffed(data, i) \in Nat
      BY <2>2, StuffedTyped
    <3>2. QED
      BY <2>1, <3>1
  <2>9. QED
    BY <2>5, <2>6, <2>7, <2>8
<1>4. Stuff(data) \in [1..Stuffed(data, n) -> Octet]
  <2> DEFINE At(p) == LET i == StuffedAt(data, p) IN
                       CASE data[i] \notin Special -> data[i]
                         [] data[i] \in Special /\ p < Stuffed(data, i) -> ESC_FLAG
                         [] data[i] \in Special /\ p = Stuffed(data, i) -> Flipped(data[i])
  <2>1. Stuff(data) = [p \in 1..Stuffed(data, n) |-> At(p)]
    BY DEF Stuff
  <2> HIDE DEF At
  <2>2. Stuff(data) = [p \in 1..Stuffed(data, n) |-> Stuff(data)[p]]
    BY <2>1
  <2>3. QED
    BY <1>3, <2>2
<1>5. Stuff(data) \in Seq(Octet) /\ Len(Stuff(data)) = Stuffed(data, n)
  BY <1>1, <1>4
<1>6. QED
  BY <1>3, <1>5

LEMMA StuffOctets ==
  ASSUME NEW data \in Seq(Octet), NEW i \in 1..Len(data)
  PROVE  /\ Stuffed(data, i) \in 1..Len(Stuff(data))
         /\ data[i] \notin Special => Stuff(data)[Stuffed(data, i)] = data[i]
         /\ data[i] \in Special =>
              /\ Stuffed(data, i) - 1 \in 1..Len(Stuff(data))
              /\ Stuff(data)[Stuffed(data, i) - 1] = ESC_FLAG
              /\ Stuff(data)[Stuffed(data, i)] = Flipped(data[i])
<1> DEFINE n == Len(data)
           e == Stuffed(data, i)
           b == Stuffed(data, i - 1)
<1>1. n \in Nat /\ DOMAIN data = 1..n /\ i \in Nat \ {0} /\ i - 1 \in Nat
  OBVIOUS
<1>2. e \in Nat /\ b \in Nat /\ Stuffed(data, n) \in Nat
  BY <1>1, StuffedTyped
<1>3. e = b + (IF data[i] \in Special THEN 2 ELSE 1)
  BY <1>1, StuffedStep
<1>4. e <= Stuffed(data, n)
  <2>1. e + (n - i) <= Stuffed(data, n)
    BY <1>1, StuffedGrows
  <2>2. QED
    BY <1>1, <1>2, <2>1
<1>5. e \in 1..Stuffed(data, n) /\ Len(Stuff(data)) = Stuffed(data, n)
  BY <1>2, <1>3, <1>4, StuffFacts
<1>6. StuffedAt(data, e) = i
  <2>1. e \in Nat /\ b < e /\ e <= e
    BY <1>2, <1>3
  <2>2. QED
    BY <1>1, <2>1, PlaceUnique
<1>7. ASSUME data[i] \notin Special PROVE Stuff(data)[e] = data[i]
  BY <1>5, <1>6, <1>7 DEF Stuff
<1>8. ASSUME data[i] \in Special
      PROVE  /\ e - 1 \in 1..Stuffed(data, n)
             /\ Stuff(data)[e - 1] = ESC_FLAG
             /\ Stuff(data)[e] = Flipped(data[i])
  <2>1. e - 1 \in Nat /\ b < e - 1 /\ e - 1 <= e /\ e - 1 < e /\ e - 1 \in 1..Stuffed(data, n)
    BY <1>2, <1>3, <1>4, <1>8
  <2>2. StuffedAt(data, e - 1) = i
    BY <1>1, <2>1, PlaceUnique
  <2>3. Stuff(data)[e - 1] = ESC_FLAG
    BY <1>8, <2>1, <2>2 DEF Stuff
  <2>4. Stuff(data)[e] = CASE data[i] \notin Special -> data[i]
                           [] data[i] \in Special /\ e < Stuffed(data, i) -> ESC_FLAG
                           [] data[i] \in Special /\ e = Stuffed(data, i) -> Flipped(data[i])
    BY <1>5, <1>6 DEF Stuff
  <2>5. ~(e < e) /\ e = Stuffed(data, i)
    BY <1>2
  <2>6. Stuff(data)[e] = Flipped(data[i])
    BY <1>8, <2>4, <2>5
  <2>7. QED
    BY <2>1, <2>3, <2>6
<1>9. QED
  BY <1>5, <1>7, <1>8

-----------------------------------------------------------------------------
(* Bodies and frames.                                                      *)

LEMMA ConcatFacts ==
  ASSUME NEW S, NEW s \in Seq(S), NEW t \in Seq(S)
  PROVE  /\ s \o t \in Seq(S)
         /\ Len(s \o t) = Len(s) + Len(t)
         /\ \A i \in 1..Len(s) : (s \o t)[i] = s[i]
         /\ \A i \in 1..Len(t) : (s \o t)[Len(s) + i] = t[i]
OBVIOUS

\* Two octets of a number of 16 bits, low octet first, are that number.
LEMMA TwoOctetsFacts ==
  ASSUME NEW n \in Nat, n < Sixteen
  PROVE  /\ TwoOctets(n) \in Seq(Octet) /\ Len(TwoOctets(n)) = 2
         /\ TwoOctets(n)[1] + 256 * TwoOctets(n)[2] = n
<1> DEFINE q == n \div 256
           m == n % 256
<1>1. q \in Int /\ m \in Int /\ n = 256 * q + m /\ 0 <= m /\ m < 256
  OBVIOUS
<1> HIDE DEF q, m
<1>2. 0 <= q /\ q < 256
  BY <1>1 DEF Sixteen
<1>3. q % 256 = q
  BY <1>1, <1>2
<1>4. TwoOctets(n) = <<m, q>>
  BY <1>3 DEF TwoOctets, m, q
<1>5. m \in Octet /\ q \in Octet
  BY <1>1, <1>2 DEF Octet
<1>6. <<m, q>> \in Seq(Octet) /\ Len(<<m, q>>) = 2 /\ <<m, q>>[1] = m /\ <<m, q>>[2] = q
  BY <1>5
<1>7. m + 256 * q = n
  BY <1>1
<1>8. QED
  BY <1>4, <1>6, <1>7

\* A body is as long as it says, and holds the payload and its checksum.
LEMMA BodyFacts ==
  ASSUME NEW k \in DOMAIN Payloads
  PROVE  LET p == Payloads[k]
             b == Body(p)
         IN  /\ p \in Seq(Octet) /\ Len(p) <= MaxPayload
             /\ b \in Seq(Octet) /\ Len(b) = Len(p) + 6
             /\ SizeIn(b) = Len(p)
             /\ \A i \in 1..Len(p) : b[i + 4] = p[i]
             /\ b[Len(p) + 5] + 256 * b[Len(p) + 6] = crc16[p]
<1> DEFINE p == Payloads[k]
           size == TwoOctets(Len(p))
           crc == TwoOctets(crc16[p])
           front == <<0, 0>> \o size
           most == front \o p
           b == Body(p)
<1>1. /\ p \in Seq(Octet) /\ Len(p) \in Nat /\ Len(p) < Sixteen /\ Len(p) <= MaxPayload
      /\ crc16[p] \in Nat /\ crc16[p] < Sixteen
  <2>1. p \in Seq(Octet) /\ Len(p) \in Nat
    BY FramingAssumption
  <2>2. /\ Len(p) <= MaxPayload /\ MaxPayload \in Nat /\ MaxPayload < Sixteen
        /\ crc16[p] \in Nat /\ crc16[p] < Sixteen
    BY FramingAssumption
  <2>3. QED
    BY <2>1, <2>2 DEF Sixteen
<1>2. p \in Seq(Octet)
  BY <1>1
<1>3. /\ size \in Seq(Octet) /\ Len(size) = 2 /\ size[1] + 256 * size[2] = Len(p)
      /\ crc \in Seq(Octet) /\ Len(crc) = 2 /\ crc[1] + 256 * crc[2] = crc16[p]
  BY <1>1, TwoOctetsFacts
<1>4. b = most \o crc
  BY DEF Body
<1> HIDE DEF size, crc, b, p
<1>5. /\ front \in Seq(Octet) /\ Len(front) = 4
      /\ front[3] = size[1] /\ front[4] = size[2]
  <2>1. <<0, 0>> \in Seq(Octet) /\ Len(<<0, 0>>) = 2
    BY DEF Octet
  <2>2. /\ front \in Seq(Octet) /\ Len(front) = Len(<<0, 0>>) + Len(size)
        /\ \A i \in 1..Len(size) : front[Len(<<0, 0>>) + i] = size[i]
    <3>1. size \in Seq(Octet) /\ <<0, 0>> \in Seq(Octet)
      BY <1>3, <2>1
    <3>2. QED
      BY <3>1
  <2> HIDE DEF front
  <2>3. Len(front) = 4 /\ front[2 + 1] = size[1] /\ front[2 + 2] = size[2]
    BY <1>3, <2>1, <2>2
  <2>4. QED
    BY <2>2, <2>3 DEF front
<1> HIDE DEF front
<1>6. /\ most \in Seq(Octet) /\ Len(most) = 4 + Len(p)
      /\ \A i \in 1..4 : most[i] = front[i]
      /\ \A i \in 1..Len(p) : most[4 + i] = p[i]
  <2>1. /\ most \in Seq(Octet) /\ Len(most) = Len(front) + Len(p)
        /\ \A i \in 1..Len(front) : most[i] = front[i]
        /\ \A i \in 1..Len(p) : most[Len(front) + i] = p[i]
    <3>1. front \in Seq(Octet)
      BY <1>5
    <3>2. QED
      BY <1>2, <3>1
  <2>2. QED
    BY <1>5, <2>1
<1> HIDE DEF most
<1>7. /\ b \in Seq(Octet) /\ Len(b) = Len(p) + 6
      /\ \A i \in 1..(4 + Len(p)) : b[i] = most[i]
      /\ \A i \in 1..2 : b[(4 + Len(p)) + i] = crc[i]
  <2>1. /\ b \in Seq(Octet) /\ Len(b) = Len(most) + Len(crc)
        /\ \A i \in 1..Len(most) : b[i] = most[i]
        /\ \A i \in 1..Len(crc) : b[Len(most) + i] = crc[i]
    <3>1. most \in Seq(Octet) /\ crc \in Seq(Octet)
      BY <1>3, <1>6
    <3>2. QED
      BY <1>4, <3>1
  <2>2. QED
    BY <1>1, <1>3, <1>6, <2>1
<1>8. b[3] = size[1] /\ b[4] = size[2]
  BY <1>1, <1>5, <1>6, <1>7
<1>9. SizeIn(b) = Len(p)
  BY <1>3, <1>8 DEF SizeIn
<1>10. \A i \in 1..Len(p) : b[i + 4] = p[i]
  BY <1>1, <1>6, <1>7
<1>11. b[Len(p) + 5] = crc[1] /\ b[Len(p) + 6] = crc[2]
  BY <1>1, <1>7
<1>12. QED
  BY <1>1, <1>3, <1>7, <1>9, <1>10, <1>11 DEF p, b

BodyOf(k) == Body(Payloads[k])
FrameOf(k) == encode_frame(Payloads[k])

\* A frame is the flag and a stuffed body, in which no flag occurs.
LEMMA FrameFacts ==
  ASSUME NEW k \in DOMAIN Payloads
  PROVE  /\ FrameOf(k) \in Seq(Octet)
         /\ Len(FrameOf(k)) = Len(Stuff(BodyOf(k))) + 1
         /\ Len(Stuff(BodyOf(k))) = Stuffed(BodyOf(k), Len(BodyOf(k)))
         /\ Len(Stuff(BodyOf(k))) \in Nat
         /\ FrameOf(k)[1] = BEGIN_FLAG
         /\ \A i \in 2..Len(FrameOf(k)) : FrameOf(k)[i] # BEGIN_FLAG
         /\ \A i \in 1..Len(Stuff(BodyOf(k))) : FrameOf(k)[i + 1] = Stuff(BodyOf(k))[i]
<1> DEFINE b == BodyOf(k)
           u == Stuff(b)
           f == FrameOf(k)
<1>1. b \in Seq(Octet)
  BY BodyFacts DEF BodyOf
<1> HIDE DEF b
<1>2. u \in Seq(Octet) /\ Len(u) = Stuffed(b, Len(b)) /\ \A i \in 1..Len(u) : u[i] # BEGIN_FLAG
  BY <1>1, StuffFacts
<1>3. <<BEGIN_FLAG>> \in Seq(Octet) /\ Len(<<BEGIN_FLAG>>) = 1 /\ <<BEGIN_FLAG>>[1] = BEGIN_FLAG
  BY DEF BEGIN_FLAG, Octet
<1>4. f = <<BEGIN_FLAG>> \o u
  BY DEF FrameOf, encode_frame, b, BodyOf
<1> HIDE DEF u, f
<1>5. /\ f \in Seq(Octet) /\ Len(f) = 1 + Len(u) /\ Len(u) \in Nat
      /\ \A i \in 1..1 : f[i] = <<BEGIN_FLAG>>[i]
      /\ \A i \in 1..Len(u) : f[1 + i] = u[i]
  BY <1>2, <1>3, <1>4, ConcatFacts
<1>6. f[1] = BEGIN_FLAG
  BY <1>3, <1>5
<1>7. \A i \in 1..Len(u) : f[i + 1] = u[i]
  BY <1>5
<1>8. ASSUME NEW i \in 2..Len(f) PROVE f[i] # BEGIN_FLAG
  <2>1. i - 1 \in 1..Len(u) /\ i = (i - 1) + 1
    BY <1>5
  <2>2. f[i] = u[i - 1]
    BY <1>7, <2>1
  <2>3. QED
    BY <1>2, <2>1, <2>2
<1>9. QED
  BY <1>2, <1>5, <1>6, <1>7, <1>8 DEF f, u, b

\* What the line makes of a frame is octets.
LEMMA DamageTyped ==
  ASSUME NEW f \in Seq(Octet), NEW g \in Damage(f)
  PROVE  g \in Seq(Octet)
<1> DEFINE Cut == {SubSeq(f, 1, i) : i \in 0..(Len(f) - 1)}
           Lost == {Without(f, i) : i \in DOMAIN f}
           Changed == UNION {{[f EXCEPT ![i] = o] : o \in Noise} : i \in DOMAIN f}
           Added == UNION {{SubSeq(f, 1, i) \o <<o>> \o From(f, i + 1) : o \in Noise} :
                             i \in DOMAIN f}
<1>1. \A i \in DOMAIN f : From(f, i + 1) \in Seq(Octet)
  BY DEF From
<1>2. \A o \in Noise : o \in Octet
  BY FramingAssumption
<1>3. CASE g \in Cut
  BY <1>3
<1>4. CASE g \in Lost
  <2>1. PICK i \in DOMAIN f : g = Without(f, i)
    BY <1>4
  <2>2. SubSeq(f, 1, i - 1) \in Seq(Octet)
    OBVIOUS
  <2>3. QED
    BY <1>1, <2>1, <2>2 DEF Without
<1>5. CASE g \in Changed
  <2>1. PICK i \in DOMAIN f, o \in Noise : g = [f EXCEPT ![i] = o]
    BY <1>5
  <2>2. QED
    BY <1>2, <2>1
<1>6. CASE g \in Added
  <2>1. PICK i \in DOMAIN f, o \in Noise : g = SubSeq(f, 1, i) \o <<o>> \o From(f, i + 1)
    BY <1>6
  <2>2. SubSeq(f, 1, i) \in Seq(Octet) /\ <<o>> \in Seq(Octet)
    BY <1>2
  <2>3. SubSeq(f, 1, i) \o <<o>> \in Seq(Octet)
    BY <2>2
  <2>4. QED
    BY <1>1, <2>1, <2>3
<1>7. Damage(f) = Cut \cup Lost \cup Changed \cup Added
  BY DEF Damage
<1> HIDE DEF Cut, Lost, Changed, Added
<1>8. QED
  BY <1>3, <1>4, <1>5, <1>6, <1>7

-----------------------------------------------------------------------------
(* The parser is where it says it is.                                      *)

\* The parser looks at the first flag behind what it is done with, and has
\* seen no other since.
Scanning ==
  doing = "unstuff" =>
    /\ start < flag_at /\ line[flag_at] = BEGIN_FLAG
    /\ NoFlag(start, flag_at - 1) /\ NoFlag(flag_at, j)

ParserInv == TypeOK /\ Scanning

Types ==
  /\ sent \in Nat /\ Len(Payloads) \in Nat /\ Len(line) \in Nat /\ got \in Nat /\ start \in Nat
  /\ flag_at \in Nat /\ j \in Nat /\ sent <= Len(Payloads)
  /\ got <= Len(line) /\ start <= got /\ flag_at <= j /\ j <= got

LEMMA TypesHold == TypeOK => Types
BY FramingAssumption DEF TypeOK, Types

LEMMA LineOctet ==
  ASSUME TypeOK, NEW i \in 1..Len(line)
  PROVE  line[i] \in Octet
BY DEF TypeOK

LEMMA ValsTyped ==
  ASSUME TypeOK, j < got
  PROVE  ValsNow \in Seq(Octet)
<1>1. j + 1 \in 1..Len(line)
  BY TypesHold DEF Types
<1>2. line[j + 1] \in Octet /\ Flipped(line[j + 1]) \in Octet
  BY <1>1, LineOctet, FlippedTyped
<1>3. vals \in Seq(Octet) /\ esc \in BOOLEAN
  BY DEF TypeOK
<1>4. Append(vals, line[j + 1]) \in Seq(Octet) /\ Append(vals, Flipped(line[j + 1])) \in Seq(Octet)
  BY <1>2, <1>3
<1>5. QED
  BY <1>3, <1>4 DEF ValsNow

LEMMA WholeTyped ==
  ASSUME NEW v \in Seq(Octet), Whole(v)
  PROVE  /\ SizeIn(v) \in Nat
         /\ Len(v) = SizeIn(v) + 6
         /\ SubSeq(v, 5, SizeIn(v) + 4) \in Seq(Octet)
         /\ Len(SubSeq(v, 5, SizeIn(v) + 4)) = SizeIn(v)
         /\ \A i \in 1..SizeIn(v) : SubSeq(v, 5, SizeIn(v) + 4)[i] = v[i + 4]
<1>1. Len(v) \in Nat /\ Len(v) >= 4 /\ Len(v) = SizeIn(v) + 6
  BY DEF Whole
<1>2. v[3] \in Octet /\ v[4] \in Octet
  BY <1>1
<1>3. SizeIn(v) \in Nat
  BY <1>2, OctetNat DEF SizeIn
<1> DEFINE size == SizeIn(v)
<1> HIDE DEF size
<1>4. size \in Nat /\ Len(v) = size + 6
  BY <1>1, <1>3 DEF size
<1>5. SubSeq(v, 5, size + 4) \in Seq(Octet) /\ Len(SubSeq(v, 5, size + 4)) = size
  BY <1>4
<1>6. \A i \in 1..size : SubSeq(v, 5, size + 4)[i] = v[i + 4]
  BY <1>4
<1>7. QED
  BY <1>4, <1>5, <1>6 DEF size

\* What a step of the Agent does to the line.
LEMMA SendGrows ==
  ASSUME TypeOK, Send
  PROVE  /\ sent' = sent + 1 /\ sent' \in DOMAIN Payloads
         /\ line' \in Seq(Octet) /\ Len(line) <= Len(line')
         /\ \A i \in 1..Len(line) : line'[i] = line[i]
         /\ at' = Append(at, Len(line) + 1)
         /\ damaged \subseteq damaged' /\ damaged' \subseteq damaged \cup {sent'}
         /\ sent' \notin damaged' => line' = line \o FrameOf(sent')
<1>1. sent' = sent + 1 /\ sent' \in DOMAIN Payloads /\ sent' \notin damaged
  <2>1. sent \in Nat /\ Len(Payloads) \in Nat /\ DOMAIN Payloads = 1..Len(Payloads)
    BY TypesHold, FramingAssumption DEF Types
  <2>2. damaged \subseteq 1..sent
    BY DEF TypeOK
  <2>3. QED
    BY <2>1, <2>2 DEF Send
<1>2. line \in Seq(Octet) /\ FrameOf(sent') \in Seq(Octet)
  BY <1>1, FrameFacts DEF TypeOK
<1>3. at' = Append(at, Len(line) + 1)
  BY DEF Send
<1>4. CASE line' = line \o FrameOf(sent') /\ damaged' = damaged
  <2>1. /\ line' \in Seq(Octet) /\ Len(line) <= Len(line')
        /\ \A i \in 1..Len(line) : line'[i] = line[i]
    BY <1>2, <1>4
  <2>2. QED
    BY <1>1, <1>3, <1>4, <2>1
<1>5. CASE /\ \E noisy \in Damage(FrameOf(sent')) \ {FrameOf(sent')} : line' = line \o noisy
           /\ damaged' = damaged \cup {sent'}
  <2>1. PICK noisy \in Damage(FrameOf(sent')) : line' = line \o noisy
    BY <1>5
  <2>2. noisy \in Seq(Octet)
    BY <1>2, <2>1, DamageTyped
  <2>3. /\ line' \in Seq(Octet) /\ Len(line) <= Len(line')
        /\ \A i \in 1..Len(line) : line'[i] = line[i]
    BY <1>2, <2>1, <2>2
  <2>4. QED
    BY <1>1, <1>3, <1>5, <2>3
<1>6. QED
  BY <1>4, <1>5, Zenon DEF Send, FrameOf

LEMMA InitParser == Init => ParserInv
<1> SUFFICES ASSUME Init PROVE ParserInv
  OBVIOUS
<1> USE DEF Init
<1>1. PICK i \in Missed : line = From(encode_frame(Payloads[1]), i + 1)
  OBVIOUS
<1>2. 1 \in DOMAIN Payloads /\ i \in Nat \ {0} /\ Len(Payloads) \in Nat
  BY FramingAssumption
<1>3. FrameOf(1) \in Seq(Octet)
  BY <1>2, FrameFacts
<1>4. line \in Seq(Octet)
  BY <1>1, <1>2, <1>3 DEF From, FrameOf
<1>5. sent \in 0..Len(Payloads) /\ damaged \subseteq 1..sent /\ at \in Seq(Nat \ {0}) /\ Len(at) = sent
  BY <1>2
<1>6. got \in 0..Len(line) /\ start \in 0..got /\ flag_at \in 0..got /\ j \in flag_at..got
  BY <1>4
<1>7. vals \in Seq(Octet) /\ pending \in Seq(Seq(Octet)) /\ delivered \in Seq(Seq(Octet))
  OBVIOUS
<1>8. origin \in Seq(Nat \ {0}) /\ Len(origin) = Len(delivered) + Len(pending)
  OBVIOUS
<1>9. TypeOK
  BY <1>4, <1>5, <1>6, <1>7, <1>8 DEF TypeOK
<1>10. QED
  BY <1>9 DEF ParserInv, Scanning

\* The ends of a parse leave the types as they are.
LEMMA WaitTyped ==
  ASSUME ParserInv, NEW from \in 0..got, Wait(from)
  PROVE  ParserInv'
<1>1. TypeOK
  BY DEF ParserInv
<1>2. UNCHANGED <<sent, damaged, at, line, got, origin>>
  BY DEF Wait, agent
<1>3. start' = from /\ doing' = "idle" /\ flag_at' = 0 /\ j' = 0 /\ vals' = << >> /\ esc' = FALSE
  BY DEF Wait, LeaveLoop
<1>4. /\ pending' \in Seq(Seq(Octet)) /\ delivered' \in Seq(Seq(Octet))
      /\ Len(delivered') + Len(pending') = Len(delivered) + Len(pending)
  <2>1. pending \in Seq(Seq(Octet)) /\ delivered \in Seq(Seq(Octet))
    BY <1>1 DEF TypeOK
  <2>2. CASE UNCHANGED <<pending, delivered>>
    BY <2>1, <2>2
  <2>3. CASE pending # << >> /\ delivered' = Append(delivered, Head(pending)) /\ pending' = Tail(pending)
    BY <2>1, <2>3
  <2>4. QED
    BY <2>2, <2>3 DEF Wait
<1>5. start' \in 0..got' /\ got' \in 0..Len(line') /\ flag_at' \in 0..got' /\ j' \in flag_at'..got'
  BY <1>1, <1>2, <1>3 DEF TypeOK
<1>6. vals' \in Seq(Octet)
  BY <1>3
<1>7. TypeOK'
  BY <1>1, <1>2, <1>3, <1>4, <1>5, <1>6 DEF TypeOK
<1>8. Scanning'
  BY <1>3 DEF Scanning
<1>9. QED
  BY <1>7, <1>8 DEF ParserInv

LEMMA GoOnTyped ==
  ASSUME ParserInv, NEW from \in 0..got, GoOn(from),
         pending' \in Seq(Seq(Octet)), origin' \in Seq(Nat \ {0}),
         Len(origin') = Len(delivered) + Len(pending')
  PROVE  ParserInv'
<1>1. TypeOK
  BY DEF ParserInv
<1>2. UNCHANGED <<sent, damaged, at, line, got, delivered>>
  BY DEF GoOn, agent
<1>3. start' = from /\ doing' = "seek" /\ flag_at' = 0 /\ j' = 0 /\ vals' = << >> /\ esc' = FALSE
  BY DEF GoOn, LeaveLoop
<1>4. start' \in 0..got' /\ got' \in 0..Len(line') /\ flag_at' \in 0..got' /\ j' \in flag_at'..got'
  BY <1>1, <1>2, <1>3 DEF TypeOK
<1>5. vals' \in Seq(Octet)
  BY <1>3
<1>6. TypeOK'
  BY <1>1, <1>2, <1>3, <1>4, <1>5 DEF TypeOK
<1>7. Scanning'
  BY <1>3 DEF Scanning
<1>8. QED
  BY <1>6, <1>7 DEF ParserInv

LEMMA NextParser == ParserInv /\ [Next]_vars => ParserInv'
<1> SUFFICES ASSUME ParserInv, [Next]_vars PROVE ParserInv'
  OBVIOUS
<1>1. TypeOK /\ Scanning /\ Types
  BY TypesHold DEF ParserInv
<1>2. CASE Send
  <2>1. UNCHANGED <<got, start, doing, flag_at, j, vals, esc, pending, delivered, origin>>
    BY <1>2 DEF Send, loop
  <2>2. /\ sent' = sent + 1 /\ sent' \in DOMAIN Payloads /\ line' \in Seq(Octet)
        /\ Len(line) <= Len(line') /\ \A i \in 1..Len(line) : line'[i] = line[i]
        /\ at' = Append(at, Len(line) + 1)
        /\ damaged' \subseteq damaged \cup {sent'}
    BY <1>1, <1>2, SendGrows
  <2>3. sent' \in 0..Len(Payloads) /\ damaged' \subseteq 1..sent'
    <3>1. sent' \in 1..Len(Payloads) /\ Len(Payloads) \in Nat /\ sent \in Nat
      BY <1>1, <2>2, FramingAssumption DEF Types
    <3>2. damaged \subseteq 1..sent
      BY <1>1 DEF TypeOK
    <3>3. QED
      BY <2>2, <3>1, <3>2
  <2>4. at' \in Seq(Nat \ {0}) /\ Len(at') = sent'
    <3>1. at \in Seq(Nat \ {0}) /\ Len(at) = sent /\ Len(line) + 1 \in Nat \ {0}
      BY <1>1 DEF TypeOK, Types
    <3>2. Append(at, Len(line) + 1) \in Seq(Nat \ {0}) /\ Len(Append(at, Len(line) + 1)) = sent + 1
      BY <3>1
    <3>3. QED
      BY <2>2, <3>2
  <2>5. got' \in 0..Len(line')
    BY <1>1, <2>1, <2>2 DEF Types
  <2>6. TypeOK'
    BY <1>1, <2>1, <2>2, <2>3, <2>4, <2>5 DEF TypeOK
  <2>7. Scanning'
    <3>1. SUFFICES ASSUME doing = "unstuff"
                   PROVE  /\ start < flag_at /\ line'[flag_at] = BEGIN_FLAG
                          /\ \A i \in (start + 1)..(flag_at - 1) : line'[i] # BEGIN_FLAG
                          /\ \A i \in (flag_at + 1)..j : line'[i] # BEGIN_FLAG
      BY <2>1 DEF Scanning, NoFlag
    <3>2. /\ start < flag_at /\ line[flag_at] = BEGIN_FLAG
          /\ \A i \in (start + 1)..(flag_at - 1) : line[i] # BEGIN_FLAG
          /\ \A i \in (flag_at + 1)..j : line[i] # BEGIN_FLAG
      BY <1>1, <3>1 DEF Scanning, NoFlag
    <3>3. \A i \in 1..j : line'[i] = line[i]
      BY <1>1, <2>2 DEF Types
    <3>4. flag_at \in 1..j /\ start \in Nat /\ j \in Nat
      BY <1>1, <3>2 DEF Types
    <3>5. \A i \in (start + 1)..(flag_at - 1) : i \in 1..j
      BY <3>4
    <3>6. \A i \in (flag_at + 1)..j : i \in 1..j
      BY <3>4
    <3>7. QED
      BY <3>2, <3>3, <3>4, <3>5, <3>6
  <2>8. QED
    BY <2>6, <2>7 DEF ParserInv
<1>3. CASE RecvPending
  <2>1. pending \in Seq(Seq(Octet)) /\ delivered \in Seq(Seq(Octet)) /\ pending # << >>
    BY <1>1, <1>3 DEF TypeOK, RecvPending
  <2>2. delivered' = Append(delivered, Head(pending)) /\ pending' = Tail(pending)
    BY <1>3 DEF RecvPending
  <2>3. /\ pending' \in Seq(Seq(Octet)) /\ delivered' \in Seq(Seq(Octet))
        /\ Len(delivered') + Len(pending') = Len(delivered) + Len(pending)
    BY <2>1, <2>2
  <2>4. UNCHANGED <<sent, damaged, at, line, got, start, doing, flag_at, j, vals, esc, origin>>
    BY <1>3 DEF RecvPending, agent, loop
  <2>5. TypeOK'
    BY <1>1, <2>3, <2>4 DEF TypeOK
  <2>6. Scanning'
    BY <1>1, <2>4 DEF Scanning, NoFlag
  <2>7. QED
    BY <2>5, <2>6 DEF ParserInv
<1>4. CASE RecvRead
  <2>1. got' \in 0..Len(line) /\ got <= got'
    <3>1. PICK k \in {c \in ChunkSizes : c <= Len(line) - got} \cup {Len(line) - got} : got' = got + k
      BY <1>4 DEF RecvRead
    <3>2. k \in Nat /\ k <= Len(line) - got
      BY <1>1, <1>4, <3>1, FramingAssumption DEF RecvRead, Types
    <3>3. QED
      BY <1>1, <3>1, <3>2 DEF Types
  <2>2. UNCHANGED <<sent, damaged, at, line, start, flag_at, j, vals, esc, pending, delivered, origin>>
    BY <1>4 DEF RecvRead, agent
  <2>3. doing' = "seek"
    BY <1>4 DEF RecvRead
  <2>4. start' \in 0..got' /\ flag_at' \in 0..got' /\ j' \in flag_at'..got'
    BY <1>1, <2>1, <2>2 DEF Types
  <2>5. TypeOK'
    BY <1>1, <2>1, <2>2, <2>3, <2>4 DEF TypeOK
  <2>6. Scanning'
    BY <2>3 DEF Scanning
  <2>7. QED
    BY <2>5, <2>6 DEF ParserInv
<1>5. CASE NoFlagSeen
  <2>1. Wait(got) /\ got \in 0..got
    BY <1>1, <1>5 DEF NoFlagSeen, Types
  <2>2. QED
    BY <2>1, WaitTyped
<1>6. CASE FlagSeen
  <2>1. PICK f \in (start + 1)..got : line[f] = BEGIN_FLAG /\ NoFlag(start, f - 1) /\ flag_at' = f /\ j' = f
    BY <1>6 DEF FlagSeen
  <2>2. doing' = "unstuff" /\ vals' = << >> /\ esc' = FALSE
    BY <1>6 DEF FlagSeen
  <2>3. UNCHANGED <<sent, damaged, at, line, got, start, pending, delivered, origin>>
    BY <1>6 DEF FlagSeen, agent
  <2>4. flag_at' \in 0..got' /\ j' \in flag_at'..got' /\ start' < flag_at' /\ vals' \in Seq(Octet)
    BY <1>1, <2>1, <2>2, <2>3 DEF Types
  <2>5. TypeOK'
    BY <1>1, <2>2, <2>3, <2>4 DEF TypeOK
  <2>6. NoFlag(start, flag_at - 1)' /\ NoFlag(flag_at, j)' /\ (line[flag_at] = BEGIN_FLAG)'
    BY <1>1, <2>1, <2>3 DEF NoFlag, Types
  <2>7. QED
    BY <2>4, <2>5, <2>6 DEF ParserInv, Scanning
<1>7. CASE NeedsMore
  <2>1. Wait(flag_at - 1) /\ flag_at - 1 \in 0..got
    BY <1>1, <1>7 DEF NeedsMore, Types, Scanning
  <2>2. QED
    BY <2>1, WaitTyped
<1>8. CASE Truncated
  <2>1. GoOn(j) /\ j \in 0..got /\ UNCHANGED <<pending, origin>>
    BY <1>1, <1>8 DEF Truncated, Types
  <2>2. QED
    BY <1>1, <2>1, GoOnTyped DEF TypeOK
<1>9. CASE Unstuff
  <2>1. /\ doing = "unstuff" /\ j < got /\ line[j + 1] # BEGIN_FLAG
        /\ j' = j + 1 /\ vals' = ValsNow /\ esc' = (~esc /\ line[j + 1] = ESC_FLAG)
    BY <1>9 DEF Unstuff, NewFrame
  <2>2. UNCHANGED <<sent, damaged, at, line, got, start, doing, flag_at, pending, delivered, origin>>
    BY <1>9 DEF Unstuff, agent
  <2>3. vals' \in Seq(Octet) /\ esc' \in BOOLEAN
    BY <1>1, <2>1, ValsTyped
  <2>4. j' \in flag_at'..got'
    BY <1>1, <2>1, <2>2 DEF Types
  <2>5. TypeOK'
    BY <1>1, <2>2, <2>3, <2>4 DEF TypeOK
  <2>6. Scanning'
    BY <1>1, <2>1, <2>2 DEF Scanning, NoFlag, Types
  <2>7. QED
    BY <2>5, <2>6 DEF ParserInv
<1>10. CASE Implausible
  <2>1. GoOn(flag_at) /\ flag_at \in 0..got /\ UNCHANGED <<pending, origin>>
    BY <1>1, <1>10 DEF Implausible, Types
  <2>2. QED
    BY <1>1, <2>1, GoOnTyped DEF TypeOK
<1>11. CASE Complete
  <2>1. GoOn(j + 1) /\ j + 1 \in 0..got /\ Whole(ValsNow)
    BY <1>1, <1>11 DEF Complete, Types
  <2>2. ValsNow \in Seq(Octet)
    BY <1>1, <1>11, ValsTyped DEF Complete
  <2> DEFINE payload == SubSeq(ValsNow, 5, SizeIn(ValsNow) + 4)
  <2>3. payload \in Seq(Octet)
    BY <2>1, <2>2, WholeTyped
  <2> HIDE DEF payload
  <2>4. \/ pending' = Append(pending, payload) /\ origin' = Append(origin, flag_at)
        \/ UNCHANGED <<pending, origin>>
    BY <1>11 DEF Complete, payload
  <2>5. /\ pending' \in Seq(Seq(Octet)) /\ origin' \in Seq(Nat \ {0})
        /\ Len(origin') = Len(delivered) + Len(pending')
    <3>1. /\ pending \in Seq(Seq(Octet)) /\ origin \in Seq(Nat \ {0}) /\ delivered \in Seq(Seq(Octet))
          /\ Len(origin) = Len(delivered) + Len(pending)
      BY <1>1 DEF TypeOK
    <3>2. flag_at \in Nat \ {0}
      BY <1>1, <1>11 DEF Complete, Scanning, Types
    <3>3. CASE pending' = Append(pending, payload) /\ origin' = Append(origin, flag_at)
      <4>1. pending' \in Seq(Seq(Octet)) /\ Len(pending') = Len(pending) + 1
        BY <2>3, <3>1, <3>3
      <4>2. origin' \in Seq(Nat \ {0}) /\ Len(origin') = Len(origin) + 1
        BY <3>1, <3>2, <3>3
      <4>3. Len(pending) \in Nat /\ Len(delivered) \in Nat
        BY <3>1
      <4>4. QED
        BY <3>1, <4>1, <4>2, <4>3
    <3>4. CASE UNCHANGED <<pending, origin>>
      BY <3>1, <3>4
    <3>5. QED
      BY <2>4, <3>3, <3>4
  <2>6. QED
    BY <2>1, <2>5, GoOnTyped
<1>12. CASE UNCHANGED vars
  <2>1. UNCHANGED <<sent, damaged, at, line, got, start, doing, flag_at, j, vals, esc, pending, delivered, origin>>
    BY <1>12 DEF vars, agent, loop
  <2>2. QED
    BY <1>1, <2>1 DEF ParserInv, TypeOK, Scanning, NoFlag
<1>13. QED
  BY <1>2, <1>3, <1>4, <1>5, <1>6, <1>7, <1>8, <1>9, <1>10, <1>11, <1>12 DEF Next, Parse

-----------------------------------------------------------------------------
(* Undamaged frames.                                                       *)

Undamaged == (1..sent) \ damaged
Parsed == delivered \o pending

\* Frame k stands on the line as it was encoded.
OnLine(k) ==
  /\ at[k] + Len(FrameOf(k)) <= Len(line) + 1
  /\ \A p \in 1..Len(FrameOf(k)) : line[at[k] + p - 1] = FrameOf(k)[p]

\* Having looked at the octets up to place i, the parser has the first values
\* of body k in v, and e says whether an escape came last.
Reading(k, v, i, e) ==
  /\ Len(v) <= Len(BodyOf(k)) /\ \A m \in 1..Len(v) : v[m] = BodyOf(k)[m]
  /\ e = FALSE => i = at[k] + Stuffed(BodyOf(k), Len(v))
  /\ e = TRUE => /\ i = at[k] + Stuffed(BodyOf(k), Len(v)) + 1
                 /\ Len(v) < Len(BodyOf(k)) /\ BodyOf(k)[Len(v) + 1] \in Special

LEMMA UndamagedFacts ==
  ASSUME TypeOK, NEW k \in Undamaged
  PROVE  /\ k \in DOMAIN Payloads /\ k \in 1..sent /\ k \notin damaged
         /\ at[k] \in Nat \ {0}
         /\ BodyOf(k) \in Seq(Octet) /\ Len(BodyOf(k)) \in Nat
         /\ FrameOf(k) \in Seq(Octet) /\ Len(FrameOf(k)) \in Nat
         /\ Len(FrameOf(k)) = Stuffed(BodyOf(k), Len(BodyOf(k))) + 1
         /\ Len(BodyOf(k)) = Len(Payloads[k]) + 6 /\ Len(Payloads[k]) \in Nat
<1>1. k \in 1..sent /\ k \notin damaged
  BY DEF Undamaged
<1>2. k \in DOMAIN Payloads
  BY <1>1, FramingAssumption DEF TypeOK
<1>3. at[k] \in Nat \ {0}
  BY <1>1 DEF TypeOK
<1>4. /\ BodyOf(k) \in Seq(Octet) /\ Len(BodyOf(k)) = Len(Payloads[k]) + 6
      /\ Payloads[k] \in Seq(Octet)
  BY <1>2, BodyFacts DEF BodyOf
<1>5. FrameOf(k) \in Seq(Octet) /\ Len(FrameOf(k)) = Stuffed(BodyOf(k), Len(BodyOf(k))) + 1
  BY <1>2, FrameFacts
<1>6. QED
  BY <1>1, <1>2, <1>3, <1>4, <1>5

\* An undamaged frame begins with the flag, and has no other.
LEMMA FlagsOnLine ==
  ASSUME TypeOK, NEW k \in Undamaged, OnLine(k)
  PROVE  /\ at[k] \in 1..Len(line) /\ line[at[k]] = BEGIN_FLAG
         /\ \A i \in (at[k] + 1)..(at[k] + Len(FrameOf(k)) - 1) : line[i] # BEGIN_FLAG
<1> DEFINE f == FrameOf(k)
           a == at[k]
<1>1. /\ a \in Nat \ {0} /\ k \in DOMAIN Payloads /\ Len(line) \in Nat
  BY UndamagedFacts, TypesHold DEF Types
<1>2. /\ Len(f) \in Nat /\ Len(f) >= 1 /\ f[1] = BEGIN_FLAG
      /\ \A i \in 2..Len(f) : f[i] # BEGIN_FLAG
  BY <1>1, FrameFacts
<1>3. a + Len(f) <= Len(line) + 1 /\ \A p \in 1..Len(f) : line[a + p - 1] = f[p]
  BY DEF OnLine
<1> HIDE DEF f, a
<1>4. a \in 1..Len(line)
  BY <1>1, <1>2, <1>3
<1>5. line[a] = BEGIN_FLAG
  <2>1. 1 \in 1..Len(f) /\ a + 1 - 1 = a
    BY <1>1, <1>2
  <2>2. QED
    BY <1>2, <1>3, <2>1
<1>6. ASSUME NEW i \in (a + 1)..(a + Len(f) - 1) PROVE line[i] # BEGIN_FLAG
  <2>1. i - a + 1 \in 2..Len(f) /\ i - a + 1 \in 1..Len(f) /\ a + (i - a + 1) - 1 = i
    BY <1>1, <1>2
  <2>2. line[i] = f[i - a + 1]
    BY <1>3, <2>1
  <2>3. QED
    BY <1>2, <2>1, <2>2
<1>7. QED
  BY <1>4, <1>5, <1>6 DEF a, f

\* While a frame is being read it is not at its end, and its next octet is
\* what stuffing made of its body.
LEMMA NextOctet ==
  ASSUME TypeOK, NEW k \in Undamaged, OnLine(k), Reading(k, vals, j, esc),
         Len(vals) < Len(BodyOf(k))
  PROVE  /\ j + 1 < at[k] + Len(FrameOf(k))
         /\ line[j + 1] # BEGIN_FLAG
         /\ Reading(k, ValsNow, j + 1, ~esc /\ line[j + 1] = ESC_FLAG)
<1> DEFINE b == BodyOf(k)
           u == Stuff(b)
           f == FrameOf(k)
           a == at[k]
           n == Len(vals)
           o == line[j + 1]
<1>1. /\ a \in Nat \ {0} /\ k \in DOMAIN Payloads /\ b \in Seq(Octet) /\ Len(b) \in Nat
      /\ vals \in Seq(Octet) /\ n \in Nat /\ esc \in BOOLEAN /\ j \in Nat
  BY UndamagedFacts, TypesHold DEF Types, TypeOK
<1>2. /\ Len(f) = Len(u) + 1 /\ Len(u) \in Nat
      /\ \A i \in 1..Len(u) : f[i + 1] = u[i]
  BY <1>1, FrameFacts
<1>3. \A i \in 1..Len(u) : line[a + i] = u[i]
  <2>1. \A p \in 1..Len(f) : line[a + p - 1] = f[p]
    BY DEF OnLine
  <2> HIDE DEF a, f, u
  <2>2. ASSUME NEW i \in 1..Len(u) PROVE line[a + i] = u[i]
    <3>1. i + 1 \in 1..Len(f) /\ a + (i + 1) - 1 = a + i
      BY <1>1, <1>2
    <3>2. QED
      BY <1>2, <2>1, <3>1
  <2>3. QED
    BY <2>2
<1>4. n + 1 \in 1..Len(b) /\ (n + 1) - 1 = n
  BY <1>1
<1>5. Stuffed(b, n) \in Nat /\ Stuffed(b, n + 1) \in Nat
  <2>1. n \in Nat /\ n + 1 \in Nat
    BY <1>1
  <2> HIDE DEF b, n
  <2>2. QED
    BY <2>1, StuffedTyped
<1>6. Stuffed(b, n + 1) = Stuffed(b, n) + (IF b[n + 1] \in Special THEN 2 ELSE 1)
  BY <1>1, <1>4, StuffedStep
<1>7. Stuffed(b, n + 1) \in 1..Len(u)
  BY <1>1, <1>4, StuffOctets
<1>8. /\ b[n + 1] \notin Special => u[Stuffed(b, n + 1)] = b[n + 1]
      /\ b[n + 1] \in Special => /\ Stuffed(b, n + 1) - 1 \in 1..Len(u)
                                 /\ u[Stuffed(b, n + 1) - 1] = ESC_FLAG
                                 /\ u[Stuffed(b, n + 1)] = Flipped(b[n + 1])
  BY <1>1, <1>4, StuffOctets
<1>9. /\ \A m \in 1..n : vals[m] = b[m]
      /\ esc = FALSE => j = a + Stuffed(b, n)
      /\ esc = TRUE => j = a + Stuffed(b, n) + 1 /\ b[n + 1] \in Special
  BY DEF Reading
<1>10. b[n + 1] \in Octet /\ ESC_FLAG \in Special /\ BEGIN_FLAG \in Special /\ ESC_FLAG # BEGIN_FLAG
  BY <1>1, <1>4 DEF Special, ESC_FLAG, BEGIN_FLAG
<1>11. ASSUME NEW x \in Octet, x = b[n + 1], ValsNow = Append(vals, x),
              j + 1 = a + Stuffed(b, n + 1)
       PROVE  Reading(k, ValsNow, j + 1, FALSE)
  <2>1. Len(ValsNow) = n + 1 /\ ValsNow[n + 1] = x /\ \A m \in 1..n : ValsNow[m] = vals[m]
    BY <1>1, <1>11
  <2>2. \A m \in 1..(n + 1) : ValsNow[m] = b[m]
    BY <1>1, <1>9, <1>11, <2>1
  <2>3. QED
    BY <1>1, <1>4, <1>11, <2>1, <2>2 DEF Reading
<1> HIDE DEF b, u, f, a, n, o
<1>12. CASE esc = TRUE
  <2>1. b[n + 1] \in Special /\ j + 1 = a + Stuffed(b, n + 1)
    BY <1>1, <1>5, <1>6, <1>9, <1>12
  <2>2. o = Flipped(b[n + 1])
    BY <1>3, <1>7, <1>8, <2>1 DEF o
  <2>3. Flipped(o) = b[n + 1] /\ o # BEGIN_FLAG
    BY <1>10, <2>1, <2>2, FlippedTwice
  <2>4. ValsNow = Append(vals, b[n + 1])
    BY <1>12, <2>3 DEF ValsNow, o
  <2>5. Reading(k, ValsNow, j + 1, FALSE)
    BY <1>10, <1>11, <2>1, <2>4
  <2>6. j + 1 < a + Len(f)
    BY <1>1, <1>2, <1>7, <2>1
  <2>7. (~esc /\ o = ESC_FLAG) = FALSE
    BY <1>12
  <2>8. QED
    BY <2>3, <2>5, <2>6, <2>7 DEF a, f, o
<1>13. CASE esc = FALSE /\ b[n + 1] \in Special
  <2>1. j + 1 = a + (Stuffed(b, n + 1) - 1) /\ j + 1 = a + Stuffed(b, n) + 1
    BY <1>1, <1>5, <1>6, <1>9, <1>13
  <2>2. o = ESC_FLAG
    BY <1>3, <1>8, <1>13, <2>1 DEF o
  <2>3. ValsNow = vals
    BY <1>13, <2>2 DEF ValsNow, o
  <2>4. Reading(k, ValsNow, j + 1, TRUE)
    <3>1. Len(ValsNow) = n /\ n < Len(b) /\ n <= Len(b)
      BY <1>1, <1>4, <2>3 DEF n
    <3>2. QED
      BY <1>9, <1>13, <2>1, <2>3, <3>1 DEF Reading, a, b, n
  <2>5. j + 1 < a + Len(f)
    BY <1>1, <1>2, <1>5, <1>7, <2>1
  <2>6. (~esc /\ o = ESC_FLAG) = TRUE
    BY <1>13, <2>2
  <2>7. QED
    BY <1>10, <2>2, <2>4, <2>5, <2>6 DEF a, f, o
<1>14. CASE esc = FALSE /\ b[n + 1] \notin Special
  <2>1. j + 1 = a + Stuffed(b, n + 1)
    BY <1>1, <1>5, <1>6, <1>9, <1>14
  <2>2. o = b[n + 1] /\ o # ESC_FLAG /\ o # BEGIN_FLAG
    BY <1>3, <1>7, <1>8, <1>10, <1>14, <2>1 DEF o
  <2>3. ValsNow = Append(vals, b[n + 1])
    BY <1>14, <2>2 DEF ValsNow, o
  <2>4. Reading(k, ValsNow, j + 1, FALSE)
    BY <1>10, <1>11, <2>1, <2>3
  <2>5. j + 1 < a + Len(f)
    BY <1>1, <1>2, <1>7, <2>1
  <2>6. (~esc /\ o = ESC_FLAG) = FALSE
    BY <2>2
  <2>7. QED
    BY <2>2, <2>4, <2>5, <2>6 DEF a, f, o
<1>15. QED
  BY <1>1, <1>12, <1>13, <1>14

-----------------------------------------------------------------------------
(* What the Agent has put on the line.                                     *)

\* Place p of the line belongs to frame k, or to what became of it.
InFrame(k, p) == at[k] <= p /\ (k < sent => p < at[k + 1])

Ordered ==
  /\ \A k \in 1..sent : at[k] <= Len(line) + 1
  /\ \A k, m \in 1..sent : k < m => at[k] <= at[m]
  /\ \A k \in Undamaged, m \in 1..sent : k < m => at[k] < at[m]

\* A flag on the line begins an undamaged frame or is part of a damaged one.
FlagsKnown ==
  \A p \in 1..Len(line) : line[p] = BEGIN_FLAG =>
    (\E k \in Undamaged : p = at[k]) \/ (\E k \in damaged : InFrame(k, p))

AgentInv == (\A k \in Undamaged : OnLine(k)) /\ Ordered /\ FlagsKnown

LEMMA InitAgent == Init => AgentInv
<1> SUFFICES ASSUME Init PROVE AgentInv
  OBVIOUS
<1>1. PICK i \in Missed : line = From(encode_frame(Payloads[1]), i + 1)
  BY DEF Init
<1>2. 1 \in DOMAIN Payloads /\ i \in Nat \ {0}
  BY FramingAssumption
<1>3. FrameOf(1) \in Seq(Octet) /\ \A p \in 2..Len(FrameOf(1)) : FrameOf(1)[p] # BEGIN_FLAG
  BY <1>2, FrameFacts
<1>4. line = SubSeq(FrameOf(1), i + 1, Len(FrameOf(1)))
  BY <1>1 DEF From, FrameOf
<1> DEFINE f == FrameOf(1)
<1> HIDE DEF f
<1>5. ASSUME NEW p \in 1..Len(line) PROVE line[p] # BEGIN_FLAG
  <2>1. f \in Seq(Octet) /\ Len(f) \in Nat /\ line = SubSeq(f, i + 1, Len(f)) /\ p \in Nat \ {0}
    BY <1>3, <1>4 DEF f
  <2>2. Len(line) = IF i + 1 <= Len(f) THEN Len(f) - i ELSE 0
    BY <1>2, <2>1
  <2>3. p + i \in 2..Len(f)
    BY <1>2, <2>1, <2>2
  <2>4. line[p] = f[p + i]
    BY <1>2, <2>1, <2>2, <2>3
  <2>5. QED
    BY <1>3, <2>3, <2>4 DEF f
<1>6. sent = 0 /\ Undamaged = {}
  BY DEF Init, Undamaged
<1>7. QED
  BY <1>5, <1>6 DEF AgentInv, Ordered, FlagsKnown

LEMMA SendAgent ==
  ASSUME ParserInv, AgentInv, Send
  PROVE  /\ AgentInv'
         /\ \A k \in Undamaged' : \/ k \in Undamaged /\ at'[k] = at[k]
                                  \/ k = sent' /\ at'[k] = Len(line) + 1
<1>1. /\ sent' = sent + 1 /\ sent' \in DOMAIN Payloads /\ line' \in Seq(Octet)
      /\ Len(line) <= Len(line') /\ \A i \in 1..Len(line) : line'[i] = line[i]
      /\ at' = Append(at, Len(line) + 1)
      /\ damaged \subseteq damaged' /\ damaged' \subseteq damaged \cup {sent'}
      /\ sent' \notin damaged' => line' = line \o FrameOf(sent')
  BY SendGrows DEF ParserInv
<1>2. /\ sent \in Nat /\ Len(line) \in Nat /\ line \in Seq(Octet) /\ Len(line') \in Nat
      /\ at \in Seq(Nat \ {0}) /\ Len(at) = sent /\ damaged \subseteq 1..sent
  BY <1>1, TypesHold DEF ParserInv, Types, TypeOK
<1>3. /\ \A k \in 1..sent : at'[k] = at[k] /\ at[k] \in Nat
      /\ at'[sent + 1] = Len(line) + 1
  BY <1>1, <1>2
<1>4. \A k \in 1..(sent + 1) : k \in 1..sent \/ k = sent + 1
  BY <1>2
<1>5. ASSUME NEW k \in Undamaged'
      PROVE  \/ k \in Undamaged /\ k \in 1..sent /\ at'[k] = at[k]
             \/ k = sent' /\ at'[k] = Len(line) + 1
  BY <1>1, <1>3, <1>4 DEF Undamaged
<1>6. \A k \in Undamaged : k \in 1..sent /\ k \in Undamaged'
  BY <1>1, <1>2 DEF Undamaged
<1>7. ASSUME NEW k \in Undamaged' PROVE OnLine(k)'
  <2>1. CASE k \in Undamaged /\ k \in 1..sent /\ at'[k] = at[k]
    <3>1. OnLine(k) /\ at[k] \in Nat \ {0} /\ Len(FrameOf(k)) \in Nat
      BY <2>1, UndamagedFacts DEF AgentInv, ParserInv
    <3> DEFINE f == FrameOf(k)
               a == at[k]
    <3>2. a + Len(f) <= Len(line) + 1 /\ \A p \in 1..Len(f) : line[a + p - 1] = f[p]
      BY <3>1 DEF OnLine
    <3>3. a \in Nat \ {0} /\ Len(f) \in Nat
      BY <3>1
    <3> HIDE DEF f, a
    <3>4. \A p \in 1..Len(f) : a + p - 1 \in 1..Len(line)
      BY <1>2, <3>2, <3>3
    <3>5. a + Len(f) <= Len(line') + 1 /\ \A p \in 1..Len(f) : line'[a + p - 1] = f[p]
      BY <1>1, <1>2, <3>2, <3>3, <3>4
    <3>6. QED
      BY <2>1, <3>5 DEF OnLine, FrameOf, a, f
  <2>2. CASE k = sent' /\ at'[k] = Len(line) + 1
    <3>1. sent' \notin damaged'
      BY <2>2 DEF Undamaged
    <3> DEFINE f == FrameOf(sent')
    <3>2. line' = line \o f /\ f \in Seq(Octet)
      BY <1>1, <3>1, FrameFacts
    <3> HIDE DEF f
    <3>3. Len(f) \in Nat /\ Len(line') = Len(line) + Len(f) /\ \A p \in 1..Len(f) : line'[Len(line) + p] = f[p]
      BY <1>2, <3>2
    <3>4. /\ Len(line) + 1 + Len(f) <= Len(line') + 1
          /\ \A p \in 1..Len(f) : line'[Len(line) + 1 + p - 1] = f[p]
      <4>1. \A p \in 1..Len(f) : Len(line) + 1 + p - 1 = Len(line) + p
        BY <1>2, <3>3
      <4>2. QED
        BY <1>2, <3>3, <4>1
    <3>5. QED
      BY <2>2, <3>4 DEF OnLine, FrameOf, f
  <2>3. QED
    BY <1>5, <2>1, <2>2
<1>8. Ordered'
  <2>1. ASSUME NEW k \in 1..sent' PROVE at'[k] <= Len(line') + 1
    BY <1>1, <1>2, <1>3, <1>4, <2>1 DEF AgentInv, Ordered
  <2>2. ASSUME NEW k \in 1..sent', NEW m \in 1..sent', k < m PROVE at'[k] <= at'[m]
    <3>1. k \in 1..sent
      BY <1>1, <1>2, <2>2
    <3>2. CASE m \in 1..sent
      BY <1>3, <2>2, <3>1, <3>2 DEF AgentInv, Ordered
    <3>3. CASE m = sent + 1
      BY <1>3, <3>1, <3>3 DEF AgentInv, Ordered
    <3>4. QED
      BY <1>1, <1>4, <3>2, <3>3
  <2>3. ASSUME NEW k \in Undamaged', NEW m \in 1..sent', k < m PROVE at'[k] < at'[m]
    <3>1. k \in Undamaged /\ k \in 1..sent
      BY <1>1, <1>2, <1>5, <2>3
    <3>2. CASE m \in 1..sent
      BY <1>3, <2>3, <3>1, <3>2 DEF AgentInv, Ordered
    <3>3. CASE m = sent + 1
      <4>1. at[k] \in 1..Len(line)
        BY <3>1, FlagsOnLine DEF AgentInv, ParserInv
      <4>2. QED
        BY <1>2, <1>3, <3>1, <3>3, <4>1
    <3>4. QED
      BY <1>1, <1>4, <3>2, <3>3
  <2>4. QED
    BY <2>1, <2>2, <2>3 DEF Ordered
<1>9. ASSUME NEW p \in 1..Len(line'), line'[p] = BEGIN_FLAG
      PROVE  (\E k \in Undamaged' : p = at'[k]) \/ (\E k \in damaged' : InFrame(k, p)')
  <2>1. CASE p \in 1..Len(line)
    <3>1. line[p] = BEGIN_FLAG
      BY <1>1, <1>9, <2>1
    <3>2. CASE \E k \in Undamaged : p = at[k]
      BY <1>3, <1>6, <3>2
    <3>3. CASE \E k \in damaged : InFrame(k, p)
      <4>1. PICK k \in damaged : InFrame(k, p)
        BY <3>3
      <4>2. k \in 1..sent /\ k \in damaged' /\ at'[k] <= p
        BY <1>1, <1>2, <1>3, <4>1 DEF InFrame
      <4>3. CASE k < sent
        <5>1. k + 1 \in 1..sent
          BY <1>2, <4>2, <4>3
        <5>2. p < at'[k + 1]
          BY <1>3, <4>1, <4>3, <5>1 DEF InFrame
        <5>3. QED
          BY <4>2, <5>2 DEF InFrame
      <4>4. CASE k = sent
        <5>1. at'[k + 1] = Len(line) + 1 /\ p < Len(line) + 1
          BY <1>2, <1>3, <2>1, <4>4
        <5>2. QED
          BY <4>2, <5>1 DEF InFrame
      <4>5. k < sent \/ k = sent
        BY <1>2, <4>2
      <4>6. QED
        BY <4>3, <4>4, <4>5
    <3>4. QED
      BY <2>1, <3>1, <3>2, <3>3 DEF AgentInv, FlagsKnown
  <2>2. CASE p \notin 1..Len(line) /\ sent' \in damaged'
    <3>1. PICK k \in damaged' : k = sent'
      BY <2>2
    <3>2. InFrame(k, p)'
      <4>1. at'[k] <= p /\ ~(k < sent')
        BY <1>1, <1>2, <1>3, <2>2, <3>1
      <4>2. QED
        BY <4>1 DEF InFrame
    <3>3. QED
      BY <2>2, <3>2
  <2>3. CASE p \notin 1..Len(line) /\ sent' \notin damaged'
    <3>1. sent' \in Undamaged'
      BY <1>1, <1>2, <2>3 DEF Undamaged
    <3>2. at'[sent'] = Len(line) + 1
      BY <1>1, <1>3
    <3> DEFINE f == FrameOf(sent')
    <3>3. line' = line \o f /\ f \in Seq(Octet) /\ \A i \in 2..Len(f) : f[i] # BEGIN_FLAG
      BY <1>1, <2>3, FrameFacts
    <3> HIDE DEF f
    <3>4. Len(line') = Len(line) + Len(f) /\ Len(f) \in Nat
      BY <1>2, <3>3
    <3>5. p - Len(line) \in 1..Len(f) /\ line'[p] = f[p - Len(line)]
      BY <1>2, <2>3, <3>3, <3>4
    <3>6. p - Len(line) = 1
      BY <1>2, <1>9, <3>3, <3>4, <3>5
    <3>7. p = at'[sent']
      BY <1>2, <3>2, <3>6
    <3>8. QED
      BY <3>1, <3>7
  <2>4. QED
    BY <2>1, <2>2, <2>3
<1>10. FlagsKnown'
  BY <1>9 DEF FlagsKnown
<1>11. QED
  BY <1>5, <1>7, <1>8, <1>10 DEF AgentInv

-----------------------------------------------------------------------------
(* The parser and the undamaged frames.                                    *)

\* Every undamaged frame behind the parser was parsed; one ahead of an idle
\* parser has not come in whole; one being read is being read as encoded.
FrameInv ==
  \A k \in Undamaged :
    /\ at[k] <= start => \E n \in DOMAIN origin : origin[n] = at[k]
    /\ doing = "idle" /\ start < at[k] => got + 1 < at[k] + Len(FrameOf(k))
    /\ doing = "unstuff" /\ flag_at = at[k] =>
         Reading(k, vals, j, esc) /\ Len(vals) < Len(BodyOf(k))

\* What was parsed, with the flags it was parsed at.
OriginInv ==
  /\ \A n \in DOMAIN origin : origin[n] <= start /\ line[origin[n]] = BEGIN_FLAG
  /\ \A m, n \in DOMAIN origin : m < n => origin[m] < origin[n]
  /\ \A n \in DOMAIN origin, k \in Undamaged : origin[n] = at[k] => Parsed[n] = Payloads[k]

\* No flag was passed over, so an undamaged frame that is not behind the
\* parser is the one being read or begins after what was looked at.
LEMMA FlagsAhead ==
  ASSUME ParserInv, AgentInv, NEW k \in Undamaged, doing = "unstuff", start < at[k]
  PROVE  at[k] = flag_at \/ j < at[k]
<1>1. line[at[k]] = BEGIN_FLAG /\ at[k] \in Nat
  BY FlagsOnLine DEF AgentInv, ParserInv
<1>2. NoFlag(start, flag_at - 1) /\ NoFlag(flag_at, j) /\ Types
  BY TypesHold DEF ParserInv, Scanning
<1>3. at[k] \notin (start + 1)..(flag_at - 1) /\ at[k] \notin (flag_at + 1)..j
  BY <1>1, <1>2 DEF NoFlag
<1>4. QED
  BY <1>1, <1>2, <1>3 DEF Types

\* Sequences of values that begin like a body know its length.
LEMMA SizeKnown ==
  ASSUME NEW k \in DOMAIN Payloads, NEW v \in Seq(Octet),
         Len(v) <= Len(BodyOf(k)), \A m \in 1..Len(v) : v[m] = BodyOf(k)[m]
  PROVE  /\ ~TooLong(v)
         /\ Len(v) < Len(BodyOf(k)) => ~Whole(v)
         /\ ~Whole(v) => Len(v) < Len(BodyOf(k))
         /\ Whole(v) => /\ Len(v) = Len(BodyOf(k)) /\ SizeIn(v) = Len(Payloads[k])
                        /\ SubSeq(v, 5, SizeIn(v) + 4) = Payloads[k]
                        /\ CrcMatches(Payloads[k], v[SizeIn(v) + 5], v[SizeIn(v) + 6])
<1> DEFINE p == Payloads[k]
           b == BodyOf(k)
<1>1. /\ p \in Seq(Octet) /\ Len(p) \in Nat /\ Len(p) <= MaxPayload /\ Len(b) = Len(p) + 6
      /\ SizeIn(b) = Len(p) /\ \A i \in 1..Len(p) : b[i + 4] = p[i]
      /\ b[Len(p) + 5] + 256 * b[Len(p) + 6] = crc16[p]
  BY BodyFacts DEF BodyOf
<1>2. Len(v) \in Nat /\ Len(v) <= Len(b) /\ \A m \in 1..Len(v) : v[m] = b[m]
  OBVIOUS
<1> HIDE DEF p, b
<1>3. Len(v) >= 4 => SizeIn(v) = Len(p)
  <2>1. Len(v) >= 4 => v[3] = b[3] /\ v[4] = b[4]
    BY <1>2
  <2>2. QED
    BY <1>1, <2>1 DEF SizeIn
<1>4. MaxPayload \in Nat
  BY FramingAssumption
<1>5. ~TooLong(v)
  BY <1>1, <1>3, <1>4 DEF TooLong
<1>6. Whole(v) <=> Len(v) = Len(b)
  BY <1>1, <1>2, <1>3, <1>4 DEF Whole
<1>7. ASSUME Whole(v)
      PROVE  /\ SizeIn(v) = Len(p) /\ SubSeq(v, 5, SizeIn(v) + 4) = p
             /\ CrcMatches(p, v[SizeIn(v) + 5], v[SizeIn(v) + 6])
  <2>1. Len(v) = Len(p) + 6 /\ SizeIn(v) = Len(p)
    BY <1>1, <1>3, <1>6, <1>7
  <2>2. \A i \in 1..Len(p) : v[i + 4] = p[i]
    BY <1>1, <1>2, <2>1
  <2>3. SubSeq(v, 5, Len(p) + 4) = p
    <3>1. /\ SubSeq(v, 5, Len(p) + 4) \in Seq(Octet) /\ Len(SubSeq(v, 5, Len(p) + 4)) = Len(p)
          /\ \A i \in 1..Len(p) : SubSeq(v, 5, Len(p) + 4)[i] = v[i + 4]
      BY <1>7, <2>1, WholeTyped
    <3>2. QED
      BY <1>1, <2>2, <3>1
  <2>4. v[Len(p) + 5] = b[Len(p) + 5] /\ v[Len(p) + 6] = b[Len(p) + 6]
    BY <1>1, <1>2, <2>1
  <2>5. QED
    BY <1>1, <2>1, <2>3, <2>4 DEF CrcMatches
<1>8. QED
  BY <1>1, <1>2, <1>5, <1>6, <1>7 DEF p, b

\* The next octet of an undamaged frame neither ends it early nor is refused.
LEMMA OwnFrame ==
  ASSUME ParserInv, AgentInv, FrameInv, doing = "unstuff", j < got,
         NEW k \in Undamaged, flag_at = at[k]
  PROVE  /\ line[j + 1] # BEGIN_FLAG
         /\ ~TooLong(ValsNow)
         /\ ~Whole(ValsNow) => /\ Reading(k, ValsNow, j + 1, ~esc /\ line[j + 1] = ESC_FLAG)
                               /\ Len(ValsNow) < Len(BodyOf(k))
         /\ Whole(ValsNow) =>
              /\ SubSeq(ValsNow, 5, SizeIn(ValsNow) + 4) = Payloads[k]
              /\ CrcMatches(Payloads[k], ValsNow[SizeIn(ValsNow) + 5],
                            ValsNow[SizeIn(ValsNow) + 6])
<1>1. TypeOK /\ OnLine(k) /\ k \in DOMAIN Payloads
  BY UndamagedFacts DEF ParserInv, AgentInv
<1>2. Reading(k, vals, j, esc) /\ Len(vals) < Len(BodyOf(k))
  BY DEF FrameInv
<1>3. line[j + 1] # BEGIN_FLAG /\ Reading(k, ValsNow, j + 1, ~esc /\ line[j + 1] = ESC_FLAG)
  BY <1>1, <1>2, NextOctet
<1>4. ValsNow \in Seq(Octet)
  BY <1>1, ValsTyped
<1>5. Len(ValsNow) <= Len(BodyOf(k)) /\ \A m \in 1..Len(ValsNow) : ValsNow[m] = BodyOf(k)[m]
  BY <1>3 DEF Reading
<1> DEFINE v == ValsNow
<1> HIDE DEF v
<1>6. v \in Seq(Octet) /\ Len(v) <= Len(BodyOf(k)) /\ \A m \in 1..Len(v) : v[m] = BodyOf(k)[m]
  BY <1>4, <1>5 DEF v
<1>7. /\ ~TooLong(v)
      /\ ~Whole(v) => Len(v) < Len(BodyOf(k))
      /\ Whole(v) => /\ SubSeq(v, 5, SizeIn(v) + 4) = Payloads[k]
                     /\ CrcMatches(Payloads[k], v[SizeIn(v) + 5], v[SizeIn(v) + 6])
  BY <1>1, <1>6, SizeKnown
<1>8. QED
  BY <1>3, <1>7 DEF v

\* Putting a payload behind what was parsed, or handing one over.
LEMMA ParsedMoves ==
  ASSUME TypeOK
  PROVE  /\ Parsed \in Seq(Seq(Octet)) /\ Len(Parsed) = Len(origin)
         /\ UNCHANGED <<delivered, pending>> => Parsed' = Parsed
         /\ pending # << >> /\ delivered' = Append(delivered, Head(pending)) /\ pending' = Tail(pending)
              => Parsed' = Parsed
<1>1. /\ delivered \in Seq(Seq(Octet)) /\ pending \in Seq(Seq(Octet))
      /\ Len(origin) = Len(delivered) + Len(pending)
  BY DEF TypeOK
<1>2. ASSUME NEW S, NEW d \in Seq(S), NEW p \in Seq(S), p # << >>
      PROVE  Append(d, Head(p)) \o Tail(p) = d \o p
  <2>1. Len(Append(d, Head(p)) \o Tail(p)) = Len(d \o p)
    BY <1>2
  <2>2. \A i \in 1..Len(d \o p) : (Append(d, Head(p)) \o Tail(p))[i] = (d \o p)[i]
    BY <1>2
  <2>3. QED
    BY <1>2, <2>1, <2>2
<1>3. ASSUME pending # << >> PROVE Append(delivered, Head(pending)) \o Tail(pending) = delivered \o pending
  BY <1>1, <1>2, <1>3
<1>4. delivered \o pending \in Seq(Seq(Octet)) /\ Len(delivered \o pending) = Len(delivered) + Len(pending)
  BY <1>1
<1>5. QED
  BY <1>1, <1>3, <1>4 DEF Parsed

LEMMA ParsedGrows ==
  ASSUME TypeOK, NEW payload \in Seq(Octet),
         delivered' = delivered, pending' = Append(pending, payload)
  PROVE  /\ \A n \in 1..Len(origin) : Parsed'[n] = Parsed[n]
         /\ Parsed'[Len(origin) + 1] = payload
<1>1. /\ delivered \in Seq(Seq(Octet)) /\ pending \in Seq(Seq(Octet))
      /\ Len(origin) = Len(delivered) + Len(pending)
  BY DEF TypeOK
<1>2. ASSUME NEW S, NEW d \in Seq(S), NEW p \in Seq(S), NEW x \in S
      PROVE  /\ \A n \in 1..(Len(d) + Len(p)) : (d \o Append(p, x))[n] = (d \o p)[n]
             /\ (d \o Append(p, x))[Len(d) + Len(p) + 1] = x
  BY <1>2
<1>3. QED
  BY <1>1, <1>2 DEF Parsed

LEMMA AgentKept ==
  ASSUME AgentInv, UNCHANGED agent
  PROVE  AgentInv' /\ Undamaged' = Undamaged
<1>1. UNCHANGED <<sent, damaged, at, line>>
  BY DEF agent
<1>2. Undamaged' = Undamaged
  BY <1>1 DEF Undamaged
<1>3. QED
  BY <1>1, <1>2 DEF AgentInv, OnLine, Ordered, FlagsKnown, InFrame, FrameOf

LEMMA OriginKept ==
  ASSUME TypeOK, TypeOK', OriginInv, UNCHANGED <<agent, origin>>, Parsed' = Parsed, start <= start'
  PROVE  OriginInv'
<1>1. UNCHANGED <<sent, damaged, at, line, origin>> /\ Undamaged' = Undamaged
  BY DEF agent, Undamaged
<1>2. \A n \in DOMAIN origin : origin[n] \in Nat
  <2>1. origin \in Seq(Nat \ {0})
    BY DEF TypeOK
  <2>2. QED
    BY <2>1
<1>3. start \in Nat /\ start' \in Nat
  BY DEF TypeOK
<1>4. \A n \in DOMAIN origin : origin[n] <= start'
  BY <1>2, <1>3 DEF OriginInv
<1>5. QED
  BY <1>1, <1>4 DEF OriginInv

\* feed returns without having passed over an undamaged frame, or with one
\* that is whole left to read.
LEMMA WaitKeeps ==
  ASSUME ParserInv, ParserInv', FrameInv, OriginInv, NEW from \in start..got, Wait(from),
         \A k \in Undamaged : start < at[k] => from < at[k] /\ got + 1 < at[k] + Len(FrameOf(k))
  PROVE  FrameInv' /\ OriginInv'
<1>1. UNCHANGED <<sent, damaged, at, line, got, origin>> /\ UNCHANGED agent
  BY DEF Wait, agent
<1>2. start' = from /\ doing' = "idle" /\ start <= from /\ Undamaged' = Undamaged
  BY <1>1, TypesHold DEF Wait, Undamaged, Types, ParserInv
<1>3. Parsed' = Parsed
  BY ParsedMoves DEF Wait, ParserInv
<1>4. OriginInv'
  BY <1>1, <1>2, <1>3, OriginKept DEF ParserInv
<1>5. ASSUME NEW k \in Undamaged
      PROVE  /\ at[k] <= from => \E n \in DOMAIN origin : origin[n] = at[k]
             /\ from < at[k] => got + 1 < at[k] + Len(FrameOf(k))
  <2>1. at[k] \in Nat /\ start \in Nat /\ from \in Nat
    BY TypesHold, UndamagedFacts DEF Types, ParserInv
  <2>2. CASE at[k] <= start
    BY <1>2, <2>1, <2>2 DEF FrameInv
  <2>3. CASE start < at[k]
    BY <1>2, <2>1, <2>3
  <2>4. QED
    BY <2>1, <2>2, <2>3
<1>6. FrameInv'
  BY <1>1, <1>2, <1>5 DEF FrameInv, FrameOf
<1>7. QED
  BY <1>4, <1>6

\* Nor is one passed over where feed goes on.
LEMMA GoOnKeeps ==
  ASSUME ParserInv, ParserInv', FrameInv, OriginInv, NEW from \in start..got, GoOn(from),
         UNCHANGED <<pending, origin>>,
         \A k \in Undamaged : start < at[k] => from < at[k]
  PROVE  FrameInv' /\ OriginInv'
<1>1. UNCHANGED <<sent, damaged, at, line, got, origin, delivered>> /\ UNCHANGED agent
  BY DEF GoOn, agent
<1>2. start' = from /\ doing' = "seek" /\ start <= from /\ Undamaged' = Undamaged
  BY <1>1, TypesHold DEF GoOn, Undamaged, Types, ParserInv
<1>3. Parsed' = Parsed
  BY <1>1, ParsedMoves DEF ParserInv
<1>4. OriginInv'
  BY <1>1, <1>2, <1>3, OriginKept DEF ParserInv
<1>5. ASSUME NEW k \in Undamaged, at[k] <= from
      PROVE  \E n \in DOMAIN origin : origin[n] = at[k]
  <2>1. at[k] \in Nat /\ start \in Nat /\ from \in Nat
    BY TypesHold, UndamagedFacts DEF Types, ParserInv
  <2>2. at[k] <= start
    BY <1>5, <2>1
  <2>3. QED
    BY <2>2 DEF FrameInv
<1>6. FrameInv'
  BY <1>1, <1>2, <1>5 DEF FrameInv
<1>7. QED
  BY <1>4, <1>6

FramingInv == ParserInv /\ AgentInv /\ FrameInv /\ OriginInv

LEMMA SendKeeps ==
  ASSUME FramingInv, Send, ParserInv'
  PROVE  FrameInv' /\ OriginInv'
<1>1. /\ \A k \in Undamaged' : \/ k \in Undamaged /\ at'[k] = at[k]
                               \/ k = sent' /\ at'[k] = Len(line) + 1
      /\ \A i \in 1..Len(line) : line'[i] = line[i]
  BY SendAgent, SendGrows DEF FramingInv, ParserInv
<1>2. UNCHANGED <<got, start, doing, flag_at, j, vals, esc, pending, delivered, origin>>
  BY DEF Send, loop
<1>3. Types /\ Parsed' = Parsed
  BY <1>2, TypesHold, ParsedMoves DEF FramingInv, ParserInv
<1>4. \A n \in DOMAIN origin : origin[n] \in 1..Len(line)
  <2>1. origin \in Seq(Nat \ {0}) /\ \A n \in DOMAIN origin : origin[n] <= start
    BY DEF FramingInv, ParserInv, TypeOK, OriginInv
  <2>2. QED
    BY <1>3, <2>1 DEF Types
<1>5. ASSUME NEW k \in Undamaged'
      PROVE  /\ at'[k] <= start => \E n \in DOMAIN origin : origin[n] = at'[k]
             /\ doing = "idle" /\ start < at'[k] => got + 1 < at'[k] + Len(FrameOf(k))
             /\ doing = "unstuff" /\ flag_at = at'[k] =>
                  Reading(k, vals, j, esc)' /\ Len(vals) < Len(BodyOf(k))
  <2>1. CASE k \in Undamaged /\ at'[k] = at[k]
    <3>1. Reading(k, vals, j, esc) => Reading(k, vals, j, esc)'
      BY <1>2, <2>1 DEF Reading, BodyOf
    <3>2. QED
      BY <2>1, <3>1 DEF FramingInv, FrameInv
  <2>2. CASE k = sent' /\ at'[k] = Len(line) + 1
    <3>1. Len(FrameOf(k)) \in Nat /\ Len(FrameOf(k)) >= 1
      <4>1. k \in DOMAIN Payloads
        BY <2>2, SendGrows DEF FramingInv, ParserInv
      <4>2. QED
        BY <4>1, FrameFacts
    <3>2. at'[k] > start /\ at'[k] # flag_at /\ got + 1 < at'[k] + Len(FrameOf(k))
      BY <1>3, <2>2, <3>1 DEF Types
    <3>3. QED
      BY <1>3, <2>2, <3>2 DEF Types
  <2>3. QED
    BY <1>1, <2>1, <2>2
<1>6. FrameInv'
  BY <1>2, <1>5 DEF FrameInv, FrameOf, BodyOf
<1>7. ASSUME NEW n \in DOMAIN origin, NEW k \in Undamaged', origin[n] = at'[k]
      PROVE  Parsed[n] = Payloads[k]
  <2>1. at'[k] # Len(line) + 1
    BY <1>3, <1>4, <1>7 DEF Types
  <2>2. k \in Undamaged /\ at'[k] = at[k]
    BY <1>1, <2>1
  <2>3. QED
    BY <1>7, <2>2 DEF FramingInv, OriginInv
<1>8. \A n \in DOMAIN origin : origin[n] <= start /\ line'[origin[n]] = BEGIN_FLAG
  BY <1>1, <1>4 DEF FramingInv, OriginInv
<1>9. \A m, n \in DOMAIN origin : m < n => origin[m] < origin[n]
  BY DEF FramingInv, OriginInv
<1>10. OriginInv'
  BY <1>2, <1>3, <1>7, <1>8, <1>9 DEF OriginInv
<1>11. QED
  BY <1>6, <1>10

LEMMA CompleteKeeps ==
  ASSUME FramingInv, Complete, ParserInv'
  PROVE  FrameInv' /\ OriginInv'
<1> DEFINE payload == SubSeq(ValsNow, 5, SizeIn(ValsNow) + 4)
           matches == CrcMatches(payload, ValsNow[SizeIn(ValsNow) + 5], ValsNow[SizeIn(ValsNow) + 6])
<1>1. /\ doing = "unstuff" /\ j < got /\ line[j + 1] # BEGIN_FLAG /\ Whole(ValsNow) /\ GoOn(j + 1)
      /\ \/ matches /\ pending' = Append(pending, payload) /\ origin' = Append(origin, flag_at)
         \/ ~matches /\ UNCHANGED <<pending, origin>>
  BY DEF Complete, NewFrame
<1>2. ParserInv /\ AgentInv /\ FrameInv /\ OriginInv /\ TypeOK /\ Types /\ Scanning
  BY TypesHold DEF FramingInv, ParserInv
<1>3. ASSUME NEW k \in Undamaged, flag_at = at[k]
      PROVE  payload = Payloads[k] /\ matches
  BY <1>1, <1>2, <1>3, OwnFrame
<1>4. payload \in Seq(Octet)
  BY <1>1, <1>2, ValsTyped, WholeTyped
<1> HIDE DEF payload, matches
<1>5. ASSUME NEW k \in Undamaged, start < at[k]
      PROVE  at[k] = flag_at \/ j + 1 < at[k]
  <2>1. line[at[k]] = BEGIN_FLAG /\ at[k] \in Nat
    BY <1>2, FlagsOnLine DEF AgentInv
  <2>2. at[k] = flag_at \/ j < at[k]
    BY <1>1, <1>2, <1>5, FlagsAhead
  <2>3. QED
    BY <1>1, <1>2, <2>1, <2>2 DEF Types
<1>6. j + 1 \in start..got /\ start < flag_at /\ flag_at <= j + 1
  BY <1>1, <1>2 DEF Types, Scanning
<1>7. CASE ~matches /\ UNCHANGED <<pending, origin>>
  <2>1. \A k \in Undamaged : start < at[k] => j + 1 < at[k]
    BY <1>3, <1>5, <1>7
  <2>2. QED
    BY <1>1, <1>2, <1>6, <1>7, <2>1, GoOnKeeps
<1>8. CASE pending' = Append(pending, payload) /\ origin' = Append(origin, flag_at)
  <2>1. UNCHANGED <<sent, damaged, at, line, got, delivered>> /\ start' = j + 1 /\ doing' = "seek"
    BY <1>1 DEF GoOn, agent
  <2>2. Undamaged' = Undamaged
    BY <2>1 DEF Undamaged
  <2> DEFINE N == Len(origin)
  <2>3. origin \in Seq(Nat \ {0}) /\ N \in Nat /\ flag_at \in Nat \ {0}
    BY <1>2, <1>6 DEF TypeOK, Types
  <2>4. DOMAIN origin = 1..N /\ DOMAIN origin' = 1..(N + 1) /\ origin'[N + 1] = flag_at
        /\ \A n \in 1..N : origin'[n] = origin[n] /\ origin[n] \in Nat
    BY <1>8, <2>3
  <2>5. /\ \A n \in 1..N : Parsed'[n] = Parsed[n]
        /\ Parsed'[N + 1] = payload
    BY <1>2, <1>4, <1>8, <2>1, ParsedGrows
  <2> HIDE DEF N
  <2>6. /\ \A n \in 1..N : origin[n] <= start /\ line[origin[n]] = BEGIN_FLAG
        /\ \A m, n \in 1..N : m < n => origin[m] < origin[n]
        /\ \A n \in 1..N, k \in Undamaged : origin[n] = at[k] => Parsed[n] = Payloads[k]
    BY <1>2, <2>4 DEF OriginInv
  <2>7. \A n \in 1..(N + 1) : n \in 1..N \/ n = N + 1
    BY <2>3
  <2>8. ASSUME NEW k \in Undamaged, at[k] <= j + 1
        PROVE  \E n \in 1..(N + 1) : origin'[n] = at[k]
    <3>1. at[k] \in Nat
      BY <1>2, UndamagedFacts
    <3>2. CASE at[k] <= start
      <4>1. PICK n \in 1..N : origin[n] = at[k]
        BY <1>2, <2>4, <3>2 DEF FrameInv
      <4>2. n \in 1..(N + 1) /\ origin'[n] = at[k]
        BY <2>3, <2>4, <4>1
      <4>3. QED
        BY <4>2
    <3>3. CASE start < at[k]
      <4>1. at[k] = flag_at
        BY <1>2, <1>5, <2>8, <3>1, <3>3 DEF Types
      <4>2. N + 1 \in 1..(N + 1)
        BY <2>3
      <4>3. QED
        BY <2>4, <4>1, <4>2
    <3>4. QED
      BY <1>2, <3>1, <3>2, <3>3 DEF Types
  <2>9. FrameInv'
    BY <2>1, <2>2, <2>4, <2>8 DEF FrameInv
  <2>10. ASSUME NEW n \in 1..(N + 1)
         PROVE  /\ origin'[n] <= j + 1 /\ line[origin'[n]] = BEGIN_FLAG
                /\ \A k \in Undamaged : origin'[n] = at[k] => Parsed'[n] = Payloads[k]
    <3>1. CASE n \in 1..N
      <4>1. origin'[n] = origin[n] /\ origin[n] \in Nat /\ origin[n] <= start /\ Parsed'[n] = Parsed[n]
        BY <2>4, <2>5, <2>6, <3>1
      <4>2. origin'[n] <= j + 1
        BY <1>2, <1>6, <4>1 DEF Types
      <4>3. QED
        BY <2>6, <3>1, <4>1, <4>2
    <3>2. CASE n = N + 1
      <4>1. origin'[n] = flag_at /\ Parsed'[n] = payload
        BY <2>4, <2>5, <3>2
      <4>2. \A k \in Undamaged : flag_at = at[k] => payload = Payloads[k]
        BY <1>3
      <4>3. flag_at <= j + 1 /\ line[flag_at] = BEGIN_FLAG
        BY <1>1, <1>2, <1>6 DEF Scanning
      <4>4. QED
        BY <4>1, <4>2, <4>3
    <3>3. QED
      BY <2>7, <3>1, <3>2
  <2>11. ASSUME NEW m \in 1..(N + 1), NEW n \in 1..(N + 1), m < n
         PROVE  origin'[m] < origin'[n]
    <3>1. m \in 1..N
      BY <2>3, <2>11
    <3>2. CASE n \in 1..N
      BY <2>4, <2>6, <2>11, <3>1, <3>2
    <3>3. CASE n = N + 1
      <4>1. origin'[m] = origin[m] /\ origin[m] \in Nat /\ origin[m] <= start /\ origin'[n] = flag_at
        BY <2>4, <2>6, <3>1, <3>3
      <4>2. QED
        BY <1>2, <1>6, <4>1 DEF Types
    <3>4. QED
      BY <2>7, <3>2, <3>3
  <2>12. OriginInv'
    BY <2>1, <2>2, <2>4, <2>10, <2>11 DEF OriginInv
  <2>13. QED
    BY <2>9, <2>12
<1>9. QED
  BY <1>1, <1>7, <1>8

LEMMA InitFraming == Init => FramingInv
<1> SUFFICES ASSUME Init PROVE FramingInv
  OBVIOUS
<1>1. ParserInv /\ AgentInv
  BY InitParser, InitAgent
<1>2. Undamaged = {} /\ origin = << >>
  BY DEF Init, Undamaged
<1>3. FrameInv
  BY <1>2 DEF FrameInv
<1>4. OriginInv
  BY <1>2 DEF OriginInv
<1>5. QED
  BY <1>1, <1>3, <1>4 DEF FramingInv

LEMMA NextFraming == FramingInv /\ [Next]_vars => FramingInv'
<1> SUFFICES ASSUME FramingInv, [Next]_vars PROVE FramingInv'
  OBVIOUS
<1>1. ParserInv /\ AgentInv /\ FrameInv /\ OriginInv /\ TypeOK /\ Types
  BY TypesHold DEF FramingInv, ParserInv
<1>2. ParserInv' /\ TypeOK'
  BY <1>1, NextParser DEF ParserInv
<1>3. ASSUME NEW k \in Undamaged
      PROVE  /\ at[k] \in Nat /\ Len(FrameOf(k)) \in Nat /\ Len(FrameOf(k)) >= 1
             /\ line[at[k]] = BEGIN_FLAG
  <2>1. k \in DOMAIN Payloads /\ OnLine(k)
    BY <1>1, UndamagedFacts DEF AgentInv
  <2>2. QED
    BY <1>1, <2>1, FlagsOnLine, FrameFacts, UndamagedFacts
<1>4. CASE Send
  BY <1>1, <1>2, <1>4, SendAgent, SendKeeps DEF FramingInv
<1>5. CASE RecvPending
  <2>1. /\ UNCHANGED <<agent, sent, damaged, at, line, got, start, doing, flag_at, j, vals, esc, origin>>
        /\ doing = "idle" /\ pending # << >>
        /\ delivered' = Append(delivered, Head(pending)) /\ pending' = Tail(pending)
    BY <1>5 DEF RecvPending, agent, loop
  <2>2. Parsed' = Parsed /\ AgentInv' /\ Undamaged' = Undamaged /\ start <= start'
    BY <1>1, <2>1, ParsedMoves, AgentKept DEF Types
  <2>3. FrameInv'
    BY <1>1, <2>1, <2>2 DEF FrameInv, FrameOf
  <2>4. OriginInv'
    BY <1>1, <1>2, <2>1, <2>2, OriginKept
  <2>5. QED
    BY <1>2, <2>2, <2>3, <2>4 DEF FramingInv
<1>6. CASE RecvRead
  <2>1. /\ UNCHANGED <<agent, sent, damaged, at, line, start, flag_at, j, vals, esc, pending, delivered, origin>>
        /\ doing' = "seek"
    BY <1>6 DEF RecvRead, agent
  <2>2. Parsed' = Parsed /\ AgentInv' /\ Undamaged' = Undamaged /\ start <= start'
    BY <1>1, <2>1, ParsedMoves, AgentKept DEF Types
  <2>3. FrameInv'
    BY <1>1, <2>1, <2>2 DEF FrameInv
  <2>4. OriginInv'
    BY <1>1, <1>2, <2>1, <2>2, OriginKept
  <2>5. QED
    BY <1>2, <2>2, <2>3, <2>4 DEF FramingInv
<1>7. ASSUME NEW from \in start..got, Wait(from),
             \A k \in Undamaged : start < at[k] => from < at[k] /\ got + 1 < at[k] + Len(FrameOf(k))
      PROVE  FramingInv'
  <2>1. UNCHANGED agent
    BY <1>7 DEF Wait
  <2>2. QED
    BY <1>1, <1>2, <1>7, <2>1, AgentKept, WaitKeeps DEF FramingInv
<1>8. ASSUME NEW from \in start..got, GoOn(from), UNCHANGED <<pending, origin>>,
             \A k \in Undamaged : start < at[k] => from < at[k]
      PROVE  FramingInv'
  <2>1. UNCHANGED agent
    BY <1>8 DEF GoOn
  <2>2. QED
    BY <1>1, <1>2, <1>8, <2>1, AgentKept, GoOnKeeps DEF FramingInv
<1>9. CASE NoFlagSeen
  <2>1. Wait(got) /\ NoFlag(start, got) /\ got \in start..got
    BY <1>1, <1>9 DEF NoFlagSeen, Types
  <2>2. ASSUME NEW k \in Undamaged, start < at[k] PROVE got < at[k] /\ got + 1 < at[k] + Len(FrameOf(k))
    <3>1. at[k] \notin (start + 1)..got
      BY <1>3, <2>1 DEF NoFlag
    <3>2. QED
      BY <1>1, <1>3, <2>2, <3>1 DEF Types
  <2>3. QED
    BY <1>7, <2>1, <2>2
<1>10. CASE FlagSeen
  <2>1. /\ UNCHANGED <<agent, sent, damaged, at, line, got, start, pending, delivered, origin>>
        /\ doing' = "unstuff" /\ j' = flag_at' /\ vals' = << >> /\ esc' = FALSE
    BY <1>10 DEF FlagSeen, agent
  <2>2. Parsed' = Parsed /\ AgentInv' /\ Undamaged' = Undamaged /\ start <= start'
    BY <1>1, <2>1, ParsedMoves, AgentKept DEF Types
  <2>3. ASSUME NEW k \in Undamaged, flag_at' = at[k]
        PROVE  Reading(k, vals, j, esc)' /\ Len(vals') < Len(BodyOf(k))
    <3>1. Stuffed(BodyOf(k), 0) = 0 /\ Len(vals') = 0 /\ 0 < Len(BodyOf(k))
      BY <1>1, <2>1, StuffedTyped, UndamagedFacts
    <3>2. j' = at'[k] + Stuffed(BodyOf(k), 0)
      BY <1>3, <2>1, <2>3, <3>1
    <3>3. /\ Len(vals') <= Len(BodyOf(k)) /\ 1..Len(vals') = {}
          /\ j' = at'[k] + Stuffed(BodyOf(k), Len(vals'))
      BY <3>1, <3>2
    <3>4. QED
      BY <2>1, <3>1, <3>3 DEF Reading, BodyOf
  <2>4. FrameInv'
    BY <1>1, <2>1, <2>2, <2>3 DEF FrameInv, BodyOf
  <2>5. OriginInv'
    BY <1>1, <1>2, <2>1, <2>2, OriginKept
  <2>6. QED
    BY <1>2, <2>2, <2>4, <2>5 DEF FramingInv
<1>11. CASE NeedsMore
  <2>1. doing = "unstuff" /\ j = got /\ Wait(flag_at - 1)
    BY <1>11 DEF NeedsMore
  <2>2. start < flag_at /\ flag_at - 1 \in start..got
    BY <1>1, <2>1 DEF ParserInv, Scanning, Types
  <2>3. ASSUME NEW k \in Undamaged, start < at[k]
        PROVE  flag_at - 1 < at[k] /\ got + 1 < at[k] + Len(FrameOf(k))
    <3>1. CASE at[k] = flag_at
      <4>1. j + 1 < at[k] + Len(FrameOf(k))
        BY <1>1, <2>1, <3>1, NextOctet DEF FrameInv, AgentInv
      <4>2. QED
        BY <1>1, <2>1, <3>1, <4>1 DEF Types
    <3>2. CASE j < at[k]
      BY <1>1, <1>3, <2>1, <3>2 DEF Types
    <3>3. QED
      BY <1>1, <2>1, <2>3, <3>1, <3>2, FlagsAhead
  <2>4. QED
    BY <1>7, <2>1, <2>2, <2>3
<1>12. ASSUME doing = "unstuff", j < got,
              \A k \in Undamaged : at[k] # flag_at
       PROVE  \A k \in Undamaged : start < at[k] => j < at[k]
  BY <1>1, <1>12, FlagsAhead
<1>13. CASE Truncated
  <2>1. doing = "unstuff" /\ j < got /\ line[j + 1] = BEGIN_FLAG /\ GoOn(j) /\ UNCHANGED <<pending, origin>>
    BY <1>13 DEF Truncated, NewFrame
  <2>2. \A k \in Undamaged : at[k] # flag_at
    BY <1>1, <2>1, OwnFrame
  <2>3. j \in start..got
    BY <1>1, <2>1 DEF ParserInv, Scanning, Types
  <2>4. QED
    BY <1>8, <1>12, <2>1, <2>2, <2>3
<1>14. CASE Unstuff
  <2>1. /\ doing = "unstuff" /\ j < got /\ ~Whole(ValsNow)
        /\ j' = j + 1 /\ vals' = ValsNow /\ esc' = (~esc /\ line[j + 1] = ESC_FLAG)
        /\ UNCHANGED <<agent, sent, damaged, at, line, got, start, doing, flag_at, pending, delivered, origin>>
    BY <1>14 DEF Unstuff, agent
  <2>2. Parsed' = Parsed /\ AgentInv' /\ Undamaged' = Undamaged /\ start <= start'
    BY <1>1, <2>1, ParsedMoves, AgentKept DEF Types
  <2>3. ASSUME NEW k \in Undamaged, flag_at = at[k]
        PROVE  Reading(k, vals, j, esc)' /\ Len(vals') < Len(BodyOf(k))
    <3>1. /\ Reading(k, ValsNow, j + 1, ~esc /\ line[j + 1] = ESC_FLAG)
          /\ Len(ValsNow) < Len(BodyOf(k))
      BY <1>1, <2>1, <2>3, OwnFrame
    <3>2. Reading(k, vals', j', esc') /\ Len(vals') < Len(BodyOf(k))
      BY <2>1, <3>1
    <3>3. QED
      BY <2>1, <3>2 DEF Reading, BodyOf
  <2>4. FrameInv'
    BY <1>1, <2>1, <2>2, <2>3 DEF FrameInv, BodyOf
  <2>5. OriginInv'
    BY <1>1, <1>2, <2>1, <2>2, OriginKept
  <2>6. QED
    BY <1>2, <2>2, <2>4, <2>5 DEF FramingInv
<1>15. CASE Implausible
  <2>1. doing = "unstuff" /\ j < got /\ TooLong(ValsNow) /\ GoOn(flag_at) /\ UNCHANGED <<pending, origin>>
    BY <1>15 DEF Implausible
  <2>2. \A k \in Undamaged : at[k] # flag_at
    BY <1>1, <2>1, OwnFrame
  <2>3. flag_at \in start..got
    BY <1>1, <2>1 DEF ParserInv, Scanning, Types
  <2>4. ASSUME NEW k \in Undamaged, start < at[k] PROVE flag_at < at[k]
    <3>1. j < at[k]
      BY <1>12, <2>1, <2>2, <2>4
    <3>2. QED
      BY <1>1, <1>3, <3>1 DEF Types
  <2>5. QED
    BY <1>8, <2>1, <2>3, <2>4
<1>16. CASE Complete
  <2>1. UNCHANGED agent
    BY <1>16 DEF Complete, GoOn
  <2>2. QED
    BY <1>1, <1>2, <1>16, <2>1, AgentKept, CompleteKeeps DEF FramingInv
<1>17. CASE UNCHANGED vars
  <2>1. /\ UNCHANGED <<agent, sent, damaged, at, line, got, start, doing, flag_at, j, vals, esc>>
        /\ UNCHANGED <<pending, delivered, origin>>
    BY <1>17 DEF vars, agent, loop
  <2>2. Parsed' = Parsed /\ AgentInv' /\ Undamaged' = Undamaged /\ start <= start'
    BY <1>1, <2>1, ParsedMoves, AgentKept DEF Types
  <2>3. \A k \in Undamaged : Reading(k, vals, j, esc) => Reading(k, vals, j, esc)'
    BY <2>1 DEF Reading, BodyOf
  <2>4. FrameInv'
    BY <1>1, <2>1, <2>2, <2>3 DEF FrameInv, FrameOf, BodyOf
  <2>5. OriginInv'
    BY <1>1, <1>2, <2>1, <2>2, OriginKept
  <2>6. QED
    BY <1>2, <2>2, <2>4, <2>5 DEF FramingInv
<1>18. QED
  BY <1>4, <1>5, <1>6, <1>9, <1>10, <1>11, <1>13, <1>14, <1>15, <1>16, <1>17 DEF Next, Parse

LEMMA SpecFraming == Spec => []FramingInv
<1>1. QED
  BY InitFraming, NextFraming, PTL DEF Spec

\* The types of the parser and of the line.
THEOREM FramingTypes == Spec => []TypeOK
<1>1. FramingInv => TypeOK
  BY DEF FramingInv, ParserInv
<1>2. QED
  BY <1>1, SpecFraming, PTL

\* Whatever was lost, changed or added on the line before, between and in the
\* other frames, and wherever the reads cut it, a frame that came whole was
\* handed over once the line is quiet (_try_one goes on behind the next flag).
THEOREM DamageIsContained == Spec => []DamageContained
<1>1. ASSUME FramingInv PROVE DamageContained
  <2>1. TypeOK /\ Types /\ FrameInv /\ OriginInv /\ AgentInv
    BY <1>1, TypesHold DEF FramingInv, ParserInv
  <2> SUFFICES ASSUME doing = "idle", got = Len(line), pending = << >>, NEW k \in Undamaged
               PROVE  Payloads[k] \in Range(delivered)
    BY DEF DamageContained, Undamaged
  <2>2. at[k] \in Nat /\ Len(FrameOf(k)) \in Nat /\ at[k] + Len(FrameOf(k)) <= Len(line) + 1
    BY <2>1, UndamagedFacts DEF AgentInv, OnLine
  <2>3. at[k] <= start
    BY <2>1, <2>2 DEF FrameInv, Types
  <2>4. PICK n \in DOMAIN origin : origin[n] = at[k]
    BY <2>1, <2>3 DEF FrameInv
  <2>5. Parsed[n] = Payloads[k]
    BY <2>1, <2>4 DEF OriginInv
  <2>6. delivered \in Seq(Seq(Octet)) /\ Len(origin) = Len(delivered) /\ origin \in Seq(Nat \ {0})
    BY <2>1 DEF TypeOK
  <2>7. Parsed = delivered /\ DOMAIN origin = DOMAIN delivered
    BY <2>6 DEF Parsed
  <2>8. QED
    BY <2>4, <2>5, <2>7 DEF Range
<1>2. QED
  BY <1>1, SpecFraming, PTL

\* What the checksum lets through of a damaged frame is its payload, and that
\* once (an octet added behind a frame, say, does it no harm).
ChecksumCatches ==
  \A k \in damaged : \A n \in DOMAIN origin : InFrame(k, origin[n]) =>
    /\ Parsed[n] = Payloads[k]
    /\ \A m \in DOMAIN origin : InFrame(k, origin[m]) => m = n

\* A payload names its frame.
DistinctPayloads == \A m, n \in DOMAIN Payloads : Payloads[m] = Payloads[n] => m = n

LEMMA CaughtThenSent ==
  ASSUME DistinctPayloads, FramingInv, ChecksumCatches
  PROVE  OnlySent
<1>1. TypeOK /\ Types /\ OriginInv /\ AgentInv
  BY TypesHold DEF FramingInv, ParserInv
<1>2. /\ delivered \in Seq(Seq(Octet)) /\ pending \in Seq(Seq(Octet)) /\ origin \in Seq(Nat \ {0})
      /\ Len(origin) = Len(delivered) + Len(pending)
  BY <1>1 DEF TypeOK
<1>3. \A n \in DOMAIN delivered : /\ n \in DOMAIN origin /\ Parsed[n] = delivered[n]
                                  /\ n \in Nat /\ origin[n] \in Nat
  BY <1>2 DEF Parsed
<1>4. ASSUME NEW n \in DOMAIN delivered
      PROVE  \E k \in 1..sent : /\ InFrame(k, origin[n]) /\ delivered[n] = Payloads[k]
                                /\ k \in damaged \/ origin[n] = at[k]
  <2>1. n \in DOMAIN origin /\ Parsed[n] = delivered[n]
    BY <1>3
  <2>2. origin[n] \in 1..Len(line) /\ line[origin[n]] = BEGIN_FLAG
    <3>1. origin[n] \in Nat \ {0} /\ origin[n] <= start /\ line[origin[n]] = BEGIN_FLAG
      BY <1>1, <1>2, <2>1 DEF OriginInv
    <3>2. QED
      BY <1>1, <3>1 DEF Types
  <2>3. CASE \E k \in Undamaged : origin[n] = at[k]
    <3>1. PICK k \in Undamaged : origin[n] = at[k]
      BY <2>3
    <3>2. k \in 1..sent /\ at[k] \in Nat /\ sent \in Nat
      BY <1>1, UndamagedFacts DEF Types
    <3>3. InFrame(k, origin[n])
      <4>1. ASSUME k < sent PROVE at[k] < at[k + 1]
        BY <1>1, <3>2, <4>1 DEF AgentInv, Ordered
      <4>2. QED
        BY <3>1, <3>2, <4>1 DEF InFrame
    <3>4. QED
      BY <1>1, <2>1, <3>1, <3>2, <3>3 DEF OriginInv
  <2>4. CASE \E k \in damaged : InFrame(k, origin[n])
    <3>1. PICK k \in damaged : InFrame(k, origin[n])
      BY <2>4
    <3>2. k \in 1..sent
      BY <1>1 DEF TypeOK
    <3>3. QED
      BY <2>1, <3>1, <3>2 DEF ChecksumCatches
  <2>5. QED
    BY <1>1, <2>2, <2>3, <2>4 DEF AgentInv, FlagsKnown
<1>5. sent \in Nat /\ \A k \in 1..sent : k \in DOMAIN Payloads /\ at[k] \in Nat
  <2>1. at \in Seq(Nat \ {0}) /\ Len(at) = sent /\ sent \in 0..Len(Payloads)
    BY <1>1 DEF TypeOK
  <2>2. QED
    BY <2>1, FramingAssumption
<1>6. Range(delivered) \subseteq {Payloads[k] : k \in 1..sent}
  BY <1>4 DEF Range
<1>7. ASSUME NEW a \in DOMAIN delivered, NEW b \in DOMAIN delivered,
             NEW m \in DOMAIN Payloads, NEW n \in DOMAIN Payloads,
             a < b, delivered[a] = Payloads[m], delivered[b] = Payloads[n]
      PROVE  m < n
  <2>1. m \in 1..sent /\ InFrame(m, origin[a]) /\ (m \in damaged \/ origin[a] = at[m])
    BY <1>4, <1>5, <1>7 DEF DistinctPayloads
  <2>2. n \in 1..sent /\ InFrame(n, origin[b]) /\ (n \in damaged \/ origin[b] = at[n])
    BY <1>4, <1>5, <1>7 DEF DistinctPayloads
  <2>3. origin[a] < origin[b] /\ origin[a] \in Nat /\ origin[b] \in Nat /\ a \in Nat /\ b \in Nat
    BY <1>1, <1>3, <1>7 DEF OriginInv
  <2>4. m # n
    <3>1. CASE m \in damaged
      <4>1. a # b /\ a \in DOMAIN origin /\ b \in DOMAIN origin
        BY <1>3, <1>7, <2>3
      <4>2. ~InFrame(m, origin[b])
        BY <2>1, <3>1, <4>1 DEF ChecksumCatches
      <4>3. QED
        BY <2>2, <4>2
    <3>2. CASE m \notin damaged
      <4>1. origin[a] = at[m]
        BY <2>1, <3>2
      <4>2. m = n => origin[b] = at[m]
        BY <2>2, <3>2
      <4>3. QED
        BY <2>3, <4>1, <4>2
    <3>3. QED
      BY <3>1, <3>2
  <2>5. ~(n < m)
    <3>1. SUFFICES ASSUME n < m PROVE FALSE
      OBVIOUS
    <3>2. n < sent /\ n + 1 \in 1..sent /\ n + 1 <= m
      BY <1>5, <2>1, <2>2, <3>1
    <3>3. origin[b] < at[n + 1] /\ at[m] <= origin[a]
      BY <2>1, <2>2, <3>2 DEF InFrame
    <3>4. at[n + 1] <= at[m]
      <4>1. CASE n + 1 = m
        BY <1>5, <2>1, <4>1
      <4>2. CASE n + 1 < m
        BY <1>1, <2>1, <3>2, <4>2 DEF AgentInv, Ordered
      <4>3. QED
        BY <1>5, <2>1, <3>2, <4>1, <4>2
    <3>5. QED
      BY <1>5, <2>1, <2>3, <3>2, <3>3, <3>4
  <2>6. QED
    BY <1>5, <2>1, <2>2, <2>4, <2>5
<1>8. QED
  BY <1>6, <1>7 DEF OnlySent

\* When the checksum catches what the line makes of a frame, what recv
\* returned is what was sent, at most once each and in order.
THEOREM OnlySentIfCaught ==
  ASSUME DistinctPayloads
  PROVE  Spec => [](ChecksumCatches => OnlySent)
<1>1. FramingInv => (ChecksumCatches => OnlySent)
  BY CaughtThenSent
<1>2. QED
  BY <1>1, SpecFraming, PTL

\* On a line that damages nothing it is so whatever the checksum is: escaping
\* alone keeps frames apart, and a frame heard from its middle on is skipped.
THEOREM OnlySentOnAQuietLine ==
  ASSUME DistinctPayloads
  PROVE  Spec => [](damaged = {} => OnlySent)
<1>1. FramingInv /\ damaged = {} => OnlySent
  BY CaughtThenSent DEF ChecksumCatches
<1>2. QED
  BY <1>1, SpecFraming, PTL

\* feed comes to an end: every step of _try_one is behind more octets than the
\* one before, finds a flag or looks at one more octet, and none goes back
\* behind an octet that was done with.
ParserAdvances ==
  [][Parse => \/ doing' = "idle" /\ start <= start'
              \/ start < start' /\ start' <= got
              \/ start = start' /\ doing = "seek" /\ doing' = "unstuff"
              \/ start = start' /\ doing' = doing /\ j < j' /\ j' <= got]_vars

THEOREM FeedEnds == Spec => ParserAdvances
<1>1. ASSUME FramingInv, Parse
      PROVE  \/ doing' = "idle" /\ start <= start'
             \/ start < start' /\ start' <= got
             \/ start = start' /\ doing = "seek" /\ doing' = "unstuff"
             \/ start = start' /\ doing' = doing /\ j < j' /\ j' <= got
  <2>1. Types /\ (doing = "unstuff" => start < flag_at)
    BY <1>1, TypesHold DEF FramingInv, ParserInv, Scanning
  <2>2. CASE NoFlagSeen
    BY <2>1, <2>2 DEF NoFlagSeen, Wait, Types
  <2>3. CASE FlagSeen
    BY <2>3 DEF FlagSeen
  <2>4. CASE NeedsMore
    BY <2>1, <2>4 DEF NeedsMore, Wait, Types
  <2>5. CASE Truncated
    BY <2>1, <2>5 DEF Truncated, GoOn, Types
  <2>6. CASE Unstuff
    BY <2>1, <2>6 DEF Unstuff, Types
  <2>7. CASE Implausible
    BY <2>1, <2>7 DEF Implausible, GoOn, Types
  <2>8. CASE Complete
    BY <2>1, <2>8 DEF Complete, GoOn, Types
  <2>9. QED
    BY <1>1, <2>2, <2>3, <2>4, <2>5, <2>6, <2>7, <2>8 DEF Parse
<1>2. FramingInv /\ [Next]_vars =>
        [Parse => \/ doing' = "idle" /\ start <= start'
                  \/ start < start' /\ start' <= got
                  \/ start = start' /\ doing = "seek" /\ doing' = "unstuff"
                  \/ start = start' /\ doing' = doing /\ j < j' /\ j' <= got]_vars
  BY <1>1
<1>3. QED
  BY <1>2, SpecFraming, PTL DEF Spec, ParserAdvances
=============================================================================
