------------------------------- MODULE Codec -------------------------------
(***************************************************************************)
(* CDR serialisation (cdr/writer.py, cdr/reader.py, msg/_base.py): the     *)
(* field loop, the fast path for messages of primitives only, alignment    *)
(* from the start of the buffer, and the bounds checks of the reader.      *)
(*                                                                         *)
(* The recursion of the code is a list of what is still to do: a field is  *)
(* taken off its front, what is inside it is put there.  What reaches the  *)
(* wire are the leaves of a message, its numbers, strings and lengths of   *)
(* sequences.  A number of s octets is itself and s - 1 zeros, a Boolean 0 *)
(* or 1.  The datagram, which may have lost its end, is then read.         *)
(***************************************************************************)
EXTENDS Integers, Sequences

CONSTANTS
  Schema,      \* the fields of every message type, as [of |-> code, n |-> count]
  Misaligned,  \* types with a field that the fast path pads where CDR does not
  Responses,   \* types a service replies with
  content,     \* by message, what its i-th leaf is, whatever kind of leaf it is
  MaxAlloc     \* MAX_ALLOC

Primitives == {"b", "o", "1", "c", "s", "S", "i", "I", "f", "l", "L", "d"}

Codes == Primitives \cup {"T"} \cup DOMAIN Schema

\* Octets of a primitive (_PRIM).
Size(c) == CASE c \in {"b", "o", "1", "c"} -> 1
             [] c \in {"s", "S"} -> 2
             [] c \in {"i", "I", "f"} -> 4
             [] OTHER -> 8

\* Fixed-size primitives only, at least one: one struct.pack writes them all.
Fast(t) == /\ Schema[t] # << >>
           /\ \A i \in DOMAIN Schema[t] : Schema[t][i].n = 1 /\ Schema[t][i].of \in Primitives

\* Mutant: the fast path starts wherever the last field ended.
MaxAlign_Lost(t) == 1

MaxAlign(t) == CHOOSE k \in {1, 2, 4, 8} :
                 /\ \E i \in DOMAIN Schema[t] : Size(Schema[t][i].of) = k
                 /\ \A i \in DOMAIN Schema[t] : Size(Schema[t][i].of) <= k

(***************************************************************************)
(* What is to do: fields [of, n, from].  An n of 1 is a field by itself, a *)
(* negative one a sequence, any other an array.  from is where alignment   *)
(* counts from: the struct format of the fast path pads from the first     *)
(* octet of its message, everything else from the start of the buffer.     *)
(***************************************************************************)
Whole(t) == <<[of |-> t, n |-> 1, from |-> 0]>>

IsLeaf(f) == f.n < 0 \/ (f.n = 1 /\ f.of \in Primitives \cup {"T"})
Code(f) == IF f.n < 0 THEN "I" ELSE f.of
Alignment(c) == IF c = "T" THEN Size("I") ELSE Size(c)
Entered(f) == f.n = 1 /\ ~IsLeaf(f)

Pad(offset, size) == (-offset) % size

\* Where field f begins if the last one ended at p.
Place(f, p) == IF IsLeaf(f) THEN p + Pad(p - f.from, Alignment(Code(f)))
               ELSE IF Entered(f) /\ Fast(f.of) THEN p + Pad(p, MaxAlign(f.of))
               ELSE p

Elements(c, k) == [i \in 1..k |-> [of |-> c, n |-> 1, from |-> 0]]

FieldsOf(t, at) ==
  [i \in DOMAIN Schema[t] |-> [of |-> Schema[t][i].of, n |-> Schema[t][i].n,
                               from |-> IF Fast(t) THEN at ELSE 0]]

\* What takes the place of field f, which begins at and has k elements.
Inside(f, k, at) == IF f.n # 1 THEN Elements(f.of, k)
                    ELSE IF Entered(f) THEN FieldsOf(f.of, at)
                    ELSE << >>

(***************************************************************************)
(* Writing.                                                                *)
(***************************************************************************)
Zeros(k) == [i \in 1..k |-> 0]
Number(c, v) == <<v>> \o Zeros(Size(c) - 1)

\* Mutant: a string's length leaves out the null that ends it.
Octets_NoNull(c, v) == IF c = "T" THEN Number("I", Len(v)) \o v \o <<0>> ELSE Number(c, v)

Octets(c, v) == IF c = "T" THEN Number("I", Len(v) + 1) \o v \o <<0>> ELSE Number(c, v)

Value(f, leaf) == IF f.n < 0 THEN leaf.count
                  ELSE IF f.of = "T" THEN leaf.text
                  ELSE IF f.of = "b" /\ leaf.number # 0 THEN 1
                  ELSE leaf.number

(***************************************************************************)
(* Reading from a buffer.                                                  *)
(***************************************************************************)
\* Mutant: one octet too few is let through.
Need_OffByOne(b, p, k) == p + k <= Len(b) + 1

Need(b, p, k) == p + k <= Len(b)

Octet(b, p) == IF p < Len(b) THEN b[p + 1] ELSE 0

\* Octets first to last, as far as there are any: a slice of Python's.
Slice(b, first, last) == SubSeq(b, first, IF last <= Len(b) THEN last ELSE Len(b))

\* The octets that leaf f takes at p, and what it reads as.
Extent(f, b, p) == IF Code(f) = "T" THEN Size("I") + Octet(b, p) ELSE Size(Code(f))

Fits(f, b, p) == /\ Need(b, p, Alignment(Code(f)))
                 /\ (f.n < 0 \/ f.of = "T") => Octet(b, p) <= MaxAlloc
                 /\ Need(b, p, Extent(f, b, p))

Reads(f, b, p) == IF Code(f) = "T" THEN Slice(b, p + 5, p + Octet(b, p) + 3)
                  ELSE IF Code(f) = "b" /\ Octet(b, p) # 0 THEN 1
                  ELSE Octet(b, p)

(***************************************************************************)
(* A requester's reply: the Agent puts the related request before the      *)
(* body, and the client tries the offsets it knows (ServiceClient._decode).*)
(***************************************************************************)
RelatedRequest == <<1, 0, 2, 6>>

\* Mutant: the body is tried at the start of the payload first.
ReplyOffsets_BareFirst == <<0, 4, 24>>

ReplyOffsets == <<4, 0, 24>>

(***************************************************************************)
(* One message, from its publisher or server to its reader.                *)
(***************************************************************************)
VARIABLES
  stage,    \* "writing", "trying" offsets, "reading", "read" or "refused"
  type,     \* the message's type
  message,  \* the message
  todo,     \* what is still to write, then what is still to read
  wire,     \* the octets written
  leaves,   \* history: every leaf written, as [of, at, v]
  payload,  \* the octets that arrived
  reply,    \* whether they are a service's reply
  cut,      \* whether some were lost
  offsets,  \* where the body of the message may still begin
  buf,      \* CDRReader.buf
  pos,      \* CDRReader.pos
  got       \* the leaves read

written == <<type, message, wire, leaves>>
arrived == <<payload, reply, cut>>
reader == <<offsets, buf>>
vars == <<stage, todo, pos, got, written, arrived, reader>>

Init ==
  /\ stage = "writing" /\ type \in DOMAIN Schema /\ message \in DOMAIN content
  /\ todo = Whole(type) /\ wire = << >> /\ leaves = << >>
  /\ payload = << >> /\ reply = FALSE /\ cut = FALSE
  /\ offsets = << >> /\ buf = << >> /\ pos = 0 /\ got = << >>

\* _write_value of a primitive, a string or the length of a sequence; the
\* message of a run has leaves enough or is never written to its end.
WriteLeaf ==
  /\ stage = "writing" /\ todo # << >> /\ IsLeaf(Head(todo))
  /\ Len(leaves) < Len(content[message])
  /\ LET f == Head(todo)
         v == Value(f, content[message][Len(leaves) + 1])
         at == Place(f, Len(wire))
     IN /\ wire' = wire \o Zeros(at - Len(wire)) \o Octets(Code(f), v)
        /\ leaves' = Append(leaves, [of |-> Code(f), at |-> at, v |-> v])
        /\ todo' = Inside(f, v, at) \o Tail(todo)
  /\ UNCHANGED <<stage, type, message, pos, got, arrived, reader>>

\* The items of an array, or serialize_into a nested message.
WriteInside ==
  /\ stage = "writing" /\ todo # << >> /\ ~IsLeaf(Head(todo))
  /\ LET f == Head(todo)
         at == Place(f, Len(wire))
     IN /\ wire' = wire \o Zeros(at - Len(wire))
        /\ todo' = Inside(f, f.n, at) \o Tail(todo)
  /\ UNCHANGED <<stage, type, message, leaves, pos, got, arrived, reader>>

\* The datagram arrives, whole or without its last octets.
Deliver(datagram, places) ==
  /\ stage = "writing" /\ todo = << >>
  /\ \E k \in 0..Len(datagram) : payload' = SubSeq(datagram, 1, k) /\ cut' = (k < Len(datagram))
  /\ stage' = "trying" /\ offsets' = places
  /\ UNCHANGED <<todo, pos, got, written, buf>>

Publish == Deliver(wire, <<0>>) /\ reply' = FALSE
Respond == type \in Responses /\ Deliver(RelatedRequest \o wire, ReplyOffsets) /\ reply' = TRUE

\* The next offset the payload reaches to: deserialize(payload[offset:]).
Try ==
  /\ stage = "trying" /\ offsets # << >>
  /\ offsets' = Tail(offsets)
  /\ IF Len(payload) < Head(offsets) THEN UNCHANGED <<stage, todo, buf, pos, got>>
     ELSE /\ stage' = "reading" /\ todo' = Whole(type)
          /\ buf' = SubSeq(payload, Head(offsets) + 1, Len(payload))
          /\ pos' = 0 /\ got' = << >>
  /\ UNCHANGED <<written, arrived>>

Refuse ==
  /\ stage = "trying" /\ offsets = << >>
  /\ stage' = "refused"
  /\ UNCHANGED <<todo, pos, got, written, arrived, reader>>

ReadLeaf ==
  /\ stage = "reading" /\ todo # << >> /\ IsLeaf(Head(todo))
  /\ LET f == Head(todo)
         at == Place(f, pos)
     IN /\ Fits(f, buf, at)
        /\ pos' = at + Extent(f, buf, at)
        /\ got' = Append(got, Reads(f, buf, at))
        /\ todo' = Inside(f, Reads(f, buf, at), at) \o Tail(todo)
  /\ UNCHANGED <<stage, written, arrived, reader>>

\* CDRTruncated, or an implausible length.
ReadFails ==
  /\ stage = "reading" /\ todo # << >> /\ IsLeaf(Head(todo))
  /\ ~Fits(Head(todo), buf, Place(Head(todo), pos))
  /\ stage' = "trying"
  /\ UNCHANGED <<todo, pos, got, written, arrived, reader>>

\* The fast path needs all its octets at once: reading them one field after
\* another fails if and only if that does.
ReadInside ==
  /\ stage = "reading" /\ todo # << >> /\ ~IsLeaf(Head(todo))
  /\ LET f == Head(todo)
         at == Place(f, pos)
     IN pos' = at /\ todo' = Inside(f, f.n, at) \o Tail(todo)
  /\ UNCHANGED <<stage, got, written, arrived, reader>>

Return ==
  /\ stage = "reading" /\ todo = << >>
  /\ stage' = "read"
  /\ UNCHANGED <<todo, pos, got, written, arrived, reader>>

Next == \/ WriteLeaf \/ WriteInside \/ Publish \/ Respond
        \/ Try \/ Refuse \/ ReadLeaf \/ ReadFails \/ ReadInside \/ Return
Spec == Init /\ [][Next]_vars
-----------------------------------------------------------------------------
(***************************************************************************)
(* Assumptions.                                                            *)
(***************************************************************************)
Leaves == [number : Nat, text : Seq(Nat), count : Nat]

\* No string or sequence is longer than the reader believes in.
ASSUME ContentAssumption ==
  \A m \in DOMAIN content :
    /\ content[m] \in Seq(Leaves)
    /\ \A i \in DOMAIN content[m] : /\ Len(content[m][i].text) < MaxAlloc
                                    /\ content[m][i].count <= MaxAlloc

\* Every code is known, and no type is one: MessageDefinitionError for others.
ASSUME SchemaAssumption ==
  /\ MaxAlloc \in Nat
  /\ DOMAIN Schema \cap (Primitives \cup {"T"}) = {}
  /\ \A t \in DOMAIN Schema : Schema[t] \in Seq([of : Codes, n : Int])

\* Misaligned has every type with a field of a type in it, or of a fast type
\* that does not begin with its largest field.
ASSUME MisalignedAssumption ==
  \A t \in DOMAIN Schema \ Misaligned : \A i \in DOMAIN Schema[t] :
    LET c == Schema[t][i].of IN
    c \in DOMAIN Schema =>
      /\ c \notin Misaligned
      /\ Fast(c) => \A j \in DOMAIN Schema[c] : Size(Schema[c][j].of) <= Size(Schema[c][1].of)
-----------------------------------------------------------------------------
(***************************************************************************)
(* Properties.                                                             *)
(***************************************************************************)
Sent == [i \in DOMAIN leaves |-> leaves[i].v]
Done == stage \in {"read", "refused"}

\* What the reader makes of a whole datagram is the message that was written,
\* to its last octet (test_messages.py: every shipped type there and back).
RoundTrip == Done /\ ~reply /\ ~cut => stage = "read" /\ got = Sent /\ pos = Len(wire)

\* A datagram that lost octets is refused, wherever the cut falls, and never
\* taken for a shorter message (CDRReader._need).
TruncationCaught == Done /\ ~reply /\ cut => stage = "refused"

\* A service's reply is read behind the related request the Agent prepends:
\* no other offset is taken for it (ServiceClient._decode).
ReplyDecoded == Done /\ reply /\ ~cut => stage = "read" /\ got = Sent /\ pos = Len(wire)

\* Where the octets of the first i leaves end.
EndOf(i) == IF i = 0 THEN 0 ELSE leaves[i].at + Len(Octets(leaves[i].of, leaves[i].v))

\* The octets are CDR's, so that a ROS 2 node reads the fields that were
\* written: every leaf at the first multiple of its size behind the last one,
\* zeros between them and nothing else (writer.py, Msg._fast, Msg._max_align).
WireIsCDR ==
  stage = "writing" /\ todo = << >> /\ type \notin Misaligned =>
    /\ Len(wire) = EndOf(Len(leaves))
    /\ \A i \in DOMAIN leaves :
         LET l == leaves[i] IN
         /\ l.at % Alignment(l.of) = 0
         /\ l.at - EndOf(i - 1) \in 0..(Alignment(l.of) - 1)
         /\ SubSeq(wire, EndOf(i - 1) + 1, EndOf(i)) = Zeros(l.at - EndOf(i - 1)) \o Octets(l.of, l.v)
=============================================================================
