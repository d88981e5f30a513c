------------------------------ MODULE Framing ------------------------------
(***************************************************************************)
(* A serial line between the Agent and the board (transport/framing.py,    *)
(* transport/serial.py): frames of stuffed octets with a checksum over the *)
(* payload, a parser that is fed whatever chunk the line has, and the      *)
(* queue from which recv hands one payload at a time to the session.       *)
(*                                                                         *)
(* Octets are what they are on the line.  A frame may be damaged as it is  *)
(* sent: cut off, or one octet of it lost, changed or added.  Positions    *)
(* are counted from the first octet the line carried to the board, so that *)
(* compacting the buffer changes nothing.                                  *)
(***************************************************************************)
EXTENDS Integers, Sequences, FiniteSets, SequencesExt

CONSTANTS
  Payloads,     \* the payloads sent, one frame each, in order
  crc16,        \* the checksum of a payload
  MaxPayload,   \* the parser's limit on a payload's length
  ChunkSizes,   \* how many octets a read of the stream may return
  Noise,        \* the octets that noise puts on the line
  MaxDamaged,   \* how many frames may be damaged
  Missed        \* how many octets pass before the board listens

Octet == 0..255
Sixteen == 65536    \* lengths and checksums are numbers of 16 bits

ASSUME FramingAssumption ==
  /\ Payloads \in Seq(Seq(Octet)) /\ Payloads # << >>
  /\ MaxPayload \in Nat /\ MaxPayload < Sixteen
  /\ \A k \in DOMAIN Payloads :
       /\ Len(Payloads[k]) <= MaxPayload
       /\ crc16[Payloads[k]] \in Nat /\ crc16[Payloads[k]] < Sixteen
  /\ ChunkSizes \subseteq Nat \ {0} /\ Noise \subseteq Octet
  /\ MaxDamaged \in Nat /\ Missed \subseteq Nat \ {0}

BEGIN_FLAG == 126
ESC_FLAG == 125
XOR_FLAG == 32
Special == {BEGIN_FLAG, ESC_FLAG}

\* octet ^ XOR_FLAG, which turns one bit over.
Flipped(octet) ==
  IF (octet \div XOR_FLAG) % 2 = 1 THEN octet - XOR_FLAG ELSE octet + XOR_FLAG

(***************************************************************************)
(* A frame.                                                                *)
(***************************************************************************)
TwoOctets(n) == <<n % 256, (n \div 256) % 256>>

\* Header, payload and checksum, before stuffing.
Body(payload) ==
  <<0, 0>> \o TwoOctets(Len(payload)) \o payload \o TwoOctets(crc16[payload])

\* How many octets the first i octets of data are stuffed into.
Stuffed(data, i) == i + Cardinality({m \in 1..i : data[m] \in Special})

\* Which octet of data the one at place p is of, once stuffed.
StuffedAt(data, p) ==
  CHOOSE i \in DOMAIN data : Stuffed(data, i - 1) < p /\ p <= Stuffed(data, i)

Stuff(data) ==
  [p \in 1..Stuffed(data, Len(data)) |->
     LET i == StuffedAt(data, p) IN
     CASE data[i] \notin Special -> data[i]
       [] data[i] \in Special /\ p < Stuffed(data, i) -> ESC_FLAG
       [] data[i] \in Special /\ p = Stuffed(data, i) -> Flipped(data[i])]

encode_frame(payload) == <<BEGIN_FLAG>> \o Stuff(Body(payload))

(***************************************************************************)
(* What the line does to a frame.                                          *)
(***************************************************************************)
From(s, i) == SubSeq(s, i, Len(s))
Without(s, i) == SubSeq(s, 1, i - 1) \o From(s, i + 1)
Damage(frame) ==
  {SubSeq(frame, 1, i) : i \in 0..(Len(frame) - 1)}
  \cup {Without(frame, i) : i \in DOMAIN frame}
  \cup (UNION {{[frame EXCEPT ![i] = o] : o \in Noise} : i \in DOMAIN frame})
  \cup (UNION {{SubSeq(frame, 1, i) \o <<o>> \o From(frame, i + 1) : o \in Noise} :
                i \in DOMAIN frame})

VARIABLES
  sent,       \* frames sent
  damaged,    \* which of them were damaged
  at,         \* where on the line each of them begins (history)
  line,       \* every octet the line has carried
  got,        \* how many of them the board has read
  start,      \* how many of them the parser is done with
  doing,      \* the loop the parser is in: idle, seek (a flag) or unstuff
  flag_at,    \* unstuff: where the flag is
  j,          \*   the last octet looked at
  vals,       \*   the values so far
  esc,        \*   was the last octet an escape
  pending,    \* payloads parsed and not handed over yet
  delivered,  \* payloads recv returned, in order
  origin      \* where the flags of delivered \o pending were (history)

agent == <<sent, damaged, at, line>>
loop == <<doing, flag_at, j, vals, esc>>
vars == <<agent, got, start, loop, pending, delivered, origin>>

\* The board may start listening in the middle of a frame.
Init ==
  /\ sent = 0 /\ damaged = {} /\ at = << >>
  /\ \E i \in Missed : line = From(encode_frame(Payloads[1]), i + 1)
  /\ got = 0 /\ start = 0
  /\ doing = "idle" /\ flag_at = 0 /\ j = 0 /\ vals = << >> /\ esc = FALSE
  /\ pending = << >> /\ delivered = << >> /\ origin = << >>

Send ==
  /\ sent < Len(Payloads)
  /\ sent' = sent + 1
  /\ at' = Append(at, Len(line) + 1)
  /\ LET frame == encode_frame(Payloads[sent']) IN
     \/ line' = line \o frame /\ UNCHANGED damaged
     \/ /\ Cardinality(damaged) < MaxDamaged
        /\ \E noisy \in Damage(frame) \ {frame} : line' = line \o noisy
        /\ damaged' = damaged \cup {sent'}
  /\ UNCHANGED <<got, start, loop, pending, delivered, origin>>

\* recv with payloads left over from an earlier read.
RecvPending ==
  /\ doing = "idle" /\ pending # << >>
  /\ delivered' = Append(delivered, Head(pending)) /\ pending' = Tail(pending)
  /\ UNCHANGED <<agent, got, start, loop, origin>>

\* recv reads what the stream has, at most a chunk, and feeds it to the parser.
RecvRead ==
  /\ doing = "idle" /\ pending = << >> /\ got < Len(line)
  /\ \E k \in {c \in ChunkSizes : c <= Len(line) - got} \cup {Len(line) - got} :
       got' = got + k
  /\ doing' = "seek"
  /\ UNCHANGED <<agent, start, flag_at, j, vals, esc, pending, delivered, origin>>

(***************************************************************************)
(* The parser: feed calls _try_one, which seeks a flag and unstuffs what   *)
(* follows it, one octet at a time, until it ends in one of these ways.    *)
(***************************************************************************)
LeaveLoop == flag_at' = 0 /\ j' = 0 /\ vals' = << >> /\ esc' = FALSE

\* More octets are needed, from place from on: feed returns, and recv hands
\* over the first payload that it completed, if any.
Wait(from) ==
  /\ start' = from
  /\ doing' = "idle" /\ LeaveLoop
  /\ \/ pending = << >> /\ UNCHANGED <<pending, delivered>>
     \/ /\ pending # << >>
        /\ delivered' = Append(delivered, Head(pending)) /\ pending' = Tail(pending)
  /\ UNCHANGED <<agent, got, origin>>

\* feed calls _try_one again, which goes on behind place from.
GoOn(from) ==
  /\ start' = from
  /\ doing' = "seek" /\ LeaveLoop
  /\ UNCHANGED <<agent, got, delivered>>

NoFlag(from, to) == \A i \in (from + 1)..to : line[i] # BEGIN_FLAG

NoFlagSeen ==
  /\ doing = "seek"
  /\ NoFlag(start, got)
  /\ Wait(got)

FlagSeen ==
  /\ doing = "seek"
  /\ \E f \in (start + 1)..got :
       /\ line[f] = BEGIN_FLAG /\ NoFlag(start, f - 1)
       /\ flag_at' = f /\ j' = f
  /\ doing' = "unstuff" /\ vals' = << >> /\ esc' = FALSE
  /\ UNCHANGED <<agent, got, start, pending, delivered, origin>>

NeedsMore ==
  /\ doing = "unstuff" /\ j = got
  /\ Wait(flag_at - 1)

\* Mutant: a flag behind an escape octet is taken for data.
NewFrame_Escaped(octet) == octet = BEGIN_FLAG /\ ~esc

\* A frame starts here, whatever was before it.
NewFrame(octet) == octet = BEGIN_FLAG

Truncated ==
  /\ doing = "unstuff" /\ j < got
  /\ NewFrame(line[j + 1])
  /\ GoOn(j) /\ UNCHANGED <<pending, origin>>

\* What the octet at place j + 1 adds to the values.
ValsNow ==
  LET octet == line[j + 1] IN
  CASE esc -> Append(vals, Flipped(octet))
    [] ~esc /\ octet = ESC_FLAG -> vals
    [] ~esc /\ octet # ESC_FLAG -> Append(vals, octet)

SizeIn(v) == v[3] + 256 * v[4]
TooLong(v) == Len(v) >= 4 /\ SizeIn(v) > MaxPayload
Whole(v) == Len(v) >= 4 /\ SizeIn(v) <= MaxPayload /\ Len(v) = SizeIn(v) + 6

\* Mutant: the checksum is not compared.
CrcMatches_Always(payload, lo, hi) == TRUE

CrcMatches(payload, lo, hi) == crc16[payload] = lo + 256 * hi

\* The octet at place j + 1 is data, and the frame goes on behind it.
Unstuff ==
  /\ doing = "unstuff" /\ j < got /\ ~NewFrame(line[j + 1])
  /\ ~TooLong(ValsNow) /\ ~Whole(ValsNow)
  /\ j' = j + 1 /\ vals' = ValsNow /\ esc' = (~esc /\ line[j + 1] = ESC_FLAG)
  /\ UNCHANGED <<agent, got, start, doing, flag_at, pending, delivered, origin>>

\* A length that cannot be: skip the flag.
Implausible ==
  /\ doing = "unstuff" /\ j < got /\ ~NewFrame(line[j + 1])
  /\ TooLong(ValsNow)
  /\ GoOn(flag_at) /\ UNCHANGED <<pending, origin>>

\* The frame ends here: keep its payload if the checksum is right.
Complete ==
  /\ doing = "unstuff" /\ j < got /\ ~NewFrame(line[j + 1])
  /\ Whole(ValsNow)
  /\ GoOn(j + 1)
  /\ LET v == ValsNow
         payload == SubSeq(v, 5, SizeIn(v) + 4)
     IN \/ /\ CrcMatches(payload, v[SizeIn(v) + 5], v[SizeIn(v) + 6])
           /\ pending' = Append(pending, payload) /\ origin' = Append(origin, flag_at)
        \/ /\ ~CrcMatches(payload, v[SizeIn(v) + 5], v[SizeIn(v) + 6])
           /\ UNCHANGED <<pending, origin>>

Parse == NoFlagSeen \/ FlagSeen \/ NeedsMore \/ Truncated \/ Unstuff \/ Implausible \/ Complete

Next == Send \/ RecvPending \/ RecvRead \/ Parse
Spec == Init /\ [][Next]_vars
-----------------------------------------------------------------------------
(***************************************************************************)
(* Properties.  Payloads are distinct, so a payload names its frame.       *)
(***************************************************************************)
TypeOK ==
  /\ sent \in 0..Len(Payloads) /\ damaged \subseteq 1..sent
  /\ line \in Seq(Octet) /\ at \in Seq(Nat \ {0}) /\ Len(at) = sent
  /\ got \in 0..Len(line) /\ start \in 0..got
  /\ doing \in {"idle", "seek", "unstuff"}
  /\ flag_at \in 0..got /\ j \in flag_at..got
  /\ vals \in Seq(Octet) /\ esc \in BOOLEAN
  /\ pending \in Seq(Seq(Octet)) /\ delivered \in Seq(Seq(Octet))
  /\ origin \in Seq(Nat \ {0}) /\ Len(origin) = Len(delivered) + Len(pending)

\* What recv returned is what was sent: nothing made up out of noise, nothing
\* twice, nothing out of order (the CRC, the pending queue).
OnlySent == /\ Range(delivered) \subseteq {Payloads[k] : k \in 1..sent}
            /\ \A i, k \in DOMAIN delivered : \A m, n \in DOMAIN Payloads :
                 i < k /\ delivered[i] = Payloads[m] /\ delivered[k] = Payloads[n] => m < n

\* Once the line is quiet every frame that was not damaged has been handed
\* over, whatever came before it and wherever the reads cut it: noise costs
\* the frames it touches ("Resynchronises on the next begin flag").
DamageContained ==
  doing = "idle" /\ got = Len(line) /\ pending = << >> =>
    \A k \in (1..sent) \ damaged : Payloads[k] \in Range(delivered)
=============================================================================
