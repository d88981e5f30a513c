------------------------ MODULE ReliableStreamProofs ------------------------
(***************************************************************************)
(* Theorems about ReliableStream.  The first part, types and the window,   *)
(* is for every window, retry limit, bitmap, sequence space, nesting depth *)
(* and amount of traffic.  The second part: the stream lets go of no       *)
(* datagram the Agent still needs (Retained, HeartbeatTruthful), and       *)
(* implements StreamDelivery.  It is for SimpleTraffic and every window,   *)
(* retry limit, bitmap width, sequence space and starting number, and for  *)
(* behaviours of any length, however often the numbers wrap, as long as    *)
(* nothing is under way for half a circle (ReachSpec).                     *)
(***************************************************************************)
EXTENDS ReliableStream, FiniteSetTheorems, TLAPS

-----------------------------------------------------------------------------
(* What the modular comparison of snakeros/xrce/reliable.py is good for:   *)
(* as long as two numbers are less than half the sequence space apart it   *)
(* orders them as the unbounded counts they stand for, across the wrap.    *)

\* Euclidean division, as the prover knows it.
LEMMA DivMod ==
  ASSUME NEW M \in Nat \ {0}, NEW d \in Int
  PROVE  /\ d \div M \in Int
         /\ d % M \in 0 .. M - 1
         /\ d = M * (d \div M) + (d % M)
OBVIOUS

\* A positive multiple of M is at least M.
LEMMA MultipleAtLeast ==
  ASSUME NEW M \in Nat \ {0}, NEW k \in Int, k >= 1
  PROVE  M * k >= M
OBVIOUS

\* The remainder of a division is unique.
LEMMA ModUnique ==
  ASSUME NEW M \in Nat \ {0}, NEW q \in Int, NEW r \in 0 .. M - 1
  PROVE  (M * q + r) % M = r
<1> DEFINE d == M * q + r
           p == d \div M
<1>1. d \in Int /\ M * q \in Int
  OBVIOUS
<1>2. p \in Int /\ d % M \in 0 .. M - 1 /\ d = M * p + (d % M)
  BY <1>1, DivMod
<1> HIDE DEF p, d
<1>3. d = M * q + r
  BY DEF d
<1>4. M * (q - p) = (d % M) - r
  <2>1. M * (q - p) = M * q - M * p
    BY <1>2
  <2>2. QED
    BY <2>1, <1>2, <1>3
<1>5. ~(q - p >= 1)
  BY <1>2, <1>4, MultipleAtLeast
<1>6. ~(p - q >= 1)
  <2>1. M * (p - q) = -(M * (q - p))
    BY <1>2
  <2>2. QED
    BY <2>1, <1>2, <1>4, MultipleAtLeast
<1>7. p = q
  BY <1>2, <1>5, <1>6
<1>8. QED
  BY <1>2, <1>3, <1>7 DEF d

\* The modulus is a positive even number.
LEMMA SeqModPositive == SeqMod \in Nat \ {0} /\ SeqMod = Half + Half /\ Half \in Nat \ {0}
BY HalfAssumption DEF SeqMod

\* Both facts for the modulus of the sequence numbers.
LEMMA SeqDivMod ==
  ASSUME NEW d \in Int
  PROVE  \E q \in Int, r \in 0 .. SeqMod - 1 :
           d % SeqMod = r /\ d = SeqMod * q + r
<1>1. SeqMod \in Nat \ {0}
  BY SeqModPositive
<1> HIDE DEF SeqMod
<1>2. QED
  BY <1>1, DivMod

LEMMA SeqModUnique ==
  ASSUME NEW q \in Int, NEW r \in 0 .. SeqMod - 1
  PROVE  (SeqMod * q + r) % SeqMod = r
BY SeqModPositive, ModUnique

\* Adding or removing multiples of the modulus does not change a remainder.
LEMMA ModShift ==
  ASSUME NEW d \in Int, NEW k \in Int
  PROVE  (d + SeqMod * k) % SeqMod = d % SeqMod
<1>1. PICK q \in Int, r \in 0 .. SeqMod - 1 :
        d % SeqMod = r /\ d = SeqMod * q + r
  BY SeqDivMod
<1>2. d + SeqMod * k = SeqMod * (q + k) + r
  BY <1>1, SeqModPositive
<1>3. (SeqMod * (q + k) + r) % SeqMod = r
  <2>1. q + k \in Int
    OBVIOUS
  <2>2. QED
    BY <2>1, SeqModUnique
<1>4. QED
  BY <1>1, <1>2, <1>3

\* The distance of two sequence numbers is that of the counts they stand for.
LEMMA DistanceOfCounts ==
  ASSUME NEW x \in Int, NEW y \in Int
  PROVE  ((y % SeqMod) - (x % SeqMod)) % SeqMod = (y - x) % SeqMod
<1>1. PICK p \in Int, v \in 0 .. SeqMod - 1 :
        x % SeqMod = v /\ x = SeqMod * p + v
  BY SeqDivMod
<1>2. PICK q \in Int, w \in 0 .. SeqMod - 1 :
        y % SeqMod = w /\ y = SeqMod * q + w
  BY SeqDivMod
<1>3. w - v = (y - x) + SeqMod * (p - q)
  BY <1>1, <1>2, SeqModPositive
<1>4. ((y - x) + SeqMod * (p - q)) % SeqMod = (y - x) % SeqMod
  <2>1. y - x \in Int /\ p - q \in Int
    OBVIOUS
  <2>2. QED
    BY <2>1, ModShift
<1>5. QED
  BY <1>1, <1>2, <1>3, <1>4

\* A distance within half the space keeps its sign through the modulus.
LEMMA SignOfDistance ==
  ASSUME NEW d \in Int, -Half < d, d < Half
  PROVE  (d % SeqMod # 0 /\ d % SeqMod < Half) <=> d > 0
<1>1. CASE d >= 0
  <2>1. d % SeqMod = d
    BY <1>1, SeqModPositive
  <2>2. QED
    BY <1>1, <2>1
<1>2. CASE d < 0
  <2>1. d + SeqMod \in 0 .. SeqMod - 1 /\ d = SeqMod * (-1) + (d + SeqMod)
    BY <1>2, SeqModPositive
  <2>2. d % SeqMod = d + SeqMod
    BY <2>1, ModUnique, SeqModPositive
  <2>3. QED
    BY <1>2, <2>2, SeqModPositive
<1>3. QED
  BY <1>1, <1>2

\* seq_lt orders two counts less than half the sequence space apart, also
\* when the 16-bit numbers that carry them have wrapped in between.
THEOREM WindowOrder ==
  ASSUME NEW x \in Int, NEW y \in Int, -Half < y - x, y - x < Half
  PROVE  seq_lt(x % SeqMod, y % SeqMod) <=> x < y
<1>1. y - x \in Int
  OBVIOUS
<1>2. seq_lt(x % SeqMod, y % SeqMod)
        <=> ((y - x) % SeqMod # 0 /\ (y - x) % SeqMod < Half)
  BY DistanceOfCounts DEF seq_lt
<1>3. QED
  BY <1>1, <1>2, SignOfDistance

\* seq_add is addition of counts.
THEOREM AddCounts ==
  ASSUME NEW x \in Int, NEW n \in Int
  PROVE  seq_add(x % SeqMod, n) = (x + n) % SeqMod
<1>1. PICK p \in Int, v \in 0 .. SeqMod - 1 :
        x % SeqMod = v /\ x = SeqMod * p + v
  BY SeqDivMod
<1>2. v + n = (x + n) + SeqMod * (-p)
  BY <1>1, SeqModPositive
<1>3. ((x + n) + SeqMod * (-p)) % SeqMod = (x + n) % SeqMod
  <2>1. x + n \in Int /\ -p \in Int
    OBVIOUS
  <2>2. QED
    BY <2>1, ModShift
<1>4. QED
  BY <1>1, <1>2, <1>3 DEF seq_add

-----------------------------------------------------------------------------
(* Sequence numbers and frames.                                            *)

LEMMA SeqNumsArith ==
  /\ SeqMod \in Nat \ {0}
  /\ \A s \in Int : s % SeqMod \in SeqNums
  /\ \A s \in SeqNums : s \in Int
  /\ \A s \in Keys : s \in Int
  /\ SeqNums \subseteq Keys
  /\ \A s \in SeqNums : s # Absent
<1>1. SeqMod \in Nat \ {0}
  BY SeqModPositive
<1>2. QED
  BY <1>1 DEF SeqNums, Keys, Absent

LEMMA AddInSeqNums ==
  ASSUME NEW s \in SeqNums, NEW n \in Int
  PROVE  seq_add(s, n) \in SeqNums
BY SeqNumsArith DEF seq_add

\* The key of a datagram is a key of the buffer, whichever counter gives it.
LEMMA KeyTyped ==
  ASSUME TypeOK, NEW kind
  PROVE  KeyOf(kind) \in Keys
<1>1. SeqMod \in Nat \ {0} /\ seq_add(outSeq, 1) \in SeqNums
  BY SeqNumsArith, AddInSeqNums DEF TypeOK
<1>2. seq_add(outSeq, 1) - 1 \in Keys
  BY <1>1 DEF SeqNums, Keys
<1>3. nextSeq \in Keys
  BY SeqNumsArith DEF TypeOK
<1>4. QED
  BY <1>2, <1>3 DEF KeyOf

LEMMA RunningTyped ==
  ASSUME NEW kind \in {"plain", "fragment"}, NEW left \in 0 .. MaxFragments
  PROVE  Running(kind, left) \in Frames
<1>1. 0 \in Keys
  BY SeqNumsArith DEF SeqNums, Keys
<1>2. QED
  BY <1>1 DEF Running, Frames

LEMMA PutSubset ==
  ASSUME NEW net, NEW message
  PROVE  Put(net, message) \subseteq net \cup {message}
BY DEF Put

\* The innermost send in progress is a well formed frame.
LEMMA TopFrame ==
  ASSUME TypeOK, depth > 0
  PROVE  /\ depth \in 1 .. MaxDepth
         /\ frame[depth] \in Frames
         /\ frame[depth].left \in 1 .. MaxFragments
         /\ frame[depth].kind \in {"plain", "fragment"}
         /\ frame[depth].key \in Keys
         /\ frame[depth].datagram \in Nat
<1>1. depth \in 1 .. MaxDepth /\ depth \in 1 .. depth
  BY StreamAssumption DEF TypeOK
<1>2. frame[depth] \in Frames /\ frame[depth].left > 0
  BY <1>1 DEF TypeOK
<1>3. QED
  BY <1>1, <1>2, StreamAssumption DEF Frames

\* The part of TypeOK about the call stack.
StackOK ==
  /\ depth \in 0 .. MaxDepth
  /\ frame \in [1 .. MaxDepth -> Frames]
  /\ \A d \in 1 .. depth : frame[d].left > 0

\* Finishing a datagram leaves a well formed stack.
LEMMA DatagramDoneTyped ==
  ASSUME TypeOK, DatagramDone, depth > 0
  PROVE  StackOK'
<1>1. /\ depth \in 1 .. MaxDepth /\ frame[depth].left \in 1 .. MaxFragments
      /\ frame[depth].kind \in {"plain", "fragment"}
  BY TopFrame
<1>2. CASE frame[depth].left = 1
  <2>1. depth' = depth - 1 /\ frame' = [frame EXCEPT ![depth] = NoFrame]
    BY <1>2 DEF DatagramDone
  <2>2. NoFrame \in Frames
    BY RunningTyped, StreamAssumption DEF NoFrame
  <2>3. QED
    BY <1>1, <2>1, <2>2, StreamAssumption DEF TypeOK, StackOK
<1>3. CASE frame[depth].left # 1
  <2> DEFINE next == Running(frame[depth].kind, frame[depth].left - 1)
  <2>1. depth' = depth /\ frame' = [frame EXCEPT ![depth] = next]
    BY <1>3 DEF DatagramDone
  <2>2. next \in Frames
    BY <1>1, RunningTyped, StreamAssumption
  <2>3. next.left > 0
    BY <1>1, <1>3 DEF Running
  <2> HIDE DEF next
  <2>4. QED
    BY <1>1, <2>1, <2>2, <2>3, StreamAssumption DEF TypeOK, StackOK
<1>4. QED
  BY <1>2, <1>3

\* A heartbeat that leaves is well formed.
LEMMA SendHeartbeatTyped ==
  ASSUME TypeOK, SendHeartbeat
  PROVE  hbs' \subseteq Heartbeats
<1>1. PICK first \in Buffered, last \in Buffered :
        hbs' = Put(hbs, [first |-> first % SeqMod, last |-> last % SeqMod])
  BY DEF SendHeartbeat
<1>2. [first |-> first % SeqMod, last |-> last % SeqMod] \in Heartbeats
  BY SeqNumsArith DEF Buffered, Heartbeats
<1>3. QED
  BY <1>1, <1>2, PutSubset DEF TypeOK

-----------------------------------------------------------------------------
(* Type correctness.                                                       *)

LEMMA InitTypeOK == Init => TypeOK
<1> SUFFICES ASSUME Init PROVE TypeOK
  OBVIOUS
<1>1. NoFrame \in Frames
  BY RunningTyped, StreamAssumption DEF NoFrame
<1>2. 0 \in SeqNums
  BY SeqNumsArith DEF SeqNums
<1>3. QED
  BY <1>1, <1>2, StreamAssumption DEF Init, TypeOK

LEMMA BeginTypeOK ==
  ASSUME TypeOK, NEW kind \in {"plain", "fragment"},
         NEW parts \in 1 .. MaxFragments, Begin(kind, parts)
  PROVE  TypeOK'
<1>1. Running(kind, parts) \in Frames
  BY RunningTyped
<1>2. Running(kind, parts).left = parts
  BY DEF Running
<1>3. StackOK'
  BY <1>1, <1>2, StreamAssumption DEF TypeOK, Begin, StackOK
<1>4. begun' \in 0 .. MaxMessages
  BY StreamAssumption DEF TypeOK, Begin
<1>5. QED
  BY <1>3, <1>4 DEF TypeOK, StackOK, Begin, network, agent

LEMMA StoreTypeOK ==
  ASSUME TypeOK, NEW key \in Keys, NEW datagram \in Nat, Store(key, datagram)
  PROVE  /\ buf' \in [Keys -> Nat \cup {Absent}]
         /\ tries' \in [Keys -> 0 .. MaxRetries]
BY StreamAssumption DEF TypeOK, Store

LEMMA TakeSeqTypeOK ==
  ASSUME TypeOK, NEW kind, TakeSeq(kind)
  PROVE  outSeq' \in SeqNums /\ nextSeq' \in SeqNums /\ taken' \in Nat
BY AddInSeqNums DEF TypeOK, TakeSeq

LEMMA SendBufferedTypeOK ==
  ASSUME TypeOK, SendBuffered
  PROVE  TypeOK'
<1>1. depth > 0
  BY DEF SendBuffered, Sending
<1>2. StackOK'
  BY <1>1, DatagramDoneTyped DEF SendBuffered
<1>3. outSeq' \in SeqNums /\ nextSeq' \in SeqNums /\ taken' \in Nat
  BY TakeSeqTypeOK DEF SendBuffered
<1>4. /\ buf' \in [Keys -> Nat \cup {Absent}]
      /\ tries' \in [Keys -> 0 .. MaxRetries]
  <2>1. KeyOf(frame[depth].kind) \in Keys /\ taken \in Nat
    BY KeyTyped DEF TypeOK
  <2>2. QED
    BY <2>1, StoreTypeOK DEF SendBuffered
<1>5. QED
  BY <1>2, <1>3, <1>4 DEF TypeOK, StackOK, SendBuffered, agent

LEMMA SendBlockedTypeOK ==
  ASSUME TypeOK, SendBlocked
  PROVE  TypeOK'
<1>1. depth > 0
  BY DEF SendBlocked, Sending
<1>2. KeyOf(frame[depth].kind) \in Keys
  BY KeyTyped
<1>3. StackOK'
  <2> DEFINE held == [frame[depth] EXCEPT !.waiting = TRUE, !.datagram = taken,
                                          !.key = KeyOf(frame[depth].kind)]
  <2>1. frame' = [frame EXCEPT ![depth] = held] /\ depth' = depth
    BY DEF SendBlocked
  <2>2. frame[depth] \in Frames /\ depth \in 1 .. MaxDepth
    BY <1>1, TopFrame
  <2>3. held \in Frames /\ held.left = frame[depth].left
    BY <1>2, <2>2 DEF Frames, TypeOK
  <2> HIDE DEF held
  <2>4. QED
    BY <1>1, <2>1, <2>2, <2>3 DEF TypeOK, StackOK
<1>4. outSeq' \in SeqNums /\ nextSeq' \in SeqNums /\ taken' \in Nat
  BY TakeSeqTypeOK DEF SendBlocked
<1>5. hbs' \subseteq Heartbeats
  BY SendHeartbeatTyped DEF SendBlocked
<1>6. QED
  BY <1>3, <1>4, <1>5 DEF TypeOK, StackOK, SendBlocked, agent

LEMMA PollExpiresTypeOK ==
  ASSUME TypeOK, PollExpires
  PROVE  TypeOK'
<1>1. depth > 0
  BY DEF PollExpires
<1>2. frame[depth].key \in Keys /\ frame[depth].datagram \in Nat
  BY <1>1, TopFrame
<1>3. StackOK'
  BY <1>1, DatagramDoneTyped DEF PollExpires
<1>4. /\ buf' \in [Keys -> Nat \cup {Absent}]
      /\ tries' \in [Keys -> 0 .. MaxRetries]
      /\ forgone' \subseteq Nat
  BY <1>2, StoreTypeOK DEF PollExpires, TypeOK
<1>5. data' \subseteq Nat
  BY <1>2 DEF PollExpires, TypeOK
<1>6. QED
  BY <1>3, <1>4, <1>5 DEF TypeOK, StackOK, PollExpires, agent

LEMMA RecvAcknackTypeOK ==
  ASSUME TypeOK, NEW a \in acks, RecvAcknack(a)
  PROVE  TypeOK'
<1> DEFINE acked == {k \in Buffered : seq_lt(k, a.first)}
           nacked == {k \in Buffered \ acked :
                        \E b \in a.bits : k = seq_add(a.first, b)}
           dead == {k \in nacked : tries[k] + 1 > MaxRetries}
           resent == nacked \ dead
<1>1. \A k \in Buffered : k \in Keys /\ buf[k] \in Nat
  BY DEF Buffered, TypeOK
<1>2. resent \subseteq Buffered /\ dead \subseteq Buffered
  OBVIOUS
<1>3. \A k \in resent : tries[k] + 1 \in 0 .. MaxRetries
  BY <1>1, StreamAssumption DEF TypeOK
<1>4. buf' = [k \in Keys |-> IF k \in acked \cup dead THEN Absent ELSE buf[k]]
  BY DEF RecvAcknack
<1>5. tries' = [k \in Keys |-> IF k \in acked \cup dead THEN 0
                               ELSE IF k \in resent THEN tries[k] + 1
                               ELSE tries[k]]
  BY DEF RecvAcknack
<1>6. /\ data' = data \cup {buf[k] : k \in resent}
      /\ forgone' = forgone \cup {buf[k] : k \in dead}
      /\ UNCHANGED <<outSeq, nextSeq, depth, frame, begun, taken, hbs, acks, agent>>
  BY DEF RecvAcknack
<1> HIDE DEF acked, dead, resent
<1>7. buf' \in [Keys -> Nat \cup {Absent}]
  BY <1>4 DEF TypeOK
<1>8. tries' \in [Keys -> 0 .. MaxRetries]
  BY <1>3, <1>5, StreamAssumption DEF TypeOK
<1>9. data' \subseteq Nat /\ forgone' \subseteq Nat
  BY <1>1, <1>2, <1>6 DEF TypeOK
<1>10. QED
  BY <1>6, <1>7, <1>8, <1>9 DEF TypeOK, agent

LEMMA AgentHeartbeatTypeOK ==
  ASSUME TypeOK, NEW h \in hbs, AgentHeartbeat(h)
  PROVE  TypeOK'
<1> DEFINE first == IF seq_lt(expected, h.first) THEN h.first ELSE expected
           missing == {b \in 0 .. BitmapWidth - 1 :
                         LET s == seq_add(first, b)
                         IN  seq_le(s, h.last) /\ \A i \in received : Number(i) # s}
           answer == [first |-> first, bits |-> missing]
<1>1. first \in SeqNums
  BY DEF TypeOK, Heartbeats
<1>2. missing \in SUBSET (0 .. BitmapWidth - 1)
  OBVIOUS
<1>3. /\ expected' = first
      /\ received' \subseteq received
      /\ acks' = Put(acks, answer)
      /\ UNCHANGED <<client, data, hbs, delivered, forgone>>
  BY DEF AgentHeartbeat
<1> HIDE DEF first, missing
<1>4. answer \in Acknacks
  BY <1>1, <1>2 DEF Acknacks
<1> HIDE DEF answer
<1>5. acks' \subseteq Acknacks
  BY <1>3, <1>4, PutSubset DEF TypeOK
<1>6. QED
  BY <1>1, <1>3, <1>5 DEF TypeOK, client

\* Every step keeps every variable in its type.
LEMMA NextTypeOK == TypeOK /\ [Next]_vars => TypeOK'
<1> SUFFICES ASSUME TypeOK, [Next]_vars
             PROVE  TypeOK'
  OBVIOUS
<1>1. CASE BeginPlain
  <2>1. 1 \in 1 .. MaxFragments
    BY StreamAssumption
  <2>2. QED
    BY <1>1, <2>1, BeginTypeOK DEF BeginPlain
<1>2. CASE BeginFragmented
  <2>1. 2 .. MaxFragments \subseteq 1 .. MaxFragments
    BY StreamAssumption
  <2>2. QED
    BY <1>2, <2>1, BeginTypeOK DEF BeginFragmented
<1>3. CASE SendBuffered
  BY <1>3, SendBufferedTypeOK
<1>4. CASE SendBlocked
  BY <1>4, SendBlockedTypeOK
<1>5. CASE PollExpires
  BY <1>5, PollExpiresTypeOK
<1>6. CASE Heartbeat
  <2>1. hbs' \subseteq Heartbeats
    BY <1>6, SendHeartbeatTyped DEF Heartbeat
  <2>2. QED
    BY <1>6, <2>1 DEF TypeOK, Heartbeat, client, agent
<1>7. CASE \E a \in acks : RecvAcknack(a)
  BY <1>7, RecvAcknackTypeOK
<1>8. CASE \E i \in data : AgentData(i)
  BY <1>8 DEF AgentData, TypeOK, client, network
<1>9. CASE AgentHandle
  <2>1. expected' \in SeqNums
    BY <1>9, AddInSeqNums DEF AgentHandle, TypeOK
  <2>2. QED
    BY <1>9, <2>1 DEF AgentHandle, TypeOK, client, network
<1>10. CASE \E h \in hbs : AgentHeartbeat(h)
  BY <1>10, AgentHeartbeatTypeOK
<1>11. CASE LoseData
  BY <1>11 DEF LoseData, TypeOK, client, agent
<1>12. CASE LoseHeartbeat
  BY <1>12 DEF LoseHeartbeat, TypeOK, client, agent
<1>13. CASE LoseAcknack
  BY <1>13 DEF LoseAcknack, TypeOK, client, agent
<1>14. CASE UNCHANGED vars
  BY <1>14 DEF TypeOK, vars, client, network, agent
<1>15. QED
  BY <1>1, <1>2, <1>3, <1>4, <1>5, <1>6, <1>7, <1>8, <1>9, <1>10, <1>11,
     <1>12, <1>13, <1>14 DEF Next

\* Every variable keeps its type: in particular no send in progress ever has
\* a negative number of datagrams to go, and the call stack stays bounded.
THEOREM TypeCorrect == Spec => []TypeOK
<1>1. Init => TypeOK
  BY InitTypeOK
<1>2. TypeOK /\ [Next]_vars => TypeOK'
  BY NextTypeOK
<1>3. QED
  BY <1>1, <1>2, PTL DEF Spec

-----------------------------------------------------------------------------
(* The window is bounded, whatever traffic, nesting and collisions of keys.*)

LEMMA BufferedFinite ==
  /\ IsFiniteSet(Buffered) /\ IsFiniteSet(Buffered')
  /\ Cardinality(Buffered) \in Nat /\ Cardinality(Buffered') \in Nat
<1>1. IsFiniteSet(Keys)
  <2>1. -1 \in Int /\ SeqMod - 1 \in Int
    BY SeqNumsArith
  <2>2. QED
    BY <2>1, FS_Interval DEF Keys
<1>2. Buffered \subseteq Keys /\ Buffered' \subseteq Keys
  BY DEF Buffered
<1>3. QED
  BY <1>1, <1>2, FS_Subset, FS_CardinalityType

\* OutputReliableStream.add on a window with room keeps it within bounds.
LEMMA StoreBounded ==
  ASSUME TypeOK, NEW key \in Keys, NEW datagram \in Nat,
         ~Full, Store(key, datagram)
  PROVE  WindowBounded'
<1>1. Buffered' \subseteq Buffered \cup {key}
  BY DEF Buffered, Store, TypeOK
<1>2. /\ IsFiniteSet(Buffered \cup {key})
      /\ Cardinality(Buffered \cup {key}) <= Cardinality(Buffered) + 1
  <2>1. /\ IsFiniteSet(Buffered \cup {key})
        /\ Cardinality(Buffered \cup {key})
             = IF key \in Buffered THEN Cardinality(Buffered)
               ELSE Cardinality(Buffered) + 1
    BY BufferedFinite, FS_AddElement, Zenon
  <2>2. QED
    BY <2>1, BufferedFinite
<1>3. Cardinality(Buffered') <= Cardinality(Buffered \cup {key})
  BY <1>1, <1>2, FS_Subset
<1>4. Cardinality(Buffered) + 1 <= MaxBuffered
  BY BufferedFinite, StreamAssumption DEF Full
<1>5. Cardinality(Buffered \cup {key}) \in Nat
  BY <1>2, FS_CardinalityType
<1>6. QED
  BY <1>2, <1>3, <1>4, <1>5, BufferedFinite, StreamAssumption DEF WindowBounded

\* A step that leaves the buffer alone or only removes from it is harmless.
LEMMA ShrinkBounded ==
  ASSUME WindowBounded, Buffered' \subseteq Buffered
  PROVE  WindowBounded'
<1>1. Cardinality(Buffered') <= Cardinality(Buffered)
  BY BufferedFinite, FS_Subset
<1>2. QED
  BY <1>1, BufferedFinite, StreamAssumption DEF WindowBounded

LEMMA NextWindowBounded ==
  TypeOK /\ WindowBounded /\ [Next]_vars => WindowBounded'
<1> SUFFICES ASSUME TypeOK, WindowBounded, [Next]_vars
             PROVE  WindowBounded'
  OBVIOUS
<1>1. CASE SendBuffered
  <2>1. KeyOf(frame[depth].kind) \in Keys /\ taken \in Nat
    BY KeyTyped DEF TypeOK
  <2>2. QED
    BY <1>1, <2>1, StoreBounded DEF SendBuffered
<1>2. CASE PollExpires
  <2>1. frame[depth].key \in Keys /\ frame[depth].datagram \in Nat
    BY <1>2, TopFrame DEF PollExpires
  <2>2. CASE Full
    <3>1. buf' = buf
      BY <1>2, <2>2 DEF PollExpires
    <3>2. QED
      BY <3>1, ShrinkBounded DEF Buffered
  <2>3. CASE ~Full
    BY <1>2, <2>1, <2>3, StoreBounded DEF PollExpires
  <2>4. QED
    BY <2>2, <2>3
<1>3. CASE \E a \in acks : RecvAcknack(a)
  <2>1. \A k \in Keys : buf'[k] = Absent \/ buf'[k] = buf[k]
    BY <1>3 DEF RecvAcknack
  <2>2. Buffered' \subseteq Buffered
    BY <2>1 DEF Buffered
  <2>3. QED
    BY <2>2, ShrinkBounded
<1>4. CASE UNCHANGED buf
  BY <1>4, ShrinkBounded DEF Buffered
<1>5. [Next]_vars => SendBuffered \/ PollExpires \/ (\E a \in acks : RecvAcknack(a))
                     \/ UNCHANGED buf
  BY DEF Next, vars, client, network, BeginPlain, BeginFragmented, Begin, SendBlocked,
         Heartbeat, AgentData, AgentHandle, AgentHeartbeat, LoseData,
         LoseHeartbeat, LoseAcknack
<1>6. QED
  BY <1>1, <1>2, <1>3, <1>4, <1>5

\* "The buffer is hard-bounded": with any mix of traffic, any depth of nested
\* sends and any keys, it never holds more than max_buffered datagrams.
THEOREM WindowNeverExceeded == Spec => []WindowBounded
<1>1. Init => WindowBounded
  <2> SUFFICES ASSUME Init PROVE WindowBounded
    OBVIOUS
  <2>1. Buffered = {}
    BY DEF Init, Buffered
  <2>2. QED
    BY <2>1, FS_EmptySet, StreamAssumption DEF WindowBounded
<1>2. TypeOK /\ WindowBounded /\ [Next]_vars => WindowBounded'
  BY NextWindowBounded
<1>3. QED
  BY <1>1, <1>2, TypeCorrect, PTL DEF Spec

-----------------------------------------------------------------------------
(* Numbers and places: which datagram a number in play belongs to.         *)

LEMMA NumberTyped ==
  ASSUME NEW i \in Int
  PROVE  Number(i) \in SeqNums /\ Number(i) = (StartSeq + i) % SeqMod
<1>1. StartSeq \in SeqNums /\ StartSeq \in Int
  BY SeqNumsArith, StreamAssumption
<1>2. QED
  BY <1>1, AddInSeqNums DEF Number, seq_add

LEMMA SmallMod ==
  ASSUME NEW s \in SeqNums
  PROVE  s % SeqMod = s
BY SeqNumsArith DEF SeqNums

LEMMA FirstNumber == Number(0) = StartSeq
<1>1. StartSeq \in Int /\ StartSeq + 0 = StartSeq
  BY SeqNumsArith, StreamAssumption
<1>2. QED
  BY <1>1, NumberTyped, SmallMod, StreamAssumption

LEMMA NextNumber ==
  ASSUME NEW i \in Int
  PROVE  Number(i + 1) = seq_add(Number(i), 1)
<1>1. StartSeq \in Int /\ StartSeq + i \in Int /\ StartSeq + (i + 1) = (StartSeq + i) + 1
  BY SeqNumsArith, StreamAssumption
<1>2. seq_add((StartSeq + i) % SeqMod, 1) = ((StartSeq + i) + 1) % SeqMod
  BY <1>1, AddCounts
<1>3. QED
  BY <1>1, <1>2, NumberTyped

\* Numbers are as far apart as the datagrams, within one turn.
LEMMA NumbersApart ==
  ASSUME NEW i \in Int, NEW j \in Int, 0 <= j - i, j - i < SeqMod
  PROVE  (Number(j) - Number(i)) % SeqMod = j - i
<1>1. /\ StartSeq + i \in Int /\ StartSeq + j \in Int
      /\ (StartSeq + j) - (StartSeq + i) = j - i
  <2>1. StartSeq \in Int
    BY SeqNumsArith, StreamAssumption
  <2>2. QED
    BY <2>1
<1>2. (Number(j) - Number(i)) % SeqMod = (j - i) % SeqMod
  <2>1. (((StartSeq + j) % SeqMod) - ((StartSeq + i) % SeqMod)) % SeqMod
          = ((StartSeq + j) - (StartSeq + i)) % SeqMod
    BY <1>1, DistanceOfCounts
  <2>2. QED
    BY <1>1, <2>1, NumberTyped
<1>3. j - i \in 0 .. SeqMod - 1 /\ SeqMod \in Nat \ {0}
  BY SeqNumsArith
<1>4. QED
  BY <1>2, <1>3

LEMMA NumberInjective ==
  ASSUME NEW i \in Int, NEW j \in Int, 0 <= j - i, j - i < SeqMod,
         Number(i) = Number(j)
  PROVE  i = j
<1>1. (Number(j) - Number(i)) % SeqMod = j - i
  BY NumbersApart
<1>2. Number(j) - Number(i) = 0 /\ SeqMod \in Nat \ {0}
  BY NumberTyped, SeqNumsArith
<1>3. QED
  BY <1>1, <1>2

LEMMA PlaceTyped ==
  ASSUME TypeOK, NEW s \in SeqNums
  PROVE  /\ Age(s) \in Nat /\ Age(s) < SeqMod
         /\ Place(s) \in Int /\ Place(s) <= taken
         /\ taken - Place(s) = Age(s)
<1>1. outSeq - s \in Int /\ SeqMod \in Nat \ {0} /\ taken \in Nat
  BY SeqNumsArith DEF TypeOK
<1>2. Age(s) \in 0 .. SeqMod - 1
  BY <1>1 DEF Age
<1>3. QED
  BY <1>1, <1>2 DEF Place

\* A datagram is found at its place from its number.
LEMMA PlaceOfNumber ==
  ASSUME TypeOK, outSeq = Number(taken),
         NEW i \in Int, 0 <= taken - i, taken - i < SeqMod
  PROVE  Place(Number(i)) = i /\ Age(Number(i)) = taken - i
<1>1. taken \in Int
  BY DEF TypeOK
<1>2. Age(Number(i)) = taken - i
  BY <1>1, NumbersApart DEF Age
<1>3. QED
  BY <1>1, <1>2 DEF Place

LEMMA NumberOfPlace ==
  ASSUME TypeOK, outSeq = Number(taken), NEW s \in SeqNums
  PROVE  Number(Place(s)) = s
<1>1. /\ s \in Int /\ outSeq \in Int /\ taken \in Int /\ StartSeq \in Int
      /\ SeqMod \in Nat \ {0} /\ outSeq - s \in Int /\ StartSeq + taken \in Int
  <2>1. outSeq \in SeqNums /\ taken \in Nat /\ StartSeq \in SeqNums
    BY StreamAssumption DEF TypeOK
  <2>2. QED
    BY <2>1, SeqNumsArith
<1>2. PICK q \in Int, r \in 0 .. SeqMod - 1 :
        (outSeq - s) % SeqMod = r /\ outSeq - s = SeqMod * q + r
  BY <1>1, SeqDivMod
<1>3. PICK p \in Int, v \in 0 .. SeqMod - 1 :
        (StartSeq + taken) % SeqMod = v /\ StartSeq + taken = SeqMod * p + v
  BY <1>1, SeqDivMod
<1>4. v = outSeq
  BY <1>1, <1>3, NumberTyped
<1>5. StartSeq + (taken - r) = s + SeqMod * (p + q)
  BY <1>1, <1>2, <1>3, <1>4
<1>6. (s + SeqMod * (p + q)) % SeqMod = s
  <2>1. p + q \in Int
    OBVIOUS
  <2>2. (s + SeqMod * (p + q)) % SeqMod = s % SeqMod
    BY <1>1, <2>1, ModShift
  <2>3. QED
    BY <2>2, SmallMod
<1>7. taken - r \in Int /\ Place(s) = taken - r
  BY <1>1, <1>2 DEF Place, Age
<1>8. QED
  BY <1>5, <1>6, <1>7, NumberTyped

\* Within reach, the modular comparison compares places.
LEMMA PlaceOrder ==
  ASSUME TypeOK, outSeq = Number(taken), NEW s \in SeqNums, NEW t \in SeqNums,
         Age(s) < Half, Age(t) < Half
  PROVE  seq_lt(s, t) <=> Place(s) < Place(t)
<1> DEFINE x == StartSeq + Place(s)
           y == StartSeq + Place(t)
<1>1. /\ Place(s) \in Int /\ Place(t) \in Int /\ StartSeq \in Int /\ taken \in Int
      /\ Half \in Nat \ {0} /\ Age(s) \in Nat /\ Age(t) \in Nat
      /\ taken - Place(s) = Age(s) /\ taken - Place(t) = Age(t)
  <2>1. taken \in Int /\ StartSeq \in SeqNums
    BY StreamAssumption DEF TypeOK
  <2>2. StartSeq \in Int /\ Half \in Nat \ {0}
    BY <2>1, SeqNumsArith, SeqModPositive
  <2>3. QED
    BY <2>1, <2>2, PlaceTyped
<1>2. x \in Int /\ y \in Int /\ -Half < y - x /\ y - x < Half
  BY <1>1
<1>3. x < y <=> Place(s) < Place(t)
  BY <1>1
<1>4. x % SeqMod = s /\ y % SeqMod = t
  BY <1>1, NumberOfPlace, NumberTyped
<1> HIDE DEF x, y
<1>5. QED
  BY <1>2, <1>3, <1>4, WindowOrder

\* What is in reach keeps its place when another number is taken.
LEMMA PlaceKept ==
  ASSUME TypeOK, outSeq = Number(taken),
         outSeq' = Number(taken + 1), taken' = taken + 1,
         NEW s \in SeqNums, Age(s) < Half
  PROVE  Place(s)' = Place(s)
<1>1. /\ Place(s) \in Int /\ taken \in Int /\ Age(s) \in Nat
      /\ taken - Place(s) = Age(s)
  BY PlaceTyped DEF TypeOK
<1>2. Half \in Nat \ {0} /\ SeqMod = Half + Half
  BY SeqModPositive
<1>3. 0 <= (taken + 1) - Place(s) /\ (taken + 1) - Place(s) < SeqMod
  BY <1>1, <1>2
<1>4. taken + 1 \in Int
  BY <1>1
<1>5. (Number(taken + 1) - Number(Place(s))) % SeqMod = (taken + 1) - Place(s)
  BY <1>1, <1>3, <1>4, NumbersApart
<1>6. (outSeq' - s) % SeqMod = (taken + 1) - Place(s)
  BY <1>5, NumberOfPlace
<1>7. Place(s)' = taken' - ((outSeq' - s) % SeqMod)
  BY DEF Place, Age
<1>8. QED
  BY <1>1, <1>6, <1>7

-----------------------------------------------------------------------------
(* The bounds of the behaviour.                                            *)

LEMMA ProductMonotone ==
  ASSUME NEW m \in Nat, NEW n \in Nat, NEW p \in Nat, m <= n
  PROVE  m * p <= n * p
OBVIOUS

\* What every step may use: how the counts lie to each other.
LEMMA Bounds ==
  ASSUME TypeOK, SimpleTraffic, Counted, CountersAgree
  PROVE  /\ taken \in Nat /\ Owed \in Nat /\ Left \in Nat
         /\ Left <= taken /\ taken <= Left + 1
         /\ taken + Owed <= MaxStamped
         /\ MaxStamped \in Nat
<1>1. taken \in Nat /\ MaxParts \in Nat
  BY StreamAssumption DEF TypeOK, MaxParts
<1>2. Owed \in Nat
  <2>1. CASE depth = 0
    BY <2>1 DEF Owed
  <2>2. CASE depth # 0
    <3>1. depth = 1
      BY <2>2 DEF TypeOK, SimpleTraffic
    <3>2. frame[1].left \in Nat \ {0}
      BY <3>1, TopFrame
    <3>3. QED
      BY <3>1, <3>2 DEF Owed
  <2>3. QED
    BY <2>1, <2>2
<1>3. Blocked => taken - 1 \in Nat
  BY <1>1 DEF CountersAgree
<1>4. begun * MaxParts <= MaxMessages * MaxParts
  BY <1>1, ProductMonotone, StreamAssumption DEF TypeOK
<1>5. begun * MaxParts \in Nat /\ MaxStamped \in Nat
  BY <1>1, StreamAssumption DEF TypeOK, MaxStamped
<1>6. QED
  BY <1>1, <1>2, <1>3, <1>4, <1>5 DEF Counted, MaxStamped, Left

\* Under SimpleTraffic a datagram is buffered under its own number.
LEMMA KeyIsNumber ==
  ASSUME TypeOK, SimpleTraffic, Counted, CountersAgree, depth = 1, Owed > 0
  PROVE  KeyOf(frame[1].kind) = Number(taken)
<1>1. /\ taken \in Nat /\ Owed \in Nat /\ MaxStamped \in Nat
      /\ taken + 1 <= MaxStamped
  BY Bounds
<1>2. CASE Kinds = {"fragment"}
  BY <1>2 DEF CountersAgree, KeyOf
<1>3. CASE Kinds = {"plain"}
  <2>1. StartSeq \in Nat /\ SeqMod \in Nat \ {0}
    BY SeqNumsArith, StreamAssumption DEF SeqNums
  <2>2. StartSeq + taken + 1 < SeqMod
    BY <1>1, <1>3, <2>1 DEF SimpleTraffic
  <2>3. outSeq = StartSeq + taken
    <3>1. StartSeq + taken \in SeqNums
      BY <1>1, <2>1, <2>2 DEF SeqNums
    <3>2. (StartSeq + taken) % SeqMod = StartSeq + taken
      BY <3>1, SmallMod
    <3>3. QED
      BY <1>1, <3>2, NumberTyped DEF CountersAgree
  <2>4. seq_add(outSeq, 1) = outSeq + 1
    BY <1>1, <2>1, <2>2, <2>3 DEF seq_add
  <2>5. frame[1].kind = "plain"
    BY <1>3 DEF CountersAgree
  <2>6. KeyOf("plain") = outSeq
    BY <1>1, <2>1, <2>3, <2>4 DEF KeyOf
  <2>7. QED
    BY <2>5, <2>6 DEF CountersAgree
<1>4. QED
  BY <1>2, <1>3 DEF SimpleTraffic

\* A datagram in the window is found under its number, and is in reach.
LEMMA BufferedInReach ==
  ASSUME TypeOK, SimpleTraffic, RetentionInv, InReach, NEW k \in Buffered
  PROVE  /\ k \in SeqNums /\ buf[k] \in Nat /\ k = Number(buf[k]) /\ buf[k] < Left
         /\ Place(k) = buf[k] /\ Age(k) < Half
<1>1. buf[k] \in Nat
  BY DEF Buffered, TypeOK
<1>2. k = Number(buf[k]) /\ buf[k] < Left /\ taken - buf[k] < Half
  BY DEF RetentionInv, OwnKeys, InReach
<1>3. /\ taken \in Nat /\ Left \in Nat /\ Left <= taken
      /\ Half \in Nat /\ SeqMod = Half + Half
  BY Bounds, SeqModPositive DEF RetentionInv
<1>4. 0 <= taken - buf[k] /\ taken - buf[k] < SeqMod /\ buf[k] \in Int
  BY <1>1, <1>2, <1>3
<1>5. k \in SeqNums
  BY <1>2, <1>4, NumberTyped
<1>6. Place(k) = buf[k] /\ Age(k) = taken - buf[k]
  BY <1>2, <1>4, PlaceOfNumber DEF RetentionInv, CountersAgree
<1>7. QED
  BY <1>1, <1>2, <1>5, <1>6

-----------------------------------------------------------------------------
(* The parts of the invariant a step of the network or the Agent, or the   *)
(* window, leaves alone.                                                   *)

sendState == <<outSeq, nextSeq, depth, frame, begun, taken>>

LEMMA SendStateKept ==
  ASSUME UNCHANGED sendState, Counted, CountersAgree
  PROVE  /\ Counted' /\ CountersAgree'
         /\ Left' = Left
BY DEF sendState, Counted, CountersAgree, Left, Owed, Blocked

\* A heartbeat that leaves announces nothing the Agent could lose by it.
LEMMA SendHeartbeatSound ==
  ASSUME TypeOK, SimpleTraffic, RetentionInv, InReach, SendHeartbeat
  PROVE  \A h \in hbs' :
           /\ h \in Heartbeats
           /\ Place(h.first) \in 0 .. Left - 1 /\ Age(h.first) < Half
           /\ Place(h.last) \in 0 .. Left - 1 /\ Age(h.last) < Half
           /\ \A i \in 0 .. Place(h.first) - 1 : Over(i)
<1>1. PICK first \in Buffered, last \in Buffered :
        /\ \A k \in Buffered : ~seq_lt(k, first)
        /\ hbs' = Put(hbs, [first |-> first % SeqMod, last |-> last % SeqMod])
  BY DEF SendHeartbeat
<1>2. /\ first \in SeqNums /\ Place(first) \in Nat /\ Place(first) < Left
      /\ last \in SeqNums /\ Place(last) \in Nat /\ Place(last) < Left
      /\ Age(first) < Half /\ Age(last) < Half
  BY BufferedInReach
<1>3. first % SeqMod = first /\ last % SeqMod = last
  BY <1>2, SmallMod
<1>4. Left \in Nat
  BY Bounds DEF RetentionInv
<1>5. ASSUME NEW i \in 0 .. Place(first) - 1
      PROVE  Over(i)
  <2>1. i \in 0 .. Left - 1 /\ i < Place(first)
    BY <1>2, <1>4
  <2>2. SUFFICES ASSUME buf[Number(i)] = i PROVE FALSE
    BY <2>1 DEF RetentionInv, LeftKept
  <2>3. Number(i) \in SeqNums
    BY NumberTyped
  <2>4. Number(i) \in Buffered
    BY <2>2, <2>3, SeqNumsArith DEF Buffered, Absent
  <2>5. Place(Number(i)) = i /\ Age(Number(i)) < Half
    BY <2>2, <2>4, BufferedInReach
  <2>6. seq_lt(Number(i), first)
    BY <1>2, <2>1, <2>3, <2>5, PlaceOrder DEF RetentionInv, CountersAgree
  <2>7. QED
    BY <1>1, <2>4, <2>6
<1>6. \A h \in hbs' : h \in hbs \/ h = [first |-> first, last |-> last]
  BY <1>1, <1>3, PutSubset
<1>7. /\ [first |-> first, last |-> last] \in Heartbeats
      /\ Place(first) \in 0 .. Left - 1 /\ Place(last) \in 0 .. Left - 1
  BY <1>2, <1>4 DEF Heartbeats
<1>8. \A h \in hbs :
        /\ h \in Heartbeats
        /\ Place(h.first) \in 0 .. Left - 1 /\ Age(h.first) < Half
        /\ Place(h.last) \in 0 .. Left - 1 /\ Age(h.last) < Half
        /\ \A i \in 0 .. Place(h.first) - 1 : Over(i)
  BY DEF RetentionInv, HeartbeatsSound, InReach, TypeOK
<1>9. QED
  <2> SUFFICES ASSUME NEW h \in hbs'
               PROVE  /\ h \in Heartbeats
                      /\ Place(h.first) \in 0 .. Left - 1 /\ Age(h.first) < Half
                      /\ Place(h.last) \in 0 .. Left - 1 /\ Age(h.last) < Half
                      /\ \A i \in 0 .. Place(h.first) - 1 : Over(i)
    OBVIOUS
  <2>1. CASE h \in hbs
    BY <1>8, <2>1
  <2>2. CASE h = [first |-> first, last |-> last]
    <3>1. h.first = first /\ h.last = last
      BY <2>2
    <3>2. QED
      BY <1>2, <1>5, <1>7, <2>2, <3>1
  <2>3. QED
    BY <1>6, <2>1, <2>2

-----------------------------------------------------------------------------
(* Sending.                                                                *)

LEMMA BeginRetention ==
  ASSUME TypeOK, SimpleTraffic, RetentionInv,
         NEW kind \in Kinds, NEW parts \in 1 .. MaxParts, Begin(kind, parts)
  PROVE  RetentionInv'
<1>1. /\ depth = 0 /\ depth' = 1 /\ begun' = begun + 1
      /\ frame'[1] = Running(kind, parts)
      /\ UNCHANGED <<outSeq, nextSeq, buf, tries, taken, network, agent, forgone>>
  BY DEF Begin, TypeOK, SimpleTraffic
<1>2. /\ frame'[1].kind = kind /\ frame'[1].left = parts
      /\ ~frame'[1].waiting
  BY <1>1 DEF Running
<1>3. ~Blocked /\ ~Blocked'
  BY <1>1, <1>2 DEF Blocked
<1>4. Left = taken /\ Left' = Left /\ Owed = 0 /\ Owed' = parts
  BY <1>1, <1>2, <1>3 DEF Left, Owed
<1>5. Counted'
  <2>1. taken \in Nat /\ MaxParts \in Nat /\ begun \in Nat
    BY StreamAssumption DEF MaxParts, TypeOK
  <2>2. begun' * MaxParts = begun * MaxParts + MaxParts
    BY <1>1, <2>1
  <2>3. begun * MaxParts \in Nat
    BY <2>1
  <2>4. QED
    BY <1>1, <1>4, <2>1, <2>2, <2>3 DEF Counted, RetentionInv
<1>6. CountersAgree'
  BY <1>1, <1>2, <1>3 DEF CountersAgree, RetentionInv
<1>7. QED
  BY <1>1, <1>4, <1>5, <1>6
     DEF RetentionInv, OwnKeys, LeftKept, OnlyLeft, AgentBehind, HeartbeatsSound,
         AcknacksBehind, Over, Buffered, Place, Age, network, agent

\* The innermost send goes on to its next datagram, or is over.
LEMMA DatagramDoneCounts ==
  ASSUME TypeOK, SimpleTraffic, CountersAgree, depth = 1, DatagramDone
  PROVE  /\ ~Blocked'
         /\ depth' = 1 => frame'[1].kind \in Kinds
         /\ Owed' = frame[1].left - 1
<1>1. frame[1].left \in Nat \ {0} /\ 1 \in 1 .. MaxDepth
  BY TopFrame
<1>2. CASE frame[1].left = 1
  <2>1. depth' = 0
    BY <1>2 DEF DatagramDone
  <2>2. QED
    BY <1>2, <2>1 DEF Blocked, Owed
<1>3. CASE frame[1].left # 1
  <2>1. /\ depth' = 1
        /\ frame'[1] = Running(frame[1].kind, frame[1].left - 1)
    BY <1>1, <1>3 DEF DatagramDone, TypeOK
  <2>2. QED
    BY <1>1, <2>1 DEF Running, Blocked, Owed, CountersAgree
<1>4. QED
  BY <1>2, <1>3

\* Stamping a header moves the count of datagrams one up.
LEMMA StampCounts ==
  ASSUME TypeOK, SimpleTraffic, CountersAgree, depth = 1,
         ~Blocked, TakeSeq(frame[1].kind)
  PROVE  /\ Left = taken /\ Owed = frame[1].left
         /\ taken' = taken + 1
         /\ outSeq' = Number(taken + 1)
         /\ Kinds = {"fragment"} => nextSeq' = outSeq'
<1>1. frame[1].kind \in Kinds
  BY DEF CountersAgree
<1>2. Left = taken /\ Owed = frame[1].left
  BY DEF Left, Owed
<1>3. taken' = taken + 1 /\ outSeq' = seq_add(Number(taken), 1)
  BY DEF TakeSeq, CountersAgree
<1>4. taken \in Int
  BY DEF TypeOK
<1>5. Kinds = {"fragment"} => nextSeq' = outSeq'
  BY <1>1 DEF TakeSeq, CountersAgree
<1>6. QED
  BY <1>2, <1>3, <1>4, <1>5, NextNumber

\* A number is taken: what is in reach stays where it was.
LEMMA StampKeepsPlaces ==
  ASSUME TypeOK, SimpleTraffic, CountersAgree, depth = 1,
         ~Blocked, TakeSeq(frame[1].kind)
  PROVE  \A s \in SeqNums : Age(s) < Half => Place(s)' = Place(s)
BY StampCounts, PlaceKept DEF CountersAgree

\* A datagram leaves for the first time: it is retained under its own number
\* or given up, and nothing else changes for those that left before.
LEMMA DepartureKeeps ==
  ASSUME TypeOK, SimpleTraffic, RetentionInv, InReach,
         Left' = Left + 1,
         \A s \in SeqNums : Age(s) < Half => Place(s)' = Place(s),
         \/ buf' = [buf EXCEPT ![Number(Left)] = Left] /\ forgone' = forgone
         \/ buf' = buf /\ forgone' = forgone \cup {Left},
         data' = data \cup {Left}, UNCHANGED <<hbs, acks, agent>>
  PROVE  /\ OwnKeys' /\ LeftKept' /\ OnlyLeft' /\ AgentBehind'
         /\ HeartbeatsSound' /\ AcknacksBehind'
<1> DEFINE n == Number(Left)
<1>1. /\ Left \in Nat /\ taken \in Nat /\ Left <= taken
      /\ Half \in Nat \ {0} /\ SeqMod = Half + Half
  BY Bounds, SeqModPositive DEF RetentionInv
<1>2. n \in Keys /\ n \in SeqNums
  BY <1>1, NumberTyped, SeqNumsArith
<1>3. \A i : Over(i) => Over(i)'
  BY DEF Over, agent
<1>4. \A k \in Keys : k # n => buf'[k] = buf[k]
  BY DEF TypeOK
<1>5. buf'[n] = Left \/ (buf' = buf /\ Left \in forgone')
  BY <1>2 DEF TypeOK
<1> HIDE DEF n
<1>6. OwnKeys'
  <2> SUFFICES ASSUME NEW k \in Buffered'
               PROVE  k = Number(buf'[k]) /\ buf'[k] < Left'
    BY DEF OwnKeys
  <2>1. CASE k = n /\ buf'[n] = Left
    BY <1>1, <2>1 DEF n
  <2>2. CASE ~(k = n /\ buf'[n] = Left)
    <3>1. k \in Buffered /\ buf'[k] = buf[k]
      BY <1>4, <1>5, <2>2 DEF Buffered
    <3>2. buf[k] \in Nat /\ k = Number(buf[k]) /\ buf[k] < Left
      BY <3>1, BufferedInReach
    <3>3. QED
      BY <1>1, <3>1, <3>2
  <2>3. QED
    BY <2>1, <2>2
<1>7. LeftKept'
  <2> SUFFICES ASSUME NEW i \in 0 .. Left' - 1
               PROVE  Over(i)' \/ buf'[Number(i)] = i
    BY DEF LeftKept
  <2>1. CASE i = Left
    BY <1>5, <2>1 DEF n, Over
  <2>2. CASE i # Left
    <3>1. i \in 0 .. Left - 1 /\ i \in Int
      BY <1>1, <2>2
    <3>2. Over(i) \/ buf[Number(i)] = i
      BY <3>1 DEF RetentionInv, LeftKept
    <3>3. SUFFICES ASSUME buf[Number(i)] = i
                   PROVE  buf'[Number(i)] = i
      BY <1>3, <3>2
    <3>4. Number(i) \in SeqNums /\ Number(i) \in Keys
      BY <3>1, NumberTyped, SeqNumsArith
    <3>5. Number(i) \in Buffered
      BY <3>1, <3>3, <3>4 DEF Buffered, Absent
    <3>6. taken - i < Half
      BY <3>3, <3>5 DEF InReach
    <3>7. Number(i) # n
      <4>1. 0 <= Left - i /\ Left - i < SeqMod /\ Left \in Int
        BY <1>1, <3>1, <3>6
      <4>2. QED
        BY <2>2, <3>1, <4>1, NumberInjective DEF n
    <3>8. QED
      BY <1>4, <3>3, <3>4, <3>7
  <2>3. QED
    BY <2>1, <2>2
<1>8. OnlyLeft'
  <2> SUFFICES ASSUME NEW i \in data' \cup received' \cup forgone'
               PROVE  i < Left'
    BY DEF OnlyLeft
  <2>1. i = Left \/ i \in data \cup received \cup forgone
    BY DEF agent
  <2>2. CASE i = Left
    BY <1>1, <2>2
  <2>3. CASE i \in data \cup received \cup forgone
    BY <1>1, <2>3 DEF RetentionInv, OnlyLeft, TypeOK
  <2>4. QED
    BY <2>1, <2>2, <2>3
<1>9. AgentBehind'
  <2>1. expected' = expected /\ delivered' = delivered /\ expected \in SeqNums
    BY DEF agent, TypeOK
  <2>2. Place(expected)' = Place(expected)
    <3>1. \A s \in SeqNums : s = expected => Place(s)' = Place(expected)
      BY DEF InReach
    <3>2. QED
      BY <2>1, <3>1 DEF Place, Age
  <2>3. /\ Place(expected) \in 0 .. Left
        /\ \A i \in 0 .. Place(expected) - 1 : Over(i)
        /\ \A i \in delivered : i < Place(expected)
    BY DEF RetentionInv, AgentBehind
  <2>4. Place(expected) \in 0 .. Left'
    BY <1>1, <2>3
  <2>5. QED
    BY <1>3, <2>1, <2>2, <2>3, <2>4 DEF AgentBehind
<1>10. HeartbeatsSound'
  <2> SUFFICES ASSUME NEW h \in hbs
               PROVE  /\ Place(h.first)' \in 0 .. Left' - 1
                      /\ Place(h.last)' \in 0 .. Left' - 1
                      /\ \A i \in 0 .. Place(h.first)' - 1 : Over(i)'
    BY DEF HeartbeatsSound
  <2>1. /\ h.first \in SeqNums /\ h.last \in SeqNums
        /\ Age(h.first) < Half /\ Age(h.last) < Half
    BY DEF TypeOK, Heartbeats, InReach
  <2>2. Place(h.first)' = Place(h.first) /\ Place(h.last)' = Place(h.last)
    BY <2>1
  <2>3. /\ Place(h.first) \in 0 .. Left - 1 /\ Place(h.last) \in 0 .. Left - 1
        /\ \A i \in 0 .. Place(h.first) - 1 : Over(i)
    BY DEF RetentionInv, HeartbeatsSound
  <2>4. Place(h.first) \in 0 .. Left' - 1 /\ Place(h.last) \in 0 .. Left' - 1
    BY <1>1, <2>3
  <2>5. QED
    BY <1>3, <2>2, <2>3, <2>4
<1>11. AcknacksBehind'
  <2> SUFFICES ASSUME NEW a \in acks
               PROVE  Place(a.first)' \in 0 .. Place(expected)'
    BY DEF AcknacksBehind
  <2>1. /\ a.first \in SeqNums /\ Age(a.first) < Half
        /\ expected' = expected /\ expected \in SeqNums
    BY DEF TypeOK, Acknacks, InReach, agent
  <2>2. Place(a.first)' = Place(a.first)
    BY <2>1
  <2>3. Place(expected)' = Place(expected)
    <3>1. \A s \in SeqNums : s = expected => Place(s)' = Place(expected)
      BY DEF InReach
    <3>2. QED
      BY <2>1, <3>1 DEF Place, Age
  <2>4. QED
    BY <2>2, <2>3 DEF RetentionInv, AcknacksBehind
<1>12. QED
  BY <1>6, <1>7, <1>8, <1>9, <1>10, <1>11

LEMMA SendBufferedRetention ==
  ASSUME TypeOK, SimpleTraffic, RetentionInv, InReach, SendBuffered
  PROVE  RetentionInv'
<1>1. /\ depth = 1 /\ ~Blocked /\ DatagramDone
      /\ TakeSeq(frame[1].kind) /\ Store(KeyOf(frame[1].kind), taken)
      /\ data' = data \cup {taken}
      /\ UNCHANGED <<begun, hbs, acks, agent, forgone>>
  BY DEF SendBuffered, Sending, TypeOK, SimpleTraffic, Blocked
<1>2. /\ Left = taken /\ Owed = frame[1].left
      /\ taken' = taken + 1 /\ outSeq' = Number(taken + 1)
      /\ Kinds = {"fragment"} => nextSeq' = outSeq'
  BY <1>1, StampCounts DEF RetentionInv
<1>3. /\ ~Blocked'
      /\ depth' = 1 => frame'[1].kind \in Kinds
      /\ Owed' = frame[1].left - 1
  BY <1>1, DatagramDoneCounts DEF RetentionInv
<1>4. Left' = Left + 1
  BY <1>2, <1>3 DEF Left
<1>5. frame[1].left \in Nat \ {0} /\ taken \in Nat
  BY <1>1, TopFrame DEF TypeOK
<1>6. Counted'
  BY <1>1, <1>2, <1>3, <1>5 DEF Counted, RetentionInv
<1>7. CountersAgree'
  BY <1>2, <1>3 DEF CountersAgree
<1>8. KeyOf(frame[1].kind) = Number(taken)
  BY <1>1, <1>2, <1>5, KeyIsNumber DEF RetentionInv
<1>9. buf' = [buf EXCEPT ![Number(Left)] = Left]
  BY <1>1, <1>2, <1>8 DEF Store
<1>10. \A s \in SeqNums : Age(s) < Half => Place(s)' = Place(s)
  BY <1>1, StampKeepsPlaces DEF RetentionInv
<1>11. QED
  BY <1>1, <1>2, <1>4, <1>6, <1>7, <1>9, <1>10, DepartureKeeps DEF RetentionInv

LEMMA SendBlockedRetention ==
  ASSUME TypeOK, SimpleTraffic, RetentionInv, InReach, SendBlocked
  PROVE  RetentionInv'
<1>1. /\ depth = 1 /\ ~Blocked /\ TakeSeq(frame[1].kind) /\ SendHeartbeat
      /\ frame' = [frame EXCEPT ![1] =
                     [@ EXCEPT !.waiting = TRUE, !.datagram = taken,
                               !.key = KeyOf(frame[1].kind)]]
      /\ UNCHANGED <<buf, tries, depth, begun, data, acks, agent, forgone>>
  <2>1. depth = 1 /\ ~frame[1].waiting
    BY DEF SendBlocked, Sending, TypeOK, SimpleTraffic
  <2>2. QED
    BY <2>1 DEF SendBlocked, Blocked
<1>2. /\ Left = taken /\ Owed = frame[1].left
      /\ taken' = taken + 1 /\ outSeq' = Number(taken + 1)
      /\ Kinds = {"fragment"} => nextSeq' = outSeq'
  BY <1>1, StampCounts DEF RetentionInv
<1>3. frame[1].left \in Nat \ {0} /\ taken \in Nat /\ frame[1] \in Frames
      /\ 1 \in 1 .. MaxDepth
  <2>1. frame[1].left \in Nat \ {0} /\ 1 \in 1 .. MaxDepth
    BY <1>1, TopFrame
  <2>2. QED
    BY <2>1 DEF TypeOK
<1>4. KeyOf(frame[1].kind) = Number(taken)
  BY <1>1, <1>2, <1>3, KeyIsNumber DEF RetentionInv
<1>5. frame'[1] = [frame[1] EXCEPT !.waiting = TRUE, !.datagram = taken,
                                   !.key = Number(taken)]
  BY <1>1, <1>3, <1>4 DEF TypeOK
<1>6. /\ frame'[1].kind = frame[1].kind /\ frame'[1].left = frame[1].left
      /\ frame'[1].waiting /\ frame'[1].datagram = taken
      /\ frame'[1].key = Number(taken)
  BY <1>3, <1>5 DEF Frames
<1>7. Blocked' /\ depth' = 1 /\ (taken + 1) - 1 = taken
  BY <1>1, <1>3, <1>6 DEF Blocked
<1>8. Left' = Left
  BY <1>2, <1>3, <1>7 DEF Left
<1>9. Owed' = frame[1].left - 1
  BY <1>6, <1>7 DEF Owed
<1>10. Counted'
  BY <1>1, <1>2, <1>3, <1>9 DEF Counted, RetentionInv
<1>11. CountersAgree'
  <2>1. frame[1].kind \in Kinds
    BY <1>1 DEF CountersAgree, RetentionInv
  <2>2. taken' > 0 /\ frame'[1].datagram = taken' - 1
    BY <1>2, <1>3, <1>6
  <2>3. taken' - 1 = taken
    BY <1>2, <1>3
  <2>4. QED
    BY <1>2, <1>6, <2>1, <2>2, <2>3 DEF CountersAgree
<1>12. OwnKeys' /\ LeftKept' /\ OnlyLeft'
  BY <1>1, <1>8 DEF RetentionInv, OwnKeys, LeftKept, OnlyLeft, Buffered, Over, agent
<1>13. \A s \in SeqNums : Age(s) < Half => Place(s)' = Place(s)
  BY <1>1, StampKeepsPlaces DEF RetentionInv
<1>14. Place(expected)' = Place(expected)
  <2>1. expected' = expected /\ expected \in SeqNums
    BY <1>1 DEF agent, TypeOK
  <2>2. \A s \in SeqNums : s = expected => Place(s)' = Place(expected)
    BY <1>13 DEF InReach
  <2>3. QED
    BY <2>1, <2>2 DEF Place, Age
<1>15. AgentBehind'
  BY <1>1, <1>8, <1>14 DEF RetentionInv, AgentBehind, Over, agent
<1>16. HeartbeatsSound'
  <2> SUFFICES ASSUME NEW h \in hbs'
               PROVE  /\ Place(h.first)' \in 0 .. Left - 1
                      /\ Place(h.last)' \in 0 .. Left - 1
                      /\ \A i \in 0 .. Place(h.first)' - 1 : Over(i)
    BY <1>1, <1>8 DEF HeartbeatsSound, Over, agent
  <2>1. /\ h \in Heartbeats
        /\ Place(h.first) \in 0 .. Left - 1 /\ Age(h.first) < Half
        /\ Place(h.last) \in 0 .. Left - 1 /\ Age(h.last) < Half
        /\ \A i \in 0 .. Place(h.first) - 1 : Over(i)
    BY <1>1, SendHeartbeatSound
  <2>2. h.first \in SeqNums /\ h.last \in SeqNums
    BY <2>1 DEF Heartbeats
  <2>3. Place(h.first)' = Place(h.first) /\ Place(h.last)' = Place(h.last)
    BY <1>13, <2>1, <2>2
  <2>4. QED
    BY <2>1, <2>3
<1>17. AcknacksBehind'
  <2> SUFFICES ASSUME NEW a \in acks
               PROVE  Place(a.first)' \in 0 .. Place(expected)'
    BY <1>1 DEF AcknacksBehind
  <2>1. a.first \in SeqNums /\ Age(a.first) < Half
    BY DEF TypeOK, Acknacks, InReach
  <2>2. Place(a.first)' = Place(a.first)
    BY <1>13, <2>1
  <2>3. QED
    BY <1>14, <2>2 DEF RetentionInv, AcknacksBehind
<1>18. QED
  BY <1>10, <1>11, <1>12, <1>15, <1>16, <1>17 DEF RetentionInv

LEMMA PollExpiresRetention ==
  ASSUME TypeOK, SimpleTraffic, RetentionInv, InReach, PollExpires
  PROVE  RetentionInv'
<1>1. /\ depth = 1 /\ Blocked /\ DatagramDone
      /\ \/ forgone' = forgone \cup {frame[1].datagram} /\ buf' = buf
         \/ Store(frame[1].key, frame[1].datagram) /\ forgone' = forgone
      /\ data' = data \cup {frame[1].datagram}
      /\ UNCHANGED <<outSeq, nextSeq, begun, taken, hbs, acks, agent>>
  BY DEF PollExpires, TypeOK, SimpleTraffic, Blocked
<1>2. taken \in Nat /\ taken > 0 /\ frame[1].left \in Nat \ {0}
  BY <1>1, TopFrame DEF TypeOK, RetentionInv, CountersAgree
<1>3. /\ Left = taken - 1 /\ frame[1].datagram = Left /\ frame[1].key = Number(Left)
      /\ Owed = frame[1].left - 1
  BY <1>1 DEF Left, Owed, RetentionInv, CountersAgree
<1>4. /\ ~Blocked'
      /\ depth' = 1 => frame'[1].kind \in Kinds
      /\ Owed' = frame[1].left - 1
  BY <1>1, DatagramDoneCounts DEF RetentionInv
<1>5. Left' = Left + 1
  BY <1>1, <1>2, <1>3, <1>4 DEF Left
<1>6. Counted'
  BY <1>1, <1>3, <1>4 DEF Counted, RetentionInv
<1>7. CountersAgree'
  BY <1>1, <1>4 DEF CountersAgree, RetentionInv
<1>8. \A s \in SeqNums : Age(s) < Half => Place(s)' = Place(s)
  BY <1>1 DEF Place, Age
<1>9. \/ buf' = [buf EXCEPT ![Number(Left)] = Left] /\ forgone' = forgone
      \/ buf' = buf /\ forgone' = forgone \cup {Left}
  BY <1>1, <1>3 DEF Store
<1>10. QED
  BY <1>1, <1>3, <1>5, <1>6, <1>7, <1>8, <1>9, DepartureKeeps DEF RetentionInv

-----------------------------------------------------------------------------
(* Heartbeats and acknowledgements.                                        *)

LEMMA HeartbeatRetention ==
  ASSUME TypeOK, SimpleTraffic, RetentionInv, InReach, Heartbeat
  PROVE  RetentionInv'
<1>1. SendHeartbeat /\ UNCHANGED <<client, data, acks, agent, forgone>>
  BY DEF Heartbeat
<1>2. Counted' /\ CountersAgree' /\ Left' = Left
  BY <1>1, SendStateKept DEF RetentionInv, client, sendState
<1>3. HeartbeatsSound'
  <2>1. \A h \in hbs' :
          /\ Place(h.first) \in 0 .. Left - 1 /\ Place(h.last) \in 0 .. Left - 1
          /\ \A i \in 0 .. Place(h.first) - 1 : Over(i)
    BY <1>1, SendHeartbeatSound
  <2>2. QED
    BY <1>1, <1>2, <2>1 DEF HeartbeatsSound, Place, Age, Over, client, agent
<1>4. QED
  BY <1>1, <1>2, <1>3
     DEF RetentionInv, OwnKeys, LeftKept, OnlyLeft, AgentBehind, AcknacksBehind,
         Over, Buffered, Place, Age, client, agent

LEMMA RecvAcknackRetention ==
  ASSUME TypeOK, SimpleTraffic, RetentionInv, InReach,
         NEW a \in acks, RecvAcknack(a)
  PROVE  RetentionInv'
<1> DEFINE acked == {k \in Buffered : seq_lt(k, a.first)}
           nacked == {k \in Buffered \ acked :
                        \E b \in a.bits : k = seq_add(a.first, b)}
           dead == {k \in nacked : tries[k] + 1 > MaxRetries}
           resent == nacked \ dead
<1>1. /\ buf' = [k \in Keys |-> IF k \in acked \cup dead THEN Absent ELSE buf[k]]
      /\ data' = data \cup {buf[k] : k \in resent}
      /\ forgone' = forgone \cup {buf[k] : k \in dead}
      /\ UNCHANGED <<sendState, hbs, acks, agent>>
  BY DEF RecvAcknack, sendState
<1>2. dead \subseteq Buffered /\ resent \subseteq Buffered
  OBVIOUS
<1>3. Counted' /\ CountersAgree' /\ Left' = Left
  BY <1>1, SendStateKept DEF RetentionInv
<1>4. \A i : Over(i) => Over(i)'
  BY <1>1 DEF Over, agent
<1>5. \A k \in acked : Over(buf[k])
  <2> SUFFICES ASSUME NEW k \in acked
               PROVE  Over(buf[k])
    OBVIOUS
  <2>1. /\ k \in Buffered /\ k \in SeqNums /\ buf[k] \in Nat
        /\ Place(k) = buf[k] /\ Age(k) < Half
    BY BufferedInReach
  <2>2. a.first \in SeqNums /\ Age(a.first) < Half
    BY DEF TypeOK, Acknacks, InReach
  <2>3. Place(k) < Place(a.first)
    BY <2>1, <2>2, PlaceOrder DEF RetentionInv, CountersAgree
  <2>4. Place(a.first) \in 0 .. Place(expected) /\ Place(expected) \in Int
    <3>1. Place(expected) \in 0 .. Left /\ Left \in Nat
      BY Bounds DEF RetentionInv, AgentBehind
    <3>2. QED
      BY <3>1 DEF RetentionInv, AcknacksBehind
  <2>5. buf[k] \in 0 .. Place(expected) - 1
    BY <2>1, <2>3, <2>4
  <2>6. QED
    BY <2>5 DEF RetentionInv, AgentBehind
<1>6. \A k \in dead : buf[k] \in forgone'
  BY <1>1
<1>7. \A k \in Keys : k \notin acked \cup dead => buf'[k] = buf[k]
  BY <1>1
<1>8. \A k \in Buffered' : k \in Buffered /\ k \notin acked \cup dead
  BY <1>1 DEF Buffered, Absent
<1> HIDE DEF acked, nacked, dead, resent
<1>9. OwnKeys'
  BY <1>3, <1>7, <1>8 DEF RetentionInv, OwnKeys, Buffered
<1>10. LeftKept'
  <2> SUFFICES ASSUME NEW i \in 0 .. Left - 1, buf[Number(i)] = i
               PROVE  Over(i)' \/ buf'[Number(i)] = i
    BY <1>3, <1>4 DEF RetentionInv, LeftKept
  <2>1. i \in Nat /\ Number(i) \in SeqNums /\ Number(i) \in Keys
    <3>1. i \in Nat
      BY Bounds DEF RetentionInv
    <3>2. QED
      BY <3>1, NumberTyped, SeqNumsArith
  <2>2. CASE Number(i) \in acked
    BY <1>4, <1>5, <2>2
  <2>3. CASE Number(i) \in dead
    BY <1>6, <2>3 DEF Over
  <2>4. CASE Number(i) \notin acked \cup dead
    BY <1>7, <2>1, <2>4
  <2>5. QED
    BY <2>2, <2>3, <2>4
<1>11. OnlyLeft'
  <2>1. \A k \in dead \cup resent : buf[k] < Left
    BY <1>2, BufferedInReach
  <2>2. QED
    BY <1>1, <1>3, <2>1 DEF RetentionInv, OnlyLeft, agent
<1>12. AgentBehind' /\ HeartbeatsSound' /\ AcknacksBehind'
  BY <1>1, <1>3, <1>4
     DEF RetentionInv, AgentBehind, HeartbeatsSound, AcknacksBehind, Place, Age,
         agent, sendState
<1>13. QED
  BY <1>3, <1>9, <1>10, <1>11, <1>12 DEF RetentionInv

-----------------------------------------------------------------------------
(* The Agent and the network.                                              *)

LEMMA AgentDataRetention ==
  ASSUME TypeOK, RetentionInv, NEW i \in data, AgentData(i)
  PROVE  RetentionInv'
<1>1. /\ \A j \in received' : j \in received \/ j = i
      /\ UNCHANGED <<client, network, expected, delivered, forgone>>
  BY DEF AgentData
<1>2. Counted' /\ CountersAgree' /\ Left' = Left
  BY <1>1, SendStateKept DEF RetentionInv, client, sendState
<1>3. OnlyLeft'
  BY <1>1, <1>2 DEF RetentionInv, OnlyLeft, network
<1>4. QED
  BY <1>1, <1>2, <1>3
     DEF RetentionInv, OwnKeys, LeftKept, AgentBehind, HeartbeatsSound,
         AcknacksBehind, Over, Buffered, Place, Age, client, network

\* The datagram in turn is the one at the Agent's place.
LEMMA InTurn ==
  ASSUME TypeOK, SimpleTraffic, RetentionInv, InReach,
         NEW i \in received, Number(i) = expected
  PROVE  /\ i \in Nat /\ i < Left
         /\ Place(expected) = i
         /\ Place(seq_add(expected, 1)) = i + 1
<1>1. /\ i \in Nat /\ i < Left /\ taken - i < Half
      /\ Left \in Nat /\ taken \in Nat /\ Left <= taken
      /\ Half \in Nat \ {0} /\ SeqMod = Half + Half
  <2>1. i \in Nat /\ i < Left /\ taken - i < Half
    BY DEF TypeOK, RetentionInv, OnlyLeft, InReach
  <2>2. QED
    BY <2>1, Bounds, SeqModPositive DEF RetentionInv
<1>2. Place(Number(i)) = i
  <2>1. i \in Int /\ 0 <= taken - i /\ taken - i < SeqMod
    BY <1>1
  <2>2. QED
    BY <2>1, PlaceOfNumber DEF RetentionInv, CountersAgree
<1>3. Place(Number(i + 1)) = i + 1
  <2>1. i + 1 \in Int /\ 0 <= taken - (i + 1) /\ taken - (i + 1) < SeqMod
    BY <1>1
  <2>2. QED
    BY <2>1, PlaceOfNumber DEF RetentionInv, CountersAgree
<1>4. Number(i + 1) = seq_add(expected, 1)
  BY <1>1, NextNumber
<1>5. QED
  BY <1>1, <1>2, <1>3, <1>4

LEMMA AgentHandleRetention ==
  ASSUME TypeOK, SimpleTraffic, RetentionInv, InReach, AgentHandle
  PROVE  RetentionInv'
<1>1. PICK i \in received :
        /\ Number(i) = expected
        /\ received' = received \ {i}
        /\ delivered' = delivered \cup {i}
        /\ expected' = seq_add(expected, 1)
        /\ UNCHANGED <<client, network, forgone>>
  BY DEF AgentHandle
<1>2. /\ i \in Nat /\ i < Left /\ Place(expected) = i
      /\ Place(seq_add(expected, 1)) = i + 1
  BY <1>1, InTurn
<1>3. Counted' /\ CountersAgree' /\ Left' = Left
  BY <1>1, SendStateKept DEF RetentionInv, client, sendState
<1>4. Left \in Nat
  BY Bounds DEF RetentionInv
<1>5. \A s : Place(s)' = Place(s)
  BY <1>1 DEF Place, Age, client
<1>6. Place(expected)' = i + 1
  <2>1. Place(expected)' = Place(seq_add(expected, 1))
    BY <1>1 DEF Place, Age, client
  <2>2. QED
    BY <1>2, <2>1
<1>7. \A j : Over(j) => Over(j)'
  BY <1>1 DEF Over
<1>8. Over(i)'
  BY <1>1 DEF Over
<1>9. OwnKeys' /\ LeftKept' /\ OnlyLeft'
  <2>1. OwnKeys'
    BY <1>1, <1>3 DEF RetentionInv, OwnKeys, Buffered, client
  <2>2. LeftKept'
    BY <1>1, <1>3, <1>7 DEF RetentionInv, LeftKept, client
  <2>3. OnlyLeft'
    BY <1>1, <1>3 DEF RetentionInv, OnlyLeft, network
  <2>4. QED
    BY <2>1, <2>2, <2>3
<1>10. AgentBehind'
  <2>1. i + 1 \in 0 .. Left
    BY <1>2, <1>4
  <2>2. ASSUME NEW j \in 0 .. i
        PROVE  Over(j)'
    <3>1. CASE j = i
      BY <1>8, <3>1
    <3>2. CASE j # i
      <4>1. j \in 0 .. Place(expected) - 1
        BY <1>2, <3>2
      <4>2. QED
        BY <1>7, <4>1 DEF RetentionInv, AgentBehind
    <3>3. QED
      BY <3>1, <3>2
  <2>3. ASSUME NEW j \in delivered'
        PROVE  j < i + 1
    <3>1. CASE j = i
      BY <1>2, <3>1
    <3>2. CASE j # i
      <4>1. j \in delivered /\ j \in Nat
        BY <1>1, <3>2 DEF TypeOK
      <4>2. j < Place(expected)
        BY <4>1 DEF RetentionInv, AgentBehind
      <4>3. QED
        BY <1>2, <4>1, <4>2
    <3>3. QED
      BY <3>1, <3>2
  <2>4. (i + 1) - 1 = i
    BY <1>2
  <2>5. QED
    BY <1>3, <1>6, <2>1, <2>2, <2>3, <2>4 DEF AgentBehind
<1>11. HeartbeatsSound'
  BY <1>1, <1>3, <1>5, <1>7 DEF RetentionInv, HeartbeatsSound, network
<1>12. AcknacksBehind'
  <2>1. \A a \in acks : Place(a.first) \in 0 .. i + 1
    BY <1>2 DEF RetentionInv, AcknacksBehind
  <2>2. QED
    BY <1>1, <1>5, <1>6, <2>1 DEF AcknacksBehind, network
<1>13. QED
  BY <1>3, <1>9, <1>10, <1>11, <1>12 DEF RetentionInv

LEMMA AgentHeartbeatRetention ==
  ASSUME TypeOK, SimpleTraffic, RetentionInv, InReach,
         NEW h \in hbs, AgentHeartbeat(h)
  PROVE  RetentionInv'
<1> DEFINE first == IF seq_lt(expected, h.first) THEN h.first ELSE expected
<1>1. PICK bits \in SUBSET (0 .. BitmapWidth - 1) :
        /\ expected' = first
        /\ received' \subseteq received
        /\ acks' = Put(acks, [first |-> first, bits |-> bits])
        /\ UNCHANGED <<client, data, hbs, delivered, forgone>>
  BY DEF AgentHeartbeat
<1>2. Counted' /\ CountersAgree' /\ Left' = Left
  BY <1>1, SendStateKept DEF RetentionInv, client, sendState
<1>3. \A s : Place(s)' = Place(s)
  BY <1>1 DEF Place, Age, client
<1>4. /\ Place(expected) \in 0 .. Left /\ Place(h.first) \in 0 .. Left - 1
      /\ \A i \in 0 .. Place(h.first) - 1 : Over(i)
      /\ \A i \in 0 .. Place(expected) - 1 : Over(i)
      /\ Left \in Nat
  BY Bounds DEF RetentionInv, AgentBehind, HeartbeatsSound
<1>5. seq_lt(expected, h.first) => Place(expected) < Place(h.first)
  <2>1. expected \in SeqNums /\ h.first \in SeqNums
        /\ Age(expected) < Half /\ Age(h.first) < Half
    BY DEF TypeOK, Heartbeats, InReach
  <2>2. QED
    BY <2>1, PlaceOrder DEF RetentionInv, CountersAgree
<1>6. /\ Place(first) \in 0 .. Left
      /\ Place(expected) <= Place(first)
      /\ \A i \in 0 .. Place(first) - 1 : Over(i)
  <2>1. CASE seq_lt(expected, h.first)
    BY <1>4, <1>5, <2>1
  <2>2. CASE ~seq_lt(expected, h.first)
    BY <1>4, <2>2
  <2>3. QED
    BY <2>1, <2>2
<1>7. Place(expected)' = Place(first)
  BY <1>1 DEF Place, Age, client
<1> HIDE DEF first
<1>8. \A i : Over(i)' <=> Over(i)
  BY <1>1 DEF Over
<1>9. OwnKeys' /\ LeftKept' /\ OnlyLeft'
  BY <1>1, <1>2, <1>8
     DEF RetentionInv, OwnKeys, LeftKept, OnlyLeft, Buffered, client
<1>10. AgentBehind'
  <2>1. ASSUME NEW j \in delivered
        PROVE  j < Place(first)
    <3>1. j \in Nat /\ j < Place(expected)
      BY DEF TypeOK, RetentionInv, AgentBehind
    <3>2. QED
      BY <1>4, <1>6, <3>1
  <2>2. QED
    BY <1>1, <1>2, <1>6, <1>7, <1>8, <2>1 DEF AgentBehind
<1>11. HeartbeatsSound'
  BY <1>1, <1>2, <1>3, <1>8 DEF RetentionInv, HeartbeatsSound
<1>12. AcknacksBehind'
  <2> SUFFICES ASSUME NEW a \in acks'
               PROVE  Place(a.first) \in 0 .. Place(first)
    BY <1>3, <1>7 DEF AcknacksBehind
  <2>1. a \in acks \/ a = [first |-> first, bits |-> bits]
    BY <1>1, PutSubset
  <2>2. CASE a \in acks
    <3>1. Place(a.first) \in 0 .. Place(expected)
      BY <2>2 DEF RetentionInv, AcknacksBehind
    <3>2. QED
      BY <1>4, <1>6, <3>1
  <2>3. CASE a = [first |-> first, bits |-> bits]
    <3>1. a.first = first
      BY <2>3
    <3>2. QED
      BY <1>4, <1>6, <3>1
  <2>4. QED
    BY <2>1, <2>2, <2>3
<1>13. QED
  BY <1>2, <1>9, <1>10, <1>11, <1>12 DEF RetentionInv

LEMMA LoseRetention ==
  ASSUME RetentionInv, LoseData \/ LoseHeartbeat \/ LoseAcknack
  PROVE  RetentionInv'
<1>1. /\ data' \subseteq data /\ hbs' \subseteq hbs /\ acks' \subseteq acks
      /\ UNCHANGED <<client, agent, forgone>>
  BY DEF LoseData, LoseHeartbeat, LoseAcknack
<1>2. Counted' /\ CountersAgree' /\ Left' = Left
  BY <1>1, SendStateKept DEF RetentionInv, client, sendState
<1>3. \A s : Place(s)' = Place(s)
  BY <1>1 DEF Place, Age, client
<1>4. \A i : Over(i)' <=> Over(i)
  BY <1>1 DEF Over, agent
<1>5. OwnKeys' /\ LeftKept' /\ OnlyLeft'
  BY <1>1, <1>2, <1>4
     DEF RetentionInv, OwnKeys, LeftKept, OnlyLeft, Buffered, client, agent
<1>6. Place(expected)' = Place(expected)
  BY <1>1 DEF Place, Age, client, agent
<1>7. AgentBehind'
  BY <1>1, <1>2, <1>4, <1>6 DEF RetentionInv, AgentBehind, agent
<1>8. HeartbeatsSound'
  BY <1>1, <1>2, <1>3, <1>4 DEF RetentionInv, HeartbeatsSound
<1>9. AcknacksBehind'
  BY <1>1, <1>3, <1>6 DEF RetentionInv, AcknacksBehind
<1>10. QED
  BY <1>2, <1>5, <1>7, <1>8, <1>9 DEF RetentionInv

-----------------------------------------------------------------------------
(* The invariant.                                                          *)

LEMMA InitRetention ==
  ASSUME SimpleTraffic, Init
  PROVE  RetentionInv
<1>1. StartSeq - StartSeq = 0 /\ 0 % SeqMod = 0
  <2>1. StartSeq \in Int /\ SeqMod \in Nat \ {0}
    BY SeqNumsArith, StreamAssumption
  <2>2. QED
    BY <2>1
<1>2. Age(StartSeq) = 0 /\ Place(StartSeq) = 0
  BY <1>1 DEF Init, Age, Place
<1>3. Buffered = {}
  BY DEF Init, Buffered
<1>4. ~Blocked /\ Left = 0 /\ Owed = 0
  BY DEF Init, Blocked, Left, Owed
<1>5. Counted
  <2>1. MaxParts \in Nat
    BY StreamAssumption DEF MaxParts
  <2>2. 0 * MaxParts = 0
    BY <2>1
  <2>3. QED
    BY <1>4, <2>2 DEF Init, Counted
<1>6. CountersAgree
  BY <1>4, FirstNumber DEF Init, CountersAgree
<1>7. OwnKeys /\ LeftKept /\ OnlyLeft /\ AgentBehind /\ HeartbeatsSound
      /\ AcknacksBehind
  BY <1>2, <1>3, <1>4
     DEF Init, OwnKeys, LeftKept, OnlyLeft, AgentBehind, HeartbeatsSound,
         AcknacksBehind
<1>8. QED
  BY <1>5, <1>6, <1>7 DEF RetentionInv

LEMMA NextRetention ==
  ASSUME SimpleTraffic
  PROVE  TypeOK /\ InReach /\ RetentionInv /\ [Next]_vars => RetentionInv'
<1> SUFFICES ASSUME TypeOK, InReach, RetentionInv, [Next]_vars
             PROVE  RetentionInv'
  OBVIOUS
<1>1. CASE BeginPlain
  <2>1. "plain" \in Kinds /\ Begin("plain", 1)
    BY <1>1 DEF BeginPlain
  <2>2. 1 \in 1 .. MaxParts
    BY StreamAssumption DEF MaxParts
  <2>3. QED
    BY <2>1, <2>2, BeginRetention
<1>2. CASE BeginFragmented
  <2>1. "fragment" \in Kinds
    BY <1>2 DEF BeginFragmented
  <2>2. PICK parts \in 2 .. MaxFragments : Begin("fragment", parts)
    BY <1>2 DEF BeginFragmented
  <2>3. parts \in 1 .. MaxParts
    BY <2>1, StreamAssumption DEF MaxParts
  <2>4. QED
    BY <2>1, <2>2, <2>3, BeginRetention
<1>3. CASE SendBuffered
  BY <1>3, SendBufferedRetention
<1>4. CASE SendBlocked
  BY <1>4, SendBlockedRetention
<1>5. CASE PollExpires
  BY <1>5, PollExpiresRetention
<1>6. CASE Heartbeat
  BY <1>6, HeartbeatRetention
<1>7. CASE \E a \in acks : RecvAcknack(a)
  BY <1>7, RecvAcknackRetention
<1>8. CASE \E i \in data : AgentData(i)
  BY <1>8, AgentDataRetention
<1>9. CASE AgentHandle
  BY <1>9, AgentHandleRetention
<1>10. CASE \E h \in hbs : AgentHeartbeat(h)
  BY <1>10, AgentHeartbeatRetention
<1>11. CASE LoseData \/ LoseHeartbeat \/ LoseAcknack
  BY <1>11, LoseRetention
<1>12. CASE UNCHANGED vars
  <2>1. UNCHANGED <<sendState, buf, network, agent, forgone>>
    BY <1>12 DEF vars, client, sendState
  <2>2. Counted' /\ CountersAgree' /\ Left' = Left
    BY <2>1, SendStateKept DEF RetentionInv
  <2>3. QED
    BY <2>1, <2>2
       DEF RetentionInv, OwnKeys, LeftKept, OnlyLeft, AgentBehind,
           HeartbeatsSound, AcknacksBehind, Over, Buffered, Place, Age,
           sendState, network, agent
<1>13. QED
  BY <1>1, <1>2, <1>3, <1>4, <1>5, <1>6, <1>7, <1>8, <1>9, <1>10, <1>11,
     <1>12 DEF Next

\* The two counters agree, the window holds exactly what has left and was not
\* acknowledged, and the Agent, the HEARTBEATs and the ACKNACKs stay behind it.
THEOREM StreamInvHolds ==
  ASSUME SimpleTraffic
  PROVE  ReachSpec => []StreamInv
<1>1. Init => RetentionInv
  BY InitRetention
<1>2. TypeOK /\ InReach /\ RetentionInv /\ [Next]_vars => RetentionInv'
  BY NextRetention
<1>3. QED
  BY <1>1, <1>2, TypeCorrect, PTL DEF ReachSpec, Spec, StreamInv

\* A behaviour that stamps fewer than half the circle, 32768 datagrams in
\* the code, has everything in reach.
THEOREM ShortSessions ==
  ASSUME SimpleTraffic, MaxStamped < Half
  PROVE  Spec => ReachSpec
<1>1. TypeOK /\ RetentionInv => InReach
  <2> SUFFICES ASSUME TypeOK, RetentionInv
               PROVE  InReach
    OBVIOUS
  <2>1. /\ taken \in Nat /\ taken < Half /\ Half \in Nat
        /\ Left \in Nat
    <3>1. /\ taken \in Nat /\ Owed \in Nat /\ MaxStamped \in Nat /\ Left \in Nat
          /\ taken + Owed <= MaxStamped
      BY Bounds DEF RetentionInv
    <3>2. QED
      BY <3>1, SeqModPositive
  <2>2. ASSUME NEW s \in SeqNums, Place(s) \in Nat
        PROVE  Age(s) < Half
    BY <2>1, <2>2, PlaceTyped
  <2>3. \A i \in data \cup received : taken - i < Half
    <3>1. \A i \in data \cup received : i \in Nat
      BY DEF TypeOK
    <3>2. QED
      BY <2>1, <3>1
  <2>4. \A k \in Buffered : taken - buf[k] < Half
    <3>1. \A k \in Buffered : buf[k] \in Nat
      BY DEF Buffered, TypeOK
    <3>2. QED
      BY <2>1, <3>1
  <2>5. Age(expected) < Half
    <3>1. Place(expected) \in Nat
      BY <2>1 DEF RetentionInv, AgentBehind
    <3>2. QED
      BY <2>2, <3>1 DEF TypeOK
  <2>6. \A h \in hbs : Age(h.first) < Half /\ Age(h.last) < Half
    <3>1. \A h \in hbs : /\ h.first \in SeqNums /\ Place(h.first) \in Nat
                         /\ h.last \in SeqNums /\ Place(h.last) \in Nat
      BY <2>1 DEF TypeOK, Heartbeats, RetentionInv, HeartbeatsSound
    <3>2. QED
      BY <2>2, <3>1
  <2>7. \A a \in acks : Age(a.first) < Half
    <3>1. \A a \in acks : a.first \in SeqNums /\ Place(a.first) \in Nat
      BY <2>1 DEF TypeOK, Acknacks, RetentionInv, AcknacksBehind, AgentBehind
    <3>2. QED
      BY <2>2, <3>1
  <2>8. QED
    BY <2>3, <2>4, <2>5, <2>6, <2>7 DEF InReach
<1>2. Init => TypeOK /\ RetentionInv
  BY InitTypeOK, InitRetention
<1>3. TypeOK /\ RetentionInv /\ [Next]_vars => (TypeOK /\ RetentionInv)'
  BY <1>1, NextTypeOK, NextRetention
<1>4. QED
  BY <1>1, <1>2, <1>3, PTL DEF Spec, ReachSpec

-----------------------------------------------------------------------------
(* What it is for.                                                         *)

LEMMA DepartedIsLeft ==
  ASSUME TypeOK, SimpleTraffic, RetentionInv
  PROVE  Departed = 0 .. Left - 1
<1>1. taken \in Nat
  BY DEF TypeOK
<1>2. CASE Blocked
  <2>1. depth = 1 /\ frame[1].waiting
    BY <1>2 DEF Blocked
  <2>2. HeldBack = {taken - 1}
    BY <1>2, <2>1 DEF HeldBack, RetentionInv, CountersAgree
  <2>3. QED
    BY <1>1, <1>2, <2>2 DEF Departed, Left
<1>3. CASE ~Blocked
  <2>1. depth \in 0 .. 1
    BY DEF TypeOK, SimpleTraffic
  <2>2. HeldBack = {}
    BY <1>3, <2>1 DEF HeldBack, Blocked
  <2>3. QED
    BY <1>3, <2>2 DEF Departed, Left
<1>4. QED
  BY <1>2, <1>3

LEMMA RetentionInvSuffices ==
  ASSUME SimpleTraffic
  PROVE  TypeOK /\ RetentionInv => Retained /\ HeartbeatTruthful
BY DepartedIsLeft
   DEF Retained, HeartbeatTruthful, RetentionInv, LeftKept, HeartbeatsSound

\* For plain messages before the counter wraps, and for fragmented messages
\* however often it wraps, no loss, duplication or reordering of datagrams
\* makes the window let go of a datagram the Agent has not handled, unless
\* the retry limit or a full window gave it up.
THEOREM NothingForgotten ==
  ASSUME SimpleTraffic
  PROVE  ReachSpec => []Retained
<1>1. TypeOK /\ RetentionInv => Retained
  BY RetentionInvSuffices
<1>2. QED
  BY <1>1, StreamInvHolds, PTL DEF StreamInv

\* Under the same conditions every HEARTBEAT announces only datagrams that
\* have left, and never makes the Agent skip one that could still be resent.
THEOREM HeartbeatsTruthful ==
  ASSUME SimpleTraffic
  PROVE  ReachSpec => []HeartbeatTruthful
<1>1. TypeOK /\ RetentionInv => HeartbeatTruthful
  BY RetentionInvSuffices
<1>2. QED
  BY <1>1, StreamInvHolds, PTL DEF StreamInv

-----------------------------------------------------------------------------
(* The stream implements StreamDelivery: a datagram that is stamped is     *)
(* accepted, one the Agent handles is the oldest that is neither handled   *)
(* nor given up, and every other step gives up some or changes nothing.    *)

LEMMA AgentHandleHandles ==
  ASSUME TypeOK, SimpleTraffic, RetentionInv, InReach, AgentHandle
  PROVE  \E m \in 0 .. taken - 1 : Delivery!Handle(m)
<1>1. PICK i \in received :
        /\ Number(i) = expected
        /\ delivered' = delivered \cup {i}
        /\ taken' = taken /\ forgone' = forgone
  BY DEF AgentHandle, client
<1>2. i \in Nat /\ i < Left /\ Place(expected) = i
  BY <1>1, InTurn
<1>3. i \in 0 .. taken - 1
  <2>1. taken \in Nat /\ Left \in Nat /\ Left <= taken
    BY Bounds DEF RetentionInv
  <2>2. QED
    BY <1>2, <2>1
<1>4. \A j \in delivered : j \in Nat /\ j < i
  BY <1>2 DEF TypeOK, RetentionInv, AgentBehind
<1>5. \A j \in 0 .. i - 1 : j \in delivered \cup forgone
  BY <1>2 DEF RetentionInv, AgentBehind, Over
<1>6. Delivery!Handle(i)
  BY <1>1, <1>2, <1>4, <1>5 DEF Delivery!Handle
<1>7. QED
  BY <1>3, <1>6

\* Only what was stamped is given up, so a step that gives up does no more.
LEMMA GivesUp ==
  ASSUME TypeOK', SimpleTraffic, RetentionInv', taken' = taken,
         delivered' = delivered, forgone \subseteq forgone'
  PROVE  \E lost \in SUBSET (0 .. taken - 1) : Delivery!GiveUp(lost)
<1>1. forgone' \subseteq 0 .. taken' - 1
  <2>1. forgone' \subseteq Nat /\ \A i \in forgone' : i < Left'
    BY DEF TypeOK, RetentionInv, OnlyLeft
  <2>2. taken' \in Nat /\ Left' \in Nat /\ Left' <= taken'
    <3>1. taken' \in Nat
      BY DEF TypeOK
    <3>2. Left' = taken' \/ (Left' = taken' - 1 /\ taken' > 0)
      BY DEF Left, RetentionInv, CountersAgree
    <3>3. QED
      BY <3>1, <3>2
  <2>3. QED
    BY <2>1, <2>2
<1>2. Delivery!GiveUp(forgone')
  BY DEF Delivery!GiveUp
<1>3. forgone' \in SUBSET (0 .. taken - 1)
  BY <1>1
<1>4. QED
  BY <1>2, <1>3

LEMMA NextDelivery ==
  ASSUME SimpleTraffic
  PROVE  TypeOK /\ TypeOK' /\ RetentionInv /\ RetentionInv' /\ InReach
         /\ [Next]_vars => [Delivery!Next]_(Delivery!vars)
<1> SUFFICES ASSUME TypeOK, TypeOK', RetentionInv, RetentionInv', InReach,
                    [Next]_vars
             PROVE  Delivery!Next
  OBVIOUS
<1> USE DEF Delivery!Next
<1>1. CASE SendBuffered \/ SendBlocked
  BY <1>1 DEF SendBuffered, SendBlocked, TakeSeq, agent, Delivery!Accept
<1>2. CASE AgentHandle
  BY <1>2, AgentHandleHandles
<1>3. ASSUME taken' = taken, delivered' = delivered, forgone \subseteq forgone'
      PROVE  Delivery!Next
  BY <1>3, GivesUp
<1>4. CASE BeginPlain \/ BeginFragmented \/ PollExpires \/ Heartbeat
  BY <1>3, <1>4 DEF BeginPlain, BeginFragmented, Begin, PollExpires, Heartbeat,
                    agent, client
<1>5. CASE \E a \in acks : RecvAcknack(a)
  BY <1>3, <1>5 DEF RecvAcknack, agent
<1>6. CASE (\E i \in data : AgentData(i)) \/ (\E h \in hbs : AgentHeartbeat(h))
  BY <1>3, <1>6 DEF AgentData, AgentHeartbeat, client
<1>7. CASE LoseData \/ LoseHeartbeat \/ LoseAcknack \/ UNCHANGED vars
  BY <1>3, <1>7 DEF LoseData, LoseHeartbeat, LoseAcknack, vars, agent, client
<1>8. QED
  BY <1>1, <1>2, <1>4, <1>5, <1>6, <1>7 DEF Next

\* Session, stream, network and Agent together do what StreamDelivery says:
\* messages are handled once each and in the order they were accepted, and
\* one is passed over only after it was given up.
THEOREM DeliveryImplemented ==
  ASSUME SimpleTraffic
  PROVE  ReachSpec => DeliverySpec
<1>1. Init => Delivery!Init
  BY DEF Init, Delivery!Init
<1>2. TypeOK /\ TypeOK' /\ RetentionInv /\ RetentionInv' /\ InReach
      /\ [Next]_vars => [Delivery!Next]_(Delivery!vars)
  BY NextDelivery
<1>3. QED
  BY <1>1, <1>2, StreamInvHolds, PTL
     DEF Spec, ReachSpec, StreamInv, DeliverySpec, Delivery!Spec
=============================================================================
