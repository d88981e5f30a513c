--------------------------- MODULE ReliableStream ---------------------------
(***************************************************************************)
(* One reliable output stream of an XRCE session: the retransmit window    *)
(* (OutputReliableStream in snakeros/xrce/reliable.py), the Session code   *)
(* that feeds it (_send_reliable, _send_fragmented, write_data,            *)
(* write_reply), the datagram network and the receiving side of the Agent. *)
(*                                                                         *)
(* The program is single threaded, but Session._send_reliable polls when   *)
(* the window is full, and a poll runs callbacks, which may send on the    *)
(* same stream.  The sends in progress are therefore a call stack.         *)
(*                                                                         *)
(* The network loses, duplicates and reorders: a message stays in its set, *)
(* receivable any number of times, until Lose removes it.                  *)
(*                                                                         *)
(* Datagram i is the one stamped after i others; its header holds          *)
(* Number(i), and that is all the client and the Agent ever compare.       *)
(***************************************************************************)
EXTENDS SeqNum, FiniteSets

CONSTANTS
  MaxBuffered,     \* max_buffered, the window of the stream
  MaxRetries,      \* max_retries, resends of one datagram before giving up
  BitmapWidth,     \* bits in an ACKNACK (16 in the code)
  Kinds,           \* traffic of the application: "plain", "fragment" or both
  MaxFragments,    \* bound: most FRAGMENT datagrams of one message
  MaxDepth,        \* bound: nested sends; 1 when callbacks never send here
  MaxMessages,     \* bound: messages the application sends
  InFlight,        \* bound: HEARTBEATs, and ACKNACKs, under way at once
  StartSeq         \* sequence number the session has reached, window empty

ASSUME StreamAssumption ==
  /\ MaxBuffered \in Nat \ {0}
  /\ MaxRetries \in Nat
  /\ BitmapWidth \in Nat \ {0}
  /\ Kinds \subseteq {"plain", "fragment"}
  /\ MaxFragments \in Nat \ {0, 1}
  /\ MaxDepth \in Nat \ {0}
  /\ MaxMessages \in Nat
  /\ InFlight \in Nat \ {0}
  /\ StartSeq \in SeqNums

VARIABLES
  outSeq,      \* Session._out_seq[stream]: next number of a datagram header
  nextSeq,     \* OutputReliableStream.next_seq: a second, separate counter
  buf,         \* _buf: key -> the datagram buffered under it
  tries,       \* _tries: key -> resends so far
  depth,       \* how many sends are in progress, one inside the other
  frame,       \* the local state of each of them
  begun,       \* messages begun so far (bound)
  taken,       \* history: how many datagrams were stamped
  data,        \* datagrams under way to the Agent
  hbs,         \* HEARTBEATs under way to the Agent
  acks,        \* ACKNACKs under way to the client
  expected,    \* Agent: first number not handled yet
  received,    \* Agent: datagrams held because an earlier one is missing
  delivered,   \* history: datagrams the Agent has handled
  forgone      \* history: datagrams the client knowingly stopped retaining

client == <<outSeq, nextSeq, buf, tries, depth, frame, begun, taken>>
network == <<data, hbs, acks>>
agent == <<expected, received, delivered>>
vars == <<client, network, agent, forgone>>

-----------------------------------------------------------------------------
(* Types.                                                                  *)

Absent == -1                              \* no datagram under this key
Keys == -1 .. SeqMod - 1                  \* "_out_seq - 1" may be -1

Heartbeats == [first : SeqNums, last : SeqNums]
Acknacks == [first : SeqNums, bits : SUBSET (0 .. BitmapWidth - 1)]

Frames == [kind : {"plain", "fragment"}, left : 0 .. MaxFragments,
           waiting : BOOLEAN, key : Keys, datagram : Nat]

\* A send with so many datagrams to go, none of them held back.
Running(kind, left) == [kind |-> kind, left |-> left, waiting |-> FALSE,
                        key |-> 0, datagram |-> 0]

NoFrame == Running("plain", 0)

TypeOK ==
  /\ outSeq \in SeqNums
  /\ nextSeq \in SeqNums
  /\ buf \in [Keys -> Nat \cup {Absent}]
  /\ tries \in [Keys -> 0 .. MaxRetries]
  /\ depth \in 0 .. MaxDepth
  /\ frame \in [1 .. MaxDepth -> Frames]
  /\ \A d \in 1 .. depth : frame[d].left > 0
  /\ begun \in 0 .. MaxMessages
  /\ taken \in Nat
  /\ data \subseteq Nat
  /\ hbs \subseteq Heartbeats
  /\ acks \subseteq Acknacks
  /\ expected \in SeqNums
  /\ received \subseteq Nat
  /\ delivered \subseteq Nat
  /\ forgone \subseteq Nat

\* The number in the header of datagram i.
Number(i) == seq_add(StartSeq, i)

\* A message handed to the network; one that finds it saturated is lost.
Put(net, message) ==
  IF Cardinality(net) < InFlight THEN net \cup {message} ELSE net

-----------------------------------------------------------------------------
(* The window.                                                             *)

Buffered == {k \in Keys : buf[k] # Absent}

Full_OffByOne == Cardinality(Buffered) > MaxBuffered       \* mutant of Full

Full == Cardinality(Buffered) >= MaxBuffered

\* OutputReliableStream.add on a window with room.
Store(key, datagram) ==
  /\ buf' = [buf EXCEPT ![key] = datagram]
  /\ tries' = [tries EXCEPT ![key] = 0]

\* Mutant of SendHeartbeat: `last' is taken as an exclusive bound.
SendHeartbeat_Exclusive ==
  \E first, last \in Buffered :
    /\ \A k \in Buffered : ~seq_lt(k, first) /\ ~seq_lt(last, k)
    /\ hbs' = Put(hbs, [first |-> first % SeqMod, last |-> (last - 1) % SeqMod])

\* Mutant of SendHeartbeat: the newest datagram alone is announced.
SendHeartbeat_NewestOnly ==
  \E last \in Buffered :
    /\ \A k \in Buffered : ~seq_lt(last, k)
    /\ hbs' = Put(hbs, [first |-> last % SeqMod, last |-> last % SeqMod])

\* Mutant of SendHeartbeat: up to the newest number taken, buffered or not.
SendHeartbeat_Stamped ==
  \E first \in Buffered :
    /\ \A k \in Buffered : ~seq_lt(k, first)
    /\ hbs' = Put(hbs, [first |-> first % SeqMod, last |-> (outSeq - 1) % SeqMod])

\* OutputReliableStream.heartbeat_range, packed into two unsigned fields.
SendHeartbeat ==
  \E first, last \in Buffered :
    /\ \A k \in Buffered : ~seq_lt(k, first) /\ ~seq_lt(last, k)
    /\ hbs' = Put(hbs, [first |-> first % SeqMod, last |-> last % SeqMod])

-----------------------------------------------------------------------------
(* The client: sending.                                                    *)

\* The program reads datagrams between sends and inside a blocked send.
Polling == depth > 0 => frame[depth].waiting
Sending == depth > 0 /\ ~frame[depth].waiting

Init ==
  /\ outSeq = StartSeq
  /\ nextSeq = IF Kinds = {"fragment"} THEN StartSeq ELSE 0
  /\ buf = [k \in Keys |-> Absent]
  /\ tries = [k \in Keys |-> 0]
  /\ depth = 0
  /\ frame = [d \in 1 .. MaxDepth |-> NoFrame]
  /\ begun = 0 /\ taken = 0
  /\ data = {} /\ hbs = {} /\ acks = {}
  /\ expected = StartSeq
  /\ received = {} /\ delivered = {} /\ forgone = {}

\* write_data or write_reply is called, by the application or in a callback.
Begin(kind, parts) ==
  /\ Polling
  /\ depth < MaxDepth
  /\ begun < MaxMessages
  /\ depth' = depth + 1
  /\ frame' = [frame EXCEPT ![depth + 1] = Running(kind, parts)]
  /\ begun' = begun + 1
  /\ UNCHANGED <<outSeq, nextSeq, buf, tries, taken, network, agent, forgone>>

BeginPlain == "plain" \in Kinds /\ Begin("plain", 1)

BeginFragmented ==
  "fragment" \in Kinds /\ \E parts \in 2 .. MaxFragments : Begin("fragment", parts)

\* Mutant of KeyOf: the session's counter, which is already one further.
KeyOf_NotReduced(kind) == IF kind = "fragment" THEN nextSeq ELSE seq_add(outSeq, 1)

\* The key under which the datagram just stamped is buffered: a fragment
\* takes it from the stream, any other datagram from the session's counter.
KeyOf(kind) == IF kind = "fragment" THEN nextSeq ELSE seq_add(outSeq, 1) - 1

\* Mutant of TakeSeq: the second fragment on, the stream's counter rests.
TakeSeq_Forgotten(kind) ==
  /\ outSeq' = seq_add(outSeq, 1) /\ taken' = taken + 1
  /\ UNCHANGED nextSeq

\* _begin_message stamps the header; _send_fragmented also calls take_seq.
TakeSeq(kind) ==
  /\ outSeq' = seq_add(outSeq, 1) /\ taken' = taken + 1
  /\ nextSeq' = IF kind = "fragment" THEN seq_add(nextSeq, 1) ELSE nextSeq

\* The innermost send has put its datagram on the wire.
DatagramDone ==
  IF frame[depth].left = 1
  THEN /\ frame' = [frame EXCEPT ![depth] = NoFrame]
       /\ depth' = depth - 1
  ELSE /\ frame' = [frame EXCEPT ![depth] =
                      Running(frame[depth].kind, frame[depth].left - 1)]
       /\ UNCHANGED depth

\* _send_reliable with room in the window.
SendBuffered ==
  /\ Sending
  /\ ~Full
  /\ TakeSeq(frame[depth].kind)
  /\ Store(KeyOf(frame[depth].kind), taken)
  /\ data' = data \cup {taken}
  /\ DatagramDone
  /\ UNCHANGED <<begun, hbs, acks, agent, forgone>>

\* _send_reliable with the window full: force a HEARTBEAT, start poll(20).
SendBlocked ==
  /\ Sending
  /\ Full
  /\ TakeSeq(frame[depth].kind)
  /\ SendHeartbeat
  /\ frame' = [frame EXCEPT ![depth] =
                 [@ EXCEPT !.waiting = TRUE, !.datagram = taken,
                           !.key = KeyOf(frame[depth].kind)]]
  /\ UNCHANGED <<buf, tries, depth, begun, data, acks, agent, forgone>>

\* Mutant of PollExpires: the datagram the poll made no room for is not sent.
PollExpires_NotSent ==
  /\ depth > 0
  /\ frame[depth].waiting
  /\ IF Full THEN UNCHANGED <<buf, tries, data>>
     ELSE /\ Store(frame[depth].key, frame[depth].datagram)
          /\ data' = data \cup {frame[depth].datagram}
  /\ DatagramDone
  /\ UNCHANGED <<outSeq, nextSeq, begun, taken, hbs, acks, agent, forgone>>

\* poll(20) returns: the second add may fail, the datagram is sent anyway.
PollExpires ==
  /\ depth > 0
  /\ frame[depth].waiting
  /\ IF Full
     THEN /\ forgone' = forgone \cup {frame[depth].datagram}
          /\ UNCHANGED <<buf, tries>>
     ELSE /\ Store(frame[depth].key, frame[depth].datagram)
          /\ UNCHANGED forgone
  /\ data' = data \cup {frame[depth].datagram}
  /\ DatagramDone
  /\ UNCHANGED <<outSeq, nextSeq, begun, taken, hbs, acks, agent>>

-----------------------------------------------------------------------------
(* The client: heartbeats and acknowledgements, both from inside a poll.   *)

\* poll -> _send_heartbeat.  Its 200 ms rate limit is left to the scheduler.
Heartbeat ==
  /\ Polling
  /\ SendHeartbeat
  /\ UNCHANGED <<client, data, acks, agent, forgone>>

\* _dispatch -> OutputReliableStream.on_acknack, then the resends.
RecvAcknack(a) ==
  LET acked  == {k \in Buffered : seq_lt(k, a.first)}
      nacked == {k \in Buffered \ acked :
                   \E b \in a.bits : k = seq_add(a.first, b)}
      dead   == {k \in nacked : tries[k] + 1 > MaxRetries}
      resent == nacked \ dead
  IN  /\ Polling
      /\ buf' = [k \in Keys |-> IF k \in acked \cup dead THEN Absent ELSE buf[k]]
      /\ tries' = [k \in Keys |-> IF k \in acked \cup dead THEN 0
                                  ELSE IF k \in resent THEN tries[k] + 1
                                  ELSE tries[k]]
      /\ data' = data \cup {buf[k] : k \in resent}
      /\ forgone' = forgone \cup {buf[k] : k \in dead}
      /\ UNCHANGED <<outSeq, nextSeq, depth, frame, begun, taken, hbs, acks, agent>>

-----------------------------------------------------------------------------
(* The Agent, outside this repository: it holds datagrams that arrive out  *)
(* of order, handles them in order, answers a HEARTBEAT with an ACKNACK,   *)
(* and skips what a HEARTBEAT says is no longer available.                 *)

AgentData(i) ==
  /\ received' = IF seq_lt(Number(i), expected) THEN received ELSE received \cup {i}
  /\ UNCHANGED <<client, network, expected, delivered, forgone>>

AgentHandle == \E i \in received :
  /\ Number(i) = expected
  /\ received' = received \ {i}
  /\ delivered' = delivered \cup {i}
  /\ expected' = seq_add(expected, 1)
  /\ UNCHANGED <<client, network, forgone>>

AgentHeartbeat(h) ==
  LET first == IF seq_lt(expected, h.first) THEN h.first ELSE expected
      missing == {b \in 0 .. BitmapWidth - 1 :
                    LET s == seq_add(first, b)
                    IN  seq_le(s, h.last) /\ \A i \in received : Number(i) # s}
  IN  /\ expected' = first
      /\ received' = {i \in received : ~seq_lt(Number(i), first)}
      /\ acks' = Put(acks, [first |-> first, bits |-> missing])
      /\ UNCHANGED <<client, data, hbs, delivered, forgone>>

\* The network drops a message, or delivers no further copy of it.
LoseData == \E i \in data :
  data' = data \ {i} /\ UNCHANGED <<client, hbs, acks, agent, forgone>>

LoseHeartbeat == \E h \in hbs :
  hbs' = hbs \ {h} /\ UNCHANGED <<client, data, acks, agent, forgone>>

LoseAcknack == \E a \in acks :
  acks' = acks \ {a} /\ UNCHANGED <<client, data, hbs, agent, forgone>>

-----------------------------------------------------------------------------

Next ==
  \/ BeginPlain
  \/ BeginFragmented
  \/ SendBuffered
  \/ SendBlocked
  \/ PollExpires
  \/ Heartbeat
  \/ \E a \in acks : RecvAcknack(a)
  \/ \E i \in data : AgentData(i)
  \/ AgentHandle
  \/ \E h \in hbs : AgentHeartbeat(h)
  \/ LoseData
  \/ LoseHeartbeat
  \/ LoseAcknack

Spec == Init /\ [][Next]_vars

\* Most numbers a message, and a behaviour, can stamp, from the bounds.
MaxParts == IF "fragment" \in Kinds THEN MaxFragments ELSE 1
MaxStamped == MaxMessages * MaxParts

(* spin_once is called for ever, so heartbeats keep leaving and a send in  *)
(* progress goes on.  No message is under way for ever, and of one that is *)
(* sent again and again a copy arrives.                                    *)
Fairness ==
  /\ WF_vars(SendBuffered) /\ WF_vars(SendBlocked) /\ WF_vars(PollExpires)
  /\ WF_vars(Heartbeat) /\ WF_vars(LoseHeartbeat) /\ WF_vars(LoseAcknack)
  /\ WF_vars(AgentHandle)
  /\ \A i \in 0 .. MaxStamped - 1 :
       SF_vars(i \in data /\ AgentData(i))
  /\ SF_vars(\E h \in hbs : AgentHeartbeat(h))
  /\ SF_vars(\E a \in acks : RecvAcknack(a))

FairSpec == Spec /\ Fairness

-----------------------------------------------------------------------------
(* What modular comparison needs of the network.                           *)

\* How many numbers the session has taken since it took s, going by the
\* numbers alone, and the datagram that s was given to if that is so.
Age(s) == (outSeq - s) % SeqMod
Place(s) == taken - Age(s)

\* No datagram, HEARTBEAT or ACKNACK is still under way, kept by the client
\* or waited for by the Agent after half the circle was stamped.  No code
\* sees to that; but it is 32768 datagrams, and a send that finds the window
\* full waits 20 ms.
InReach ==
  /\ \A i \in data \cup received : taken - i < Half
  /\ \A k \in Buffered : taken - buf[k] < Half
  /\ Age(expected) < Half
  /\ \A h \in hbs : Age(h.first) < Half /\ Age(h.last) < Half
  /\ \A a \in acks : Age(a.first) < Half

ReachSpec == Spec /\ []InReach

-----------------------------------------------------------------------------
(* Properties.                                                             *)

\* Datagrams that a blocked send still holds back, and those that have left.
HeldBack == {frame[d].datagram : d \in {e \in 1 .. depth : frame[e].waiting}}
Departed == (0 .. taken - 1) \ HeldBack

\* The Agent has handled the datagram, or the client has given it up.
Over(i) == i \in delivered \cup forgone

\* Whatever the loss, duplication and order of datagrams and ACKNACKs, a
\* datagram the Agent has not handled can still be resent under the number
\* the Agent will ask for, unless it was given up: on_acknack and add never
\* let go of anything else.
Retained == \A i \in Departed : Over(i) \/ buf[Number(i)] = i

\* "The buffer is hard-bounded": nested sends and the second add of
\* _send_reliable, after the poll, included.
WindowBounded == Cardinality(Buffered) <= MaxBuffered

\* A HEARTBEAT never announces a number that was not stamped, nor one whose
\* datagram has not left yet, and never moves the Agent past a datagram the
\* client would still resend.
HeartbeatTruthful ==
  \A h \in hbs :
    /\ {Place(h.first), Place(h.last)} \subseteq Departed
    /\ \A i \in 0 .. Place(h.first) - 1 : Over(i)

\* Session, stream, network and Agent together do what StreamDelivery says.
Delivery == INSTANCE StreamDelivery WITH accepted <- taken, handled <- delivered

DeliverySpec == Delivery!Spec

\* Every datagram is eventually handled by the Agent or given up.
Settled == \A i \in 0 .. MaxStamped - 1 : i < taken ~> Over(i)

\* The window always empties again: no datagram occupies it for ever.
WindowDrains == []<>(Buffered = {})

-----------------------------------------------------------------------------
(* The inductive invariant behind Retained and HeartbeatTruthful.          *)

\* The traffic for which the two counters agree: one kind of message,
\* callbacks that do not send, and, for plain messages, no wrap of the
\* session's counter.
SimpleTraffic ==
  /\ Kinds = {"plain"} \/ Kinds = {"fragment"}
  /\ MaxDepth = 1
  /\ Kinds = {"plain"} => StartSeq + MaxStamped < SeqMod

Blocked == depth = 1 /\ frame[1].waiting

\* How many datagrams have left; how many the send in progress will stamp.
Left == IF Blocked THEN taken - 1 ELSE taken
Owed == IF depth = 0 THEN 0
        ELSE IF Blocked THEN frame[1].left - 1 ELSE frame[1].left

Counted == taken + Owed <= begun * MaxParts

CountersAgree ==
  /\ outSeq = Number(taken)
  /\ depth = 1 => frame[1].kind \in Kinds
  /\ Blocked => /\ taken > 0
                /\ frame[1].datagram = taken - 1
                /\ frame[1].key = Number(taken - 1)
  /\ Kinds = {"fragment"} => nextSeq = outSeq

OwnKeys == \A k \in Buffered : k = Number(buf[k]) /\ buf[k] < Left

LeftKept == \A i \in 0 .. Left - 1 : Over(i) \/ buf[Number(i)] = i

OnlyLeft == \A i \in data \cup received \cup forgone : i < Left

AgentBehind ==
  /\ Place(expected) \in 0 .. Left
  /\ \A i \in 0 .. Place(expected) - 1 : Over(i)
  /\ \A i \in delivered : i < Place(expected)

HeartbeatsSound ==
  \A h \in hbs :
    /\ Place(h.first) \in 0 .. Left - 1
    /\ Place(h.last) \in 0 .. Left - 1
    /\ \A i \in 0 .. Place(h.first) - 1 : Over(i)

AcknacksBehind == \A a \in acks : Place(a.first) \in 0 .. Place(expected)

RetentionInv ==
  /\ Counted
  /\ CountersAgree
  /\ OwnKeys
  /\ LeftKept
  /\ OnlyLeft
  /\ AgentBehind
  /\ HeartbeatsSound
  /\ AcknacksBehind

StreamInv == TypeOK /\ RetentionInv
=============================================================================
