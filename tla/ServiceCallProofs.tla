------------------------- MODULE ServiceCallProofs -------------------------
(***************************************************************************)
(* Proofs about ServiceCall: its type, and that a call returns only        *)
(* replies that arrived after it began and that no other call returned.    *)
(* They rest on CallInv, which every action preserves.  Last, what a       *)
(* program must keep to for every call to return its own reply.            *)
(***************************************************************************)
EXTENDS ServiceCall, TLAPS

(* What the sequences of the model look like after each change.            *)

LEMMA AppendToSeq ==
  ASSUME NEW S, NEW s \in Seq(S), NEW e \in S
  PROVE  /\ Append(s, e) \in Seq(S)
         /\ Len(Append(s, e)) = Len(s) + 1
         /\ \A i \in 1 .. Len(s) : Append(s, e)[i] = s[i]
         /\ Append(s, e)[Len(s) + 1] = e
  OBVIOUS

LEMMA PrefixOfSeq ==
  ASSUME NEW S, NEW s \in Seq(S), NEW n \in 0 .. Len(s)
  PROVE  /\ SubSeq(s, 1, n) \in Seq(S)
         /\ Len(SubSeq(s, 1, n)) = n
         /\ \A i \in 1 .. n : SubSeq(s, 1, n)[i] = s[i]
  OBVIOUS

LEMMA FrontOfSeq ==
  ASSUME NEW S, NEW s \in Seq(S), s # <<>>
  PROVE  /\ Front(s) \in Seq(S)
         /\ Len(Front(s)) = Len(s) - 1
         /\ \A i \in 1 .. Len(s) - 1 : Front(s)[i] = s[i]
         /\ Len(s) \in 1 .. Len(s)
         /\ Last(s) = s[Len(s)]
         /\ Last(s) \in S
<1>1. Len(s) \in Nat /\ Len(s) > 0
  OBVIOUS
<1>2. Len(s) - 1 \in 0 .. Len(s)
  BY <1>1
<1>3. /\ Front(s) \in Seq(S)
      /\ Len(Front(s)) = Len(s) - 1
      /\ \A i \in 1 .. Len(s) - 1 : Front(s)[i] = s[i]
  BY <1>2, PrefixOfSeq DEF Front
<1>4. Last(s) = s[Len(s)] /\ Last(s) \in S
  BY <1>1 DEF Last
<1>5. QED
  BY <1>1, <1>3, <1>4

LEMMA TailOfSeq ==
  ASSUME NEW S, NEW s \in Seq(S), s # <<>>
  PROVE  /\ Tail(s) \in Seq(S)
         /\ Len(Tail(s)) = Len(s) - 1
         /\ \A i \in 1 .. Len(s) - 1 : Tail(s)[i] = s[i + 1]
         /\ Head(s) \in S /\ Head(s) = s[1] /\ 1 \in 1 .. Len(s)
  OBVIOUS

-----------------------------------------------------------------------------
(* Types.                                                                  *)

LEMMA InitTyped == Init => TypeOK
  BY ServiceCallAssumption DEF Init, TypeOK, Requests, Replies, Answers

\* Every action keeps every variable in its type.
LEMMA TypeStep == TypeOK /\ [Next]_vars => TypeOK'
<1> SUFFICES ASSUME TypeOK, [Next]_vars PROVE TypeOK'
  OBVIOUS
<1> USE ServiceCallAssumption
<1>1. CASE Call
  <2>1. sent + 1 \in Requests /\ sent + 1 \in 0 .. MaxRequests
    BY <1>1 DEF Call, Write, TypeOK, Requests
  <2>2. calls' \in Seq(Requests) /\ Len(calls') <= MaxCalls
    BY <1>1, <2>1, AppendToSeq DEF Call, TypeOK
  <2>3. QED
    BY <1>1, <2>1, <2>2 DEF Call, Write, TypeOK
<1>2. CASE CallNowait
  <2>1. sent + 1 \in Requests /\ sent + 1 \in 0 .. MaxRequests
    BY <1>2 DEF CallNowait, Write, TypeOK, Requests
  <2>2. QED
    BY <1>2, <2>1 DEF CallNowait, Write, TypeOK
<1>3. CASE Return
  <2>1. calls \in Seq(Requests) /\ calls # <<>> /\ calls' = Front(calls)
    BY <1>3 DEF Return, TypeOK
  <2>2. /\ calls' \in Seq(Requests) /\ Len(calls') = Len(calls) - 1
        /\ Last(calls) \in Requests
    BY <2>1, FrontOfSeq, Zenon
  <2>3. Len(calls') <= MaxCalls
    BY <2>1, <2>2 DEF TypeOK
  <2>4. replies' \in Seq(Replies) /\ Head(replies) \in Replies
    BY <1>3, TailOfSeq DEF Return, TypeOK
  <2>5. QED
    BY <1>3, <2>2, <2>3, <2>4 DEF Return, TypeOK
<1>4. CASE Timeout
  <2>1. PICK left \in 0 .. Len(calls) - 1 : calls' = SubSeq(calls, 1, left)
    BY <1>4 DEF Timeout
  <2>2. left \in 0 .. Len(calls)
    BY DEF TypeOK
  <2>3. calls' \in Seq(Requests) /\ Len(calls') = left
    BY <2>1, <2>2, PrefixOfSeq DEF TypeOK
  <2>4. QED
    BY <1>4, <2>3 DEF Timeout, TypeOK
<1>5. CASE TakeReply
  BY <1>5, TailOfSeq DEF TakeReply, TypeOK
<1>6. CASE OnReply
  <2>1. PICK a \in answers :
          /\ replies' = Append(replies, [about |-> a.about, nth |-> arrived + 1])
          /\ answers' \subseteq answers
    BY <1>6 DEF OnReply
  <2>2. arrived < MaxArrivals /\ arrived' = arrived + 1
    BY <1>6 DEF OnReply
  <2>3. [about |-> a.about, nth |-> arrived + 1] \in Replies
    BY <2>2 DEF TypeOK, Replies, Answers
  <2>4. replies' \in Seq(Replies)
    BY <2>1, <2>3, AppendToSeq DEF TypeOK
  <2>5. answers' \subseteq Answers
    BY <2>1 DEF TypeOK
  <2>6. QED
    BY <1>6, <2>2, <2>4, <2>5 DEF OnReply, TypeOK
<1>7. CASE LoseReply
  BY <1>7 DEF LoseReply, TypeOK, client
<1>8. CASE OnRequest
  <2>1. PICK r \in asked : /\ serving' = Append(serving, [identity |-> r, request |-> r])
                           /\ asked' = asked \ {r}
    BY <1>8 DEF OnRequest
  <2>2. [identity |-> r, request |-> r] \in Frames
    BY DEF Frames, TypeOK
  <2>3. serving' \in Seq(Frames) /\ Len(serving') <= MaxServing
    BY <1>8, <2>1, <2>2, AppendToSeq DEF OnRequest, TypeOK
  <2>4. QED
    BY <1>8, <2>1, <2>3 DEF OnRequest, TypeOK, client
<1>9. CASE Reply
  <2>1. serving \in Seq(Frames) /\ serving # <<>> /\ serving' = Front(serving)
    BY <1>9 DEF Reply, TypeOK
  <2>2. /\ serving' \in Seq(Frames) /\ Len(serving') = Len(serving) - 1
        /\ Last(serving) \in Frames
    BY <2>1, FrontOfSeq, Zenon
  <2>3. Len(serving') <= MaxServing
    BY <2>1, <2>2 DEF TypeOK
  <2>4. [to |-> Last(serving).identity, about |-> Last(serving).request] \in Answers
    BY <2>2 DEF Frames, Answers
  <2>5. QED
    BY <1>9, <2>2, <2>3, <2>4 DEF Reply, TypeOK, client
<1>10. CASE HandlerRaises
  <2>1. serving \in Seq(Frames) /\ serving # <<>> /\ serving' = Front(serving)
    BY <1>10 DEF HandlerRaises, TypeOK
  <2>2. serving' \in Seq(Frames) /\ Len(serving') = Len(serving) - 1
    BY <2>1, FrontOfSeq, Zenon
  <2>3. serving' \in Seq(Frames) /\ Len(serving') <= MaxServing
    BY <2>1, <2>2 DEF TypeOK
  <2>4. QED
    BY <1>10, <2>3 DEF HandlerRaises, TypeOK, client
<1>11. CASE UNCHANGED vars
  BY <1>11 DEF vars, client, TypeOK
<1>12. QED
  BY <1>1, <1>2, <1>3, <1>4, <1>5, <1>6, <1>7, <1>8, <1>9, <1>10, <1>11 DEF Next

\* The state has its type in every reachable state, for every bound.
THEOREM ServiceCallTypes == Spec => []TypeOK
<1>1. Init => TypeOK
  BY InitTyped
<1>2. TypeOK /\ [Next]_vars => TypeOK'
  BY TypeStep
<1>3. QED
  BY <1>1, <1>2, PTL DEF Spec

-----------------------------------------------------------------------------
(* The history of replies.                                                 *)

\* A reply that is taken off the front of the list: the rest is in order,
\* and later than the one that was taken.
LEMMA TakenFromFront ==
  ASSUME TypeOK, InOrder, replies # <<>>, replies' = Tail(replies)
  PROVE  /\ Head(replies).nth <= arrived
         /\ \A i \in 1 .. Len(replies') :
              /\ i + 1 \in 1 .. Len(replies)
              /\ replies'[i] = replies[i + 1]
              /\ replies'[i].nth <= arrived
              /\ Head(replies).nth < replies'[i].nth
         /\ \A i, j \in 1 .. Len(replies') : i < j => replies'[i].nth < replies'[j].nth
<1>1. /\ Len(replies') = Len(replies) - 1
      /\ \A i \in 1 .. Len(replies) - 1 : replies'[i] = replies[i + 1]
      /\ Head(replies) = replies[1] /\ 1 \in 1 .. Len(replies)
  BY TailOfSeq DEF TypeOK
<1>2. Len(replies) \in Nat
  BY DEF TypeOK
<1>3. \A i \in 1 .. Len(replies') : i + 1 \in 1 .. Len(replies) /\ 1 < i + 1
  BY <1>1, <1>2
<1>4. QED
  BY <1>1, <1>2, <1>3 DEF InOrder

\* A new request: its call starts from an empty list.
LEMMA CallStep == CallInv /\ Call => (CallInv)'
<1> SUFFICES ASSUME CallInv, Call PROVE (CallInv)'
  OBVIOUS
<1>1. TypeOK'
  BY TypeStep DEF CallInv, Next
<1>2. /\ replies' = <<>> /\ calls' = Append(calls, sent + 1)
      /\ before' = [before EXCEPT ![sent + 1] = arrived]
      /\ sent' = sent + 1 /\ sent + 1 \in Requests
      /\ UNCHANGED <<arrived, returned>>
  BY ServiceCallAssumption DEF Call, Write, CallInv, TypeOK, Requests
<1>3. Len(replies') = 0
  BY <1>2
<1>4. InOrder' /\ BeganClean'
  BY <1>2, <1>3 DEF CallInv, InOrder, BeganClean
<1>5. OnlySent'
  <2>1. sent \in Nat
    BY DEF CallInv, TypeOK
  <2>2. /\ Len(calls') = Len(calls) + 1 /\ Len(calls) \in Nat
        /\ \A c \in 1 .. Len(calls) : calls'[c] = calls[c] /\ calls[c] \in Requests
        /\ calls'[Len(calls) + 1] = sent + 1
    BY <1>2, AppendToSeq DEF CallInv, TypeOK
  <2>3. \A c \in 1 .. Len(calls') : c \in 1 .. Len(calls) \/ c = Len(calls) + 1
    BY <2>2
  <2>4. \A c \in 1 .. Len(calls') : calls'[c] <= sent'
    BY <1>2, <2>1, <2>2, <2>3 DEF CallInv, OnlySent, Requests
  <2>5. \A p \in returned' : p.call <= sent'
    BY <1>2, <2>1 DEF CallInv, OnlySent, TypeOK, Requests
  <2>6. QED
    BY <2>4, <2>5 DEF OnlySent
<1>6. FreshReplies'
  <2> SUFFICES ASSUME NEW p \in returned PROVE p.reply.nth > before'[p.call]
    BY <1>2 DEF FreshReplies
  <2>1. p.call <= sent /\ p.call \in Requests /\ sent \in Nat
    BY DEF CallInv, OnlySent, TypeOK
  <2>2. p.call # sent + 1
    BY <2>1 DEF Requests
  <2>3. before'[p.call] = before[p.call]
    BY <1>2, <2>1, <2>2 DEF CallInv, TypeOK
  <2>4. QED
    BY <2>3 DEF CallInv, FreshReplies
<1>7. ReturnedOnce' /\ NoLater'
  BY <1>2 DEF CallInv, ReturnedOnce, NoLater, TypeOK
<1>8. QED
  BY <1>1, <1>4, <1>5, <1>6, <1>7 DEF CallInv

\* The reply a call returns is later than its beginning and than every reply
\* returned before.
LEMMA ReturnStep == CallInv /\ Return => (CallInv)'
<1> SUFFICES ASSUME CallInv, Return PROVE (CallInv)'
  OBVIOUS
<1> DEFINE n == Len(calls)
           new == [call |-> Last(calls), reply |-> Head(replies)]
<1>1. TypeOK'
  BY TypeStep DEF CallInv, Next
<1>2. /\ calls # <<>> /\ replies # <<>> /\ replies' = Tail(replies)
      /\ calls' = Front(calls) /\ returned' = returned \cup {new}
      /\ UNCHANGED <<sent, arrived, before>>
  BY DEF Return
<1>3. /\ new.call = calls[n] /\ n \in 1 .. n
      /\ new.reply = replies[1] /\ 1 \in 1 .. Len(replies)
  BY <1>2, FrontOfSeq, TailOfSeq DEF CallInv, TypeOK
<1>4. /\ Len(calls') = n - 1
      /\ \A c \in 1 .. Len(calls') : c \in 1 .. n /\ calls'[c] = calls[c]
  <2>1. calls \in Seq(Requests) /\ n \in Nat
    BY DEF CallInv, TypeOK
  <2>2. Len(calls') = n - 1 /\ \A c \in 1 .. n - 1 : calls'[c] = calls[c]
    BY <1>2, <2>1, FrontOfSeq, Zenon
  <2>3. QED
    BY <2>1, <2>2
<1>5. /\ new.reply.nth <= arrived
      /\ \A i \in 1 .. Len(replies') :
           /\ i + 1 \in 1 .. Len(replies)
           /\ replies'[i] = replies[i + 1]
           /\ replies'[i].nth <= arrived
           /\ new.reply.nth < replies'[i].nth
      /\ \A i, j \in 1 .. Len(replies') : i < j => replies'[i].nth < replies'[j].nth
  BY <1>2, TakenFromFront DEF CallInv
<1>6. InOrder'
  <2>1. \A p \in returned : \A i \in 1 .. Len(replies') : p.reply.nth < replies'[i].nth
    BY <1>5 DEF CallInv, InOrder
  <2>2. QED
    BY <1>2, <1>5, <2>1 DEF CallInv, InOrder
<1>7. BeganClean'
  BY <1>2, <1>4, <1>5 DEF CallInv, BeganClean
<1>8. OnlySent'
  BY <1>2, <1>3, <1>4 DEF CallInv, OnlySent
<1>9. FreshReplies'
  BY <1>2, <1>3 DEF CallInv, FreshReplies, BeganClean
<1>10. ReturnedOnce'
  <2>1. \A p \in returned : p.reply.nth < new.reply.nth /\ p.reply.nth \in Nat
    BY <1>3 DEF CallInv, InOrder, TypeOK, Replies
  <2>2. \A p \in returned : p.reply.nth # new.reply.nth
    BY <1>3, <2>1 DEF CallInv, TypeOK, Replies
  <2>3. QED
    BY <1>2, <2>2 DEF CallInv, ReturnedOnce
<1>11. NoLater'
  BY <1>2 DEF CallInv, NoLater
<1>12. QED
  BY <1>1, <1>6, <1>7, <1>8, <1>9, <1>10, <1>11 DEF CallInv

\* A reply that arrives is later than everything before it.
LEMMA OnReplyStep == CallInv /\ OnReply => (CallInv)'
<1> SUFFICES ASSUME CallInv, OnReply PROVE (CallInv)'
  OBVIOUS
<1> DEFINE n == Len(replies)
<1>1. TypeOK'
  BY TypeStep DEF CallInv, Next
<1>2. PICK a \in answers :
        /\ replies' = Append(replies, [about |-> a.about, nth |-> arrived + 1])
        /\ arrived < MaxArrivals /\ arrived' = arrived + 1
        /\ UNCHANGED <<sent, calls, before, returned>>
  BY DEF OnReply
<1>3. arrived \in Nat /\ n \in Nat
  BY DEF CallInv, TypeOK
<1>4. [about |-> a.about, nth |-> arrived + 1] \in Replies
  BY <1>2, ServiceCallAssumption DEF CallInv, TypeOK, Replies, Answers
<1>5. /\ Len(replies') = n + 1
      /\ \A i \in 1 .. n : replies'[i] = replies[i]
      /\ replies'[n + 1].nth = arrived + 1
  BY <1>2, <1>4, AppendToSeq DEF CallInv, TypeOK
<1>6. \A i \in 1 .. Len(replies') : i \in 1 .. n \/ i = n + 1
  BY <1>3, <1>5
<1>7. \A i \in 1 .. n : replies[i].nth \in Nat /\ replies[i].nth <= arrived
  <2>1. \A i \in 1 .. n : replies[i] \in Replies
    BY DEF CallInv, TypeOK
  <2>2. QED
    BY <2>1 DEF CallInv, InOrder, Replies
<1>8. \A p \in returned : p.reply.nth \in Nat /\ p.reply.nth <= arrived
  BY DEF CallInv, TypeOK, Replies, InOrder
<1>9. InOrder'
  <2>1. \A i \in 1 .. Len(replies') : replies'[i].nth <= arrived'
    BY <1>2, <1>3, <1>5, <1>6, <1>7
  <2>2. \A i, j \in 1 .. Len(replies') : i < j => replies'[i].nth < replies'[j].nth
    <3> SUFFICES ASSUME NEW i \in 1 .. Len(replies'), NEW j \in 1 .. Len(replies'), i < j
                 PROVE  replies'[i].nth < replies'[j].nth
      OBVIOUS
    <3>1. i \in 1 .. n
      BY <1>3, <1>5
    <3>2. CASE j \in 1 .. n
      BY <1>5, <3>1, <3>2 DEF CallInv, InOrder
    <3>3. CASE j = n + 1
      BY <1>3, <1>5, <1>7, <3>1, <3>3
    <3>4. QED
      BY <1>6, <3>2, <3>3
  <2>3. \A p \in returned' : p.reply.nth <= arrived'
    BY <1>2, <1>3, <1>8
  <2>4. \A p \in returned', i \in 1 .. Len(replies') : p.reply.nth < replies'[i].nth
    <3> SUFFICES ASSUME NEW p \in returned, NEW i \in 1 .. Len(replies')
                 PROVE  p.reply.nth < replies'[i].nth
      BY <1>2
    <3>1. CASE i \in 1 .. n
      BY <1>5, <3>1 DEF CallInv, InOrder
    <3>2. CASE i = n + 1
      BY <1>3, <1>5, <1>8, <3>2
    <3>3. QED
      BY <1>6, <3>1, <3>2
  <2>5. QED
    BY <2>1, <2>2, <2>3, <2>4 DEF InOrder
<1>10. BeganClean'
  <2> SUFFICES ASSUME NEW c \in 1 .. Len(calls), NEW i \in 1 .. Len(replies')
               PROVE  replies'[i].nth > before[calls[c]]
    BY <1>2 DEF BeganClean
  <2>1. CASE i \in 1 .. n
    BY <1>5, <2>1 DEF CallInv, BeganClean
  <2>2. CASE i = n + 1
    <3>1. calls[c] \in Requests
      BY DEF CallInv, TypeOK
    <3>2. before[calls[c]] \in Nat /\ before[calls[c]] <= arrived
      BY <3>1 DEF CallInv, NoLater, TypeOK
    <3>3. QED
      BY <1>3, <1>5, <2>2, <3>2
  <2>3. QED
    BY <1>6, <2>1, <2>2
<1>11. OnlySent' /\ FreshReplies' /\ ReturnedOnce' /\ NoLater'
  BY <1>2, <1>3 DEF CallInv, OnlySent, FreshReplies, ReturnedOnce, NoLater, TypeOK
<1>12. QED
  BY <1>1, <1>9, <1>10, <1>11 DEF CallInv

\* take_reply takes one off the front; the calls do not see it.
LEMMA TakeReplyStep == CallInv /\ TakeReply => (CallInv)'
<1> SUFFICES ASSUME CallInv, TakeReply PROVE (CallInv)'
  OBVIOUS
<1>1. TypeOK'
  BY TypeStep DEF CallInv, Next
<1>2. /\ replies # <<>> /\ replies' = Tail(replies)
      /\ UNCHANGED <<sent, calls, arrived, before, returned>>
  BY DEF TakeReply
<1>3. /\ \A i \in 1 .. Len(replies') :
           /\ i + 1 \in 1 .. Len(replies)
           /\ replies'[i] = replies[i + 1]
           /\ replies'[i].nth <= arrived
      /\ \A i, j \in 1 .. Len(replies') : i < j => replies'[i].nth < replies'[j].nth
  BY <1>2, TakenFromFront DEF CallInv
<1>4. InOrder'
  BY <1>2, <1>3 DEF CallInv, InOrder
<1>5. BeganClean'
  BY <1>2, <1>3 DEF CallInv, BeganClean
<1>6. OnlySent' /\ FreshReplies' /\ ReturnedOnce' /\ NoLater'
  BY <1>2 DEF CallInv, OnlySent, FreshReplies, ReturnedOnce, NoLater
<1>7. QED
  BY <1>1, <1>4, <1>5, <1>6 DEF CallInv

\* A timeout ends calls, and the list is empty.
LEMMA TimeoutStep == CallInv /\ Timeout => (CallInv)'
<1> SUFFICES ASSUME CallInv, Timeout PROVE (CallInv)'
  OBVIOUS
<1>1. TypeOK'
  BY TypeStep DEF CallInv, Next
<1>2. PICK left \in 0 .. Len(calls) - 1 :
        /\ replies = <<>> /\ calls' = SubSeq(calls, 1, left)
        /\ UNCHANGED <<sent, replies, arrived, before, returned>>
  BY DEF Timeout
<1>3. Len(calls) \in Nat /\ left \in 0 .. Len(calls) /\ Len(replies) = 0
  BY <1>2 DEF CallInv, TypeOK
<1>4. Len(calls') = left /\ \A c \in 1 .. left : calls'[c] = calls[c] /\ c \in 1 .. Len(calls)
  BY <1>2, <1>3, PrefixOfSeq DEF CallInv, TypeOK
<1>5. BeganClean'
  BY <1>2, <1>3 DEF BeganClean
<1>6. OnlySent'
  BY <1>2, <1>4 DEF CallInv, OnlySent
<1>7. InOrder' /\ FreshReplies' /\ ReturnedOnce' /\ NoLater'
  BY <1>2 DEF CallInv, InOrder, FreshReplies, ReturnedOnce, NoLater
<1>8. QED
  BY <1>1, <1>5, <1>6, <1>7 DEF CallInv

\* The server, the network and call_nowait leave all of that alone.
LEMMA ElsewhereStep ==
  CallInv /\ (\/ CallNowait \/ LoseReply \/ OnRequest \/ Reply \/ HandlerRaises
              \/ UNCHANGED vars) => (CallInv)'
<1> SUFFICES ASSUME CallInv,
                    \/ CallNowait \/ LoseReply \/ OnRequest \/ Reply \/ HandlerRaises
                    \/ UNCHANGED vars
             PROVE  (CallInv)'
  OBVIOUS
<1>1. TypeOK'
  BY TypeStep DEF CallInv, Next
<1>2. UNCHANGED <<calls, replies, arrived, before, returned>>
  BY DEF CallNowait, LoseReply, OnRequest, Reply, HandlerRaises, vars, client
<1>3. sent' = sent \/ sent' = sent + 1
  BY DEF CallNowait, Write, LoseReply, OnRequest, Reply, HandlerRaises, vars, client
<1>4. OnlySent'
  <2>1. sent \in Nat /\ sent <= sent' /\ sent' \in Nat
    BY <1>3 DEF CallInv, TypeOK
  <2>2. \A c \in 1 .. Len(calls) : calls[c] \in Nat /\ calls[c] <= sent
    <3>1. \A c \in 1 .. Len(calls) : calls[c] \in Requests
      BY DEF CallInv, TypeOK
    <3>2. QED
      BY <3>1 DEF CallInv, OnlySent, Requests
  <2>3. \A p \in returned : p.call \in Nat /\ p.call <= sent
    BY DEF CallInv, TypeOK, OnlySent, Requests
  <2>4. QED
    BY <1>2, <2>1, <2>2, <2>3 DEF OnlySent
<1>5. InOrder' /\ BeganClean' /\ FreshReplies' /\ ReturnedOnce' /\ NoLater'
  BY <1>2 DEF CallInv, InOrder, BeganClean, FreshReplies, ReturnedOnce, NoLater
<1>6. QED
  BY <1>1, <1>4, <1>5 DEF CallInv

LEMMA InitCallInv == Init => CallInv
<1> SUFFICES ASSUME Init PROVE CallInv
  OBVIOUS
<1>1. /\ Len(calls) = 0 /\ Len(replies) = 0 /\ returned = {}
      /\ \A r \in Requests : before[r] = 0
      /\ arrived = 0
  BY DEF Init
<1>2. QED
  BY <1>1, InitTyped
  DEF CallInv, InOrder, BeganClean, OnlySent, FreshReplies, ReturnedOnce, NoLater

\* Why: the list is in the order of arrival, holds nothing that was returned,
\* and was clean when each call in progress began.
THEOREM CallInvHolds == Spec => []CallInv
<1>1. CallInv /\ [Next]_vars => (CallInv)'
  BY CallStep, ReturnStep, OnReplyStep, TakeReplyStep, TimeoutStep, ElsewhereStep
  DEF Next
<1>2. QED
  BY InitCallInv, <1>1, PTL DEF Spec

\* A call never returns what had arrived before it began, however calls nest,
\* time out and mix with call_nowait, and however replies are delayed.
THEOREM RepliesAreFresh == Spec => []FreshReplies
<1>1. CallInv => FreshReplies
  BY DEF CallInv
<1>2. QED
  BY CallInvHolds, <1>1, PTL

\* No reply that arrived is returned by two calls.
THEOREM RepliesAreReturnedOnce == Spec => []ReturnedOnce
<1>1. CallInv => ReturnedOnce
  BY DEF CallInv
<1>2. QED
  BY CallInvHolds, <1>1, PTL

\* A handler that begins keeps its own identity, and the others theirs.
LEMMA OnRequestKeeps ==
  ASSUME TypeOK, OwnIdentity, OnRequest
  PROVE  OwnIdentity'
<1>1. PICK r \in asked : serving' = Append(serving, [identity |-> r, request |-> r])
  BY DEF OnRequest
<1>2. [identity |-> r, request |-> r] \in Frames
  BY DEF Frames, TypeOK
<1>3. /\ Len(serving) \in Nat /\ Len(serving') = Len(serving) + 1
      /\ \A i \in 1 .. Len(serving) : serving'[i] = serving[i]
      /\ serving'[Len(serving) + 1] = [identity |-> r, request |-> r]
  BY <1>1, <1>2, AppendToSeq DEF TypeOK
<1>4. \A i \in 1 .. Len(serving') : i \in 1 .. Len(serving) \/ i = Len(serving) + 1
  BY <1>3
<1>5. QED
  BY <1>3, <1>4 DEF OwnIdentity

\* A handler that ends leaves the others as they were.
LEMMA HandlerEnds ==
  ASSUME TypeOK, OwnIdentity, Reply \/ HandlerRaises
  PROVE  OwnIdentity' /\ Last(serving).identity = Last(serving).request
<1>1. serving \in Seq(Frames) /\ serving # <<>> /\ serving' = Front(serving)
  BY DEF Reply, HandlerRaises, TypeOK
<1>2. /\ Len(serving') = Len(serving) - 1 /\ Len(serving) \in 1 .. Len(serving)
      /\ \A i \in 1 .. Len(serving) - 1 : serving'[i] = serving[i]
      /\ Last(serving) = serving[Len(serving)]
  BY <1>1, FrontOfSeq, Zenon
<1>3. \A i \in 1 .. Len(serving') : i \in 1 .. Len(serving) - 1 /\ i \in 1 .. Len(serving)
  BY <1>1, <1>2
<1>4. QED
  BY <1>2, <1>3 DEF OwnIdentity

\* A response goes out under the identity of the request it answers, however
\* many handlers interrupt its own and in whatever order they finish.  The
\* invariant: what an interrupted handler has kept stays its own.
THEOREM ResponsesRoutedRight == Spec => []RoutedRight
<1>1. Init => RoutedInv
  <2> SUFFICES ASSUME Init PROVE RoutedInv
    OBVIOUS
  <2>1. Len(serving) = 0 /\ answers = {}
    BY DEF Init
  <2>2. QED
    BY <2>1, InitTyped DEF RoutedInv, OwnIdentity, RoutedRight
<1>2. RoutedInv /\ [Next]_vars => RoutedInv'
  <2> SUFFICES ASSUME RoutedInv, [Next]_vars PROVE RoutedInv'
    OBVIOUS
  <2>1. TypeOK'
    BY TypeStep DEF RoutedInv
  <2>2. OwnIdentity'
    <3>1. CASE OnRequest
      BY <3>1, OnRequestKeeps DEF RoutedInv
    <3>2. CASE Reply \/ HandlerRaises
      BY <3>2, HandlerEnds DEF RoutedInv
    <3>3. ASSUME serving' = serving PROVE OwnIdentity'
      BY <3>3 DEF RoutedInv, OwnIdentity
    <3>4. CASE Call \/ CallNowait \/ Return \/ Timeout \/ TakeReply
      BY <3>3, <3>4 DEF Call, CallNowait, Return, Timeout, TakeReply
    <3>5. CASE OnReply \/ LoseReply \/ UNCHANGED vars
      BY <3>3, <3>5 DEF OnReply, LoseReply, vars
    <3>6. QED
      BY <3>1, <3>2, <3>4, <3>5 DEF Next
  <2>3. RoutedRight'
    <3>1. CASE Reply
      <4>1. Last(serving).identity = Last(serving).request
        BY <3>1, HandlerEnds DEF RoutedInv
      <4>2. QED
        BY <3>1, <4>1 DEF Reply, RoutedInv, RoutedRight
    <3>2. CASE OnReply \/ LoseReply
      BY <3>2 DEF OnReply, LoseReply, RoutedInv, RoutedRight
    <3>3. ASSUME answers' = answers PROVE RoutedRight'
      BY <3>3 DEF RoutedInv, RoutedRight
    <3>4. CASE Call \/ CallNowait \/ Return \/ Timeout \/ TakeReply
      BY <3>3, <3>4 DEF Call, CallNowait, Return, Timeout, TakeReply
    <3>5. CASE OnRequest \/ HandlerRaises \/ UNCHANGED vars
      BY <3>3, <3>5 DEF OnRequest, HandlerRaises, vars
    <3>6. QED
      BY <3>1, <3>2, <3>4, <3>5 DEF Next
  <2>4. QED
    BY <2>1, <2>2, <2>3 DEF RoutedInv
<1>3. RoutedInv => RoutedRight
  BY DEF RoutedInv
<1>4. QED
  BY <1>1, <1>2, <1>3, PTL DEF Spec

-----------------------------------------------------------------------------
(* When a call returns its own reply.                                      *)

\* The one call in progress, and everything under way is of it.
LEMMA TheCall ==
  ASSUME TypeOK, OwnTraffic, calls # <<>>
  PROVE  /\ Len(calls) = 1 /\ 1 \in 1 .. Len(calls) /\ Last(calls) = calls[1]
         /\ asked \subseteq {calls[1]}
         /\ \A i \in 1 .. Len(serving) : serving[i].request = calls[1]
         /\ \A a \in answers : a.about = calls[1]
         /\ \A i \in 1 .. Len(replies) : replies[i].about = calls[1]
<1>1. calls \in Seq(Requests) /\ Len(calls) <= 1 /\ Len(calls) \in Nat
  BY DEF TypeOK, OwnTraffic
<1>2. Len(calls) = 1
  BY <1>1
<1>3. Last(calls) = calls[1]
  BY <1>1, <1>2, FrontOfSeq
<1>4. QED
  BY <1>2, <1>3 DEF OwnTraffic

\* A call that ends leaves none in progress, and nothing to say of any.
LEMMA NoCallIsQuiet ==
  ASSUME Len(calls') = 0
  PROVE  OwnTraffic'
BY DEF OwnTraffic

LEMMA RequestAlone ==
  ASSUME TypeOK, TypeOK', OwnTraffic, Alone, Call \/ CallNowait
  PROVE  OwnTraffic'
<1>1. sent \in Nat /\ sent' = sent + 1
  BY DEF Call, CallNowait, Write, TypeOK
<1>2. calls = <<>> /\ Len(calls) = 0
  BY <1>1 DEF Alone
<1>3. CASE Call
  <2>1. calls' = Append(calls, sent + 1) /\ replies' = <<>> /\ asked' = asked \cup {sent + 1}
        /\ serving' = serving /\ answers' = answers
    BY <1>3 DEF Call, Write
  <2>2. Len(calls') = 1 /\ calls'[1] = sent + 1
    BY <1>2, <2>1
  <2>3. asked = {} /\ serving = <<>> /\ answers = {}
    BY <1>1, <1>2, <2>2 DEF Alone
  <2>4. QED
    BY <2>1, <2>2, <2>3 DEF OwnTraffic
<1>4. CASE CallNowait
  BY <1>2, <1>4, NoCallIsQuiet DEF CallNowait
<1>5. QED
  BY <1>3, <1>4

\* Only a call in progress has traffic that needs looking at.
LEMMA TrafficAlone ==
  ASSUME TypeOK, TypeOK', OwnTraffic,
         OnReply \/ LoseReply \/ TakeReply \/ OnRequest \/ Reply \/ HandlerRaises
  PROVE  OwnTraffic'
<1>1. calls' = calls
  BY DEF OnReply, LoseReply, TakeReply, OnRequest, Reply, HandlerRaises, client
<1>2. CASE calls = <<>>
  BY <1>1, <1>2, NoCallIsQuiet
<1>3. CASE calls # <<>>
  <2> DEFINE own == calls[1]
  <2>1. /\ Len(calls) = 1 /\ 1 \in 1 .. Len(calls)
        /\ asked \subseteq {own}
        /\ \A i \in 1 .. Len(serving) : serving[i].request = own
        /\ \A a \in answers : a.about = own
        /\ \A i \in 1 .. Len(replies) : replies[i].about = own
    BY <1>3, TheCall
  <2>2. \A c \in 1 .. Len(calls) : calls[c] = own
    BY <2>1
  <2> HIDE DEF own
  <2>3. SUFFICES /\ asked' \subseteq {own}
                 /\ \A i \in 1 .. Len(serving') : serving'[i].request = own
                 /\ \A a \in answers' : a.about = own
                 /\ \A i \in 1 .. Len(replies') : replies'[i].about = own
    BY <1>1, <2>1, <2>2 DEF OwnTraffic
  <2>4. CASE OnReply
    <3>1. PICK a \in answers :
            /\ replies' = Append(replies, [about |-> a.about, nth |-> arrived + 1])
            /\ answers' \subseteq answers
            /\ asked' = asked /\ serving' = serving
      BY <2>4 DEF OnReply
    <3>2. Len(replies) \in Nat /\ Len(replies') = Len(replies) + 1
          /\ \A i \in 1 .. Len(replies) : replies'[i] = replies[i]
          /\ replies'[Len(replies) + 1].about = a.about
      BY <3>1 DEF TypeOK
    <3>3. \A i \in 1 .. Len(replies') : i \in 1 .. Len(replies) \/ i = Len(replies) + 1
      BY <3>2
    <3>4. QED
      BY <2>1, <3>1, <3>2, <3>3
  <2>5. CASE LoseReply
    BY <2>1, <2>5 DEF LoseReply, client
  <2>6. CASE TakeReply
    <3>1. /\ asked' = asked /\ serving' = serving /\ answers' = answers
          /\ replies # <<>> /\ replies' = Tail(replies)
      BY <2>6 DEF TakeReply
    <3>2. Len(replies') = Len(replies) - 1 /\ Len(replies) \in Nat
          /\ \A i \in 1 .. Len(replies) - 1 : replies'[i] = replies[i + 1]
      BY <3>1, TailOfSeq DEF TypeOK
    <3>3. \A i \in 1 .. Len(replies') : i \in 1 .. Len(replies) - 1 /\ i + 1 \in 1 .. Len(replies)
      BY <3>2
    <3>4. QED
      BY <2>1, <3>1, <3>2, <3>3
  <2>7. CASE OnRequest
    <3>1. PICK r \in asked : /\ serving' = Append(serving, [identity |-> r, request |-> r])
                             /\ asked' \subseteq asked
                             /\ answers' = answers /\ replies' = replies
      BY <2>7 DEF OnRequest, client
    <3>2. r = own /\ [identity |-> r, request |-> r] \in Frames
      BY <2>1 DEF TypeOK, Frames
    <3>3. Len(serving) \in Nat /\ Len(serving') = Len(serving) + 1
          /\ \A i \in 1 .. Len(serving) : serving'[i] = serving[i]
          /\ serving'[Len(serving) + 1] = [identity |-> r, request |-> r]
      BY <3>1, <3>2, AppendToSeq DEF TypeOK
    <3>4. \A i \in 1 .. Len(serving') : i \in 1 .. Len(serving) \/ i = Len(serving) + 1
      BY <3>3
    <3>5. QED
      BY <2>1, <3>1, <3>2, <3>3, <3>4
  <2>8. ASSUME Reply \/ HandlerRaises
        PROVE  /\ Last(serving).request = own
               /\ \A i \in 1 .. Len(serving') : serving'[i].request = own
    <3>1. serving \in Seq(Frames) /\ serving # <<>> /\ serving' = Front(serving)
      BY <2>8 DEF Reply, HandlerRaises, TypeOK
    <3>2. /\ Len(serving') = Len(serving) - 1 /\ Len(serving) \in 1 .. Len(serving)
          /\ \A i \in 1 .. Len(serving) - 1 : serving'[i] = serving[i]
          /\ Last(serving) = serving[Len(serving)]
      BY <3>1, FrontOfSeq, Zenon
    <3>3. \A i \in 1 .. Len(serving') : i \in 1 .. Len(serving) - 1 /\ i \in 1 .. Len(serving)
      BY <3>1, <3>2
    <3>4. QED
      BY <2>1, <3>2, <3>3
  <2>9. CASE Reply
    <3>1. /\ answers' = answers \cup {[to |-> Last(serving).identity,
                                     about |-> Last(serving).request]}
          /\ asked' = asked /\ replies' = replies
      BY <2>9 DEF Reply, client
    <3>2. QED
      BY <2>1, <2>8, <2>9, <3>1
  <2>10. CASE HandlerRaises
    BY <2>1, <2>8, <2>10 DEF HandlerRaises, client
  <2>11. QED
    BY <2>4, <2>5, <2>6, <2>7, <2>9, <2>10
<1>4. QED
  BY <1>2, <1>3

LEMMA EndAlone ==
  ASSUME TypeOK, OwnTraffic, Return \/ Timeout
  PROVE  OwnTraffic'
<1>1. calls # <<>>
  BY DEF Return, Timeout
<1>2. Len(calls) = 1 /\ calls \in Seq(Requests)
  BY <1>1, TheCall DEF TypeOK
<1>3. CASE Return
  <2>1. calls' = Front(calls)
    BY <1>3 DEF Return
  <2>2. Len(calls') = Len(calls) - 1
    BY <1>1, <1>2, <2>1, FrontOfSeq, Zenon
  <2>3. QED
    BY <1>2, <2>2, NoCallIsQuiet
<1>4. CASE Timeout
  <2>1. PICK left \in 0 .. Len(calls) - 1 : calls' = SubSeq(calls, 1, left)
    BY <1>4 DEF Timeout
  <2>2. left = 0 /\ left \in 0 .. Len(calls)
    BY <1>2
  <2>3. Len(calls') = 0
    BY <1>2, <2>1, <2>2, PrefixOfSeq
  <2>4. QED
    BY <2>3, NoCallIsQuiet
<1>5. QED
  BY <1>3, <1>4

LEMMA OwnTrafficStep ==
  ASSUME TypeOK, TypeOK', OwnTraffic, [Next]_vars, [Alone]_vars
  PROVE  OwnTraffic'
<1>1. CASE Call \/ CallNowait
  <2>1. sent' # sent
    BY <1>1 DEF Call, CallNowait, Write, TypeOK
  <2>2. Alone
    BY <2>1 DEF vars, client
  <2>3. QED
    BY <1>1, <2>2, RequestAlone
<1>2. CASE Return \/ Timeout
  BY <1>2, EndAlone
<1>3. CASE OnReply \/ LoseReply \/ TakeReply \/ OnRequest \/ Reply \/ HandlerRaises
  BY <1>3, TrafficAlone
<1>4. CASE UNCHANGED vars
  BY <1>4 DEF vars, client, OwnTraffic
<1>5. QED
  BY <1>1, <1>2, <1>3, <1>4 DEF Next

LEMMA MatchStep ==
  ASSUME TypeOK, OwnTraffic, ReplyMatches, [Next]_vars
  PROVE  ReplyMatches'
<1>1. CASE Return
  <2>1. /\ calls # <<>> /\ replies # <<>>
        /\ returned' = returned \cup {[call |-> Last(calls), reply |-> Head(replies)]}
    BY <1>1 DEF Return
  <2>2. Head(replies) = replies[1] /\ 1 \in 1 .. Len(replies)
    BY <2>1, TailOfSeq DEF TypeOK
  <2>3. Head(replies).about = Last(calls)
    BY <2>1, <2>2, TheCall
  <2>4. QED
    BY <2>1, <2>3 DEF ReplyMatches
<1>2. ASSUME returned' = returned PROVE ReplyMatches'
  BY <1>2 DEF ReplyMatches
<1>3. CASE \/ Call \/ CallNowait \/ Timeout \/ TakeReply \/ OnReply \/ LoseReply
           \/ OnRequest \/ Reply \/ HandlerRaises \/ UNCHANGED vars
  BY <1>2, <1>3 DEF Call, CallNowait, Timeout, TakeReply, OnReply, LoseReply,
                    OnRequest, Reply, HandlerRaises, vars
<1>4. QED
  BY <1>1, <1>3 DEF Next

\* A program that makes one call at a time, and begins it when nothing of an
\* earlier request is left on its way, gets its own reply or none, whatever
\* is lost, doubled, or times out, and however many requests went before.
THEOREM AloneRepliesMatch == AloneSpec => []ReplyMatches
<1>1. Init => OwnTraffic /\ ReplyMatches
  BY DEF Init, OwnTraffic, ReplyMatches
<1>2. TypeOK /\ TypeOK' /\ OwnTraffic /\ ReplyMatches /\ [Next]_vars /\ [Alone]_vars
        => OwnTraffic' /\ ReplyMatches'
  BY OwnTrafficStep, MatchStep
<1>3. QED
  BY <1>1, <1>2, ServiceCallTypes, PTL DEF Spec, AloneSpec
=============================================================================
