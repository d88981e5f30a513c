--------------------------- MODULE RequestsProofs ---------------------------
(***************************************************************************)
(* Proofs about Requests: however late, often and out of order STATUSes    *)
(* arrive, and however calls nest and fail, a wait is ended by the STATUS  *)
(* of its own request or of one a whole turn of the counter away.  The     *)
(* argument is RequestsInv: whatever carries a request id carries the id   *)
(* of the request it belongs to.                                           *)
(***************************************************************************)
EXTENDS Requests, TLAPS

(* Modular arithmetic of the request counter.                              *)

Ids == IdMod - Reserved

LEMMA IdsPositive == /\ IdMod \in Nat /\ Reserved \in Nat /\ Reserved >= 1
                     /\ Ids \in Nat \ {0} /\ IdMod = Reserved + Ids
BY RequestsAssumption DEF Ids

LEMMA Divides ==
  ASSUME NEW M \in Nat \ {0}, NEW d \in Int
  PROVE  \E q \in Int, r \in 0..(M - 1) : d = M * q + r /\ d % M = r
OBVIOUS

LEMMA AtLeastOnce ==
  ASSUME NEW M \in Nat \ {0}, NEW k \in Int, k >= 1
  PROVE  M * k \in Int /\ M * k >= M
OBVIOUS

\* Two numbers with one remainder are equal or a whole turn apart.
LEMMA SameRemainder ==
  ASSUME NEW M \in Nat \ {0}, NEW a \in Int, NEW b \in Int, a % M = b % M
  PROVE  a = b \/ a - b >= M \/ b - a >= M
<1>1. PICK p \in Int, r \in 0..(M - 1) : a = M * p + r /\ a % M = r
  BY Divides
<1>2. PICK q \in Int, t \in 0..(M - 1) : b = M * q + t /\ b % M = t
  BY Divides
<1>3. a - b = M * (p - q) /\ b - a = M * (q - p)
  <2>1. M * (p - q) = M * p - M * q /\ M * (q - p) = M * q - M * p
    OBVIOUS
  <2>2. QED
    BY <1>1, <1>2, <2>1
<1>4. CASE p = q
  BY <1>1, <1>2, <1>4
<1>5. CASE p - q >= 1
  BY <1>3, <1>5, AtLeastOnce
<1>6. CASE q - p >= 1
  BY <1>3, <1>6, AtLeastOnce
<1>7. QED
  BY <1>4, <1>5, <1>6

\* A number below the modulus is its own remainder, the modulus has none.
LEMMA SmallRemainder ==
  ASSUME NEW M \in Nat \ {0}
  PROVE  M % M = 0 /\ \A r \in 0..(M - 1) : r % M = r
OBVIOUS

\* Counting on by one moves the remainder by one, or back to zero.
LEMMA NextRemainder ==
  ASSUME NEW M \in Nat \ {0}, NEW c \in Nat \ {0}
  PROVE  c % M = IF ((c - 1) % M) + 1 = M THEN 0 ELSE ((c - 1) % M) + 1
<1>1. PICK p \in Int, r \in 0..(M - 1) : c - 1 = M * p + r /\ (c - 1) % M = r
  <2>1. c - 1 \in Int
    OBVIOUS
  <2>2. QED
    BY <2>1, Divides
<1>2. PICK q \in Int, t \in 0..(M - 1) : c = M * q + t /\ c % M = t
  BY Divides
<1>3. M * (q - p) = r + 1 - t /\ M * (p - q) = t - r - 1
  <2>1. M * (q - p) = M * q - M * p /\ M * (p - q) = M * p - M * q
    OBVIOUS
  <2>2. M * p \in Int /\ M * q \in Int
    OBVIOUS
  <2>3. QED
    BY <1>1, <1>2, <2>1, <2>2
<1>4. ~ (p - q >= 1)
  BY <1>3, AtLeastOnce
<1>5. CASE p = q
  <2>1. M * (q - p) = 0
    BY <1>5
  <2>2. QED
    BY <1>1, <1>2, <1>3, <2>1
<1>6. CASE q - p >= 1
  <2>1. r + 1 - t >= M
    BY <1>3, <1>6, AtLeastOnce
  <2>2. QED
    BY <1>1, <1>2, <2>1
<1>7. QED
  BY <1>4, <1>5, <1>6

\* The counter moves through the ids in turn.
LEMMA NextIdIsIdOf ==
  ASSUME NEW n \in Nat, NEW c \in 0..(IdMod - 1), c = IdOf(n)
  PROVE  NextId(c) = IdOf(n + 1) /\ NextId(c) \in 0..(IdMod - 1)
<1> USE IdsPositive
<1> DEFINE m == n % Ids
<1>1. IdOf(n + 1) = Reserved + ((n + 1) % Ids) /\ c = Reserved + m /\ m \in 0..(Ids - 1)
  BY DEF IdOf, Ids
<1>2. (n + 1) % Ids = IF m + 1 = Ids THEN 0 ELSE m + 1
  <2>1. n + 1 \in Nat \ {0} /\ (n + 1) - 1 = n
    OBVIOUS
  <2>2. QED
    BY <2>1, NextRemainder
<1> HIDE DEF m
<1>3. (c + 1) % IdMod = IF c + 1 = IdMod THEN 0 ELSE c + 1
  <2>1. c + 1 = IdMod \/ c + 1 \in 0..(IdMod - 1)
    OBVIOUS
  <2>2. IdMod \in Nat \ {0}
    OBVIOUS
  <2>3. QED
    BY <2>1, <2>2, SmallRemainder
<1>4. QED
  BY <1>1, <1>2, <1>3 DEF NextId

\* Requests of one id are one request, or a whole turn of the counter apart.
LEMMA OneIdOneTurn ==
  ASSUME NEW a \in Nat, NEW b \in Nat, IdOf(a) = IdOf(b)
  PROVE  a = b \/ a - b >= Ids \/ b - a >= Ids
<1>1. Ids \in Nat \ {0} /\ a \in Int /\ b \in Int /\ a % Ids \in Int /\ b % Ids \in Int
  BY IdsPositive
<1>2. a % Ids = b % Ids
  BY <1>1, IdsPositive DEF IdOf, Ids
<1> HIDE DEF Ids
<1>3. QED
  BY <1>1, <1>2, SameRemainder

-----------------------------------------------------------------------------
(* Sequences and records of the model.                                     *)

LEMMA AppendToSeq ==
  ASSUME NEW S, NEW s \in Seq(S), NEW e \in S
  PROVE  /\ Append(s, e) \in Seq(S)
         /\ Len(Append(s, e)) = Len(s) + 1
         /\ \A i \in 1..Len(s) : Append(s, e)[i] = s[i]
         /\ Append(s, e)[Len(s) + 1] = e
OBVIOUS

LEMMA PrefixOfSeq ==
  ASSUME NEW S, NEW s \in Seq(S), NEW n \in 0..Len(s)
  PROVE  /\ SubSeq(s, 1, n) \in Seq(S)
         /\ Len(SubSeq(s, 1, n)) = n
         /\ \A i \in 1..n : SubSeq(s, 1, n)[i] = s[i]
OBVIOUS

LEMMA TailOfSeq ==
  ASSUME NEW S, NEW s \in Seq(S), s # << >>
  PROVE  Tail(s) \in Seq(S) /\ Head(s) \in S
OBVIOUS

LEMMA ShortSequences ==
  ASSUME NEW S, NEW a \in S, NEW b \in S, NEW c \in S
  PROVE  <<a>> \in Seq(S) \ {<< >>} /\ <<a, b, c>> \in Seq(S) \ {<< >>}
OBVIOUS

\* The plan of every call is a sequence of kinds.
LEMMA PlanTyped ==
  ASSUME NEW c \in Calls
  PROVE  Plan[c] \in Seq(Kinds) \ {<< >>}
<1>1. c \in {"connect", "create_publisher", "create_subscription", "create_service",
             "create_client"}
  BY CallsAssumption DEF Plan
<1>2. Plan[c] \in {<<"participant">>, <<"replier">>, <<"requester">>,
                 <<"topic", "publisher", "datawriter">>, <<"topic", "subscriber", "datareader">>}
  BY <1>1 DEF Plan
<1>3. {"participant", "replier", "requester", "topic", "publisher", "datawriter", "subscriber",
       "datareader"} \subseteq Kinds
  BY DEF Kinds
<1> DEFINE Plans == Seq(Kinds) \ {<< >>}
<1>4. <<"participant">> \in Plans /\ <<"replier">> \in Plans /\ <<"requester">> \in Plans
  BY <1>3, ShortSequences
<1>5. <<"topic", "publisher", "datawriter">> \in Plans
  BY <1>3, ShortSequences
<1>6. <<"topic", "subscriber", "datareader">> \in Plans
  BY <1>3, ShortSequences
<1> HIDE DEF Plans
<1>7. Plan[c] \in Plans
  BY <1>2, <1>4, <1>5, <1>6
<1>8. QED
  BY <1>7 DEF Plans

LEMMA ParentIsKept == \A k \in Kinds : ParentKind[k] \in Kept
BY DEF ParentKind, Kept, Kinds

LEMMA NoneTyped == None \in Objects
BY DEF None, Objects

\* Every call under way is a frame of the request it waits for.
Framed(frames) == \A i \in 1..Len(frames) : Genuine(frames[i])

\* Frames and other carriers stay genuine when requests are added.
LEMMA StillGenuine ==
  ASSUME count \in Nat, count' \in Nat, count' >= count, NEW r, Genuine(r)
  PROVE  Genuine(r)'
BY DEF Genuine, IdOf

\* The frame of a waiting call.
LEMMA TopTyped ==
  ASSUME RequestsInv, stack # << >>
  PROVE  /\ Top \in Frames /\ Genuine(Top)
         /\ Len(stack) \in Nat \ {0}
<1>1. stack \in Seq(Frames)
  BY DEF RequestsInv, TypeOK
<1>2. Len(stack) \in Nat \ {0} /\ Len(stack) \in DOMAIN stack
  BY <1>1
<1>3. QED
  BY <1>1, <1>2 DEF Top, RequestsInv

\* What is below a call are frames of earlier calls.
LEMMA BelowTyped ==
  ASSUME RequestsInv, NEW n \in 0..Len(stack)
  PROVE  /\ SubSeq(stack, 1, n) \in Seq(Frames)
         /\ \A i \in 1..Len(SubSeq(stack, 1, n)) : Genuine(SubSeq(stack, 1, n)[i])
<1>1. stack \in Seq(Frames) /\ Len(stack) \in Nat /\ DOMAIN stack = 1..Len(stack)
  BY DEF RequestsInv, TypeOK
<1>2. /\ SubSeq(stack, 1, n) \in Seq(Frames)
      /\ Len(SubSeq(stack, 1, n)) = n
      /\ \A i \in 1..n : SubSeq(stack, 1, n)[i] = stack[i]
  BY <1>1, PrefixOfSeq
<1>3. \A i \in 1..n : i \in DOMAIN stack
  BY <1>1
<1>4. QED
  BY <1>2, <1>3 DEF RequestsInv

-----------------------------------------------------------------------------
(* The invariant, action by action.                                        *)

LEMMA SendCreateKeeps ==
  ASSUME RequestsInv, NEW calls \in Seq(Frames), Framed(calls), NEW name \in Names,
         NEW left \in Seq(Kinds) \ {<< >>}, NEW keeps \in [Kept -> Objects],
         SendCreate(calls, name, left, keeps)
  PROVE  /\ counter' \in 0..(IdMod - 1) /\ counter' = IdOf(count') /\ count' = count + 1
         /\ count \in Nat
         /\ alloc' \in [Kinds -> Nat]
         /\ stack' \in Seq(Frames) /\ Framed(stack)'
         /\ \A m \in sent' : Genuine(m)'
<1> DEFINE kind == Head(left)
           obj == [kind |-> kind, id |-> alloc[kind]]
           parent == IF kind = "participant" THEN None ELSE keeps[ParentKind[kind]]
           frame == [name |-> name, left |-> left, obj |-> obj, parent |-> parent,
                     rid |-> counter', req |-> count']
<1>1. kind \in Kinds
  BY TailOfSeq
<1>2. counter \in 0..(IdMod - 1) /\ count \in Nat /\ alloc \in [Kinds -> Nat]
  BY DEF RequestsInv, TypeOK
<1>3. count' = count + 1 /\ counter' = NextId(counter)
  BY DEF SendCreate
<1>4. counter' = IdOf(count') /\ counter' \in 0..(IdMod - 1)
  BY <1>2, <1>3, NextIdIsIdOf DEF RequestsInv
<1>5. alloc' \in [Kinds -> Nat]
  BY <1>1, <1>2 DEF SendCreate, Taken
<1>6. obj \in Objects
  BY <1>1, <1>2 DEF Objects
<1>7. parent \in Objects
  BY <1>1, NoneTyped, ParentIsKept
<1>8. frame \in Frames
  <2>1. counter' \in Nat /\ count' \in Nat
    BY <1>2, <1>3, <1>4, IdsPositive
  <2> HIDE DEF obj, parent, kind
  <2>2. QED
    BY <1>6, <1>7, <2>1 DEF Frames
<1>9. stack' = Append(calls, frame) /\ frame.rid = counter' /\ frame.req = count'
  BY DEF SendCreate
<1> HIDE DEF frame, obj, parent, kind
<1>10. PICK f \in Frames : stack' = Append(calls, f) /\ f.rid = counter' /\ f.req = count'
  BY <1>8, <1>9
<1>11. \A r : (Genuine(r) \/ (r.rid = counter' /\ r.req = count')) => Genuine(r)'
  BY <1>2, <1>3, <1>4 DEF Genuine, IdOf
<1>12. /\ stack' \in Seq(Frames)
       /\ Len(stack') = Len(calls) + 1
       /\ \A i \in 1..Len(calls) : stack'[i] = calls[i]
       /\ stack'[Len(calls) + 1] = f
  BY <1>10, AppendToSeq
<1>13. (Framed(stack))'
  <2>1. \A i \in 1..Len(stack') : i \in 1..Len(calls) \/ i = Len(calls) + 1
    BY <1>12
  <2>2. \A i \in 1..Len(calls) : Genuine(stack[i])'
    BY <1>11, <1>12 DEF Framed
  <2>3. \A i \in {Len(calls) + 1} : Genuine(stack[i])'
    BY <1>10, <1>11, <1>12
  <2>4. QED
    BY <2>1, <2>2, <2>3 DEF Framed
<1>14. \A m \in sent' : Genuine(m)'
  <2>1. \A m \in sent' : m \in sent \/ (m.rid = counter' /\ m.req = count')
    BY DEF SendCreate
  <2>2. QED
    BY <1>11, <2>1 DEF RequestsInv
<1>15. QED
  BY <1>2, <1>3, <1>4, <1>5, <1>12, <1>13, <1>14

\* What a step keeps that neither asks nor answers anything.
LEMMA QuietKeeps ==
  ASSUME RequestsInv, UNCHANGED <<counter, count, alloc, kept, sent>>,
         stack' \in Seq(Frames), \A i \in 1..Len(stack') : Genuine(stack'[i]),
         answer' \in [req : Nat, by : Nat],
         \A s \in statuses' : Genuine(s),
         \A r \in DOMAIN pending' : pending'[r].req \in 1..count /\ r = IdOf(pending'[r].req)
  PROVE  RequestsInv'
<1>1. TypeOK'
  BY DEF RequestsInv, TypeOK
<1>2. \A r : Genuine(r)' <=> Genuine(r)
  BY DEF Genuine, IdOf
<1>3. (\A i \in DOMAIN stack : Genuine(stack[i]))'
  <2>1. DOMAIN stack' = 1..Len(stack')
    OBVIOUS
  <2>2. QED
    BY <1>2, <2>1
<1>4. (\A s \in statuses : Genuine(s))' /\ (\A m \in sent : Genuine(m))'
  BY <1>2 DEF RequestsInv
<1>5. QED
  BY <1>1, <1>3, <1>4 DEF RequestsInv, IdOf

\* A wait that takes a STATUS leaves the others as they were.
LEMMA StatusTakenKeeps ==
  ASSUME RequestsInv, NEW status, StatusTaken(status)
  PROVE  /\ answer' = [req |-> Top.req, by |-> pending[Top.rid].req]
         /\ answer' \in [req : Nat, by : Nat]
         /\ Genuine(Top) /\ Top.rid = IdOf(pending[Top.rid].req)
         /\ pending[Top.rid].req \in 1..count
         /\ \A r \in DOMAIN pending' :
              pending'[r].req \in 1..count /\ r = IdOf(pending'[r].req)
<1>1. Top \in Frames /\ Genuine(Top)
  BY TopTyped DEF StatusTaken
<1>2. pending[Top.rid].req \in 1..count /\ Top.rid = IdOf(pending[Top.rid].req)
  BY DEF RequestsInv, StatusTaken
<1>3. count \in Nat /\ Top.req \in Nat
  BY <1>1 DEF RequestsInv, TypeOK, Frames
<1>4. \A r \in DOMAIN pending' : r \in DOMAIN pending /\ pending'[r] = pending[r]
  BY DEF StatusTaken
<1>5. answer' = [req |-> Top.req, by |-> pending[Top.rid].req]
  BY DEF StatusTaken
<1>6. QED
  BY <1>1, <1>2, <1>3, <1>4, <1>5 DEF RequestsInv

\* The containers and the rest of the plan of the call that goes on.
LEMMA KeptNowTyped ==
  ASSUME RequestsInv, stack # << >>
  PROVE  KeptNow \in [Kept -> Objects]
<1>1. Top.obj \in Objects
  BY TopTyped DEF Frames
<1>2. kept \in [Kept -> Objects]
  BY DEF RequestsInv, TypeOK
<1>3. QED
  BY <1>1, <1>2 DEF KeptNow

LEMMA RemainingTyped ==
  ASSUME RequestsInv, stack # << >>
  PROVE  Remaining \in Seq(Kinds)
<1>1. Top.left \in Seq(Kinds) /\ Top.left # << >>
  BY TopTyped DEF Frames
<1>2. Tail(Top.left) \in Seq(Kinds)
  BY <1>1, TailOfSeq
<1>3. Tail(Top.left) # << >> => Tail(Tail(Top.left)) \in Seq(Kinds)
  BY <1>2, TailOfSeq
<1>4. QED
  BY <1>2, <1>3 DEF Remaining

\* A new request leaves the STATUSes with what they answer.
LEMMA AnswersKept ==
  ASSUME RequestsInv, count' = count + 1 \/ count' = count, UNCHANGED statuses,
         \A r \in DOMAIN pending' : pending'[r].req \in 1..count /\ r = IdOf(pending'[r].req)
  PROVE  /\ \A s \in statuses' : Genuine(s)'
         /\ (\A r \in DOMAIN pending : pending[r].req \in 1..count /\ r = IdOf(pending[r].req))'
<1>1. count \in Nat /\ count' \in Nat /\ count' >= count
  BY DEF RequestsInv, TypeOK
<1>2. \A r : Genuine(r) => Genuine(r)'
  BY <1>1, StillGenuine
<1>3. \A n \in 1..count : n \in 1..count'
  BY <1>1
<1>4. QED
  BY <1>2, <1>3 DEF RequestsInv, IdOf

LEMMA CallKeeps == RequestsInv /\ Call => RequestsInv'
<1> SUFFICES ASSUME RequestsInv, Call PROVE RequestsInv'
  OBVIOUS
<1>1. PICK c \in Calls : \E name \in Names : SendCreate(stack, name, Plan[c], kept)
  BY DEF Call
<1>2. PICK name \in Names : SendCreate(stack, name, Plan[c], kept)
  BY <1>1
<1>3. /\ stack \in Seq(Frames) /\ Framed(stack) /\ kept \in [Kept -> Objects]
      /\ answer \in [req : Nat, by : Nat]
  BY DEF RequestsInv, TypeOK, Framed
<1>4. Plan[c] \in Seq(Kinds) \ {<< >>}
  BY PlanTyped
<1>5. /\ counter' \in 0..(IdMod - 1) /\ counter' = IdOf(count') /\ count' = count + 1
      /\ count \in Nat /\ alloc' \in [Kinds -> Nat]
      /\ stack' \in Seq(Frames) /\ Framed(stack)'
      /\ \A m \in sent' : Genuine(m)'
  BY <1>2, <1>3, <1>4, SendCreateKeeps
<1>6. UNCHANGED <<kept, pending, answer, statuses>>
  BY DEF Call
<1>7. /\ \A s \in statuses' : Genuine(s)'
      /\ (\A r \in DOMAIN pending : pending[r].req \in 1..count /\ r = IdOf(pending[r].req))'
  BY <1>5, <1>6, AnswersKept DEF RequestsInv
<1>8. TypeOK'
  BY <1>3, <1>5, <1>6 DEF TypeOK
<1>9. (\A i \in DOMAIN stack : Genuine(stack[i]))'
  BY <1>5 DEF Framed
<1>10. counter' = IdOf(count') /\ IdOf(count') = IdOf(count)'
  BY <1>5 DEF IdOf
<1>11. QED
  BY <1>5, <1>7, <1>8, <1>9, <1>10 DEF RequestsInv

LEMMA ProceedKeeps == RequestsInv /\ Proceed => RequestsInv'
<1> SUFFICES ASSUME RequestsInv, Proceed PROVE RequestsInv'
  OBVIOUS
<1>1. StatusTaken("ok") /\ stack # << >>
  BY DEF Proceed, StatusTaken
<1>2. /\ answer' \in [req : Nat, by : Nat]
      /\ \A r \in DOMAIN pending' :
           pending'[r].req \in 1..count /\ r = IdOf(pending'[r].req)
  BY <1>1, StatusTakenKeeps
<1>3. Len(stack) - 1 \in 0..Len(stack) /\ Top.name \in Names
  BY <1>1, TopTyped DEF Frames
<1>4. Below \in Seq(Frames) /\ Framed(Below)
  BY <1>3, BelowTyped DEF Below, Framed
<1>5. Remaining \in Seq(Kinds) \ {<< >>} /\ KeptNow \in [Kept -> Objects]
  BY <1>1, RemainingTyped, KeptNowTyped DEF Proceed
<1>6. SendCreate(Below, Top.name, Remaining, KeptNow) /\ kept' = KeptNow /\ UNCHANGED statuses
  BY DEF Proceed
<1>7. /\ counter' \in 0..(IdMod - 1) /\ counter' = IdOf(count') /\ count' = count + 1
      /\ count \in Nat /\ alloc' \in [Kinds -> Nat]
      /\ stack' \in Seq(Frames) /\ Framed(stack)'
      /\ \A m \in sent' : Genuine(m)'
  BY <1>3, <1>4, <1>5, <1>6, SendCreateKeeps
<1>8. /\ \A s \in statuses' : Genuine(s)'
      /\ (\A r \in DOMAIN pending : pending[r].req \in 1..count /\ r = IdOf(pending[r].req))'
  BY <1>2, <1>6, <1>7, AnswersKept
<1>9. TypeOK'
  BY <1>2, <1>5, <1>6, <1>7 DEF TypeOK
<1>10. (\A i \in DOMAIN stack : Genuine(stack[i]))'
  BY <1>7 DEF Framed
<1>11. counter' = IdOf(count') /\ IdOf(count') = IdOf(count)'
  BY <1>7 DEF IdOf
<1>12. QED
  BY <1>7, <1>8, <1>9, <1>10, <1>11 DEF RequestsInv

\* A reader's call ends with a request for its data.
LEMMA FinishKeeps == RequestsInv /\ Finish => RequestsInv'
<1> SUFFICES ASSUME RequestsInv, Finish PROVE RequestsInv'
  OBVIOUS
<1>1. StatusTaken("ok") /\ stack # << >>
  BY DEF Finish, StatusTaken
<1>2. /\ answer' \in [req : Nat, by : Nat]
      /\ \A r \in DOMAIN pending' :
           pending'[r].req \in 1..count /\ r = IdOf(pending'[r].req)
  BY <1>1, StatusTakenKeeps
<1>3. Len(stack) - 1 \in 0..Len(stack)
  BY <1>1, TopTyped
<1>4. /\ Below \in Seq(Frames) /\ Framed(Below) /\ KeptNow \in [Kept -> Objects]
  BY <1>1, <1>3, BelowTyped, KeptNowTyped DEF Below, Framed
<1>5. kept' = KeptNow /\ stack' = Below /\ UNCHANGED <<alloc, sent, statuses>>
  BY DEF Finish
<1>6. /\ counter \in 0..(IdMod - 1) /\ count \in Nat /\ alloc \in [Kinds -> Nat]
      /\ counter = IdOf(count)
  BY DEF RequestsInv, TypeOK
<1>7. \/ counter' = NextId(counter) /\ count' = count + 1
      \/ counter' = counter /\ count' = count
  BY DEF Finish
<1>8. /\ counter' \in 0..(IdMod - 1) /\ count' \in Nat /\ count' >= count
      /\ counter' = IdOf(count')
  BY <1>6, <1>7, NextIdIsIdOf
<1>9. /\ \A s \in statuses' : Genuine(s)'
      /\ (\A r \in DOMAIN pending : pending[r].req \in 1..count /\ r = IdOf(pending[r].req))'
  BY <1>2, <1>5, <1>7, AnswersKept
<1>10. \A r : Genuine(r) => Genuine(r)'
  BY <1>6, <1>8, StillGenuine
<1>11. (\A i \in DOMAIN stack : Genuine(stack[i]))'
  <2>1. stack' \in Seq(Frames) /\ \A i \in 1..Len(stack') : Genuine(stack'[i])
    BY <1>4, <1>5 DEF Framed
  <2>2. QED
    BY <1>10, <2>1
<1>12. \A m \in sent' : Genuine(m)'
  BY <1>5, <1>10 DEF RequestsInv
<1>13. TypeOK'
  BY <1>2, <1>4, <1>5, <1>6, <1>8 DEF TypeOK
<1>14. IdOf(count') = IdOf(count)'
  BY DEF IdOf
<1>15. QED
  BY <1>8, <1>9, <1>11, <1>12, <1>13, <1>14 DEF RequestsInv

\* An exception takes frames off the stack and leaves the rest.
LEMMA UnwindKeeps ==
  ASSUME RequestsInv, Unwind
  PROVE  /\ stack' \in Seq(Frames)
         /\ \A i \in 1..Len(stack') : Genuine(stack'[i])
<1>1. Len(stack) \in Nat
  BY DEF RequestsInv, TypeOK
<1>2. PICK k \in 1..Len(stack) : stack' = SubSeq(stack, 1, Len(stack) - k)
  BY DEF Unwind
<1>3. Len(stack) - k \in 0..Len(stack)
  BY <1>1
<1>4. QED
  BY <1>2, <1>3, BelowTyped

LEMMA FailuresKeep == RequestsInv /\ (Rejected \/ TimesOut \/ Exhausted) => RequestsInv'
<1>1. ASSUME RequestsInv, Rejected PROVE RequestsInv'
  <2>1. StatusTaken("error") /\ Unwind
        /\ UNCHANGED <<counter, count, alloc, kept, handles, sent, statuses>>
    BY <1>1 DEF Rejected
  <2>2. \A s \in statuses' : Genuine(s)
    BY <1>1, <2>1 DEF RequestsInv
  <2>3. QED
    BY <1>1, <2>1, <2>2, UnwindKeeps, StatusTakenKeeps, QuietKeeps
<1>2. ASSUME RequestsInv, TimesOut \/ Exhausted PROVE RequestsInv'
  <2>1. Unwind /\ UNCHANGED <<counter, count, alloc, kept, pending, answer, sent, statuses>>
    BY <1>2 DEF TimesOut, Exhausted
  <2>2. /\ answer' \in [req : Nat, by : Nat]
        /\ \A s \in statuses' : Genuine(s)
        /\ \A r \in DOMAIN pending' :
             pending'[r].req \in 1..count /\ r = IdOf(pending'[r].req)
    BY <1>2, <2>1 DEF RequestsInv, TypeOK
  <2>3. QED
    BY <1>2, <2>1, <2>2, UnwindKeeps, QuietKeeps
<1>3. QED
  BY <1>1, <1>2

LEMMA OtherRequestKeeps == RequestsInv /\ OtherRequest => RequestsInv'
<1> SUFFICES ASSUME RequestsInv, OtherRequest PROVE RequestsInv'
  OBVIOUS
<1>1. /\ counter' = NextId(counter) /\ count' = count + 1
      /\ UNCHANGED <<alloc, kept, stack, pending, answer, statuses>>
  BY DEF OtherRequest
<1>2. /\ counter \in 0..(IdMod - 1) /\ count \in Nat /\ stack \in Seq(Frames)
      /\ counter = IdOf(count)
  BY DEF RequestsInv, TypeOK
<1>3. counter' \in 0..(IdMod - 1) /\ counter' = IdOf(count')
  BY <1>1, <1>2, NextIdIsIdOf
<1>4. \A r : (Genuine(r) \/ (r.rid = counter' /\ r.req = count')) => Genuine(r)'
  BY <1>1, <1>2, <1>3 DEF Genuine, IdOf
<1>5. /\ \A s \in statuses' : Genuine(s)'
      /\ (\A r \in DOMAIN pending : pending[r].req \in 1..count /\ r = IdOf(pending[r].req))'
  BY <1>1, AnswersKept DEF RequestsInv
<1>6. \A m \in sent' : m \in sent \/ (m.rid = counter' /\ m.req = count')
  BY DEF OtherRequest
<1>7. \A m \in sent' : Genuine(m)'
  BY <1>4, <1>6 DEF RequestsInv
<1>8. (\A i \in DOMAIN stack : Genuine(stack[i]))'
  BY <1>1, <1>4 DEF RequestsInv
<1>9. TypeOK'
  BY <1>1, <1>2, <1>3 DEF RequestsInv, TypeOK
<1>10. counter' = IdOf(count') /\ IdOf(count') = IdOf(count)'
  BY <1>1, <1>2, <1>3 DEF IdOf
<1>11. QED
  BY <1>5, <1>7, <1>8, <1>9, <1>10 DEF RequestsInv

LEMMA StatusArrivesKeeps == RequestsInv /\ StatusArrives => RequestsInv'
<1> SUFFICES ASSUME RequestsInv, StatusArrives PROVE RequestsInv'
  OBVIOUS
<1>1. PICK s \in statuses :
        pending' = [r \in DOMAIN pending \cup {s.rid} |->
                      IF r = s.rid THEN [status |-> s.status, req |-> s.req] ELSE pending[r]]
  BY DEF StatusArrives
<1>2. s.req \in 1..count /\ s.rid = IdOf(s.req)
  BY DEF RequestsInv, Genuine
<1>3. \A r \in DOMAIN pending' :
        pending'[r].req \in 1..count /\ r = IdOf(pending'[r].req)
  BY <1>1, <1>2 DEF RequestsInv
<1>4. UNCHANGED <<counter, count, alloc, kept, stack, answer, sent, statuses>>
  BY DEF StatusArrives
<1>5. /\ stack' \in Seq(Frames) /\ answer' \in [req : Nat, by : Nat]
      /\ \A i \in 1..Len(stack') : Genuine(stack'[i])
      /\ \A t \in statuses' : Genuine(t)
  BY <1>4 DEF RequestsInv, TypeOK
<1>6. QED
  BY <1>3, <1>4, <1>5, QuietKeeps

LEMMA AgentKeeps == RequestsInv /\ (AgentCreates \/ AgentRefuses) => RequestsInv'
<1> SUFFICES ASSUME RequestsInv, AgentCreates \/ AgentRefuses PROVE RequestsInv'
  OBVIOUS
<1>1. PICK m \in sent : statuses' \in {statuses \cup {Answer(m, "ok")},
                                     statuses \cup {Answer(m, "error")}}
  BY DEF AgentCreates, AgentRefuses
<1>2. Genuine(m)
  BY DEF RequestsInv
<1>3. \A s \in statuses' : Genuine(s)
  <2>1. \A status \in {"ok", "error"} : Genuine(Answer(m, status))
    BY <1>2 DEF Genuine, Answer
  <2>2. QED
    BY <1>1, <2>1 DEF RequestsInv
<1>4. UNCHANGED <<counter, count, alloc, kept, stack, pending, answer, sent>>
  BY DEF AgentCreates, AgentRefuses, board
<1>5. /\ stack' \in Seq(Frames) /\ answer' \in [req : Nat, by : Nat]
      /\ \A i \in 1..Len(stack') : Genuine(stack'[i])
      /\ \A r \in DOMAIN pending' :
           pending'[r].req \in 1..count /\ r = IdOf(pending'[r].req)
  BY <1>4 DEF RequestsInv, TypeOK
<1>6. QED
  BY <1>3, <1>4, <1>5, QuietKeeps

LEMMA InitKeeps == Init => RequestsInv
<1> SUFFICES ASSUME Init PROVE RequestsInv
  OBVIOUS
<1>1. kept \in [Kept -> Objects]
  BY NoneTyped DEF Init
<1>2. stack = << >> /\ stack \in Seq(Frames) /\ DOMAIN pending = {}
  BY DEF Init
<1>3. TypeOK
  BY <1>1, <1>2, IdsPositive DEF Init, TypeOK
<1>4. counter = IdOf(count)
  <2>1. 0 % (IdMod - Reserved) = 0
    BY IdsPositive, SmallRemainder DEF Ids
  <2>2. QED
    BY <2>1, IdsPositive DEF Init, IdOf
<1>5. QED
  BY <1>2, <1>3, <1>4 DEF Init, RequestsInv

LEMMA StepKeeps == RequestsInv /\ [Next]_vars => RequestsInv'
<1>1. ASSUME RequestsInv, UNCHANGED vars PROVE RequestsInv'
  <2>1. /\ UNCHANGED <<counter, count, alloc, kept, sent>>
        /\ stack' \in Seq(Frames) /\ answer' \in [req : Nat, by : Nat]
        /\ \A i \in 1..Len(stack') : Genuine(stack'[i])
        /\ \A t \in statuses' : Genuine(t)
        /\ \A r \in DOMAIN pending' :
             pending'[r].req \in 1..count /\ r = IdOf(pending'[r].req)
    BY <1>1 DEF vars, board, RequestsInv, TypeOK
  <2>2. QED
    BY <1>1, <2>1, QuietKeeps
<1>2. QED
  BY <1>1, CallKeeps, ProceedKeeps, FinishKeeps, FailuresKeep, OtherRequestKeeps,
     StatusArrivesKeeps, AgentKeeps DEF Next

-----------------------------------------------------------------------------
\* Whatever carries a request id, on the stack, on the wire or kept for later,
\* carries the id of the request it is of, through every loss, duplicate, late
\* STATUS, nested call and exception, and across the wrap of the counter.
THEOREM IdsAreGenuine == Spec => []RequestsInv
  BY InitKeeps, StepKeeps, PTL DEF Spec

LEMMA TakenIsOwn ==
  ASSUME RequestsInv, NEW status, StatusTaken(status)
  PROVE  OnlyWrapConfuses'
<1>1. /\ answer'.req = Top.req /\ answer'.by = pending[Top.rid].req
      /\ Top.rid = IdOf(pending[Top.rid].req) /\ pending[Top.rid].req \in 1..count
      /\ Genuine(Top)
  BY StatusTakenKeeps
<1>2. count \in Nat
  BY DEF RequestsInv, TypeOK
<1>3. answer'.req \in Nat /\ answer'.by \in Nat /\ IdOf(answer'.req) = IdOf(answer'.by)
  BY <1>1, <1>2 DEF Genuine
<1>4. \A a, b \in Nat : IdOf(a) = IdOf(b) => (a = b \/ a - b >= Ids \/ b - a >= Ids)
  BY OneIdOneTurn
<1>5. answer'.req = answer'.by \/ answer'.req - answer'.by >= Ids
      \/ answer'.by - answer'.req >= Ids
  BY <1>3, <1>4
<1>6. QED
  BY <1>5 DEF OnlyWrapConfuses, Ids

\* A STATUS taken for another request's is at least 65526 requests older: a
\* late, duplicated or unclaimed STATUS ends no other wait before that.
THEOREM WaitsEndRightly == Spec => []OnlyWrapConfuses
<1>1. Init => OnlyWrapConfuses
  BY DEF Init, OnlyWrapConfuses
<1>2. RequestsInv /\ OnlyWrapConfuses /\ [Next]_vars => OnlyWrapConfuses'
  <2> SUFFICES ASSUME RequestsInv, OnlyWrapConfuses, [Next]_vars PROVE OnlyWrapConfuses'
    OBVIOUS
  <2>1. (\E status : StatusTaken(status)) \/ UNCHANGED answer
    BY DEF Next, vars, board, Call, Proceed, Finish, Rejected, TimesOut, Exhausted,
           OtherRequest, StatusArrives, AgentCreates, AgentRefuses
  <2>2. CASE UNCHANGED answer
    BY <2>2 DEF OnlyWrapConfuses
  <2>3. QED
    BY <2>1, <2>2, TakenIsOwn
<1>3. QED
  BY <1>1, <1>2, IdsAreGenuine, PTL DEF Spec

\* A container later calls hang their entities on was confirmed: a refusal, a
\* timeout or an exception half way through a plan leaves none behind.
THEOREM ContainersConfirmed == Spec => []KeptConfirmed
<1>1. Init => KeptConfirmed
  BY DEF Init, KeptConfirmed
<1>2. KeptConfirmed /\ [Next]_vars => KeptConfirmed'
  <2> SUFFICES ASSUME KeptConfirmed, [Next]_vars PROVE KeptConfirmed'
    OBVIOUS
  <2>1. UNCHANGED <<kept, handles>> \/ (kept' = KeptNow /\ handles' = Returned)
    BY DEF Next, vars, board, Call, Proceed, Finish, Rejected, TimesOut, Exhausted,
           OtherRequest, StatusArrives, AgentCreates, AgentRefuses
  <2>2. CASE UNCHANGED <<kept, handles>>
    BY <2>2 DEF KeptConfirmed
  <2>3. CASE kept' = KeptNow /\ handles' = Returned
    <3> DEFINE new == [obj |-> Top.obj, name |-> Top.name, parent |-> Top.parent,
                       req |-> Top.req, by |-> pending[Top.rid].req]
    <3>1. Top.obj \in {h.obj : h \in handles'}
      <4>1. new \in handles' /\ new.obj = Top.obj
        BY <2>3 DEF Returned
      <4>2. QED
        BY <4>1
    <3>2. {h.obj : h \in handles} \subseteq {h.obj : h \in handles'}
      BY <2>3 DEF Returned
    <3>3. \A k \in Kept : kept'[k] = kept[k] \/ kept'[k] = Top.obj
      BY <2>3 DEF KeptNow
    <3>4. QED
      BY <3>1, <3>2, <3>3 DEF KeptConfirmed
  <2>4. QED
    BY <2>1, <2>2, <2>3
<1>3. QED
  BY <1>1, <1>2, PTL DEF Spec

-----------------------------------------------------------------------------
(* What a handle stands for.  A CREATE has an object id and a request id   *)
(* of its own, so what the Agent holds under the id is what the one CREATE *)
(* asked for, however often and late it is delivered.                      *)

Creates == {m \in sent : m.does = "create"}
Matches(m, f) == m.obj = f.obj /\ m.name = f.name /\ m.parent = f.parent /\ m.req = f.req

\* The Agent holds what CREATE m asked for.
Held(m) ==
  /\ m.obj \in DOMAIN agent
  /\ agent[m.obj] = [name |-> m.name, parent |-> m.parent, req |-> m.req]
  /\ m.parent # None => m.parent \in DOMAIN agent

\* The requests the Agent has carried out and still holds the result of.
ConfirmedReqs == {m.req : m \in {n \in Creates : Held(n)}}

\* CREATEs differ in object id and request id, and a call under way has sent its own.
SentInv ==
  /\ \A m \in Creates : m.obj.kind \in Kinds /\ m.obj.id \in Nat /\ m.obj.id < alloc[m.obj.kind]
  /\ \A m, n \in Creates : m.obj = n.obj \/ m.req = n.req => m = n
  /\ \A i \in DOMAIN stack : \E m \in Creates : Matches(m, stack[i])

\* An ok on its way, kept, or already turned into a handle is about a CREATE held.
BackedInv ==
  /\ SentInv
  /\ \A s \in statuses : s.status = "ok" => s.req \in ConfirmedReqs
  /\ \A r \in DOMAIN pending : pending[r].status = "ok" => pending[r].req \in ConfirmedReqs
  /\ \A h \in handles : h.by = h.req => \E m \in Creates : Matches(m, h) /\ Held(m)

\* Nothing is taken back from the network, and the Agent replaces an object
\* only by the one of the same CREATE.
LEMMA HeldStays ==
  ASSUME RequestsInv, SentInv, [Next]_vars
  PROVE  /\ Creates \subseteq Creates'
         /\ \A m \in Creates : Held(m) => Held(m)'
<1>1. sent \subseteq sent'
  BY DEF Next, vars, board, Call, Proceed, Finish, Rejected, TimesOut, Exhausted, OtherRequest,
         StatusArrives, AgentCreates, AgentRefuses, SendCreate
<1>2. Creates \subseteq Creates'
  BY <1>1 DEF Creates
<1>3. CASE UNCHANGED agent
  BY <1>2, <1>3 DEF Held
<1>4. CASE AgentCreates
  <2>1. PICK n \in Creates :
          agent' = [o \in DOMAIN agent \cup {n.obj} |->
                      IF o = n.obj THEN [name |-> n.name, parent |-> n.parent, req |-> n.req]
                      ELSE agent[o]]
    <3>1. CreateFlag # "reuse"
      BY DEF CreateFlag
    <3>2. QED
      BY <1>4, <3>1 DEF AgentCreates, Creates
  <2>2. ASSUME NEW m \in Creates, Held(m) PROVE Held(m)'
    <3>1. DOMAIN agent \subseteq DOMAIN agent'
      BY <2>1
    <3>2. m.obj \in DOMAIN agent /\ agent[m.obj] = [name |-> m.name, parent |-> m.parent, req |-> m.req]
      BY <2>2 DEF Held
    <3>3. agent'[m.obj] = [name |-> m.name, parent |-> m.parent, req |-> m.req]
      <4>1. CASE m.obj = n.obj
        <5>1. m = n
          BY <4>1 DEF SentInv
        <5>2. QED
          BY <2>1, <3>2, <4>1, <5>1
      <4>2. CASE m.obj # n.obj
        BY <2>1, <3>2, <4>2
      <4>3. QED
        BY <4>1, <4>2
    <3>4. QED
      BY <2>2, <3>1, <3>2, <3>3 DEF Held
  <2>3. QED
    BY <1>2, <2>2
<1>5. UNCHANGED agent \/ AgentCreates
  BY DEF Next, vars, Call, Proceed, Finish, Rejected, TimesOut, Exhausted, OtherRequest,
         StatusArrives, AgentRefuses
<1>6. QED
  BY <1>2, <1>3, <1>4, <1>5

\* A new CREATE takes ids that none had.
LEMMA SendCreateSent ==
  ASSUME RequestsInv, SentInv, NEW calls \in Seq(Frames), NEW name,
         NEW left \in Seq(Kinds) \ {<< >>}, NEW keeps,
         \A i \in 1..Len(calls) : \E m \in Creates : Matches(m, calls[i]),
         SendCreate(calls, name, left, keeps)
  PROVE  SentInv'
<1> DEFINE kind == Head(left)
           obj == [kind |-> kind, id |-> alloc[kind]]
           parent == IF kind = "participant" THEN None ELSE keeps[ParentKind[kind]]
           new == [rid |-> counter', req |-> count', does |-> "create", obj |-> obj,
                   name |-> name, parent |-> parent]
           frame == [name |-> name, left |-> left, obj |-> obj, parent |-> parent,
                     rid |-> counter', req |-> count']
<1>1. kind \in Kinds
  BY TailOfSeq
<1>2. count \in Nat /\ alloc \in [Kinds -> Nat] /\ alloc[kind] \in Nat
  BY <1>1 DEF RequestsInv, TypeOK
<1>3. /\ alloc' = [alloc EXCEPT ![kind] = @ + 1] /\ count' = count + 1
      /\ sent' = sent \cup {new} /\ stack' = Append(calls, frame)
  BY DEF SendCreate, Taken
<1>4. /\ new.obj = obj /\ new.req = count + 1 /\ new.does = "create"
      /\ obj.kind = kind /\ obj.id = alloc[kind] /\ Matches(new, frame)
  BY <1>3 DEF Matches
<1> HIDE DEF new, frame, obj, parent, kind
<1>5. Creates' = Creates \cup {new}
  BY <1>3, <1>4 DEF Creates
<1>6. \A k \in Kinds : alloc'[k] = IF k = kind THEN alloc[k] + 1 ELSE alloc[k]
  BY <1>1, <1>2, <1>3
<1>7. \A m \in Creates' : m.obj.kind \in Kinds /\ m.obj.id \in Nat /\ m.obj.id < alloc'[m.obj.kind]
  <2>1. ASSUME NEW m \in Creates
        PROVE  m.obj.kind \in Kinds /\ m.obj.id \in Nat /\ m.obj.id < alloc'[m.obj.kind]
    <3>1. m.obj.kind \in Kinds /\ m.obj.id \in Nat /\ m.obj.id < alloc[m.obj.kind]
      BY DEF SentInv
    <3>2. alloc[m.obj.kind] \in Nat
      BY <1>2, <3>1
    <3>3. alloc'[m.obj.kind] \in {alloc[m.obj.kind], alloc[m.obj.kind] + 1}
      BY <1>6, <3>1
    <3>4. QED
      BY <3>1, <3>2, <3>3
  <2>2. new.obj.kind \in Kinds /\ new.obj.id \in Nat /\ new.obj.id < alloc'[new.obj.kind]
    <3>1. alloc'[kind] = alloc[kind] + 1
      BY <1>1, <1>6
    <3>2. QED
      BY <1>1, <1>2, <1>4, <3>1
  <2>3. QED
    BY <1>5, <2>1, <2>2
<1>8. \A m \in Creates : m.obj # new.obj /\ m.req # new.req
  <2> SUFFICES ASSUME NEW m \in Creates PROVE m.obj # new.obj /\ m.req # new.req
    OBVIOUS
  <2>1. m.obj.id < alloc[m.obj.kind] /\ m.obj.id \in Nat
    BY DEF SentInv
  <2>2. m.req \in 1..count
    BY DEF RequestsInv, Creates, Genuine
  <2>3. m.obj # new.obj
    BY <1>2, <1>4, <2>1
  <2>4. m.req # new.req
    BY <1>2, <1>4, <2>2
  <2>5. QED
    BY <2>3, <2>4
<1>9. \A m, n \in Creates' : m.obj = n.obj \/ m.req = n.req => m = n
  BY <1>5, <1>8 DEF SentInv
<1>10. \A i \in DOMAIN stack' : \E m \in Creates' : Matches(m, stack'[i])
  <2>1. /\ Len(stack') = Len(calls) + 1 /\ DOMAIN stack' = 1..(Len(calls) + 1)
        /\ \A i \in 1..Len(calls) : stack'[i] = calls[i]
        /\ stack'[Len(calls) + 1] = frame
    BY <1>3
  <2>2. \A i \in 1..(Len(calls) + 1) : i \in 1..Len(calls) \/ i = Len(calls) + 1
    OBVIOUS
  <2>3. \A i \in 1..Len(calls) : \E m \in Creates' : Matches(m, stack'[i])
    BY <1>5, <2>1
  <2>4. Matches(new, stack'[Len(calls) + 1]) /\ new \in Creates'
    BY <1>4, <1>5, <2>1
  <2>5. QED
    BY <2>1, <2>2, <2>3, <2>4
<1>11. QED
  BY <1>7, <1>9, <1>10 DEF SentInv, Matches

\* What a call under way leaves below it was sent before.
LEMMA PrefixSent ==
  ASSUME RequestsInv, SentInv, NEW n \in 0..Len(stack)
  PROVE  \A i \in 1..Len(SubSeq(stack, 1, n)) : \E m \in Creates : Matches(m, SubSeq(stack, 1, n)[i])
<1>1. stack \in Seq(Frames) /\ Len(stack) \in Nat /\ DOMAIN stack = 1..Len(stack)
  BY DEF RequestsInv, TypeOK
<1>2. Len(SubSeq(stack, 1, n)) = n /\ \A i \in 1..n : SubSeq(stack, 1, n)[i] = stack[i]
  BY <1>1, PrefixOfSeq
<1>3. \A i \in 1..n : i \in DOMAIN stack
  BY <1>1
<1>4. QED
  BY <1>2, <1>3 DEF SentInv

\* Requests that are no CREATE, and frames that leave the stack.
LEMMA NothingCreated ==
  ASSUME RequestsInv, SentInv, UNCHANGED alloc, Creates' = Creates,
         stack' \in Seq(Frames),
         \A i \in 1..Len(stack') : \E m \in Creates : Matches(m, stack'[i])
  PROVE  SentInv'
<1>1. DOMAIN stack' = 1..Len(stack')
  OBVIOUS
<1>2. \A m, f : Matches(m, f)' <=> Matches(m, f)
  BY DEF Matches
<1>3. (\A i \in DOMAIN stack : \E m \in Creates : Matches(m, stack[i]))'
  BY <1>1 DEF Matches
<1>4. QED
  BY <1>3 DEF SentInv

LEMMA SentInvStep ==
  ASSUME RequestsInv, RequestsInv', SentInv, [Next]_vars
  PROVE  SentInv'
<1>1. /\ stack \in Seq(Frames) /\ Len(stack) \in Nat /\ stack' \in Seq(Frames)
      /\ \A i \in 1..Len(stack) : \E m \in Creates : Matches(m, stack[i])
  <2>1. stack \in Seq(Frames) /\ stack' \in Seq(Frames)
    BY DEF RequestsInv, TypeOK
  <2>2. DOMAIN stack = 1..Len(stack) /\ Len(stack) \in Nat
    BY <2>1
  <2>3. QED
    BY <2>1, <2>2 DEF SentInv
<1>2. CASE Call
  <2>1. PICK c \in Calls, name \in Names : SendCreate(stack, name, Plan[c], kept)
    BY <1>2 DEF Call
  <2>2. Plan[c] \in Seq(Kinds) \ {<< >>}
    BY PlanTyped
  <2>3. QED
    BY <1>1, <2>1, <2>2, SendCreateSent
<1>3. CASE Proceed
  <2>1. SendCreate(Below, Top.name, Remaining, KeptNow) /\ Remaining # << >> /\ stack # << >>
    BY <1>3 DEF Proceed, StatusTaken
  <2>2. Len(stack) - 1 \in 0..Len(stack)
    BY <1>1, <2>1, TopTyped
  <2>3. Below \in Seq(Frames) /\ \A i \in 1..Len(Below) : \E m \in Creates : Matches(m, Below[i])
    BY <2>2, BelowTyped, PrefixSent DEF Below
  <2>4. Remaining \in Seq(Kinds) \ {<< >>}
    BY <2>1, RemainingTyped
  <2>5. QED
    BY <2>1, <2>3, <2>4, SendCreateSent
<1>4. CASE Finish
  <2>1. stack' = Below /\ UNCHANGED <<alloc, sent>> /\ stack # << >>
    BY <1>4 DEF Finish, StatusTaken
  <2>2. Len(stack) - 1 \in 0..Len(stack)
    BY <1>1, <2>1, TopTyped
  <2>3. \A i \in 1..Len(stack') : \E m \in Creates : Matches(m, stack'[i])
    BY <2>1, <2>2, PrefixSent DEF Below
  <2>4. Creates' = Creates
    BY <2>1 DEF Creates
  <2>5. QED
    BY <1>1, <2>1, <2>3, <2>4, NothingCreated
<1>5. CASE Rejected \/ TimesOut \/ Exhausted
  <2>1. Unwind /\ UNCHANGED <<alloc, sent>>
    BY <1>5 DEF Rejected, TimesOut, Exhausted
  <2>2. PICK k \in 1..Len(stack) : stack' = SubSeq(stack, 1, Len(stack) - k)
    BY <2>1 DEF Unwind
  <2>3. Len(stack) - k \in 0..Len(stack)
    BY <1>1
  <2>4. \A i \in 1..Len(stack') : \E m \in Creates : Matches(m, stack'[i])
    BY <2>2, <2>3, PrefixSent
  <2>5. Creates' = Creates
    BY <2>1 DEF Creates
  <2>6. QED
    BY <1>1, <2>1, <2>4, <2>5, NothingCreated
<1>6. CASE OtherRequest
  <2>1. Creates' = Creates /\ UNCHANGED <<alloc, stack>>
    BY <1>6 DEF OtherRequest, Creates
  <2>2. QED
    BY <1>1, <2>1, NothingCreated
<1>7. CASE StatusArrives \/ AgentCreates \/ AgentRefuses \/ UNCHANGED vars
  <2>1. Creates' = Creates /\ UNCHANGED <<alloc, stack>>
    BY <1>7 DEF StatusArrives, AgentCreates, AgentRefuses, Creates, vars, board
  <2>2. QED
    BY <1>1, <2>1, NothingCreated
<1>8. QED
  BY <1>2, <1>3, <1>4, <1>5, <1>6, <1>7 DEF Next

\* A wait that an ok ended was about the CREATE of its frame.
LEMMA TakenIsHeld ==
  ASSUME RequestsInv, BackedInv, StatusTaken("ok"), pending[Top.rid].req = Top.req
  PROVE  \E m \in Creates : Matches(m, Top) /\ Held(m)
<1>1. PICK m \in Creates : m.req = Top.req /\ Held(m)
  BY DEF BackedInv, StatusTaken, ConfirmedReqs
<1>2. Len(stack) \in DOMAIN stack
  <2>1. stack \in Seq(Frames) /\ Len(stack) \in Nat \ {0}
    BY TopTyped DEF RequestsInv, TypeOK, StatusTaken
  <2>2. QED
    BY <2>1
<1>3. PICK n \in Creates : Matches(n, Top)
  BY <1>2 DEF BackedInv, SentInv, Top
<1>4. m = n
  BY <1>1, <1>3 DEF BackedInv, SentInv, Matches
<1>5. QED
  BY <1>1, <1>3, <1>4

LEMMA BackedInvStep ==
  ASSUME RequestsInv, RequestsInv', BackedInv, [Next]_vars
  PROVE  BackedInv'
<1>1. SentInv /\ SentInv'
  BY SentInvStep DEF BackedInv
<1>2. Creates \subseteq Creates' /\ \A m \in Creates : Held(m) => Held(m)'
  BY <1>1, HeldStays
<1>3. ConfirmedReqs \subseteq ConfirmedReqs'
  BY <1>2 DEF ConfirmedReqs
<1>4. \A s \in statuses' : s.status = "ok" => s.req \in ConfirmedReqs'
  <2>1. CASE AgentCreates
    <3>1. PICK m \in Creates :
            /\ m.parent = None \/ m.parent \in DOMAIN agent
            /\ agent' = [o \in DOMAIN agent \cup {m.obj} |->
                           IF o = m.obj THEN [name |-> m.name, parent |-> m.parent, req |-> m.req]
                           ELSE agent[o]]
            /\ statuses' = statuses \cup {Answer(m, "ok")}
      <4>1. CreateFlag # "reuse"
        BY DEF CreateFlag
      <4>2. QED
        BY <2>1, <4>1 DEF AgentCreates, Creates
    <3>2. Held(m)'
      BY <3>1 DEF Held
    <3>3. m.req \in ConfirmedReqs'
      BY <1>2, <3>2 DEF ConfirmedReqs
    <3>4. Answer(m, "ok").req = m.req
      BY DEF Answer
    <3>5. QED
      BY <1>3, <3>1, <3>3, <3>4 DEF BackedInv
  <2>2. CASE AgentRefuses
    <3>1. PICK m \in sent : statuses' = statuses \cup {Answer(m, "error")}
      BY <2>2 DEF AgentRefuses
    <3>2. Answer(m, "error").status # "ok"
      BY DEF Answer
    <3>3. QED
      BY <1>3, <3>1, <3>2 DEF BackedInv
  <2>3. CASE UNCHANGED statuses
    BY <1>3, <2>3 DEF BackedInv
  <2>4. UNCHANGED statuses \/ AgentCreates \/ AgentRefuses
    BY DEF Next, vars, Call, Proceed, Finish, Rejected, TimesOut, Exhausted, OtherRequest,
           StatusArrives
  <2>5. QED
    BY <2>1, <2>2, <2>3, <2>4
<1>5. \A r \in DOMAIN pending' : pending'[r].status = "ok" => pending'[r].req \in ConfirmedReqs'
  <2>1. CASE StatusArrives
    <3>1. PICK s \in statuses :
            pending' = [r \in DOMAIN pending \cup {s.rid} |->
                          IF r = s.rid THEN [status |-> s.status, req |-> s.req] ELSE pending[r]]
      BY <2>1 DEF StatusArrives
    <3>2. \A r \in DOMAIN pending' :
            \/ r \in DOMAIN pending /\ pending'[r] = pending[r]
            \/ pending'[r].status = s.status /\ pending'[r].req = s.req
      BY <3>1
    <3>3. QED
      BY <1>3, <3>2 DEF BackedInv
  <2>2. CASE UNCHANGED pending
    BY <1>3, <2>2 DEF BackedInv
  <2>3. CASE \E status : StatusTaken(status)
    <3>1. \A r \in DOMAIN pending' : r \in DOMAIN pending /\ pending'[r] = pending[r]
      BY <2>3 DEF StatusTaken
    <3>2. QED
      BY <1>3, <3>1 DEF BackedInv
  <2>4. UNCHANGED pending \/ StatusArrives \/ \E status : StatusTaken(status)
    BY DEF Next, vars, board, Call, Proceed, Finish, Rejected, TimesOut, Exhausted, OtherRequest,
           AgentCreates, AgentRefuses
  <2>5. QED
    BY <2>1, <2>2, <2>3, <2>4
<1>6. \A h \in handles' : h.by = h.req => \E m \in Creates' : Matches(m, h) /\ Held(m)'
  <2>1. \A h \in handles : h.by = h.req => \E m \in Creates' : Matches(m, h) /\ Held(m)'
    BY <1>2 DEF BackedInv
  <2>2. CASE StatusTaken("ok") /\ handles' = Returned
    <3> DEFINE new == [obj |-> Top.obj, name |-> Top.name, parent |-> Top.parent,
                       req |-> Top.req, by |-> pending[Top.rid].req]
    <3>1. handles' = handles \cup {new}
      BY <2>2 DEF Returned
    <3>2. ASSUME new.by = new.req PROVE \E m \in Creates' : Matches(m, new) /\ Held(m)'
      <4>1. PICK m \in Creates : Matches(m, Top) /\ Held(m)
        BY <2>2, <3>2, TakenIsHeld
      <4>2. Matches(m, new)
        BY <4>1 DEF Matches
      <4>3. QED
        BY <1>2, <4>1, <4>2
    <3> HIDE DEF new
    <3>3. QED
      BY <2>1, <3>1, <3>2
  <2>3. UNCHANGED handles \/ (StatusTaken("ok") /\ handles' = Returned)
    BY DEF Next, vars, board, Call, Proceed, Finish, Rejected, TimesOut, Exhausted, OtherRequest,
           StatusArrives, AgentCreates, AgentRefuses
  <2>4. QED
    BY <2>1, <2>2, <2>3
<1>7. QED
  BY <1>1, <1>4, <1>5, <1>6 DEF BackedInv, Matches

\* A handle the program was given in answer to its own request names an object
\* that the Agent holds under the same name and parent, whatever an earlier run
\* left there, however late and often the CREATEs arrive.
THEOREM HandlesAreBacked == Spec => []HandlesBacked
<1>1. Init => BackedInv
  BY DEF Init, BackedInv, SentInv, Creates
<1>2. RequestsInv /\ RequestsInv' /\ BackedInv /\ [Next]_vars => BackedInv'
  BY BackedInvStep
<1>3. BackedInv => HandlesBacked
  BY DEF BackedInv, HandlesBacked, Matches, Held
<1>4. QED
  BY <1>1, <1>2, <1>3, IdsAreGenuine, PTL DEF Spec
=============================================================================
