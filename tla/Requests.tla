------------------------------ MODULE Requests ------------------------------
(***************************************************************************)
(* Requests that wait for a STATUS: how a node creates its entities at the *)
(* Agent (xrce/session.py, xrce/entities.py, node.py).                     *)
(*                                                                         *)
(* A call such as create_publisher is a plan of CREATEs, each sent once    *)
(* over a network that loses, delays and duplicates, and each followed by  *)
(* a wait for the STATUS with its request id.  The wait polls, and what it *)
(* polls may run a callback that makes a call of its own: calls form a     *)
(* stack, and an exception takes down as many of them as no handler        *)
(* stops.  STATUSes are kept by request id, a counter that wraps.          *)
(*                                                                         *)
(* Requests are also numbered 1, 2, ... so that properties can tell two    *)
(* requests of one id apart; the program has no such number.               *)
(***************************************************************************)
EXTENDS Integers, Sequences, FiniteSets

CONSTANTS
  IdMod,         \* request ids are below it: 16#10000
  Reserved,      \* the lowest id in use, where the counter starts: 10
  IdsPerKind,    \* object ids a kind has: 16#1000
  Names,         \* topics and services of the program
  Calls,         \* the calls it makes, see Plan
  MaxDepth,      \* bound: calls inside calls
  MaxRequests    \* bound: requests in all

ASSUME RequestsAssumption ==
  /\ IdMod \in Nat /\ Reserved \in 1..(IdMod - 1)
  /\ IdsPerKind \in Nat \ {0} /\ MaxDepth \in Nat \ {0} /\ MaxRequests \in Nat

\* What a call creates, in order.
Plan ==
  [ connect |-> <<"participant">>,
    create_publisher |-> <<"topic", "publisher", "datawriter">>,
    create_subscription |-> <<"topic", "subscriber", "datareader">>,
    create_service |-> <<"replier">>,
    create_client |-> <<"requester">> ]
ASSUME CallsAssumption == Calls \subseteq DOMAIN Plan

Kinds == {"participant", "topic", "publisher", "subscriber", "datawriter", "datareader",
          "replier", "requester"}

\* The entities a node keeps for later calls to hang others on.
Kept == {"participant", "publisher", "subscriber"}
ParentKind == [k \in Kinds |-> CASE k = "datawriter" -> "publisher"
                                 [] k = "datareader" -> "subscriber"
                                 [] OTHER -> "participant"]
None == [kind |-> "none", id |-> 0]
OldName == "of an earlier run"

VARIABLES
  counter,    \* _request_counter
  count,      \* requests issued (ghost)
  alloc,      \* the next object id of each kind
  kept,       \* _participant, _publisher_entity, _subscriber_entity
  stack,      \* calls under way, the innermost last
  pending,    \* _pending_status: request id -> status and request answered
  handles,    \* objects _create returned, with the request that made them
  answer,     \* the last wait that a STATUS ended: its request, and the one answered
  sent,       \* requests the network may deliver, at any time and often
  statuses,   \* STATUSes the network may deliver, at any time and often
  agent       \* the Agent's objects
board == <<counter, count, alloc, kept, stack, pending, handles, answer>>
vars == <<board, sent, statuses, agent>>

\* Mutant: the counter is masked too early.
NextId_Narrow(c) == LET n == (c + 1) % (Reserved + 1) IN IF n < Reserved THEN Reserved ELSE n

NextId(c) == LET n == (c + 1) % IdMod IN IF n < Reserved THEN Reserved ELSE n

\* Mutant: REUSE lets the Agent bind a CREATE to the object it has.
CreateFlag_Reuse == "reuse"

CreateFlag == "replace"

\* Object ids restart with each run; the Agent may still hold the last one's.
Leftovers == [o \in [kind : Kinds, id : {0}] |-> [name |-> OldName, parent |-> None, req |-> 0]]

Init ==
  /\ counter = Reserved /\ count = 0
  /\ alloc = [k \in Kinds |-> 0]
  /\ kept = [k \in Kept |-> None]
  /\ stack = << >> /\ pending = << >> /\ handles = {}
  /\ answer = [req |-> 0, by |-> 0]
  /\ sent = {} /\ statuses = {}
  /\ agent \in {Leftovers, << >>}

Top == stack[Len(stack)]
Below == SubSeq(stack, 1, Len(stack) - 1)

\* Mutant: the allocator never moves on.
Taken_Again(kind) == alloc

Taken(kind) == [alloc EXCEPT ![kind] = @ + 1]

\* _create up to its wait: take an object id and a request id, send the CREATE.
SendCreate(calls, name, left, keeps) ==
  LET kind == Head(left)
      obj == [kind |-> kind, id |-> alloc[kind]]
      parent == IF kind = "participant" THEN None ELSE keeps[ParentKind[kind]]
  IN /\ alloc[kind] < IdsPerKind
     /\ count < MaxRequests
     /\ alloc' = Taken(kind)
     /\ counter' = NextId(counter) /\ count' = count + 1
     /\ sent' = sent \cup {[rid |-> counter', req |-> count', does |-> "create", obj |-> obj,
                            name |-> name, parent |-> parent]}
     /\ stack' = Append(calls, [name |-> name, left |-> left, obj |-> obj, parent |-> parent,
                                rid |-> counter', req |-> count'])

\* The program, or a callback run by the innermost wait, calls the node.
Call ==
  /\ Len(stack) < MaxDepth
  /\ \E c \in Calls, name \in Names :
       /\ IF c = "connect" THEN stack = << >> /\ kept["participant"] = None
          ELSE kept["participant"] # None
       /\ SendCreate(stack, name, Plan[c], kept)
  /\ UNCHANGED <<kept, pending, handles, answer, statuses, agent>>

\* The wait of the innermost call finds its STATUS and takes it.
StatusTaken(status) ==
  /\ stack # << >>
  /\ Top.rid \in DOMAIN pending
  /\ pending[Top.rid].status = status
  /\ answer' = [req |-> Top.req, by |-> pending[Top.rid].req]
  /\ pending' = [r \in DOMAIN pending \ {Top.rid} |-> pending[r]]

Returned == handles \cup {[obj |-> Top.obj, name |-> Top.name, parent |-> Top.parent,
                           req |-> Top.req, by |-> pending[Top.rid].req]}

KeptNow == IF Top.obj.kind \in Kept THEN [kept EXCEPT ![Top.obj.kind] = Top.obj] ELSE kept

\* What is left of the plan: a container the node has is not created again.
Remaining == LET rest == Tail(Top.left)
             IN IF rest # << >> /\ Head(rest) \in Kept /\ kept[Head(rest)] # None
                THEN Tail(rest) ELSE rest

Proceed ==
  /\ StatusTaken("ok") /\ Remaining # << >>
  /\ handles' = Returned /\ kept' = KeptNow
  /\ SendCreate(Below, Top.name, Remaining, KeptNow)
  /\ UNCHANGED <<statuses, agent>>

\* The last entity of the plan: a reader's call also asks for its data.
Finish ==
  /\ StatusTaken("ok") /\ Remaining = << >>
  /\ handles' = Returned /\ kept' = KeptNow
  /\ stack' = Below
  /\ IF Top.obj.kind \in {"datareader", "replier", "requester"}
     THEN counter' = NextId(counter) /\ count' = count + 1
     ELSE UNCHANGED <<counter, count>>
  /\ UNCHANGED <<alloc, sent, statuses, agent>>

\* An exception leaves the innermost call and those under it, down to the
\* first that a service handler's try block protects.
Unwind == \E k \in 1..Len(stack) : stack' = SubSeq(stack, 1, Len(stack) - k)

\* Mutant: a container is kept before its status is looked at.
Rejected_Keeps ==
  /\ StatusTaken("error")
  /\ kept' = KeptNow
  /\ Unwind
  /\ UNCHANGED <<counter, count, alloc, handles, sent, statuses, agent>>

\* EntityError: the Agent refused.
Rejected ==
  /\ StatusTaken("error")
  /\ Unwind
  /\ UNCHANGED <<counter, count, alloc, kept, handles, sent, statuses, agent>>

\* EntityError: no STATUS in time, or one that came while a nested call ran.
TimesOut ==
  /\ stack # << >>
  /\ Unwind
  /\ UNCHANGED <<counter, count, alloc, kept, pending, handles, answer, sent, statuses, agent>>

\* ValueError: a call made inside another finds no object id left.  A plan
\* starts with the kind it needs most of, so none runs out half way.
Exhausted ==
  /\ Len(stack) \in 1..(MaxDepth - 1)
  /\ kept["participant"] # None
  /\ \E c \in Calls \ {"connect"} : alloc[Head(Plan[c])] >= IdsPerKind
  /\ Unwind
  /\ UNCHANGED <<counter, count, alloc, kept, pending, handles, answer, sent, statuses, agent>>

\* A sample, a probe or a read takes a request id and waits for no STATUS.
OtherRequest ==
  /\ count < MaxRequests
  /\ counter' = NextId(counter) /\ count' = count + 1
  /\ sent' = sent \cup {[rid |-> counter', req |-> count', does |-> "other", obj |-> None,
                         name |-> OldName, parent |-> None]}
  /\ UNCHANGED <<alloc, kept, stack, pending, handles, answer, statuses, agent>>

\* poll: a STATUS is kept under its request id, whoever waits for it or not.
StatusArrives ==
  /\ \E s \in statuses :
       LET rid == s.rid IN
       pending' = [r \in DOMAIN pending \cup {rid} |->
                     IF r = rid THEN [status |-> s.status, req |-> s.req] ELSE pending[r]]
  /\ UNCHANGED <<counter, count, alloc, kept, stack, handles, answer, sent, statuses, agent>>

Answer(m, status) == [rid |-> m.rid, req |-> m.req, status |-> status]

\* The Agent holds an object when it answers ok, and refuses one whose parent
\* it does not know; a CREATE that is delivered twice replaces itself.
AgentCreates ==
  /\ \E m \in {r \in sent : r.does = "create"} :
       /\ m.parent = None \/ m.parent \in DOMAIN agent
       /\ agent' = IF m.obj \in DOMAIN agent /\ CreateFlag = "reuse" THEN agent
                   ELSE [o \in DOMAIN agent \cup {m.obj} |->
                           IF o = m.obj THEN [name |-> m.name, parent |-> m.parent, req |-> m.req]
                           ELSE agent[o]]
       /\ statuses' = statuses \cup {Answer(m, "ok")}
  /\ UNCHANGED <<board, sent>>

AgentRefuses ==
  /\ \E m \in sent : /\ \A s \in statuses : s.req # m.req
                     /\ statuses' = statuses \cup {Answer(m, "error")}
  /\ UNCHANGED <<board, sent, agent>>

Next == \/ Call \/ Proceed \/ Finish \/ Rejected \/ TimesOut \/ Exhausted \/ OtherRequest
        \/ StatusArrives \/ AgentCreates \/ AgentRefuses
Spec == Init /\ [][Next]_vars
-----------------------------------------------------------------------------
\* The id of request number req, counted from 1: the lowest id comes last.
IdOf(req) == Reserved + (req % (IdMod - Reserved))
Genuine(r) == r.req \in 1..count /\ r.rid = IdOf(r.req)

(***************************************************************************)
(* Properties.                                                             *)
(***************************************************************************)
\* A wait is ended by the STATUS of its own request, or of one a whole turn of
\* the counter away: no late, duplicated or foreign STATUS of the last 65526
\* requests is taken for another's (_next_request_id, _wait_status).
OnlyWrapConfuses ==
  \/ answer.by = answer.req
  \/ answer.req - answer.by >= IdMod - Reserved
  \/ answer.by - answer.req >= IdMod - Reserved

\* A handle the node was given in answer to its own request names an object
\* the Agent holds under the node's name and parent, even where an earlier run
\* left one with the same id (FLAG_REPLACE, ObjectIdAllocator).
HandlesBacked ==
  \A h \in handles : h.by = h.req =>
    /\ h.obj \in DOMAIN agent
    /\ agent[h.obj] = [name |-> h.name, parent |-> h.parent, req |-> h.req]
    /\ h.parent # None => h.parent \in DOMAIN agent

\* What later calls hang their entities on was confirmed by the Agent: a call
\* that fails half way leaves no container behind (_ensure_publisher_entity).
KeptConfirmed == \A k \in Kept : kept[k] # None => kept[k] \in {h.obj : h \in handles}

Objects == [kind : Kinds \cup {"none"}, id : Nat]
Frames == [name : Names, left : Seq(Kinds) \ {<< >>}, obj : Objects, parent : Objects,
           rid : Nat, req : Nat]
TypeOK ==
  /\ counter \in 0..(IdMod - 1) /\ count \in Nat
  /\ alloc \in [Kinds -> Nat]
  /\ kept \in [Kept -> Objects]
  /\ stack \in Seq(Frames)
  /\ answer \in [req : Nat, by : Nat]

\* Why: whatever carries a request id carries the id of the request it is of,
\* from the counter to the network, the kept STATUSes and back to the wait.
RequestsInv ==
  /\ TypeOK
  /\ counter = IdOf(count)
  /\ \A i \in DOMAIN stack : Genuine(stack[i])
  /\ \A m \in sent : Genuine(m)
  /\ \A s \in statuses : Genuine(s)
  /\ \A r \in DOMAIN pending : pending[r].req \in 1..count /\ r = IdOf(pending[r].req)
=============================================================================
