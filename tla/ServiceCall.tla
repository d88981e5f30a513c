---------------------------- MODULE ServiceCall ----------------------------
(***************************************************************************)
(* Service calls in both directions (snakeros/services.py): a              *)
(* ServiceClient on one board, a Service on another, and the Agents        *)
(* between them.  The n-th request of the client has the id n.             *)
(*                                                                         *)
(* ServiceClient.call polls until a reply is there, and that poll runs     *)
(* callbacks, which may call again; a handler of the Service may poll as   *)
(* well.  Both sides therefore keep a stack.  Replies reach the client on  *)
(* a best-effort stream: late, in any order, twice, or not at all.         *)
(***************************************************************************)
EXTENDS Naturals, SequencesExt

CONSTANTS
  MaxRequests,   \* bound: requests of the client
  MaxCalls,      \* bound: calls in progress, one inside the other
  MaxServing,    \* bound: requests being handled, one inside the other
  MaxArrivals    \* bound: replies that reach the client

ASSUME ServiceCallAssumption ==
  /\ MaxRequests \in Nat
  /\ MaxCalls \in Nat \ {0}
  /\ MaxServing \in Nat \ {0}
  /\ MaxArrivals \in Nat

VARIABLES
  sent,       \* requests written so far
  calls,      \* the calls in progress, innermost last
  replies,    \* ServiceClient._replies
  asked,      \* requests under way to the server
  serving,    \* the handlers at work, with their locals, innermost last
  answers,    \* replies under way to the client
  arrived,    \* history: how many replies have arrived
  before,     \* history: how many had, when a call began
  returned    \* history: which call returned which reply

client == <<sent, calls, replies>>
vars == <<client, asked, serving, answers, arrived, before, returned>>

Requests == 1 .. MaxRequests

\* A handler at work: the identity cut off the payload, and the request read
\* from the rest, which the response will be about.
Frames == [identity : Requests, request : Requests]

\* A reply is routed by the identity of one request and says something about
\* the body of one: both had better be the same.
Answers == [to : Requests, about : Requests]

\* The nth reply to arrive.
Replies == [about : Requests, nth : 1 .. MaxArrivals]

TypeOK ==
  /\ sent \in 0 .. MaxRequests
  /\ calls \in Seq(Requests) /\ Len(calls) <= MaxCalls
  /\ replies \in Seq(Replies)
  /\ asked \subseteq Requests
  /\ serving \in Seq(Frames) /\ Len(serving) <= MaxServing
  /\ answers \subseteq Answers
  /\ arrived \in 0 .. MaxArrivals
  /\ before \in [Requests -> 0 .. MaxArrivals]
  /\ returned \subseteq [call : Requests, reply : Replies]

Init ==
  /\ sent = 0 /\ calls = <<>> /\ replies = <<>>
  /\ asked = {} /\ serving = <<>> /\ answers = {}
  /\ arrived = 0 /\ returned = {}
  /\ before = [r \in Requests |-> 0]

-----------------------------------------------------------------------------
(* The client.                                                             *)

\* write_data on the requester, reliable: the request reaches the server.
Write ==
  /\ sent < MaxRequests
  /\ sent' = sent + 1
  /\ asked' = asked \cup {sent + 1}

\* Mutant of Call: what is left of earlier calls stays.
Call_Unclean ==
  /\ Len(calls) < MaxCalls
  /\ Write
  /\ calls' = Append(calls, sent + 1)
  /\ before' = [before EXCEPT ![sent + 1] = arrived]
  /\ UNCHANGED <<replies, serving, answers, arrived, returned>>

\* call, by the application or in a callback of another call's poll.
Call ==
  /\ Len(calls) < MaxCalls
  /\ replies' = <<>>
  /\ Write
  /\ calls' = Append(calls, sent + 1)
  /\ before' = [before EXCEPT ![sent + 1] = arrived]
  /\ UNCHANGED <<serving, answers, arrived, returned>>

CallNowait ==
  /\ Write
  /\ UNCHANGED <<calls, replies, serving, answers, arrived, before, returned>>

\* Mutant of Return: the reply is looked at and stays in the list.
Return_NotPopped ==
  /\ calls # <<>> /\ replies # <<>>
  /\ returned' = returned \cup {[call |-> Last(calls), reply |-> Head(replies)]}
  /\ calls' = Front(calls)
  /\ UNCHANGED <<sent, replies, asked, serving, answers, arrived, before>>

\* The innermost call finds a reply after its poll, and takes the first.
Return ==
  /\ calls # <<>> /\ replies # <<>>
  /\ returned' = returned \cup {[call |-> Last(calls), reply |-> Head(replies)]}
  /\ replies' = Tail(replies)
  /\ calls' = Front(calls)
  /\ UNCHANGED <<sent, asked, serving, answers, arrived, before>>

\* ServiceTimeout, which the callback that made an inner call may catch; if
\* it does not, the exception leaves the poll of the outer calls, and them.
Timeout == \E left \in 0 .. Len(calls) - 1 :
  /\ calls # <<>> /\ replies = <<>>
  /\ calls' = SubSeq(calls, 1, left)
  /\ UNCHANGED <<sent, replies, asked, serving, answers, arrived, before, returned>>

\* take_reply, for the replies of call_nowait.
TakeReply ==
  /\ replies # <<>>
  /\ replies' = Tail(replies)
  /\ UNCHANGED <<sent, calls, asked, serving, answers, arrived, before, returned>>

\* A poll, the program's or that of a call, hands a reply to _on_reply.  The
\* network may hold another copy of it.
OnReply == \E a \in answers : \E kept \in {{}, {a}} :
  /\ arrived < MaxArrivals
  /\ arrived' = arrived + 1
  /\ replies' = Append(replies, [about |-> a.about, nth |-> arrived + 1])
  /\ answers' = (answers \ {a}) \cup kept
  /\ UNCHANGED <<sent, calls, asked, serving, before, returned>>

LoseReply == \E a \in answers :
  /\ answers' = answers \ {a}
  /\ UNCHANGED <<client, asked, serving, arrived, before, returned>>

-----------------------------------------------------------------------------
(* The server.                                                             *)

\* Mutant of OnRequest: one identity for all handlers, that of the last request.
OnRequest_Shared == \E r \in asked :
  /\ Len(serving) < MaxServing
  /\ serving' = Append([i \in 1 .. Len(serving) |-> [serving[i] EXCEPT !.identity = r]],
                       [identity |-> r, request |-> r])
  /\ asked' = asked \ {r}
  /\ UNCHANGED <<client, answers, arrived, before, returned>>

\* A poll, that of an unfinished handler or of its blocked write included, runs
\* _on_request: a handler of its own, whose locals hold both parts of the payload.
OnRequest == \E r \in asked :
  /\ Len(serving) < MaxServing
  /\ serving' = Append(serving, [identity |-> r, request |-> r])
  /\ asked' = asked \ {r}
  /\ UNCHANGED <<client, answers, arrived, before, returned>>

\* The innermost handler is done, and its response goes out under the identity
\* its _on_request kept (write_reply).
Reply ==
  /\ serving # <<>>
  /\ answers' = answers \cup {[to |-> Last(serving).identity, about |-> Last(serving).request]}
  /\ serving' = Front(serving)
  /\ UNCHANGED <<client, asked, arrived, before, returned>>

\* The request cannot be read, or the handler raises: counted, not answered.
HandlerRaises ==
  /\ serving # <<>>
  /\ serving' = Front(serving)
  /\ UNCHANGED <<client, asked, answers, arrived, before, returned>>

Next ==
  \/ Call \/ CallNowait \/ Return \/ Timeout \/ TakeReply
  \/ OnReply \/ LoseReply
  \/ OnRequest \/ Reply \/ HandlerRaises

Spec == Init /\ [][Next]_vars

-----------------------------------------------------------------------------
(* Properties.                                                             *)

\* "The identity must be echoed back verbatim so the Agent can route the
\* reply": although a handler that polls is interrupted by the handlers of later
\* requests, which answer first, each response goes out under the identity of the
\* request it answers.
RoutedRight == \A a \in answers : a.to = a.about

\* No reply that arrived is returned by two calls, nested ones included.
ReturnedOnce == \A p, q \in returned : p.reply.nth = q.reply.nth => p = q

\* A call never returns a reply that had arrived before it began, be it what
\* earlier calls or call_nowait left in the list.
FreshReplies == \A p \in returned : p.reply.nth > before[p.call]

\* "So concurrent calls can be correlated": a call returns its own reply.
ReplyMatches == \A p \in returned : p.call = p.reply.about

\* Why RoutedRight: no handler disturbs what an interrupted one has kept.
OwnIdentity == \A i \in 1 .. Len(serving) : serving[i].identity = serving[i].request

RoutedInv == TypeOK /\ OwnIdentity /\ RoutedRight

-----------------------------------------------------------------------------
(* What keeps replies matched.                                             *)

\* The program sends a request only outside of calls, and begins a call only
\* when nothing of an earlier request is left on its way.
Alone ==
  sent' # sent =>
    /\ calls = <<>>
    /\ calls' # calls => asked = {} /\ serving = <<>> /\ answers = {}

AloneSpec == Spec /\ [][Alone]_vars

\* Whatever is under way during a call is of that call, and there is but one.
OwnTraffic ==
  /\ Len(calls) <= 1
  /\ \A c \in 1 .. Len(calls) :
       /\ asked \subseteq {calls[c]}
       /\ \A i \in 1 .. Len(serving) : serving[i].request = calls[c]
       /\ \A a \in answers : a.about = calls[c]
       /\ \A i \in 1 .. Len(replies) : replies[i].about = calls[c]

-----------------------------------------------------------------------------
(* The inductive invariant behind FreshReplies and ReturnedOnce.           *)

\* The list is in the order of arrival, and nothing in it was returned.
InOrder ==
  /\ \A i \in 1 .. Len(replies) : replies[i].nth <= arrived
  /\ \A i, j \in 1 .. Len(replies) : i < j => replies[i].nth < replies[j].nth
  /\ \A p \in returned : /\ p.reply.nth <= arrived
                         /\ \A i \in 1 .. Len(replies) : p.reply.nth < replies[i].nth

\* Every call in progress, inner or outer, began with a clean list.
BeganClean ==
  \A c \in 1 .. Len(calls), i \in 1 .. Len(replies) :
    replies[i].nth > before[calls[c]]

NoLater == \A r \in Requests : before[r] <= arrived

OnlySent ==
  /\ \A c \in 1 .. Len(calls) : calls[c] <= sent
  /\ \A p \in returned : p.call <= sent

CallInv ==
  /\ TypeOK
  /\ InOrder
  /\ BeganClean
  /\ NoLater
  /\ OnlySent
  /\ FreshReplies
  /\ ReturnedOnce
=============================================================================
