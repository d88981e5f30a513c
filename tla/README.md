# SnakeROS in TLA+

SnakeROS lets a MicroPython board join a ROS 2 graph through a micro-ROS Agent:
it speaks DDS-XRCE over UDP or a serial line, in one thread and a few kilobytes.
This directory specifies the parts of it that are hard to test: what its
reliable streams promise over a bad network, whose answer a request takes, what
a node's timers and subscriptions do when turns of the loop are late and
messages are lost, what the parameter server leaves behind a refused request,
what a noisy serial line costs, how messages look on the wire, and what the
example robots' motors do in all of this. The modules are checked with TLC and,
where "Proofs" says so, proved with TLAPS.

## 1. Inventory

| component (source) | state it keeps | operations | what makes it correct |
|---|---|---|---|
| reliable output stream (`xrce/reliable.py`, `xrce/session.py`) | window `_buf`, `_tries`, `next_seq`, `_out_seq` | `add`, `take_seq`, `on_acknack`, `heartbeat_range`, `_send_reliable`, `_send_fragmented` | nothing unhandled is forgotten, bounded window, in-order delivery, it drains |
| reliable input stream (`xrce/reliable.py`) | `first_unacked`, `_received` | `on_data`, `compute_acknack` | `on_data` has no caller: the code always acknowledges (0, 0xFFFF) |
| session (`xrce/session.py`) | `connected`, `_request_counter`, `_pending_status`, `_data_callbacks` | `connect`, `close`, `ping`, `_create`, `delete`, `poll`, `_dispatch` | an answer is taken for the request it belongs to; no socket is left open |
| object ids (`xrce/entities.py`) | `_next` per kind | `alloc` | a handle stands for what was asked, also where an earlier run left an object of that id |
| UDP (`transport/udp.py`) | the socket | `open`, `close`, `send`, `recv` | one socket per live session |
| serial (`transport/serial.py`, `framing.py`) | parser buffer and offset | `encode_frame`, `feed` | a damaged frame costs that frame only |
| node (`node.py`) | entity lists, timers, subscriptions, kept containers | `spin_once`, `create_*`, `connect`, `destroy` | everything is serviced in every round; later entities hang on confirmed ones |
| subscription (`node.py`) | `_count`, `_last_request` | `_on_data`, `maintain` | the Agent's READ_DATA budget never runs out for good |
| timer (`node.py`) | `_next` | `check`, `cancel` | no drift and no burst after a long delay |
| services (`services.py`) | `_replies`, `handled`, `errors` | `call`, `_on_request`, `_on_reply`, `maintain` | a reply answers the call it is returned from |
| parameters (`parameters.py`) | declared values | `set`, `_set_atomically`, `validate` | all or none; a rejected value is not kept |
| reconnect loop (`board.py`) | `node`, `missed_pings`, `_backoff` | `connect`, `spin_once`, `spin` | recovers, notices a dead Agent, stops the motors, leaks nothing |
| differential-drive robot (`examples/diff_drive/robot.py`) | targets, `_last_cmd`, motors | `on_cmd_vel`, `control_step`, `stop`, `main` | never drives on a stale command |
| QwiicBot (`examples/qwiicbot/robot.py`) | efforts, mode, wander state | `control_step`, `_apply`, `_wander`, `_on_autonomous` | stops in silence and before walls, whatever is done to its parameters |
| CDR, messages (`cdr/`, `msg/`) | none | read and write | round trips, alignment |
| generator (`tools/snakeros_gen.py`) | none at run time | split and parse `.msg`, `.srv` | not modelled; its output, the shipped classes, is |
| other tools, board helpers | none a run could reach | package, bring up, Wi-Fi | not modelled |

How they interact: everything runs in one thread, from `Node.spin_once`, which
polls the session, then runs timers, then renews subscriptions. A poll reads
datagrams and runs callbacks. The trouble comes from **polls inside other
operations**: a blocked reliable send, a wait for STATUS, a service call, a
ping and a handshake all poll, so a callback may run, and may send, in the
middle of any of them. The rest comes from the outside: datagrams are lost,
duplicated, reordered and late, and the Agent crashes and comes back without
its sessions.

The list of hazards, each with the line where it bites and the properties that
would catch it, is in `PROJECT.json`.

## 2. Plan

Done, in the order of importance the work followed:

1. `SeqNum`, `ReliableStream`, `StreamDelivery` with their proofs.
2. `Resilience` with its proofs.
3. `ServiceCall` with its proofs.
4. `Requests` with its proofs.
5. `NodeSpin` and, composed with it, `DiffDrive`, with the proofs of both;
   `FailSafe`, where `DiffDrive` and `Resilience` meet.
6. `Parameters`, `ParameterStore` and, composed with them, `QwiicBot`, with the proofs.
7. `Framing` with its proofs, `Checksum`; `Codec` with its proofs, `Messages`.

What is left, most useful first:

1. `Requests` with an Agent that restarts, under `Resilience`.
2. Two readers of one Agent: what the READ_DATA of several subscriptions do to
   one reliable stream.

How the modules depend on each other (`<-` is EXTENDS, `~` is INSTANCE):

    SeqNum <- ReliableStream <- MCReliableStream      StreamDelivery ~ ReliableStream
    NodeSpin <- DiffDrive                             Codec, Messages <- MCCodec
    Parameters <- QwiicBot <- MCQwiicBot              Framing, Checksum <- MCFraming
    ParameterStore ~ Parameters                       FailSafe ~ DiffDrive, Resilience
    Resilience <- MCResilience    ServiceCall <- MCServiceCall    Requests

A module `XProofs` extends the module it is about. `Checksum`, which needs
Bitwise, has no proofs; that is why `Framing` takes the checksum as a constant.
`Codec` takes the message types as a constant, and `MCCodec` gives it those of
`Messages`.

## 3. The modules

### `SeqNum`

Sequence-number arithmetic. The code works modulo 2^16 (`SEQNUM_MAX`); the
module works modulo `2 * Half`, so that TLC can walk the whole circle and the
proofs hold for every width. `& SEQNUM_MAX` on a negative difference is `%`.

### `ReliableStream`

One output stream, from the application's `publish` to the Agent's handler.

| TLA+ | code |
|---|---|
| `outSeq`, `nextSeq` | `Session._out_seq[stream]`, `OutputReliableStream.next_seq`: two counters |
| `buf`, `tries` | `_buf`, `_tries`; `buf[k]` is the datagram kept under key `k` |
| `depth`, `frame` | the call stack of sends: `_send_fragmented` / `write_data` / `write_reply`, one inside the other |
| `BeginPlain`, `BeginFragmented` | a message is published or a service answered; `BeginFragmented` chooses its number of FRAGMENTs |
| `SendBuffered` | `_begin_message` and `_send_reliable` when `add` succeeds |
| `SendBlocked`, `PollExpires` | `_send_reliable` when it does not: forced HEARTBEAT, `poll(20)`, second `add`, send |
| `Heartbeat` | the HEARTBEAT at the start of a poll |
| `RecvAcknack` | `_dispatch` and `on_acknack`, with the resends |
| `AgentData`, `AgentHandle`, `AgentHeartbeat`, `Lose*` | the Agent and the network, external |

Between `SendBlocked` and `PollExpires` the send waits in a poll: ACKNACKs are
applied and callbacks may begin sends of their own, up to `MaxDepth`. A key may
be -1, because the code computes `_out_seq - 1` without reducing it. Payloads
are not modelled: datagrams are counted by the ghost `taken`, datagram `i` has
`Number(i)` in its header, and the client and the Agent compare only that
number. `Place` goes the other way, from a number to the datagram it would
belong to if it is less than a turn old; `InReach` says that whatever is under
way, kept or waited for is less than half a turn old, which is what a modular
comparison needs, and `ReachSpec` are the behaviours that stay in reach, which the run `stream_fragments`
asks for by a CONSTRAINT. The network is a set
of messages that can be received again and again until it loses them, which
gives loss, duplication and reordering at once; HEARTBEATs and ACKNACKs under
way are bounded by `InFlight`, and one more is lost. The rate limit of 200 ms
between HEARTBEATs is left to the scheduler. The Agent is the receiver the
protocol prescribes; a HEARTBEAT's first number moves it forward.
The 16 bits of an ACKNACK are the constant `BitmapWidth`.

`StreamDelivery` is what the stream promises: numbered messages are handled
once each, in order, and one is passed over only after the sender gave it up.

### `Resilience`

The program of a robot: `ResilientNode` around the life cycle of a `Node`, its
`Session` and socket, with the fail-safes of `DiffDriveRobot`. `pc` is where the
one thread stands.

| TLA+ | code |
|---|---|
| `Open`, `OpenFails` | `factory()` up to `UDPTransport.open` |
| `Handshake`, `HandshakeFails` | `Session.connect`: one CREATE_CLIENT attempt each |
| `CreateParticipant(Fails)` | `Node.connect` after the handshake |
| `Setup(Fails)` | the user's `setup(node)` |
| `TearDown`, `Sleep` | the `except` clause of `ResilientNode.connect` |
| `SpinQuietly`, `SpinAndProbe` | `node.spin_once`, then `_check_liveness`, without and with a ping |
| `PingAnswered`, `PingMissed`, `Raises`, `Lost` | the outcomes of `spin_once` and its `except` clause |
| `Interrupt` | Ctrl-C: `spin` swallows it and `main` returns |
| `Command`, `Expire`, `ControlStep` | `on_cmd_vel`, `CMD_TIMEOUT_S`, `control_step` |
| `Agent*`, `Lose*`, `Goodbye` | the Agent, the network, and the DELETE of an earlier session |

Time is abstract: a command is fresh or not, a ping is answered in time or not.
Every loss, delay or failing call that is not explained by the Agent being away
counts as a fault; `blame` counts the faults since the last answered ping, or since `setup`.
`leaked` counts open sockets the program no longer refers to. `Finalised` says
whether the port's garbage collector closes such sockets (CPython does, and
MicroPython ports whose socket objects have a finalizer).
`NothingLeaked` says what the teardown of a failed attempt achieves where it does,
`RobotSpec` that the loop does nothing to the robot but stop it.
Two assumptions go beyond the repository: the Agent does not answer GET_INFO of
a client it has no session for, and `stop()` of the motors does not fail.

### `ServiceCall`

A `ServiceClient` on one board, a `Service` on another, and the Agents between.

| TLA+ | code |
|---|---|
| `Call`, `Return`, `Timeout` | `ServiceClient.call` up to its request, and its two ends |
| `CallNowait`, `TakeReply` | the non-blocking pair |
| `OnReply` | `_on_reply`, from a poll of anything |
| `OnRequest`, `Reply`, `HandlerRaises` | `Service._on_request`, split where the handler may poll |
| `calls`, `serving` | the call stacks of the two programs |
| `identity`, `request` of `serving` | the locals of one `_on_request`: what it will echo, and what its handler was given |

A blocking call polls, so a callback may call again: the inner call clears the
list the outer one waits on. An inner `ServiceTimeout` that its callback does not
catch leaves the outer calls too, as far as some `except` clause, so `Timeout`
ends any number of calls from the innermost out. `_decode` drops the request id,
so `Return` looks only at the order of arrival. Requests are assumed to stay
below one turn of the 16-bit request id. A request lost on the way has the same
effect as a handler that raises.

### `Requests`

How a node makes its entities: a call such as `create_publisher` is a plan of
CREATEs, each followed by a wait for the STATUS with its request id.

| TLA+ | code |
|---|---|
| `counter`, `NextId` | `Session._request_counter`, `_next_request_id`: 10 to 0xFFFF, round and round |
| `alloc`, `Taken` | `ObjectIdAllocator._next`, `alloc` |
| `kept` | `Node._participant`, `_publisher_entity`, `_subscriber_entity` |
| `stack`, `Call`, `SendCreate` | the calls under way, one inside another; `create_*` up to the first wait of `_wait_status` |
| `Proceed`, `Finish` | `_create` returns; the plan goes on, or ends (with a READ_DATA where there is a reader) |
| `Rejected`, `TimesOut`, `Exhausted`, `Unwind` | EntityError and ValueError, down to whatever `except` clause stops them |
| `pending`, `StatusArrives` | `_pending_status`, `_dispatch` |
| `OtherRequest` | anything else that takes an id: samples, probes, reads |
| `AgentCreates`, `AgentRefuses`, `Leftovers` | the Agent, external; it may hold an earlier run's objects, whose ids come again |

`req` numbers the requests without wrapping; it is a ghost, so that properties
can tell two requests of one id apart. The network is a set from which anything
may be delivered at any time and often: late, duplicated, reordered, or never.
The Agent does not restart inside this model; `Resilience` has that.

### `NodeSpin` and `DiffDrive`

`NodeSpin` is one turn of `Node.spin_once` after another, with one timer and one
subscription. `DiffDrive` puts `on_cmd_vel` behind the subscription and
`control_step` on the timer, and ages commands by `time.time()`.

| TLA+ | code |
|---|---|
| `PollEnds`, `Timers`, `Upkeep` | the three parts of `spin_once`: poll, `Timer.check`, `Subscription.maintain` |
| `now`, `ticks_diff`, `Later` | the clock: `ticks_ms` wraps at `TickMod`, and `ticks_diff` takes differences modulo it |
| `next`, `Sums`, `Due`, `Rescheduled` | `Timer._next`, a plain sum, and the catch-up rule |
| `count`, `last`, `RenewalDue` | `Subscription._count`, `_last_request`: renewed at three quarters of the budget, or by time |
| `AgentReads`, `AgentSends`, `Lose*` | the Agent and the network, external |
| `OnCmdVel`, `ControlStep`, `Stale` | `on_cmd_vel`, `control_step`, the test against `CMD_TIMEOUT_S` |
| `clock`, `ShownAge` | how far a coarse `time.time()` is behind, and the age it shows |

The clock may move up to `MaxGap` between two looks at it: that is a slow
callback, a long poll or a collection of garbage. `FailSafe` is the robot both
`DiffDrive` and `Resilience` stand for, a command that is `fresh` or not and motors
that are `driving` or not; here a command is fresh when it asks for motion and
`time.time()` does not show it as stale (`RobotSpec`).

`_next` is not reduced: `node.py` adds with `+`, not `ticks_add`. MicroPython's
`ticks_diff` takes its arguments for small integers without looking, and on a
32-bit board the ticks are exactly those, so of a sum past the last tick, which is
another kind of object, it reads where that object lies. `next` therefore has two
parts: what `ticks_diff` reads of it, and whether it is `big`, that is, past the
ticks. Of a big one any tick may be read, the same one as long as `_next`
is that object; every addition makes a new one (`Sums`). On CPython and on 64-bit
builds the counter does not wrap within the life of a program: no `next` is ever big.
`_last_request` is always a value of `ticks_ms`, so the age of a READ_DATA is sound.

### `Parameters` and `QwiicBot`

`Parameters` is the parameter server, one setting at a time, because a callback
runs between storing a value and keeping it. `QwiicBot` is the robot whose
parameter `autonomous` has such a callback, acting on the motors.
`ParameterStore` is what the server promises: an ordinary request is a row of
assignments that succeed or fail each for itself, an atomic one sets all it asked
for, or nothing, in the one step that answers it. In the refinement `StoreSpec` the
store is the snapshot while an atomic request is being applied, and the parameters
otherwise; so nobody who looks between requests can tell the settings apart.

| TLA+ | code |
|---|---|
| `ParamInit`, `Declared` | `declare` and its descriptors |
| `Promoted`, `Validates` | `_Param.validate`, with the promotion of an INTEGER |
| `Succeeds`, `Stored` | `ParameterServer.set`: validate, store, callback, take back |
| `SetEach`, `SetAtomically`, `Restored` | `_set`, `_set_atomically` and its roll-back |
| `OnCmdVel`, `OnAutonomous`, `OnAutonomousSrv` | the callbacks of `QwiicBot` |
| `Teleop`, `Apply`, `Vetoed`, `Scale` | `control_step` and `_apply` |
| `Wander` | `_wander`: drive, back, turn |
| `Set` | `Drive.set`, with its clamp |
| `Rebuild` | `stop()` on a lost link, and a new node with a new robot on it |

Efforts are integers of a hundredth, as `Drive.set` gives them to the motors; `Part`
rounds towards zero as `int` does. A callback is shown a value before it is
certain to stay: a rolled-back `autonomous` has already stopped the robot, and
`StoppedUnlessCommanded` is about what that leads to.

### `Framing` and `Checksum`

| TLA+ | code |
|---|---|
| `Stuff`, `encode_frame` | `_stuff` over a whole body (which octet of the data place `p` is of: `StuffedAt`), `encode_frame` |
| `RecvPending`, `RecvRead` | `SerialTransport.recv`: first what an earlier read left over, else a read that is fed to the parser |
| `NoFlagSeen`, `FlagSeen` | `_try_one`, its search for a flag |
| `Unstuff`, `ValsNow` | the body of its loop for one octet: `b`, `esc`, `vals` |
| `Truncated`, `Implausible`, `Complete`, `NeedsMore` | the four ways out of that loop, in the order of its tests |
| `Wait`, `GoOn` | `feed` returning (`None`), with what `recv` then does, or calling `_try_one` again |
| `Damage`, `Send` | the line, external: a frame cut off, or one octet of it lost, changed or added |
| `CrcTable`, `Crc16Arc` | `_table`, `crc16`; what `crc16` is given in the run |

Octets are real octets and, in the run, the CRC is the real CRC: whether a
damaged frame can pass for a good one is a question about both. The parser moves
one octet a step and its locals are variables, which is what lets its loops be
proved about without recursion; the line goes on while it parses, and sees
nothing of it. Positions are counted from the first octet the board was sent, so
`_compact` (which moves the buffer and `start` together) changes nothing.
`Missed` is how much of a first frame has passed when the board opens its
port. `at` and `origin` are history: where each frame begins, and at which flag
each payload was found.

### `Messages` and `Codec`

`Messages` is the field list of every class of `snakeros/msg`. `Codec` writes a
message of any such list, may lose the end of the datagram on the way, and reads
what arrives, in a subscription or as the reply to a service call. The recursion
of the code is `todo`, the list of the fields still to come: writer and reader
take a field off its front and put there what is inside it, so that a step is
one leaf (a number, a string, the length of a sequence) or the way into an array
or a message.

| TLA+ | code |
|---|---|
| `Fast`, `MaxAlign`, `from` of a field | `Msg._fast`, where the struct format pads from; `_max_align` |
| `Place` | `align` of `CDRWriter` and `CDRReader` |
| `WriteLeaf`, `Octets` | `_write_value`, `CDRWriter.string`, `seq_len` and the numbers |
| `WriteInside`, `Inside` | `_write_value` of items, `Msg.serialize_into` |
| `Publish`, `Respond` | a payload for `Subscription._on_data`, or for `ServiceClient._decode` |
| `Try`, `ReplyOffsets`, `Refuse` | the offsets that `_decode` tries; a subscription has one, 0 |
| `ReadLeaf`, `ReadFails`, `Fits` | `_read_value`, `CDRReader` with its bounds checks |
| `ReadInside`, `Return` | `Msg.deserialize_from`, `deserialize` |
| `leaves`, `cut` | history: what was written where, whether octets were lost |

A number of `s` octets is itself and `s - 1` zeros, which keeps sizes and positions
exact and the encoding of numbers out of it. A message of primitives only, which
the code packs and unpacks at once, is written and read field by field; it
needs the same octets either way.

## 4. Runs

| run | instance | shows |
|---|---|---|
| `stream_fragments` | fragments only, 1 message of up to 5, window 2, 1 resend, a circle of 8 entered 2 before the wrap, CONSTRAINT `InReach` | `Retained`, `HeartbeatTruthful`, `WindowBounded`, the inductive invariant, refinement of `StreamDelivery` |
| `stream_live` | plain messages, window 1, fairness | `Settled`, `WindowDrains` |
| `stream_mixed` | both kinds, depth 1 | **violates** `Retained` |
| `resilience` | 2 missed pings, 2 attempts, back-off to 3, 2 sockets, 4 faults, 2 INFOs under way | safety and liveness of the reconnect loop |
| `service_calls` | 3 requests, 2 nested calls, 2 nested handlers, 4 arrivals | `RoutedRight`, `ReturnedOnce`, `FreshReplies`, `CallInv` |
| `service_stale` | the same | **violates** `ReplyMatches` |
| `requests` | 2 ids, 4 requests, 2 objects a kind, calls 2 deep, an Agent with or without leftovers | `OnlyWrapConfuses`, `HandlesBacked`, `KeptConfirmed`, the inductive invariant |
| `diff_drive` | a clock of 10 ticks, read after up to 1, timer 1, budget 2, renewal 2, timeout 2, `time.time()` in steps of 2 | `TimerAhead`, `RenewedInTime`, `MotorsFollowTimer`, `SilenceEnds`, `StaleStops` |
| `drive_wrap` | the same | **violates** `MotorsFollowCommands` |
| `qwiicbot` | 4 parameters, 8 kinds of setting, requests of up to 2, readings 14 and 60 cm | `ParamsValid`, `ForwardVeto`, `StoppedUnlessCommanded`, `EffortCeiling`, refinement of `ParameterStore` |
| `wire` | 3 payloads, 1 damaged frame, reads of 1, 4 or all octets, 1 or 6 octets missed | `OnlySent`, `DamageContained` |
| `messages` | every shipped type, strings and sequences of 0 to 2, arrays cut to 2 | `RoundTrip`, `TruncationCaught`, `ReplyDecoded`, `WireIsCDR` |

Bounds, and why they are enough:

* Streams. A window of one or two and one resend let the window fill, a resend be
  given up, and a datagram be passed over while a later one is held. Five
  datagrams on a circle of 8, begun two before its end, straddle the wrap and
  are more than half of it, so that what is late is cut off by `InReach` and not
  by the length of the run. Messages that follow one another are in
  `stream_live`. The runs have `MaxDepth` 1: what is said of nested sends,
  that they do not exceed the window, rests on the proof of
  `WindowNeverExceeded`, for every depth.
* `resilience`. Four faults are enough for two sessions to be lost for different
  reasons, or one to be lost and the next attempt to fail twice; two INFOs under
  way let a late answer be mistaken for a new one. `AgentRestart` is not counted.
* `service_calls`. Three requests let the late reply of one meet two nested
  calls, and a fourth arrival is a duplicate.
* `requests`. Two ids and four requests: the counter turns twice, so that every
  late STATUS meets a wait of its own id; `create_publisher` needs three
  requests after `connect`, which four just allow; two objects a kind let the
  ids run out.
* `diff_drive`. The clock wraps for ever, and a turn of the loop may be twice as
  long as the timer's period, so that timers fall behind by more than one. A
  time past the last tick may be read as any tick, due or up to half a turn
  away. `MaxAge` is past every bound that is stated, and ages stop there.
* `qwiicbot`. 14 cm is under the default stop distance of 15 and 60 is over it,
  but under the 120 it may be set to; two settings are what a roll-back needs;
  the settings are accepted, promoted, out of range, of the wrong type,
  read-only and unknown. Speeds go to both ends of the effort.
* `wire`. The payloads are of different lengths and hold flags and escapes; noise is a flag,
  an escape, or an octet that is neither, low or high. One damaged frame, and
  the one the board starts listening in, is two in a row. Zero is among the
  noise because CRC-16/ARC does not see zeros in front. The proofs have no such bound.
* `messages`. An empty, a short and a longer sequence reach every residue of the
  alignment of what follows; a cut falls at every octet, of replies too. The
  leaves of a message come from one row of values per shape, in which every fifth
  number is zero. The proofs have no such bound.

Deadlock is checked in `diff_drive` and `qwiicbot`, whose loops run for ever. The
other runs may stop: the traffic, requests, arrivals or payloads are bounded
(streams, `service_calls`, `requests`, `wire`), one message is followed to
its end (`messages`), or Ctrl-C ends the program (`resilience`).

What the violations mean:

* `stream_mixed`: a stream that carries fragments and other datagrams keys its
  window by two counters that disagree (`session.py:227` against `:553`, `:613`).
  All of a node's fragments and service replies share one stream.
* `service_stale`: `call` returns whatever reply comes first, so a call that timed
  out answers the next one.
* `drive_wrap`: a timer's next time is a plain sum (`node.py:136`, `:150`, `:153`),
  which `ticks_diff` misreads once it is past the last tick. At every wrap of
  `ticks_ms`, 12.4 days apart on a 32-bit board, the control timer may go without
  a turn for days, and with it the fail-safe. `MotorsFollowTimer` says that
  nothing else lets the motors outlive the command, and that the bound holds
  again once the timer came due; `StaleStops`, that it does come due.

## 5. Fairness

`ReliableStream`: a send in progress goes on and `spin_once` is called for
ever (weak fairness of the client's own steps); nothing is under way for ever;
and of a datagram, a HEARTBEAT or an ACKNACK that is sent again and again one
copy arrives (strong fairness), without which no protocol delivers anything.
`RecvAcknack` needs the program to be polling, which it is again and again.

`Resilience`: the program takes its next step; timers and the liveness probe
come due again and again (strong fairness of a due control step and of
`SpinAndProbe`), because both are driven by the clock; and the Agent answers a
GET_INFO that reached it. Nothing is assumed of commands, of crashes or of
Ctrl-C. `Recovers` and `DetectsDeath` assume that the Agent's state settles.

`DiffDrive`: the loop keeps turning (weak fairness of the three parts of
`spin_once`), and of the READ_DATA requests that are sent again and again one
arrives (strong fairness of `AgentReads`). `StaleStops` needs only the loop. Nothing is assumed of samples:
`SilenceEnds` says that the Agent may send again, not that anyone publishes.

The other modules are checked for safety only.

## 6. Proofs

All theorems hold for every value of the constants that the named assumptions
allow. Liveness is only model-checked: fairness and ENABLED are out of this
prover's reach.

* `ReliableStreamProofs`: first `WindowOrder` and `AddCounts`, the facts about
  modular comparison that the rest stands on: numbers that carry counts less than
  half a circle apart are in the order of the counts. Then `TypeCorrect`, and
  `WindowNeverExceeded` with facts about finite sets to which one key is
  added at a time. In its second part,
  `NothingForgotten` and `HeartbeatsTruthful`, from the
  inductive invariant `RetentionInv` (`StreamInvHolds`), and
  `DeliveryImplemented`: the stream implements `StreamDelivery`. The assumption
  `SimpleTraffic` is what the code needs to be right: one kind of traffic
  (`stream_mixed` shows why); callbacks that do not send on the stream, because
  the HEARTBEAT of a send inside a blocked one moves the Agent past the datagram
  that is still held back; and, for plain datagrams, no wrap, because there the
  key is -1 where the number is 65535. Fragments may wrap for ever. The
  invariant says that the two counters agree, that every key is the number of
  its own datagram, that all that has left is handled, given up or kept, and
  that the Agent, the HEARTBEATs and the ACKNACKs are never ahead of that; each
  conjunct is there because an action preserves the next one only with it.
  Steps compare numbers and the invariant speaks of datagrams: `PlaceOrder` and
  `PlaceKept` translate, as long as what is compared is `InReach`. The theorems
  are therefore about `ReachSpec`, a condition on the network and no bound on
  the length of a session; `ShortSessions` discharges it for behaviours of fewer
  than half a circle of datagrams. In the refinement a stamp is `Accept`, the
  Agent's turn is `Handle`, and every other step gives up some or none.
* `ResilienceProofs`: type correctness, `StoppedWhileDown`, `SessionOwned` and
  `NoFalseAlarm` from `ResilienceInv` (`AlwaysSafe`): what each place of the
  program may count on (`Lifecycle`), and that every missed ping has been paid
  for by a fault or by the Agent's absence (`Blamed`). `NoSocketLeaks` is
  `NothingLeaked`, inductive beside it.
* `FailSafe` is what `Resilience` takes a robot to be, and what `DiffDrive` is:
  `LoopKeepsRobot` and `RobotImplemented` prove one refinement each, so what is
  abstract in the first, a command that is fresh or not and a control step that
  follows it, is what the second does with its clock, its timer and its flag.
  That a control step may skip the stop when `stopped_by_timeout` is set needs
  `DriveInv`: the flag is never set while the motors turn.
* `ServiceCallProofs`: `RepliesAreFresh` and `RepliesAreReturnedOnce` from
  `CallInv` (`CallInvHolds`): the list is in order of arrival (`InOrder`), every
  call in progress began before all of it (`BeganClean`), and nothing returned is
  still in it. On the server's side `ResponsesRoutedRight`, from `RoutedInv`: each
  handler at work, interrupted or not, still has the identity that came with the
  request it was given. `ReplyMatches` does
  not hold (`service_stale`), and `AloneRepliesMatch` says what a program can do
  about it: if it makes one call at a time, sends nothing else meanwhile, and begins
  when nothing of an earlier request is on its way (`Alone`, a condition on its
  requests alone), then every call returns its own reply, although replies are
  still lost and doubled, handlers raise and calls time out. `OwnTraffic` carries
  that: whatever is under way during a call is of that call.
* `RequestsProofs`: `IdsAreGenuine` says that whatever carries a request id, from
  the counter to the network, the kept STATUSes and the waits, carries the id of
  the request it is of, which is why `WaitsEndRightly` follows: equal ids are
  equal requests or a whole turn of the counter apart. `ContainersConfirmed` is
  inductive by itself. `HandlesAreBacked` needs `BackedInv`: no two CREATEs
  share an object id or a request, so what the Agent holds under an id is what
  its one CREATE asked for, and an ok on its way, kept or turned into a handle is
  about a CREATE whose result is held.
* `DiffDriveProofs`: `TimersKeptUp`, `ReadsRenewed`, `MotorsObey` and `CommandsLast`
  from `DriveInv` (`DriveInvHolds`). Every difference that the code takes of two
  ticks stays below half the circle, so it is the true one; and the age of a
  command and the time left to the timer together stay below the bound of
  `MotorsFollowTimer`, which is what a check of the timer turns into a stop.
  Nothing is claimed of a timer whose time is past the last tick, until it comes due:
  its control step stops the motors or has a good command, and if its next time
  is a tick again (`SumIs`, `FromNow`), that is all the invariant needs. That it
  comes due (`StaleStops`) is model-checked. `CommandsLast`, that a command is not
  cut short by more than a step of `time.time()`, says nothing of the shipped 0.5 s
  where that step is a whole second, and much where it is small.
* `QwiicBotProofs`: `ParametersValid` and `RepliesAreTrue` (every reply tells
  exactly what was set) from `ParamInv`
  (`ParametersSound`): the parameters follow the results setting by setting, and
  the snapshot was admissible, so a roll-back is. `StoreImplemented` maps every
  step to one of `ParameterStore` or to a stutter: what `ParamInv` says of the
  parameters and the results is what `Commit` gives them, and a refusal leaves
  the snapshot. On top of that
  `WallsRespected`, `SilenceStops` and `CeilingHeld`, from an invariant that ties
  efforts to the last control step, and lemmas on rounding towards zero.

* `FramingProofs`: what stuffing does is stated place by place (`StuffFacts`: no
  flag comes out of it; `StuffOctets`: where octet `i` went), from how the length
  grows by one octet of data (`StuffedStep`), so that no induction over the data is
  needed. `FramingInv` (`NextFraming` preserves it) has four parts. `ParserInv`:
  between `start` and what was looked at there is no flag but the one at `flag_at`.
  `AgentInv`: undamaged frames stand on the line as encoded, and every other
  flag is in a damaged one. `FrameInv`: while the parser reads an undamaged
  frame, `vals` is the beginning of its body and `j` where that ends
  (`Reading`), so its length is never implausible and its end comes where it
  should (`SizeKnown`, `OwnFrame`); one that is behind `start` was parsed, and
  `feed` returns only before the end of one. `OriginInv`: payloads were found at
  rising flags, and at an undamaged frame's flag the payload is its own.
  `DamageIsContained` follows: no damage, no number of damaged frames and no
  cut of the reads costs a frame that came whole. It needs nothing of the
  checksum. `OnlySent` does: that noise is not taken for a frame is a matter of
  chance with 16 bits, and TLC tries it on the real CRC. `OnlySentIfCaught` is
  what remains when that is set aside: if the checksum lets through of a damaged
  frame only its own payload, and once (`ChecksumCatches`, which TLC found to hold
  in the instance of `wire` with a flag and an escape as noise), then nothing is
  invented, doubled or out of order. `OnlySentOnAQuietLine` has no such
  hypothesis, `FeedEnds` is about the loop: it comes to an end, and never goes
  back.
* `CodecProofs`: for every set of message types, nested in whatever way, and every
  content. `ContentAssumption` says that no string or sequence is longer than
  `MAX_ALLOC` lets the reader believe; without it the code refuses what it wrote.
  `SchemaAssumption` is that field codes are known.
  What writer and reader do to `todo` is one function of the place and the value
  of a leaf (`Place`, `Inside`), so the proof needs no induction over types: the writer
  leaves a trace of (`todo`, position, leaves so far) (`WriterInv`), every step of
  which is a `Move` that depends on the octets there and on nothing before
  them, and the reader stands at some place of it (`Follows`, in `ReaderInv`),
  because a leaf it can read is the leaf that was written there (`LeafReads`) and
  any other is cut off (`ReaderReadsLeaf`, `ReaderFails`). A trace ends with an empty `todo`
  and nowhere else (`AtTheEnd`), so a reader that is done has read everything
  (`MessagesComeBack`, `RepliesAreDecoded`), which it cannot have if octets
  were missing (`CutsAreRefused`). A reply is followed from its first offset;
  the other two are for Agents that put something else in front, and of a
  reply that lost octets nothing is claimed: one of them may fit by chance.
  `WireFollowsCDR` is about the writer alone. `PlacesInv` says that every
  leaf is where CDR has it, and that the wire ends with a leaf or with the padding
  of the leaf that comes next (`Gap`). The latter is what the fast path does
  where it is right: it aligns for the largest field of its message, which must
  be the first. `MisalignedAssumption` is just that, of all types but those that
  `Misaligned` names.

Proved, and in no run: `ParserAdvances`, which `FeedEnds` states; the two `RobotSpec`, `RepliesTrue` (`StoreSpec`, which a run
checks, says more), `CommandsLast`, and `AloneRepliesMatch`, whose hypothesis is about the program's
use of the client and not about the client.

Only model-checked: everything under fairness, and that the CRC catches what the
line does (`OnlySent` as it stands).

## 7. Not modelled

* Helpers of the boards (Wi-Fi, heap reports) and the tools: calls into firmware,
  or programs that share no state with a running robot.
* Kinematics, odometry, faces, buzzer, buttons and published sensors of the
  example robots: floating point, or nothing moves by them.
* `InputReliableStream` keeps its initial state, since `on_data` has no caller;
  `Session.delete` has none either.
* Field names, constants and defaults of messages; the text of a CREATE.
* The renewal of a replier's READ_DATA: a subscription's, by time alone.

Limits of the code that were met on the way and are in no property, because none
would hold:

* A datagram that finds the window full twice is sent without being kept, and
  the caller is not told (`session.py`, `_send_reliable`).
* A callback inside a blocked fragment may put its own fragments into the middle
  of the outer message.
* Plain datagrams are kept under `_out_seq - 1`, which is -1 at the wrap. A
  HEARTBEAT that begins with such a key is reduced in the model; CPython's
  `struct.pack` raises. No run or theorem has plain traffic at the wrap.
* The `poll(20)` of a blocked send may raise, out of a callback or the transport:
  the datagram that has its number, and the fragments behind it, are then abandoned.
  The model has no such exit. It would be one more datagram given up, which
  every property of the stream allows.
* A timer's next time may be past the last tick (`drive_wrap`).
* `snakeros_gen.py:248` splits a `.srv` file by `partition("\n---")`, which does not
  see a separator on the first line: a service without request fields is generated
  with its response's fields in the request. `std_srvs/Trigger` is shipped that way.
* A constructor that raises after the handshake leaves its socket to the garbage
  collector; `Finalised` in `Resilience` says whether that closes it.
* Ctrl-C in the resilient branch of the differential-drive `main` leaves the
  motors as they are; `StaleStopsRunning` is about a loop that runs.
* `on_disconnect` that raises is swallowed, and `stop()` is taken not to fail.
* The READ_DATA of a service client is sent once and never renewed.
* `NavSatFix` holds a message that starts with a field smaller than its largest:
  the fast path pads it where CDR does not, hence `Misaligned` in `Codec`.
* NaN passes both comparisons of a parameter's range check.
* The callback of a parameter that an atomic request rolls back has already run.
