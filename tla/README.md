# A TLA+ model of zeromq.node

`zmq` is a native Node.js addon: `binding.cc` wraps the sockets of libzmq,
`lib/index.js` turns them into event emitters with a queue of outgoing messages.
Nearly everything runs in one thread, and yet the code is hard to test: libzmq
announces events by a file descriptor that reports changes rather than states,
the loops that read and write call each other and the application, the
application calls back into them, and asynchronous bind and unbind use the
socket from a worker thread.

The modules here model the queue, the loops, the life of a socket, its monitor, its
options and its context, and the proxy made of several sockets. TLC checks
them on small instances, and TLAPS proves the safety properties that matter most
for all instances. Paths below are relative to `src/`.

## The system

| component | state | operations | talks to |
|---|---|---|---|
| outgoing queue: `OutBatch`, `BatchList` (`lib/index.js:187-274`) | linked list `firstBatch`, `lastBatch`, `next`, `length`; per batch its parts and `isClosed` | `append`, `canSend`, `fetch`, `restore`, `invokeSent`, `invokeError` | used by `send` and `_flushWrite` only |
| `Socket` (`lib/index.js:285-720`) | `_paused`, `_isFlushingReads`, `_isFlushingWrites`, `_outgoing` | `send`, `pause`, `resume`, `read`, `_flushReads`, `_flushWrites`, `bind`, `unbind`, `connect`, `close`, ... | calls the native socket, which calls `onReadReady` and `onSendReady`; calls listeners and callbacks of the application, which may call any method |
| native socket, messages (`binding.cc:375-432, 1096-1350`) | `pending_`, `state_` | `readv`, `sendv`, poll callback | libzmq (`ZMQ_EVENTS`, `ZMQ_FD`, `zmq_msg_send`, `zmq_msg_recv`), libuv |
| native socket, lifecycle (`binding.cc:351-372, 556-960, 1408-1436`) | `socket_`, `state_`, `endpoints`, the count of `Ref`, `poll_handle_` | constructor, `bind(Sync)`, `unbind(Sync)`, `connect`, `disconnect`, `close`, `ref`, `unref`, destructor | libuv's thread pool and loop, V8's garbage collector |
| socket options (`lib/index.js:373-410, 572-595`, `binding.cc:621-722`) | tables of options by type | `getsockopt`, `setsockopt`, properties | libzmq |
| monitor (`binding.cc:434-554, 1028-1092`, `lib/index.js:529-561`) | `monitor_socket_`, `monitor_handle_`, interval and number of events | `monitor`, `unmonitor`, timer callback | a pair socket inside libzmq |
| context (`binding.cc:213-302`, `lib/index.js:159-181, 736-766`) | `context_`, the default context | constructor, `close`, options | every socket |
| proxy (`lib/index.js:772-837`) | listeners on two or three sockets | `proxy` | sockets, by `send` |

What makes it hard:

* **Edges, not levels.** `ZMQ_FD` becomes readable when something changes, and
  every query of `ZMQ_EVENTS` silences it. Whoever queries must act on all that
  the answer says. `sendv` for that reason calls `onReadReady` itself.
* **Re-entrance.** `send` in a `message` listener in `_flushReads` called by
  `sendv` in `_flushWrites` called by `send` ... The flags `_isFlushing*` cut the
  recursion off; the loop that is running must then do the work.
* **Exceptions.** Listeners and callbacks throw, through all of these frames.
* **Two threads.** The worker thread is in `zmq_bind` while the main thread goes on.
* **The garbage collector.** `Ref` and `Unref` follow a count of endpoints that is
  kept by several methods and two callbacks. It also destroys contexts, which means
  that it waits for sockets.
* **Versions.** `binding.cc` is built for libzmq 2, 3 or 4; the types of options and the
  way `sendv` asks whether it may send depend on it.

### What makes each component correct

* Queue: messages leave it whole, in the order of the calls of `send`, none lost
  and none twice.
* Loops: one of each kind at a time; flags that tell the truth; what has arrived is
  emitted, what is complete is sent; nothing happens to a busy or closed socket.
* Lifecycle: what may use the socket while the worker has it is known; what is in use is
  open; references balance; a bound or connected socket lives, and keeps the process
  running unless it was told otherwise; a busy socket becomes ready.
* Monitor: it keeps its timer as long as it is wanted, leaves nothing behind when it is
  stopped (and it is known when that fails), and reports events, and errors only that there were.
* Parts of a batch: what is sent as one message is one batch; a batch that goes back to the
  queue has left nothing in libzmq; the event loop does not wait in libzmq.
* Options: libzmq gets values of the size it expects; a value reads as it was set.
* Context: the garbage collector makes the main thread wait for no socket that the program still
  uses, and what is no longer used is freed.
* Proxy: each direction keeps its order, nothing is lost or changed, calls nest to a bounded
  depth.

## Modules

| module | models | checked by | proved in |
|---|---|---|---|
| `Outbox` | what the queue promises: a sequence of batches, the batch in hand | `Pump` | `OutboxProofs` |
| `BatchList` | the linked list that implements it | `MCBatchList` | `BatchListProofs` |
| `SocketPump` (extends `Outbox`) | the loops, `sendv`, `readv`, the poll callback, listeners, exceptions, libzmq's side of the socket | `Pump*` | `SocketPumpProofs` |
| `SendParts` | one `sendv` part by part, with a pipe that goes and comes | `SendParts`, `SendPartsTorn` | `SendPartsProofs` |
| `SocketLifecycle` | endpoints, references, the handle in the event loop, the worker thread | `Lifecycle` | `SocketLifecycleProofs` |
| `Monitor` | the monitor of a socket: pair socket, timer, callback, listeners | `Monitor` | `MonitorProofs` |
| `Context` | contexts, who keeps them, `zmq_term` and what it waits for | `Context` | `ContextOptionsProofs` |
| `Proxy` | the listeners of `zmq.proxy` and the nested loops of its sockets | `Proxy` | `ProxyProofs` |
| `Options` | the tables of socket options, by version of libzmq, and the conversions | `Lifecycle` | `ContextOptionsProofs` |
| `MCLifecycle` | `SocketLifecycle` and `Options` together: a socket built for one version | `Lifecycle` | |

Definitions whose comment starts with "Mistake:" are not part of a specification.
Each is an action as a plausible bug would have it, and each breaks a property
when it takes the action's place.

### Outbox and BatchList

A call of `send` appends one *chunk* (a frame, or an array of them, which always
goes into one batch), numbered by the call. `calls` remembers whether the call had
`ZMQ_SNDMORE`. An empty array appends no chunk and is no call here (`SendNothing` of `SocketPump` has
what it does otherwise). `hand` is the batch that `_flushWrite` has fetched. `settled` lists
the batches that left for good, `failed` those of them that libzmq refused.

`BatchList` has the pointers instead. The code restores a batch by making it
`firstBatch` again, and relies on its `next`, which has been updated by appends
while the batch was out of the list, for it may still have been `lastBatch`.
`Abstract == INSTANCE Outbox WITH outgoing <- Queue, hand <- Held` says what the
list stands for.

### SocketPump

| in the model | in the code |
|---|---|
| `stack` | the JavaScript and C++ frames of a callback: `"flushReads"` is a call of `_flushReads` about to start, `"reads"` its loop, `"writes"` the loop of `_flushWrites`, `"sendv"` ... `"sendvFalse"` the points inside `sendv` where something else runs, `"failing"` its catch clause, `"onMessage"`, `"onSent"` ... the application's functions, `"exception"` an exception on its way |
| `inbox`, `room`, `turn`, `fd`, `armed` | libzmq: what waits, what may still be sent, the type of the socket and whose turn it is for req and rep, `ZMQ_FD`, and whether the next arrival will signal it |
| `Arrive`, `Drain`, `WorkerRuns` | the peer, libzmq's I/O thread, the worker thread of an asynchronous bind |
| `Send`, `Pause`, ... | the application, from its main code or any listener or callback |
| `state`, `pending`, `work` | `state_`, `pending_`, the request at the worker |

Actions of the thread are cut where the application or libzmq's thread can act
between. `SendNothing` is `send([])`, which queues nothing and still sets `pending_` by the queue. With `MayFail`, libzmq
may fail at each of its calls: `ReadFails` in `readv` (with a message that is lost, or without), `SendvAskFails`, `ZmqSendFails` and
`SendvCheckFails` in `sendv` before, while and after it sends. `readLapses` and `writeLapses` are history: what went wrong (a call that threw, a
refused message, a failed bind, `sendv` returning false on stale events or after
`pending_` was reset) since the loop last ran to its end. `GetEvents` is the query that silences `fd`. libzmq is external: its
pipes, its signalling and the alternation of req and rep are modelled from how
`binding.cc` uses them. `zmq_msg_send` of all parts of a batch is one step; `SendParts` opens it.
`read()` is called only while the socket is paused, as `History.md:31`
introduces it ("to retrieve messages while paused"); the code has no such condition, and calls of `read()` beside the
reading loop are not modelled. A socket begins connected; a reconnect
or a vanished peer occurs in `SendParts` only.

### SendParts

`pc` is the place in `sendv`: `"asked"` after POLLOUT was seen, `"between"` after a part was
given to libzmq. Built for libzmq 2 or 3 (`asksAlways`) it asks again before each part, for
libzmq 4 only before the first. The batch at the front of the queue is `batch`, `part` counts the
parts of it that are sent. libzmq is external: between the parts of a message a socket is
writable, a peer that goes away takes the begun message with it, and the rest of it is
dropped. `Throw` is memory that runs out or a part that is refused: `_flushWrite` drops the batch, and
the parts that libzmq has stay there, to be continued by the next batch (`torn`).

### SocketLifecycle

Each call of libzmq takes two steps (`call`, or the phases of `request`), so the two
threads can overlap. `refs` counts `Ref()`; `attached` is `uv_ref`. `Collect` is the
destructor, run when the application holds no reference, `refs` is 0 and no
request keeps the object. `miscounted` is a history variable: the requests to bind that
failed and the connects to an address that was connected already, less the requests to unbind that failed, since the code
counts an endpoint in each of these cases. The application may unbind and disconnect what it never bound or connected, bind
what is bound, and connect again. Every method begins with `GetSocket`, except `unmonitor()`
(`UnmonitorStarts`), which looks at no `state_`; the timer of a monitor calls it too.

`MCLifecycle` adds to this socket the tables of `Options`, for one version of libzmq: whether `getsockopt` and `setsockopt`
are let through is decided in the one, what they then convert in the other.

### Monitor

Every call of `monitor` creates a timer and, unless libzmq has none to give, a pair socket, and the model gives both
the number of the call. `waiting` counts the events in each pair socket, `publisher`
is the one libzmq publishes to. `monitor` stands for `monitor_socket_`, `handle` for `monitor_handle_`. They are two variables because
`zmq_socket` may return NULL, at which nobody looks (`Start` with `paired` FALSE, `unpaired`): then there are a publisher and a timer,
and `unmonitor()`, which tests `monitor_socket_` only, does nothing. `StartFails` is `zmq_socket_monitor` failing, after which
`monitor()` returns as if it had succeeded.

`UV_MonitorCallback` is cut where listeners run: `pc` is `"loop"` before
`zmq_poll`, `"listener"` in `MonitorEvent`, `"errorListener"` in `MonitorError`. Like
the code, the loop polls `item`, which is set once, and reads from `monitor`, which
listeners change. `causes` is history: a fault of libzmq, or a listener's meddling, since the
callback began. A `zmq_poll` that fails counts as an event, as it does in the
`while` condition; it fails for a pair socket that was closed, and finds anything at all if there is none. A call of `monitor`
while another is there loses that one: its timer runs on with the callback reading from
the new pair socket, and its own pair socket is never closed. `lost` collects these. The
interval of the timer is left out (time is not modelled), and so are the collector (the application keeps the socket from
collection as long as a timer of it runs) and the worker thread (`SocketLifecycle` has `unmonitor()` beside it).

### Context

A native socket may have several sockets of libzmq (`Roles`): its own, and for each monitor the one libzmq publishes
events with and the one that reads them. `publishing` and `reading` name the monitor that the socket has now; a second
call of `monitor()` overwrites both, and the pair socket of the first stays open for good (`again` remembers such
sockets; what libzmq does with the old publisher depends on its version). `zmq_term` is two steps, `Term` and `TermReturns`;
between them the main thread can do nothing (`Running` is false), while libzmq's threads go on
(`Deliver`, and `Reap`, which takes all closed sockets of one native socket at once: one by one they would only pass through
other numbers of free slots, and constructors and monitors fail for want of one anyway).
A context is kept by the variable `ctx`, by the program (`held`), and by the
handles of native sockets (`keeps`), which the constructor sets before it knows whether `zmq_socket`
succeeds, and `close` resets. A native socket is kept by the program (`referenced`) and by `Ref()` while it is bound or
connected (`live`). The ways to lose that reference again without `close` are in `SocketLifecycle` and left out here. A limit of sockets is
libzmq's from the first socket of the context on, so `SetMaxSockets` counts before it only.

### Proxy

One stack holds the calls of all sockets, since a listener's `send` writes on another socket,
whose `sendv` reads, and so on. The listeners of router and dealer send three arguments
whatever the number of frames was. The loops are those of `SocketPump` without failures, exceptions and pause, and the poll
callback may come whenever there is something to do.

### Options

An option is its number. `opts_int(v)`, `opts_uint32(v)`, ... are all the entries that `Initialize` puts into the tables when it is built
for version `v` of libzmq, `longOptions` the numbers that `lib/index.js` gives names to. Beside them stands `LibraryType`, external: the type that
libzmq's documentation gives for the option in that version. `Type` and `SetType` look through the tables in the order of the code.

The widths of `int`, `int64_t`, of a Number's mantissa and of the platform's `SOCKET` (that of `int`, or on 64-bit Windows that of `int64_t`)
are constants, so that wrapping (`int`), saturation (`int64_t`), and rounding (back to a Number) all show with small
numbers. Values are Numbers with or without a fraction (only the whole part of which reaches libzmq), strings and Buffers. Bytes are told apart as zero,
which ends the string that is read, as characters, as what is no UTF-8, and as U+FFFD, to which the last is decoded.
NaN and the infinities, the 1023 bytes at which a longer value is cut, and the rules by which libzmq refuses a value are left out.

`version` is the only variable and never changes, so `RightSize` and `ReadsBack` are claims on the tables and conversions, for each version. `OptionsAssumption`
asks of the widths what the real ones have (32, 53 and 64): every `int` is a Number, and two bits at least separate the mantissa from
`int64_t`. With one bit (`Mantissa = LongBits - 1`) the highest `int64_t` would be a Number itself,
and `ReadsBack` would be false of the number after it.

## Runs

| run | question | bounds |
|---|---|---|
| `MCBatchList` | Does the linked list keep its shape (`ListInv`) and implement the queue? | 5 calls of `send`: three batches, one of them in hand, are the most that the pointers tell apart |
| `Pump` | Is a message that has arrived ever left with nobody to read it (`NoLostRead`, `MessagesGetIn`)? Is what is queued sent, whole and in order (`MessagesGetOut`, `SettledInOrder`)? | all three types of socket, a pipe for 1 message, 3 sends, 2 arrivals, 2 calls of pause, resume, bind, unbind and `send([])` |
| `PumpFaults` | Everything may fail and throw: is there one writing and one reading loop, is a busy or closed socket left alone, are callbacks told of a sent batch only when it was (`SentToldTruly`)? By which causes only can a message be forgotten (`LostReadExplained`, `StuckWriteExplained`)? | 2 sends, 2 arrivals, 2 calls |
| `SendParts` | What can a message that libzmq takes be beside one batch (`WholeOrMerged`), is nothing sent of what is restored, when does the event loop wait? | 3 batches of up to 3 parts, so that one fails midway, the next one too, and a third one carries both; a pipe for 1 message |
| `Lifecycle` | References (`RefsMatch`), use (`InUseIsOpen`, `UsedApart`), counting (`EndpointsExact`), garbage collection (`CollectedByMiscount`), keeping the process running (`LiveAttached`), the end of the busy state (`BusyEnds`). Do the tables of options fit each version (`RightSize`)? Which values, exactly, read back as they were given (`ReadsBack`)? | 2 addresses, 7 calls; versions 2, 3 and 4 with every option; `int` of 2 bits, `int64_t` and `SOCKET` of 5, a mantissa of 3; all Numbers to twice the range of the largest, texts of up to 3 bytes |
| `Monitor` | Does a monitor keep its timer (`TimerRuns`) whatever listeners do, is nothing left of a stopped one (`NothingLeft`), is an error real or a listener's doing (`ErrorExplained`), do events get to the listeners (`EventsRead`)? | 3 events, 3 calls of `monitor` and `unmonitor`, so that a replaced or unpaired monitor can be stopped and followed by another; limits 0 (none), 1 and 2 |
| `Context` | For what can the main thread wait in `zmq_term` (`CollectorSparesUsed`), does it return (`TermEnds`), are unused contexts freed (`ContextsFreed`)? | 2 contexts (the default one and the program's, or one after the other), 2 sockets, 2 monitors, so that one is replaced, limits of 4 and 1 sockets: one is too few for a monitor, and with 4 a second monitor gets no pair socket, or with two native sockets not even a publisher |
| `Proxy` | Order (`ForwardedInOrder`), nesting (`NestingBounded`) and content (`Unaltered`) of what is forwarded and captured | 4 messages in all, of 2 or 3 frames, a pipe for 1: three for the backend and one for the frontend are the fewest with which a batch is restored while others were appended |

The bounds suffice to fill the pipe and leave messages in the queue, to nest
each loop in the other, to have a second message when a listener for the first
is running, and to pause and resume, or bind and be paused, in one behaviour; with
two addresses the count of endpoints goes up to four and below zero.
Deadlock is not checked: a program that has made its calls and sockets that are
closed may stop.

### Violations: where the code and its documentation disagree

| run | what TLC shows |
|---|---|
| `PumpReqStuck` | a req socket sends, the reply arrives, the application sends again: `sendv` finds POLLIN without POLLOUT, calls `onReadReady`, which reads the reply and cannot restart the writing loop that is running, and then returns false on events that are out of date. The request stays queued, `ZMQ_FD` is silent. `History.md:4` and `lib/index.js:682` say that this works. |
| `PumpReaderBlocked` | a `message` listener throws and there is no `error` listener: `_isFlushingReads` stays set and nothing is read any more (`History.md:88`). |
| `PumpUnpended` | the pipe is full, a message arrives, a complete message is sent: `sendv` calls the `message` listener with the batch in hand, the listener sends a first part with `ZMQ_SNDMORE`, and `send` sets `pending_` by what is in the queue, to false. The complete batch is restored, and the poll callback does not look for POLLOUT any more (`lib/index.js:620`, against `History.md:32` and `lib/index.js:682`). |
| `SendPartsTorn` | the second part of a batch fails: `sendv` throws, the batch is dropped and its callbacks are told, but libzmq has the first part, and the next batch continues it. The peer gets both as one message (`binding.cc:1327`, against `lib/index.js:184`: the parts "need to be sent as one unit"). |

The passing runs say what stays true beside them. `Pump` has no failures and exceptions, and its `MessagesGetOut`
excepts the two ways in which `sendv` returns false wrongly (`writeLapses`); `PumpFaults` has
everything, and says that a message is forgotten by one of the listed causes only, and
only until the loop next runs to its end. `SendParts` says what a torn message is made of. Five theorems say when the broken promises
are kept:

| promise | kept, for all other values of the constants, when | theorem |
|---|---|---|
| `ReaderNotBlocked` | no listener or callback throws and `readv` does not fail (`_flushRead` throws then, if nobody listens for `error`) | `PumpReaderNotBlocked` |
| `PendingKept` | nothing is sent with `ZMQ_SNDMORE` and no empty array, whatever fails and throws | `PumpPendingKept` |
| `NoStuckWrite` | nothing throws, nothing fails, and nothing arrives | `PumpNoStuckWrite` |
| `NoStuckWrite`, until `sendv` returns false on stale events (`StuckOnlyStale`) | nothing throws, nothing fails, nothing is sent with `ZMQ_SNDMORE` and no empty array | `PumpStuckOnlyStale` |
| `SentAsOneUnit` | no batch has failed midway, whatever the network does | `PartsAsOneUnit` |

Also seen while modelling, without a run of their own: no text promises otherwise, the behaviour is undefined, or two steps show it:

* a failed asynchronous bind or unbind flushes nothing although changes of `ZMQ_FD` went by while
  the socket was busy (`LostReadExplained` names this cause);
* the callbacks of a batch that was sent are told an error when one of them throws, when `sendv` cannot get the events
  after the last part (`SendvCheckFails`), and, in the versions of Node that pass it on, when a `message` listener called by `sendv` throws (`Propagate`).
  `SentToldTruly` is the direction that holds;
* `send([])` resets `pending_` like a first part does (`SendNothing`), another way to what `PumpUnpended` shows;
* `connect` to an address that is connected counts another endpoint, and `disconnect` takes away only one (`EndpointsExact`);
* a failed asynchronous unbind is counted, so that a socket that is still bound may be collected
  (`CollectedByMiscount` says after how many), and a failed bind keeps the process running for good;
* the poll callback does not look at `state_`: while the worker is in `zmq_bind` it calls
  `zmq_poll` on the same socket (`PollStarts`). `unmonitor()` uses the socket then too, and gives libzmq the NULL of a closed one (`UnmonitorStarts`);
* a listener that calls `unmonitor()` gets a `monitor_error` if the loop that called it goes on (`ErrorExplained`);
* a listener that calls `pause()` still gets the next message (`lib/index.js:312` says that no data
  will be emitted);
* a second call of `monitor()` leaks the pair socket of the first; one for which libzmq has no pair socket leaves its timer and its publisher to `unmonitor()`, which
  does nothing (`NothingLeft`);
* a monitored socket that is closed without `unmonitor()`, or was monitored twice, makes `zmq_term` wait for ever, in the garbage
  collector too (`TermEnds`), and a constructor that fails at the limit of sockets keeps its context for good (`ContextsFreed`);
* messages of other than three frames are changed between a router and a dealer (`Unaltered`);
* a socket is collected although it is bound when more unbinds failed than binds did and connects were repeated (`CollectedByMiscount`); `History.md:139` ("prevent zeromq sockets from being destroyed by GC")
  and `History.md:158` mean to prevent it;
* a value read as a string ends at its first zero byte, and what is no UTF-8 is replaced; numbers beyond the type of an option wrap or saturate, and fractions are cut (`ReadsBack`);
* `ZMQ_FD` cannot be read where a `SOCKET` is wider than an `int` (`RightSize`), and the keys of CURVE are never read: libzmq gives them only to a caller with room for
  exactly one of their forms.

### Fairness

`SocketPump`: weak fairness of the steps of the thread that are not the
application's choice, of the return of the application's functions (one that never
returns stops Node), of callbacks from the event loop (libuv polls `ZMQ_FD` and
serves its thread pool as long as it runs), of the worker thread, and of the peer
taking messages. Nothing makes the application call, the peer send, or anyone fail.

`SocketLifecycle`: calls of libzmq return and the thread pool serves what is queued
(weak); the callback after a request has strong fairness, for between two iterations of
the loop the thread may be in libzmq for another call again and again, and each
iteration serves all that is due.

`Monitor`: timers of libuv go off, and the callback and the listeners return (weak).

`Context`: libzmq's reaper removes closed sockets, `zmq_term` returns when nothing is left, and the
garbage collector finds what can be collected (weak; V8 gives no time, but a program that goes on allocating
is collected). Nothing makes a peer take what a closed socket has to send, or the program close or drop anything.

The other modules have no liveness.

## Proofs

All proofs are for any value of the constants: any bound, any kind of socket, any
set of addresses, any width of numbers, with failures and exceptions. Six theorems are about
a part of these systems, with a hypothesis on the constants or the behaviour: `PumpNoLostRead` (nothing fails or
throws) and the five of the table above. `Pump` has such constants for the first, and each of the others
excludes what the run of its violation needs. Each proof rests on an inductive invariant that implies the
property; TLC has checked each invariant on a small instance before it was proved.

* `OutboxProofs`. `SettledInOrder` is not inductive: it speaks of what has left.
  `OutboxInv` says that `Flow`, all batches that ever were in the order they
  were begun, are the messages of the calls so far, only the last possibly open. Only
  `AppendChunk` changes `Flow`; the other actions move a border inside it.
* `BatchListProofs`. `ListInv` is inductive: pointers go through the batches in the
  order of creation, and a batch in hand is the one before `firstBatch` and closed. From
  it each action of the list is one of `Outbox`, or a stutter
  (`ListImplements`), so that what `Outbox` promises holds of the list (`ListOrder`).
* `SocketPumpProofs`. `StackInv` describes the possible stacks: at most one frame of
  each loop and the flags that belong to it, what may lie under the application's
  callbacks, and where a batch may be in hand. It gives `OneWriter`, `OneReader` and, since
  `hand` is empty when the loop fetches and full when it settles, that the loops
  use the queue as `Outbox` has it (the lemma `PumpQueue`) and messages are sent in order (`PumpOrder`).
  The other results on the loops add one invariant each to `StackInv`. `LoopMoves` and `AppMoves` say
  which frames each step takes away and puts down, so that most steps need no look into the stack.

  * `TypeInv`, for `PumpType` and `PumpStill`. The types alone are not inductive: `ZmqSend` takes
    from `room`, so while the frame `sendv` exists it must be the running one, with POLLOUT still
    true and the socket ready (`SendvInv`). The same fact keeps `zmq_msg_send` away from a busy or closed socket.
  * `SentInv`, for `PumpSentTold`. While the callbacks of a sent batch are in the stack, that batch is the last in `settled` and not among
    `failed`, and `OneWriter` keeps every other loop from settling another one before they return.
  * `ReadInv`, for `PumpLostReadExplained`. The socket is `Deaf` when a message is there, or the next one will not
    signal, and `fd` is silent. Between two steps of the thread it may be, as long as a frame
    that will look for messages is in the stack (`WillRead`), or the cause is among `readLapses`. The
    flag `_isFlushingReads` is set without its loop only after an exception.
  * `WriteInv`, for `PumpStuckWriteExplained`: the same for POLLOUT, with two more ways to forget a batch, `pending_` reset
    with a complete message queued and a batch restored by a `sendv` that threw.
  * `QuietInv`, for `PumpNoLostRead`. If nothing fails and nothing throws there are no lapses of reading,
    so `ReadInv` leaves no cause. Pausing, re-entrance and busy periods are still there, for any number of them.
  * `ReaderInv`, for `PumpReaderNotBlocked`. Without exceptions, and with no step of `ReadFails`, a reading loop ends by its own last step. For
    the flag to be exact, nothing but a listener of 'message' may lie directly above the loop (`OnlyListened`).
  * `KeptInv`, for `PumpPendingKept`. Without `ZMQ_SNDMORE` and empty arrays every batch, queued or in hand, is complete (`AllClosed`), and each `send` queues one, so
    that it sets `pending_` by a queue that is not empty; it stays set while `sendv` is on its way
    back with a batch to restore. Exceptions may pass through all of that.
  * `StaleInv` and `SendsOnly`, for `PumpStuckOnlyStale` and `PumpNoStuckWrite`. Each lapse in `writeLapses` has one place in the
    code; with nothing failing or thrown, and `KeptInv`, the stale events are the only one left, and without an arrival
    `sendv` never gets to them.
* `SocketLifecycleProofs`. `LifecycleInv` (types, `RefsMatch`, `InUseIsOpen`,
  `UsedApart`) is inductive; `CountedInv` adds the exact error of the count of
  endpoints, with finite sets of addresses. From both: a live socket is collected only
  after more unbinds than binds failed (`LiveKept`), and keeps the process running
  (`LiveKeepsRunning`).
* `MonitorProofs`. The types, `TimerRuns` and `NothingLeft` are inductive together with what relates `monitor_socket_` to
  `monitor_handle_` (`Paired`: they name the same monitor, or it has no pair socket): a
  call of `monitor` moves the monitor it replaces to `lost`, one without a pair socket goes to `unpaired`, and a stop takes the pair
  socket, the timer and the publishing away at once. Hence, where nothing is lost or unpaired, nothing is left (`StoppedIsGone`). `ErrorExplained` needs in addition that
  the callback polls the pair socket of the monitor that is there, unless a listener has meddled.
* `SendPartsProofs`. The invariant describes what libzmq has of the message that is begun: the
  parts of the batch that is being sent, after the beginnings of batches that failed midway (or nothing, when the pipe
  is gone and drops the rest). At the last part this becomes the message, which gives
  `PartsWhole`, and `PartsAsOneUnit` where no batch has failed midway. `RestoredUnsent` rests on a socket being writable in the middle of a message:
  `sendv` returns false only before its first part. What has been sent is of batches before the current one, so
  the next message ends with a later batch than all of them (`PartsInOrder`). `Promise` reads the state as
  a queue: the batch at which `sendv` is at work is in hand, the later ones are queued, those before it settled, and
  failed are those whose last part libzmq has neither taken nor dropped. Each step is then one of `Outbox` or a stutter
  (`PartsKeepQueue`), as it is in `SocketPump`, where a `sendv` is one step: opening it brings nothing new for the queue.
* `ContextOptionsProofs`, on `Context`. `CollectorSparesUsed` is about the moment at which `zmq_term` waits, so it needs what
  was true when the collector chose the context: `ContextInv` says that an open native socket has its handle on
  the context (`Keeping`), that libzmq's sockets are open only with their native socket or as those of a monitor: of the present one,
  as long as it may be stopped, or of one of a socket that was monitored twice (`RolesMatch`), and that the context for which the collector waits has no handle on it (`Spared`).
* `ContextOptionsProofs`, on `Options` (which shares nothing with `Context` but the module). `OptionsRightSize` compares the
  tables with libzmq's types, option by option and version by version (`SameType`), and has the widths unknown. `OptionsReadBack` is arithmetic at the borders of the types for unknown widths. Neither prover knows
  powers of two, so they are taken for the numbers of subsets: `PowerSum` builds the bijection behind
  2^(m+n) = 2^m 2^n from the library's theorems on finite sets, and the rest follows from it (`Borders`). A Number below 2^`Mantissa`
  is exact (`SmallExact`), so an `int` reads as it is kept. At the borders of `int64_t` the unit of the last place decides (`UnitIs`):
  the lowest value is a Number (`LowestExact`), the highest is none and rounds to the next one (`HighestRounds`), which is why exactly
  one number beyond the type reads back. A negative number given for an unsigned option wraps to a large one, which
  rounds to no negative number (`LargePositive`). Bytes need the least index of a zero (`Least`), from the library's well-founded induction on numbers: a text reads back if it
  has no zero and nothing that the decoding replaces (`TextReads`).
* `ProxyProofs`. Nesting: the flags of the loops are set while the loop is in the stack, so each loop is there
  once, and a listener lies directly on the loop of its socket (`NestInv`). Order: what a socket was given is what the
  other side has received, one by one, except the last message while the listener that holds it has not yet come to
  that socket (`Fed`). To keep `Fed` the listener must hold the last message received (`ListenersHold`), messages must arrive at their places
  (`Placed`), and a batch in hand must be restored before another is fetched (`HandRestored`). A listener running below
  another of the same socket would break it, which is what `NestInv` excludes.

The only assumptions are those on the constants (`PumpAssumption`, `LifecycleAssumption`,
`MonitorAssumption`, `SendPartsAssumption`, `ContextAssumption`, `ProxyAssumption`, `OptionsAssumption`): bounds are
natural numbers, switches are Booleans, `NoContext` is not a context, and `int`, mantissa and `int64_t` are in that order of width.

The proofs made a difference to the model in one place. Where the guards of a CASE overlap, TLA+ does not say which
arm is taken, although TLC takes the first: the outcome of a request at the worker,
what becomes of a closed socket, and the order in which `GetSockOpt` looks through the sets of
options are now written with IF, in the order of the code.

Only model-checked:

* liveness (`MessagesGetIn`, `MessagesGetOut`, `BusyEnds`, `EventsRead`, `TermEnds`, `ContextsFreed`), which is
  about fairness and hence ENABLED, out of the prover's reach;
* the four violations, each a behaviour that TLC shows (the conditions under which they do not occur are proved).

## Not modelled

* The deprecated native `send` and `recv` but for what `read()` uses; `OutgoingMessage`
  is not compiled. Buffers: their lifetime is V8's and libzmq's count of references.
* The option names of the accessors, and `createSocket`'s loop over them, which calls setters.
* What happens when two threads are in a socket of libzmq at once, or when a timer goes off for a
  native socket that was freed: both undefined. `Monitor` assumes that the application keeps a monitored socket.
* An end to the loop of `_flushRead` if `readv` fails for ever: libzmq fails so only when the context is terminated, and the
  thread that would loop then waits in `zmq_term`. No liveness is claimed where calls of libzmq fail (`Pump` has `MayFail` FALSE).
* `read()` beside the reading loop, on a socket that is not paused.
* Tables of constants, curve keys, module initialisation other than the types of options, build files, the Windows
  headers, examples and benchmarks.

## Plan

1. Done: all modules above, and the proofs.
2. Done: every safety property of a passing run is a theorem, and theorems say when the four broken
   promises are kept.
3. Left: shorter proofs where two share a case split; `PartsKeepQueue` and `SentInOrder` as properties of a run
   (TLC has checked both with the constants of `SendParts.cfg`).
