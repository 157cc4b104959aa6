----------------------------- MODULE SocketPump -----------------------------
(***************************************************************************)
(* How messages move between the application and libzmq: the reading and   *)
(* writing loops of lib/index.js, the native methods they call (readv,     *)
(* sendv) and the poll callback that starts them, in binding.cc.           *)
(*                                                                         *)
(* All of it runs in one thread, but it is re-entrant: sendv calls         *)
(* onReadReady when it notices input, the loops call listeners and         *)
(* callbacks of the application, and those may call any method of the      *)
(* socket.  The call stack is therefore part of the state: a sequence of   *)
(* frames, the running one last.  Peers, libzmq's I/O thread and the       *)
(* worker thread of an asynchronous bind run concurrently with it.         *)
(***************************************************************************)
EXTENDS Outbox

CONSTANTS
  Kinds,             \* the types of socket: "any" stands for push, pull, pair,
                     \* dealer ..., "req" and "rep" alternate
  Ops,               \* the methods the application calls, see AllOps
  HWM,               \* messages libzmq accepts before it wants the peer to read
  MaxSends,          \* bound: calls of send
  MaxArrivals,       \* bound: messages from the peer
  MaxCalls,          \* bound: calls of pause, resume, bind, unbind and send([])
  MayThrow,          \* may listeners and callbacks of the application throw?
  MayFail            \* may the calls of libzmq in sendv, readv, bind and unbind
                     \* fail?

AllOps == {"send", "sendmore", "sendnone", "pause", "resume", "read", "close", "bind", "unbind"}

ASSUME PumpAssumption ==
  /\ Kinds \subseteq {"any", "req", "rep"} /\ Kinds # {}
  /\ Ops \subseteq AllOps
  /\ HWM \in Nat \ {0}
  /\ MaxSends \in Nat /\ MaxArrivals \in Nat /\ MaxCalls \in Nat
  /\ MayThrow \in BOOLEAN /\ MayFail \in BOOLEAN

VARIABLES
  (* libzmq's side of the socket *)
  inbox,             \* messages that have arrived and were not received
  room,              \* messages the pipe to the peer still accepts
  turn,              \* the type of the socket; of req and rep, whose turn it is
  fd,                \* is ZMQ_FD readable?  It reports changes, not levels
  armed,             \* will the next arrival make it readable?
  arrivals,          \* counts the arrivals, for the bound
  (* the native Socket *)
  state,             \* state_: "ready", "busy" or "closed"
  pending,           \* pending_: should the poll callback look for POLLOUT?
  work,              \* the request given to the worker thread: "none", what
                     \* it is, or how it ended
  (* the Socket of lib/index.js; the queue is in the variables of Outbox *)
  paused,            \* _paused
  isFlushingReads,   \* _isFlushingReads
  isFlushingWrites,  \* _isFlushingWrites
  stack,             \* the frames of the running calls
  budget,            \* calls left of the methods that MaxCalls bounds
  (* history *)
  readLapses,        \* what went wrong since the reading loop last found nothing
                     \* to read (see AllLapses)
  writeLapses        \* the same of the writing loop and nothing to send

zmqVars == <<inbox, room, turn, fd, armed, arrivals>>
loopVars == <<isFlushingReads, isFlushingWrites>>
appVars == <<paused, budget>>
lapses == <<readLapses, writeLapses>>
vars == <<zmqVars, state, pending, work, outboxVars, loopVars, stack, appVars, lapses>>

-----------------------------------------------------------------------------
(* Frames.  The running one is the last of the stack.                      *)

(* Listeners and callbacks of the application.                             *)
AppFrames == {"onMessage", "onReadError", "onSent", "onSendError", "onWriteError", "onBind"}

(* The points of _flushWrites, _flushWrite and sendv where something else  *)
(* can happen: about to fetch the next batch; POLLOUT seen; all parts sent;*)
(* sendv about to return true or false; sendv has thrown; a batch failed.  *)
WriteFrames == {"writes", "sendv", "sent", "sendvTrue", "sendvFalse", "sendvThrew", "failing"}

(* About to call _flushReads, _flushWrites or the callback of bind; about  *)
(* to look at POLLOUT in CallbackIfReady.                                  *)
CallFrames == {"flushReads", "flushWrites", "emitBind", "pollout"}

Frames == AppFrames \cup WriteFrames \cup CallFrames \cup {"reads", "exception"}

Running(f) == stack # <<>> /\ LastOf(stack) = f
Callers == SubSeq(stack, 1, Len(stack) - 1)
Push(f) == stack' = Append(stack, f)
Pop == stack' = Callers
Become(f) == stack' = Append(Callers, f)
Idle == stack = <<>>

(* The application's code runs: its main code, a listener or a callback.   *)
InApp == ~Idle => LastOf(stack) \in AppFrames

-----------------------------------------------------------------------------
(* What may keep a loop from noticing that there is work for it:           *)
(* sendv returned false on events that were no longer true; send took the  *)
(* batch in hand for sent and reset pending_; a call of libzmq made sendv  *)
(* throw; a bind or unbind failed; an exception ended the calls.           *)
AllLapses == {"stale", "unpended", "sendFailed", "workFailed", "threw"}

Lapse(cause) ==
  /\ readLapses' = readLapses \cup {cause}
  /\ writeLapses' = writeLapses \cup {cause}

WriteLapse(cause) ==
  /\ writeLapses' = writeLapses \cup {cause}
  /\ UNCHANGED readLapses

-----------------------------------------------------------------------------
(* libzmq, as this program uses it.                                        *)

HasRoom == turn = "repSend" \/ room > 0
PollIn == inbox > 0 /\ turn \in {"any", "reqRecv", "repRecv"}
PollOut == HasRoom /\ turn \in {"any", "reqSend", "repSend"}

(* getsockopt(ZMQ_EVENTS) and zmq_poll process what the I/O thread has     *)
(* told the socket: ZMQ_FD is no longer readable, whatever they report.  If*)
(* they look for input and find none, the next arrival is announced.       *)
GetEvents ==
  /\ fd' = FALSE
  /\ armed' = IF turn \in {"reqSend", "repSend"} THEN armed ELSE inbox = 0

(* A req or rep socket that has received sends, and the other way round.   *)
Flip ==
  turn' = CASE turn = "any" -> "any"
            [] turn = "reqSend" -> "reqRecv" [] turn = "reqRecv" -> "reqSend"
            [] turn = "repSend" -> "repRecv" [] turn = "repRecv" -> "repSend"

(* zmq_msg_recv for all parts of a message.                                *)
Receive ==
  /\ inbox' = inbox - 1
  /\ Flip

(* A message arrives.  A req socket gets one reply for each request that   *)
(* its peer has taken.                                                     *)
Arrive ==
  /\ state # "closed" /\ arrivals < MaxArrivals
  /\ turn # "reqSend"
  /\ turn = "reqRecv" => inbox = 0 /\ room = HWM
  /\ inbox' = inbox + 1
  /\ arrivals' = arrivals + 1
  /\ fd' = (fd \/ armed)
  /\ armed' = FALSE
  /\ UNCHANGED <<room, turn, state, pending, work, outboxVars, loopVars, stack, appVars, lapses>>

(* The peer takes a message, and the socket is told so.                    *)
Drain ==
  /\ state # "closed" /\ room < HWM
  /\ room' = room + 1
  /\ fd' = TRUE
  /\ UNCHANGED <<inbox, turn, armed, arrivals, state, pending, work, outboxVars, loopVars, stack,
                 appVars, lapses>>

(* UV_BindAsync, UV_UnbindAsync: the worker thread calls zmq_bind or       *)
(* zmq_unbind, which process commands like GetEvents; a successful bind    *)
(* leaves one of its own.                                                  *)
WorkerRuns(ok) ==
  /\ work \in {"bind", "unbind"}
  /\ ok \/ MayFail
  /\ IF work = "bind" /\ ok THEN fd' = TRUE ELSE fd' \in {fd, FALSE}
  /\ work' = IF ~ok THEN "failed" ELSE IF work = "bind" THEN "bound" ELSE "unbound"
  /\ UNCHANGED <<inbox, room, turn, armed, arrivals, state, pending, outboxVars, loopVars, stack,
                 appVars, lapses>>

-----------------------------------------------------------------------------
(* Callbacks from the event loop.                                          *)

(* Mistake: only onReadReady is called.                                    *)
PollCallbackReadsOnly ==
  /\ Idle /\ fd /\ state # "closed"
  /\ GetEvents
  /\ stack' = IF PollIn THEN <<"flushReads">> ELSE <<>>
  /\ UNCHANGED <<inbox, room, turn, arrivals, state, pending, work, outboxVars, loopVars, appVars,
                 lapses>>

(* UV_PollCallback, CallbackIfReady, PollForEvents.  The second frame is   *)
(* there when POLLOUT was wanted and seen.                                 *)
PollCallback ==
  /\ Idle /\ fd /\ state # "closed"
  /\ GetEvents
  /\ stack' = (IF pending /\ PollOut THEN <<"pollout">> ELSE <<>>)
              \o (IF PollIn THEN <<"flushReads">> ELSE <<>>)
  /\ UNCHANGED <<inbox, room, turn, arrivals, state, pending, work, outboxVars, loopVars, appVars,
                 lapses>>

(* NotifySendReady: onSendReady.                                           *)
NotifySendReady ==
  /\ Running("pollout")
  /\ Become("flushWrites")
  /\ UNCHANGED <<zmqVars, state, pending, work, outboxVars, loopVars, appVars, lapses>>

(* Mistake: a failed request leaves the socket busy.                       *)
AfterWorkStaysBusy ==
  /\ Idle /\ work \in {"bound", "unbound", "failed"}
  /\ state' = IF work = "failed" THEN "busy" ELSE "ready"
  /\ work' = "none"
  /\ stack' = <<"emitBind", "flushWrites", "flushReads">>
  /\ UNCHANGED <<zmqVars, pending, outboxVars, loopVars, appVars, lapses>>

(* UV_BindAsyncAfter, UV_UnbindAsyncAfter and the callbacks that bind and  *)
(* unbind of lib/index.js give them.                                       *)
AfterWork ==
  /\ Idle /\ work \in {"bound", "unbound", "failed"}
  /\ state' = "ready"
  /\ work' = "none"
  /\ stack' = CASE work = "bound"   -> <<"emitBind", "flushWrites", "flushReads">>
                [] work = "unbound" -> <<"emitBind", "flushWrites", "flushReads", "emitBind">>
                [] work = "failed"  -> <<"emitBind">>
  /\ IF work = "failed" THEN Lapse("workFailed") ELSE UNCHANGED lapses
  /\ UNCHANGED <<zmqVars, pending, outboxVars, loopVars, appVars>>

(* emit('bind'), emit('unbind') and the callback given to bind or unbind.  *)
EmitBind ==
  /\ Running("emitBind")
  /\ Become("onBind")
  /\ UNCHANGED <<zmqVars, state, pending, work, outboxVars, loopVars, appVars, lapses>>

-----------------------------------------------------------------------------
(* _flushReads, _flushRead and readv.                                      *)

(* Mistake: no guard against re-entry.                                     *)
FlushReadsAlways ==
  /\ Running("flushReads")
  /\ IF paused
       THEN Pop /\ UNCHANGED isFlushingReads
       ELSE Become("reads") /\ isFlushingReads' = TRUE
  /\ UNCHANGED <<zmqVars, state, pending, work, outboxVars, isFlushingWrites, appVars, lapses>>

FlushReads ==
  /\ Running("flushReads")
  /\ IF paused \/ isFlushingReads
       THEN Pop /\ UNCHANGED isFlushingReads
       ELSE Become("reads") /\ isFlushingReads' = TRUE
  /\ UNCHANGED <<zmqVars, state, pending, work, outboxVars, isFlushingWrites, appVars, lapses>>

ReadMessage ==
  /\ Running("reads") /\ state = "ready"
  /\ PollIn
  /\ GetEvents
  /\ Receive
  /\ Push("onMessage")
  /\ UNCHANGED <<room, arrivals, state, pending, work, outboxVars, loopVars, appVars, lapses>>

(* A call of libzmq fails and readv throws: before it has received a       *)
(* message, or with parts of one, which are lost.  _flushRead emits 'error'*)
(* (which throws if nobody listens) and the loop goes on.                  *)
ReadFails ==
  /\ Running("reads") /\ state = "ready" /\ MayFail
  /\ fd' \in {fd, FALSE}
  /\ \/ UNCHANGED <<inbox, turn>>
     \/ PollIn /\ Receive
  /\ \E g \in {"onReadError", "exception"} : Push(g)
  /\ UNCHANGED <<room, armed, arrivals, state, pending, work, outboxVars, loopVars, appVars, lapses>>

(* readv returns undefined; the loop ends and _flushReads goes on with     *)
(* _flushWrites.                                                           *)
ReadNothing ==
  /\ Running("reads")
  /\ IF state = "ready" THEN ~PollIn /\ GetEvents ELSE UNCHANGED <<fd, armed>>
  /\ isFlushingReads' = FALSE
  /\ Become("flushWrites")
  /\ readLapses' = IF state = "ready" THEN {} ELSE readLapses
  /\ UNCHANGED <<inbox, room, turn, arrivals, state, pending, work, outboxVars, isFlushingWrites,
                 appVars, writeLapses>>

-----------------------------------------------------------------------------
(* _flushWrites, _flushWrite and sendv.                                    *)

(* Mistake: no guard against re-entry.                                     *)
FlushWritesAlways ==
  /\ Running("flushWrites")
  /\ IF paused
       THEN Pop /\ UNCHANGED isFlushingWrites
       ELSE Become("writes") /\ isFlushingWrites' = TRUE
  /\ UNCHANGED <<zmqVars, state, pending, work, outboxVars, isFlushingReads, appVars, lapses>>

FlushWrites ==
  /\ Running("flushWrites")
  /\ IF paused \/ isFlushingWrites
       THEN Pop /\ UNCHANGED isFlushingWrites
       ELSE Become("writes") /\ isFlushingWrites' = TRUE
  /\ UNCHANGED <<zmqVars, state, pending, work, outboxVars, isFlushingReads, appVars, lapses>>

WriteNothing ==
  /\ Running("writes")
  /\ ~CanSend(outgoing)
  /\ pending' = FALSE
  /\ isFlushingWrites' = FALSE
  /\ Pop
  /\ writeLapses' = {}
  /\ UNCHANGED <<zmqVars, state, work, outboxVars, isFlushingReads, appVars, readLapses>>

(* sendv returns false at once and the batch is restored: the socket is    *)
(* busy or closed, or it is neither writable nor readable.                 *)
SendvRefuses ==
  /\ Running("writes")
  /\ CanSend(outgoing)
  /\ IF state = "ready" THEN ~PollOut /\ ~PollIn /\ GetEvents ELSE UNCHANGED <<fd, armed>>
  /\ isFlushingWrites' = FALSE
  /\ Pop
  /\ writeLapses' = IF state = "ready" /\ pending THEN {} ELSE writeLapses
  /\ UNCHANGED <<inbox, room, turn, arrivals, state, pending, work, outboxVars, isFlushingReads,
                 appVars, readLapses>>

(* Mistake: the state of the socket is not looked at.                      *)
SendvStartsAnyway ==
  /\ Running("writes")
  /\ PollOut \/ PollIn
  /\ Fetch
  /\ GetEvents
  /\ stack' = Callers \o (IF PollOut THEN <<"sendv">> ELSE <<"sendvFalse", "flushReads">>)
  /\ UNCHANGED <<inbox, room, turn, arrivals, state, pending, work, loopVars, appVars, lapses>>

(* sendv finds the socket writable, or readable only: then it calls        *)
(* onReadReady before it returns false.                                    *)
SendvStarts ==
  /\ Running("writes") /\ state = "ready"
  /\ PollOut \/ PollIn
  /\ Fetch
  /\ GetEvents
  /\ stack' = Callers \o (IF PollOut THEN <<"sendv">> ELSE <<"sendvFalse", "flushReads">>)
  /\ UNCHANGED <<inbox, room, turn, arrivals, state, pending, work, loopVars, appVars, lapses>>

(* sendv cannot get the events of the socket and throws.                   *)
SendvAskFails ==
  /\ Running("writes") /\ state = "ready" /\ MayFail
  /\ Fetch
  /\ fd' \in {fd, FALSE}
  /\ Become("sendvThrew")
  /\ Lapse("sendFailed")
  /\ UNCHANGED <<inbox, room, turn, armed, arrivals, state, pending, work, loopVars, appVars>>

(* zmq_msg_send takes every part.  It may process commands on its way.     *)
ZmqSend ==
  /\ Running("sendv")
  /\ Settle
  /\ IF turn = "repSend" THEN UNCHANGED room ELSE room' = room - 1
  /\ Flip
  /\ fd' \in {fd, FALSE}
  /\ Become("sent")
  /\ UNCHANGED <<inbox, armed, arrivals, state, pending, work, loopVars, appVars, lapses>>

(* zmq_msg_send fails, sendv throws.                                       *)
ZmqSendFails ==
  /\ Running("sendv") /\ MayFail
  /\ fd' \in {fd, FALSE}
  /\ Become("sendvThrew")
  /\ Lapse("sendFailed")
  /\ UNCHANGED <<inbox, room, turn, armed, arrivals, state, pending, work, outboxVars, loopVars,
                 appVars>>

(* Mistake: the events are fetched and input is not reported.              *)
SendvForgetsInput ==
  /\ Running("sent")
  /\ GetEvents
  /\ Become("sendvTrue")
  /\ UNCHANGED <<inbox, room, turn, arrivals, state, pending, work, outboxVars, loopVars, appVars,
                 lapses>>

(* sendv asks for the events once more and calls onReadReady on POLLIN.    *)
SendvChecksInput ==
  /\ Running("sent")
  /\ GetEvents
  /\ stack' = Callers \o <<"sendvTrue">> \o (IF PollIn THEN <<"flushReads">> ELSE <<>>)
  /\ UNCHANGED <<inbox, room, turn, arrivals, state, pending, work, outboxVars, loopVars, appVars,
                 lapses>>

(* It cannot get them and throws, although the batch has been sent.        *)
SendvCheckFails ==
  /\ Running("sent") /\ MayFail
  /\ fd' \in {fd, FALSE}
  /\ Become("sendvThrew")
  /\ Lapse("sendFailed")
  /\ UNCHANGED <<inbox, room, turn, armed, arrivals, state, pending, work, outboxVars, loopVars,
                 appVars>>

(* _flushWrite calls the callbacks of the batch, if it has any (invokeSent)*)
(* and the loop goes on.                                                   *)
SendvReturnsTrue ==
  /\ Running("sendvTrue")
  /\ pending' = CanSend(outgoing)
  /\ \E cbs \in {<<>>, <<"onSent">>} : stack' = Callers \o <<"writes">> \o cbs
  /\ UNCHANGED <<zmqVars, state, work, outboxVars, loopVars, appVars, lapses>>

(* The batch is restored and the loop ends.                                *)
SendvReturnsFalse ==
  /\ Running("sendvFalse")
  /\ Restore
  /\ isFlushingWrites' = FALSE
  /\ Pop
  /\ writeLapses' = writeLapses \cup (IF PollOut THEN {"stale"} ELSE {})
                                 \cup (IF pending THEN {} ELSE {"unpended"})
  /\ UNCHANGED <<zmqVars, state, pending, work, isFlushingReads, appVars, readLapses>>

(* The catch clause of _flushWrite.  The batch is dropped, unless it has   *)
(* been sent; the error goes to its callbacks in either case (invokeError) *)
(* or, if it has none, is thrown again.                                    *)
SendvThrew ==
  /\ Running("sendvThrew")
  /\ IF hand # <<>> THEN Discard ELSE UNCHANGED outboxVars
  /\ pending' = CanSend(outgoing)
  /\ \E g \in {"onSendError", "exception"} : stack' = Callers \o <<"failing", g>>
  /\ UNCHANGED <<zmqVars, state, work, loopVars, appVars, lapses>>

(* The callbacks have been told, the loop ends.                            *)
SendFailed ==
  /\ Running("failing")
  /\ isFlushingWrites' = FALSE
  /\ Pop
  /\ UNCHANGED <<zmqVars, state, pending, work, outboxVars, isFlushingReads, appVars, lapses>>

-----------------------------------------------------------------------------
(* The application calls a method.                                         *)

(* Mistake: pending_ is left to the loop.                                  *)
SendNotPending(more) ==
  /\ InApp /\ "send" \in Ops /\ Len(calls) < MaxSends
  /\ more => "sendmore" \in Ops
  /\ AppendChunk(more)
  /\ IF CanSend(outgoing') THEN Push("flushWrites") ELSE UNCHANGED stack
  /\ UNCHANGED <<zmqVars, state, pending, work, loopVars, appVars, lapses>>

Send(more) ==
  /\ InApp /\ "send" \in Ops /\ Len(calls) < MaxSends
  /\ more => "sendmore" \in Ops
  /\ AppendChunk(more)
  /\ pending' = CanSend(outgoing')
  /\ IF CanSend(outgoing') THEN Push("flushWrites") ELSE UNCHANGED stack
  /\ UNCHANGED <<zmqVars, state, work, loopVars, appVars, lapses>>

Counted == budget > 0 /\ budget' = budget - 1

(* send([]) appends nothing, and sets pending_ by the queue all the same.  *)
SendNothing ==
  /\ InApp /\ "sendnone" \in Ops /\ Counted
  /\ pending' = CanSend(outgoing)
  /\ IF CanSend(outgoing) THEN Push("flushWrites") ELSE UNCHANGED stack
  /\ UNCHANGED <<zmqVars, state, work, outboxVars, loopVars, paused, lapses>>

Pause ==
  /\ InApp /\ "pause" \in Ops /\ ~paused /\ Counted
  /\ paused' = TRUE
  /\ UNCHANGED <<zmqVars, state, pending, work, outboxVars, loopVars, stack, lapses>>

(* Mistake: only what was queued is flushed.                               *)
ResumeWrites ==
  /\ InApp /\ "resume" \in Ops /\ Counted
  /\ paused' = FALSE
  /\ Push("flushWrites")
  /\ UNCHANGED <<zmqVars, state, pending, work, outboxVars, loopVars, lapses>>

Resume ==
  /\ InApp /\ "resume" \in Ops /\ Counted
  /\ paused' = FALSE
  /\ stack' = stack \o <<"flushWrites", "flushReads">>
  /\ UNCHANGED <<zmqVars, state, pending, work, outboxVars, loopVars, lapses>>

(* Socket.read, used as History.md introduces it: while the socket is      *)
(* paused.                                                                 *)
Read ==
  /\ InApp /\ "read" \in Ops /\ paused /\ state = "ready"
  /\ GetEvents
  /\ IF PollIn THEN Receive ELSE UNCHANGED <<inbox, turn>>
  /\ UNCHANGED <<room, arrivals, state, pending, work, outboxVars, loopVars, stack, appVars, lapses>>

Close ==
  /\ InApp /\ "close" \in Ops /\ state = "ready"
  /\ state' = "closed"
  /\ fd' = FALSE
  /\ UNCHANGED <<inbox, room, turn, armed, arrivals, pending, work, outboxVars, loopVars, stack,
                 appVars, lapses>>

(* Socket.bind and Socket.unbind; they throw unless the socket is ready.   *)
StartWork(kind) ==
  /\ InApp /\ kind \in Ops /\ state = "ready" /\ Counted
  /\ state' = "busy"
  /\ work' = kind
  /\ UNCHANGED <<zmqVars, pending, outboxVars, loopVars, stack, paused, lapses>>

(* A listener or callback returns.                                         *)
Return ==
  /\ ~Idle /\ InApp
  /\ Pop
  /\ UNCHANGED <<zmqVars, state, pending, work, outboxVars, loopVars, appVars, lapses>>

-----------------------------------------------------------------------------
(* Exceptions.                                                             *)

(* _flushRead turns an exception of a 'message' listener into an 'error'   *)
(* event; emit('error') throws unless the application has a listener for   *)
(* it.  An exception of a callback for a batch that has been sent is       *)
(* caught in _flushWrite like one of sendv, and reported to the same       *)
(* callbacks.                                                              *)
Throw ==
  /\ MayThrow /\ ~Idle /\ InApp
  /\ IF Running("onSent")
       THEN /\ stack' = SubSeq(stack, 1, Len(stack) - 2) \o <<"failing", "onSendError">>
            /\ pending' = CanSend(outgoing)
            /\ WriteLapse("threw")
       ELSE /\ \/ Running("onMessage") /\ Become("onReadError")
               \/ Become("exception")
            /\ UNCHANGED <<pending, lapses>>
  /\ UNCHANGED <<zmqVars, state, work, outboxVars, loopVars, appVars>>

(* An exception reaches the frame below, which is                          *)
(*  - nothing, or NotifyReadReady called by the poll callback: reported;   *)
(*  - a method called by the application, whose code may catch it;         *)
(*  - a call of a flush that has more to do, or _flushReads: left;         *)
(*  - _flushWrites: caught, and turned into an 'error' event;              *)
(*  - NotifyReadReady called by sendv: reported and dropped, or passed to  *)
(*    the caller of sendv, as the version of Node has it.                  *)
Propagate ==
  /\ Running("exception")
  /\ LET callers == Callers
         below   == SubSeq(stack, 1, Len(stack) - 2)
         f       == IF callers = <<>> THEN "pollout" ELSE LastOf(callers)
     IN \/ /\ f \in AppFrames \cup {"pollout", "sendvTrue", "sendvFalse"}
           /\ stack' = callers
           /\ UNCHANGED <<isFlushingWrites, lapses>>
        \/ /\ f \in {"sendvTrue", "sendvFalse"}
           /\ stack' = Append(below, "sendvThrew")
           /\ UNCHANGED isFlushingWrites
           /\ WriteLapse("threw")
        \/ /\ f \in {"flushReads", "flushWrites", "emitBind", "reads"}
           /\ stack' = Append(below, "exception")
           /\ UNCHANGED isFlushingWrites
           /\ IF f = "emitBind" THEN UNCHANGED lapses ELSE Lapse("threw")
        \/ /\ f = "failing"
           /\ isFlushingWrites' = FALSE
           /\ UNCHANGED lapses
           /\ \E g \in {"onWriteError", "exception"} : stack' = Append(below, g)
  /\ UNCHANGED <<zmqVars, state, pending, work, outboxVars, isFlushingReads, appVars>>

-----------------------------------------------------------------------------
(* A socket that has just been connected: zmq_connect leaves a command for *)
(* the socket itself, which makes ZMQ_FD readable.                         *)
Init ==
  /\ OutboxInit
  /\ inbox = 0 /\ room = HWM /\ arrivals = 0
  /\ \/ "any" \in Kinds /\ turn = "any"
     \/ "req" \in Kinds /\ turn = "reqSend"
     \/ "rep" \in Kinds /\ turn = "repRecv"
  /\ fd = TRUE /\ armed = FALSE
  /\ state = "ready" /\ pending = FALSE /\ work = "none"
  /\ paused = FALSE /\ isFlushingReads = FALSE /\ isFlushingWrites = FALSE
  /\ stack = <<>>
  /\ budget = MaxCalls
  /\ readLapses = {} /\ writeLapses = {}

(* What the running frame does next, unless it is the application's code.  *)
Step ==
  \/ NotifySendReady \/ EmitBind
  \/ FlushReads \/ ReadMessage \/ ReadFails \/ ReadNothing
  \/ FlushWrites \/ WriteNothing \/ SendvRefuses \/ SendvStarts \/ SendvAskFails
  \/ ZmqSend \/ ZmqSendFails \/ SendvChecksInput \/ SendvCheckFails
  \/ SendvReturnsTrue \/ SendvReturnsFalse \/ SendvThrew \/ SendFailed
  \/ Propagate

AppCall ==
  \/ \E more \in BOOLEAN : Send(more)
  \/ SendNothing
  \/ Pause \/ Resume \/ Read \/ Close
  \/ \E kind \in {"bind", "unbind"} : StartWork(kind)

Next ==
  \/ Arrive \/ Drain
  \/ \E ok \in BOOLEAN : WorkerRuns(ok)
  \/ PollCallback \/ AfterWork
  \/ Step
  \/ AppCall \/ Return \/ Throw

Spec == Init /\ [][Next]_vars

(* The thread runs what is on its stack, the application's functions       *)
(* return, the event loop calls back, the worker and the peer get on with  *)
(* their work.  Nothing makes the application call a method, throw, or the *)
(* peer send.                                                              *)
Fairness ==
  /\ WF_vars(Step) /\ WF_vars(Return)
  /\ WF_vars(PollCallback) /\ WF_vars(AfterWork)
  /\ WF_vars(\E ok \in BOOLEAN : WorkerRuns(ok))
  /\ WF_vars(Drain)

FairSpec == Spec /\ Fairness

-----------------------------------------------------------------------------
(* The value of every variable.                                            *)
TypeOK ==
  /\ inbox \in Nat /\ room \in 0 .. HWM /\ arrivals \in Nat /\ budget \in Nat
  /\ turn \in {"any", "reqSend", "reqRecv", "repSend", "repRecv"}
  /\ {fd, armed, pending, paused, isFlushingReads, isFlushingWrites} \subseteq BOOLEAN
  /\ state \in {"ready", "busy", "closed"}
  /\ work \in {"none", "bind", "unbind", "bound", "unbound", "failed"}
  /\ stack \in Seq(Frames)
  /\ readLapses \cup writeLapses \subseteq AllLapses
  /\ state = "busy" <=> work # "none"

Active(S) == {i \in DOMAIN stack : stack[i] \in S}

(* The guard against re-entry works: whatever listeners and callbacks call *)
(* and however they end, at most one _flushWrites loop runs, the flag is   *)
(* set exactly while it does (or writing would stop for good), a batch is  *)
(* out of the queue only while that loop is about to send it, put it back  *)
(* or report it, and only that loop calls the callbacks of what was sent.  *)
OneWriter ==
  /\ \A i, j \in Active(WriteFrames) : i = j
  /\ isFlushingWrites <=> Active(WriteFrames) # {}
  /\ Active({"sendv", "sendvFalse"}) # {} => hand # <<>>
  /\ hand # <<>> => Active({"sendv", "sendvFalse", "sendvThrew"}) # {}
  /\ \A i \in Active({"onSent"}) : i > 1 /\ stack[i - 1] = "writes"

(* At most one _flushReads loop runs, and it alone calls the listeners: a  *)
(* 'message' listener is never called while another one, or itself, is     *)
(* still handling a message.                                               *)
OneReader ==
  /\ \A i, j \in Active({"reads"}) : i = j
  /\ Active({"reads"}) # {} => isFlushingReads
  /\ \A i \in Active({"onMessage"}) : i > 1 /\ stack[i - 1] = "reads"

(* Reading is blocked by its flag only while a loop is reading.            *)
ReaderNotBlocked == isFlushingReads => Active({"reads"}) # {}

(* While the worker thread has the socket, and after close(), no message is*)
(* received and none is given to libzmq.                                   *)
StillUnlessReady ==
  [][state # "ready" => inbox' >= inbox /\ (settled' = settled \/ failed' # failed)]_vars

(* The socket could read and nothing runs that will; the same of sending.  *)
MayRead == Idle /\ state = "ready" /\ ~paused /\ PollIn
MayWrite == Idle /\ state = "ready" /\ ~paused /\ CanSend(outgoing) /\ PollOut

(* Messages wait in libzmq, the socket may read them, nothing runs: then   *)
(* the event loop will be told (ZMQ_FD reports a change only once).        *)
NoLostRead == MayRead => fd

(* A complete message is queued, libzmq would take it, nothing runs: then  *)
(* the event loop will be told and will try to send.                       *)
NoStuckWrite == MayWrite => fd /\ pending

(* A complete message waits in the queue, nothing runs: then the poll      *)
(* callback looks for POLLOUT.                                             *)
PendingKept == Idle /\ state = "ready" /\ CanSend(outgoing) => pending

(* Whatever fails and throws, the only ways to forget messages that wait in*)
(* libzmq are: a sendv that threw with POLLIN consumed, a failed bind or   *)
(* unbind after which nothing is flushed, and an exception that left a     *)
(* flush; and only until the reading loop next runs to its end.            *)
LostReadExplained == MayRead /\ ~fd => readLapses \cap {"sendFailed", "workFailed", "threw"} # {}

(* Whatever fails and throws, the only ways to leave a complete message in *)
(* the queue of a writable socket are the same, and sendv returning false  *)
(* on stale events or after pending_ was reset by a nested send; and only  *)
(* until the writing loop next runs to its end.                            *)
StuckWriteExplained == MayWrite /\ ~(fd /\ pending) => writeLapses # {}

(* While callbacks are told that their batch is sent, it is the last one to*)
(* have left the queue, and libzmq has taken it: whatever they call, no    *)
(* other is sent or dropped before they return.  (An error is also told of *)
(* a batch that was sent, if a listener, a callback or sendv throws then.) *)
SentToldTruly ==
  [][Active({"onSent"}) # {} =>
       settled' = settled /\ settled # <<>> /\ Len(settled) \notin failed]_vars

(* What arrives is given to the application.                               *)
MessagesGetIn == PollIn /\ ~paused /\ state = "ready" ~> ~PollIn \/ paused \/ state = "closed"

(* What is complete is given to libzmq, unless it is the peer's turn, or   *)
(* sendv returned false as StuckWriteExplained says.                       *)
MessagesGetOut ==
  \A n \in 1 .. MaxSends :
    outgoing # <<>> /\ Head(outgoing).isClosed /\ First(Head(outgoing)) = n
      ~> \/ paused \/ state = "closed" \/ turn \in {"reqRecv", "repRecv"}
         \/ writeLapses # {}
         \/ settled # <<>> /\ First(LastOf(settled)) >= n

=============================================================================
