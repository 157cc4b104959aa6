--------------------------- MODULE SocketLifecycle ---------------------------
(***************************************************************************)
(* The life of a native Socket (binding.cc): the endpoints it counts, the  *)
(* references that keep the garbage collector away, its handle in the      *)
(* event loop, and the requests for which a worker thread uses its libzmq  *)
(* socket while the main thread goes on.                                   *)
(*                                                                         *)
(* Calls of libzmq take two steps, so that those of the two threads can    *)
(* overlap.                                                                *)
(***************************************************************************)
EXTENDS Integers, FiniteSets

CONSTANTS
  Addr,              \* addresses to bind and to connect to
  MaxCalls           \* bound: calls by the application

ASSUME LifecycleAssumption == MaxCalls \in Nat

VARIABLES
  (* libzmq's side of the socket *)
  open,              \* is it open (socket_ # NULL)?
  bound, connected,  \* the addresses it is bound and connected to
  (* the native Socket *)
  alive,             \* FALSE once its destructor has run
  state,             \* state_: "ready", "busy" or "closed"
  endpoints,         \* endpoints: how many it believes to have
  refs,              \* Ref() calls that keep it from the garbage collector
  handle,            \* poll_handle_: "polling", "closing" or "freed"
  attached,          \* does the handle keep the process running (uv_ref)?
  (* who uses it *)
  request,           \* the BindState given to the worker thread
  call,              \* the libzmq call the main thread is in
  reachable,         \* does the application hold a reference?
  detached,          \* history: unref() came after the last endpoints 0 -> 1
  miscounted,        \* history: what endpoints has too many: requests to bind
                     \* that failed and repeated connects, less requests to
                     \* unbind that failed
  budget             \* calls the application may still make

zmqVars == <<open, bound, connected>>
countVars == <<endpoints, refs, attached, detached>>
appVars == <<reachable, budget>>
vars == <<zmqVars, alive, state, countVars, miscounted, handle, request, call, appVars>>

NoRequest == [op |-> "none"]
Request == [op : {"bind", "unbind"}, addr : Addr, phase : {"queued", "inside", "done", "failed"}]
Answered == request # NoRequest /\ request.phase \in {"done", "failed"}

NoCall == [op |-> "none"]
Call == [op : {"bindSync", "unbindSync", "connect", "disconnect"}, addr : Addr]
          \cup [op : {"sockopt", "unmonitor", "poll"}]

-----------------------------------------------------------------------------
(* Counting endpoints.                                                     *)

Added ==
  /\ endpoints' = endpoints + 1
  /\ IF endpoints = 0
       THEN refs' = refs + 1 /\ attached' = TRUE /\ detached' = FALSE
       ELSE UNCHANGED <<refs, attached, detached>>

(* Mistake: the last endpoint is taken to be any but a positive number.    *)
RemovedBelow ==
  /\ endpoints' = endpoints - 1
  /\ IF endpoints' <= 0
       THEN refs' = refs - 1 /\ attached' = FALSE
       ELSE UNCHANGED <<refs, attached>>
  /\ UNCHANGED detached

Removed ==
  /\ endpoints' = endpoints - 1
  /\ IF endpoints' = 0
       THEN refs' = refs - 1 /\ attached' = FALSE
       ELSE UNCHANGED <<refs, attached>>
  /\ UNCHANGED detached

-----------------------------------------------------------------------------
(* Methods called by the application.                                      *)

Counted == budget > 0 /\ budget' = budget - 1

(* Mistake: a busy socket is not refused.                                  *)
GetSocketUnlessClosed ==
  /\ reachable /\ call = NoCall
  /\ state # "closed"
  /\ Counted

(* GET_SOCKET: otherwise the method throws and does nothing.               *)
GetSocket ==
  /\ reachable /\ call = NoCall
  /\ state = "ready"
  /\ Counted

(* BindSync, UnbindSync, Connect, Disconnect up to the call of libzmq.     *)
CallStarts(op, a) ==
  /\ GetSocket
  /\ call' = [op |-> op, addr |-> a]
  /\ state' = IF op \in {"bindSync", "unbindSync"} THEN "busy" ELSE state
  /\ UNCHANGED <<zmqVars, alive, countVars, miscounted, handle, request, reachable>>

(* The rest of BindSync.  zmq_bind fails at least for an address in use.   *)
BindSyncReturns(ok) ==
  /\ call.op = "bindSync"
  /\ call' = NoCall
  /\ state' = "ready"
  /\ IF ok
       THEN call.addr \notin bound /\ bound' = bound \cup {call.addr} /\ Added
       ELSE UNCHANGED <<bound, countVars>>
  /\ UNCHANGED <<open, connected, alive, miscounted, handle, request, appVars>>

(* Mistake: a failed zmq_unbind counts.                                    *)
UnbindSyncAlwaysCounts ==
  /\ call.op = "unbindSync"
  /\ call' = NoCall
  /\ state' = "ready"
  /\ bound' = bound \ {call.addr}
  /\ Removed
  /\ UNCHANGED <<open, connected, alive, miscounted, handle, request, appVars>>

UnbindSyncReturns ==
  /\ call.op = "unbindSync"
  /\ call' = NoCall
  /\ state' = "ready"
  /\ bound' = bound \ {call.addr}
  /\ IF call.addr \in bound THEN Removed ELSE UNCHANGED countVars
  /\ UNCHANGED <<open, connected, alive, miscounted, handle, request, appVars>>

(* What connecting again counts too many.                                  *)
Repeated == IF call.addr \in connected THEN 1 ELSE 0

(* Mistake: the first endpoint is not attached to the event loop.          *)
ConnectDetached(ok) ==
  /\ call.op = "connect"
  /\ call' = NoCall
  /\ IF ok
       THEN /\ connected' = connected \cup {call.addr}
            /\ endpoints' = endpoints + 1
            /\ refs' = IF endpoints = 0 THEN refs + 1 ELSE refs
            /\ miscounted' = miscounted + Repeated
            /\ UNCHANGED <<attached, detached>>
       ELSE UNCHANGED <<connected, countVars, miscounted>>
  /\ UNCHANGED <<open, bound, alive, state, handle, request, appVars>>

(* An address that the socket is connected to already is counted again,    *)
(* whether libzmq makes a second connection or none (that depends on its   *)
(* version and the type of the socket).                                    *)
ConnectReturns(ok) ==
  /\ call.op = "connect"
  /\ call' = NoCall
  /\ IF ok
       THEN /\ connected' = connected \cup {call.addr} /\ Added
            /\ miscounted' = miscounted + Repeated
       ELSE UNCHANGED <<connected, countVars, miscounted>>
  /\ UNCHANGED <<open, bound, alive, state, handle, request, appVars>>

(* zmq_disconnect ends every connection to the address.                    *)
DisconnectReturns ==
  /\ call.op = "disconnect"
  /\ call' = NoCall
  /\ connected' = connected \ {call.addr}
  /\ IF call.addr \in connected THEN Removed ELSE UNCHANGED countVars
  /\ UNCHANGED <<open, bound, alive, state, miscounted, handle, request, appVars>>

(* GetSockOpt, SetSockOpt and the other methods that only use libzmq and   *)
(* begin with GET_SOCKET.                                                  *)
SockOptStarts ==
  /\ GetSocket
  /\ call' = [op |-> "sockopt"]
  /\ UNCHANGED <<zmqVars, alive, state, countVars, miscounted, handle, request, reachable>>

(* Socket::Unmonitor, called by the application, or by the callback of the *)
(* monitor's timer while the socket is not closed.  It looks at no state_. *)
UnmonitorStarts ==
  /\ call = NoCall /\ alive
  /\ \/ reachable /\ Counted
     \/ state # "closed" /\ UNCHANGED budget
  /\ call' = [op |-> "unmonitor"]
  /\ UNCHANGED <<zmqVars, alive, state, countVars, miscounted, handle, request, reachable>>

SockOptReturns ==
  /\ call.op \in {"sockopt", "unmonitor"}
  /\ call' = NoCall
  /\ UNCHANGED <<zmqVars, alive, state, countVars, miscounted, handle, request, appVars>>

(* AttachToEventLoop and DetachFromEventLoop.                              *)
Attach ==
  /\ GetSocket
  /\ attached' = TRUE /\ detached' = FALSE
  /\ UNCHANGED <<zmqVars, alive, state, endpoints, refs, miscounted, handle, request, call, reachable>>

Detach ==
  /\ GetSocket
  /\ attached' = FALSE /\ detached' = TRUE
  /\ UNCHANGED <<zmqVars, alive, state, endpoints, refs, miscounted, handle, request, call, reachable>>

(* Socket::Close.                                                          *)
CloseSocket ==
  /\ open' = FALSE /\ bound' = {} /\ connected' = {}
  /\ state' = "closed"
  /\ refs' = IF endpoints > 0 THEN refs - 1 ELSE refs
  /\ handle' = "closing"
  /\ endpoints' = 0 /\ miscounted' = 0
  /\ UNCHANGED <<attached, detached>>

Close ==
  /\ GetSocket
  /\ CloseSocket
  /\ UNCHANGED <<alive, request, call, reachable>>

(* Bind and Unbind: the request is queued for the worker thread.           *)
StartRequest(op, a) ==
  /\ GetSocket
  /\ request' = [op |-> op, addr |-> a, phase |-> "queued"]
  /\ state' = "busy"
  /\ UNCHANGED <<zmqVars, alive, countVars, miscounted, handle, call, reachable>>

-----------------------------------------------------------------------------
(* The worker thread: UV_BindAsync and UV_UnbindAsync.                     *)

WorkerEnters ==
  /\ request # NoRequest /\ request.phase = "queued"
  /\ request' = [request EXCEPT !.phase = "inside"]
  /\ UNCHANGED <<zmqVars, alive, state, countVars, miscounted, handle, call, appVars>>

WorkerSucceeds ==
  /\ request # NoRequest /\ request.phase = "inside"
  /\ \/ /\ request.op = "bind" /\ request.addr \notin bound
        /\ bound' = bound \cup {request.addr}
     \/ /\ request.op = "unbind" /\ request.addr \in bound
        /\ bound' = bound \ {request.addr}
  /\ request' = [request EXCEPT !.phase = "done"]
  /\ UNCHANGED <<open, connected, alive, state, countVars, miscounted, handle, call, appVars>>

WorkerFails ==
  /\ request # NoRequest /\ request.phase = "inside"
  /\ \/ request.op = "bind" /\ miscounted' = miscounted + 1
     \/ request.op = "unbind" /\ request.addr \notin bound /\ miscounted' = miscounted - 1
  /\ request' = [request EXCEPT !.phase = "failed"]
  /\ UNCHANGED <<zmqVars, alive, state, countVars, handle, call, appVars>>

-----------------------------------------------------------------------------
(* Callbacks from the event loop.  The application's callback may hand it  *)
(* a reference it had dropped.                                             *)

(* Mistake: after a failure the socket stays busy.                         *)
AfterBindStaysBusy ==
  /\ call = NoCall /\ Answered /\ request.op = "bind"
  /\ request' = NoRequest
  /\ state' = IF request.phase = "failed" THEN state ELSE "ready"
  /\ Added
  /\ reachable' \in {reachable, TRUE}
  /\ UNCHANGED <<zmqVars, alive, miscounted, handle, call, budget>>

(* UV_BindAsyncAfter.  An endpoint is counted whether there is an error or *)
(* not.                                                                    *)
AfterBind ==
  /\ call = NoCall /\ Answered /\ request.op = "bind"
  /\ request' = NoRequest
  /\ state' = "ready"
  /\ Added
  /\ reachable' \in {reachable, TRUE}
  /\ UNCHANGED <<zmqVars, alive, miscounted, handle, call, budget>>

(* UV_UnbindAsyncAfter, likewise.                                          *)
AfterUnbind ==
  /\ call = NoCall /\ Answered /\ request.op = "unbind"
  /\ request' = NoRequest
  /\ state' = "ready"
  /\ Removed
  /\ reachable' \in {reachable, TRUE}
  /\ UNCHANGED <<zmqVars, alive, miscounted, handle, call, budget>>

(* UV_PollCallback: PollForEvents calls zmq_poll, then the listeners run.  *)
PollStarts ==
  /\ call = NoCall /\ handle = "polling"
  /\ call' = [op |-> "poll"]
  /\ UNCHANGED <<zmqVars, alive, state, countVars, miscounted, handle, request, appVars>>

PollReturns ==
  /\ call.op = "poll"
  /\ call' = NoCall
  /\ reachable' \in {reachable, TRUE}
  /\ UNCHANGED <<zmqVars, alive, state, countVars, miscounted, handle, request, budget>>

(* on_uv_close.                                                            *)
HandleClosed ==
  /\ handle = "closing" /\ call = NoCall
  /\ handle' = "freed"
  /\ UNCHANGED <<zmqVars, alive, state, countVars, miscounted, request, call, appVars>>

-----------------------------------------------------------------------------
(* The garbage collector.                                                  *)

Drop ==
  /\ reachable /\ call = NoCall
  /\ reachable' = FALSE
  /\ UNCHANGED <<zmqVars, alive, state, countVars, miscounted, handle, request, call, budget>>

(* Mistake: a request does not keep the socket.                            *)
CollectDespiteRequest ==
  /\ alive /\ ~reachable /\ refs = 0 /\ call = NoCall
  /\ alive' = FALSE
  /\ IF open THEN CloseSocket ELSE UNCHANGED <<zmqVars, state, countVars, miscounted, handle>>
  /\ UNCHANGED <<request, call, appVars>>

(* ~Socket.  Ref() and the sock_obj of a BindState keep a socket that the  *)
(* application does not hold.                                              *)
Collect ==
  /\ alive /\ ~reachable /\ refs = 0 /\ request = NoRequest /\ call = NoCall
  /\ alive' = FALSE
  /\ IF open THEN CloseSocket ELSE UNCHANGED <<zmqVars, state, countVars, miscounted, handle>>
  /\ UNCHANGED <<request, call, appVars>>

-----------------------------------------------------------------------------
(* The constructor has run.                                                *)
Init ==
  /\ open = TRUE /\ bound = {} /\ connected = {}
  /\ alive = TRUE /\ state = "ready"
  /\ endpoints = 0 /\ refs = 0 /\ miscounted = 0
  /\ handle = "polling" /\ attached = TRUE
  /\ request = NoRequest /\ call = NoCall
  /\ reachable = TRUE /\ detached = FALSE
  /\ budget = MaxCalls

AppCall ==
  \/ \E a \in Addr :
       \/ \E op \in {"bindSync", "unbindSync", "connect", "disconnect"} : CallStarts(op, a)
       \/ \E op \in {"bind", "unbind"} : StartRequest(op, a)
  \/ SockOptStarts \/ UnmonitorStarts
  \/ Attach \/ Detach \/ Close

Returns ==
  \/ \E ok \in BOOLEAN : BindSyncReturns(ok) \/ ConnectReturns(ok)
  \/ UnbindSyncReturns \/ DisconnectReturns \/ SockOptReturns
  \/ PollReturns

Worker == WorkerEnters \/ WorkerSucceeds \/ WorkerFails

AfterWork == AfterBind \/ AfterUnbind

Next ==
  \/ AppCall \/ Returns
  \/ Worker \/ AfterWork
  \/ PollStarts \/ HandleClosed
  \/ Drop \/ Collect

Spec == Init /\ [][Next]_vars

(* Calls of libzmq return, the thread pool runs what is queued, the event  *)
(* loop calls back: after_work even if the poll handle is ready time and   *)
(* again, for an iteration of the loop serves all that is due.             *)
Fairness == WF_vars(Returns) /\ WF_vars(Worker) /\ SF_vars(AfterWork)

FairSpec == Spec /\ Fairness

-----------------------------------------------------------------------------
(* The value of every variable.                                            *)
TypeOK ==
  /\ open \in BOOLEAN /\ alive \in BOOLEAN /\ reachable \in BOOLEAN
  /\ attached \in BOOLEAN /\ detached \in BOOLEAN
  /\ bound \subseteq Addr /\ connected \subseteq Addr
  /\ state \in {"ready", "busy", "closed"}
  /\ endpoints \in Int /\ miscounted \in Int /\ refs \in Nat /\ budget \in Nat
  /\ handle \in {"polling", "closing", "freed"}
  /\ request \in Request \cup {NoRequest}
  /\ call \in Call \cup {NoCall}

(* Ref and Unref balance although endpoints may be wrong, even negative:   *)
(* Unref is never called without a reference (Nan asserts it), and close() *)
(* leaves none.                                                            *)
RefsMatch == refs = IF endpoints > 0 THEN 1 ELSE 0

(* The worker thread works on a socket that exists and is open, and the    *)
(* event loop never polls for one that is closed or destroyed.             *)
InUseIsOpen ==
  /\ request # NoRequest => open /\ state = "busy"
  /\ state = "closed" <=> ~open
  /\ handle = "polling" <=> open
  /\ open => alive

(* The main thread uses libzmq's socket only while it is open, but for     *)
(* unmonitor(), which gives libzmq the NULL of a closed one.  And from the *)
(* moment the worker thread is given the socket until the result is back,  *)
(* nothing else in the main thread uses it than zmq_poll, of the poll      *)
(* callback, and unmonitor(): neither looks at state_.                     *)
UsedApart ==
  /\ call # NoCall /\ ~open => call.op = "unmonitor"
  /\ call # NoCall /\ request # NoRequest => call.op \in {"poll", "unmonitor"}

Quiet == request = NoRequest /\ call = NoCall

(* What the count misses while the result of a request is on its way.      *)
Due ==
  IF ~Answered THEN 0
  ELSE IF request.op = "bind" THEN 1 ELSE -1

Live == bound \cup connected # {}

(* The count of the addresses in use is wrong by nothing but the requests  *)
(* that failed and repeated connects: a failed bind and an address that is *)
(* connected to again count one too many, a failed unbind counts one too   *)
(* few, until the socket is closed.                                        *)
EndpointsExact == endpoints + Due = Cardinality(bound) + Cardinality(connected) + miscounted

(* A socket that is bound or connected keeps the process running unless    *)
(* the application has called unref(), or more unbinds failed than binds   *)
(* did and connects were repeated.                                         *)
LiveAttached == Quiet /\ Live /\ ~detached /\ miscounted >= 0 => attached

(* The garbage collector takes a socket that is bound or connected only    *)
(* after more requests to unbind failed than requests to bind did and      *)
(* connects were repeated.                                                 *)
CollectedByMiscount == [][alive /\ ~alive' /\ Live => miscounted < 0]_vars

(* "When bind or unbind failed, you could never try again (fixed)".        *)
BusyEnds == state = "busy" ~> state = "ready"
=============================================================================
