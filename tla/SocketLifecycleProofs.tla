------------------------ MODULE SocketLifecycleProofs ------------------------
(* Proofs about SocketLifecycle, for every value of its constants.         *)
EXTENDS SocketLifecycle, FiniteSetTheorems, TLAPS

LifecycleInv == TypeOK /\ RefsMatch /\ InUseIsOpen /\ UsedApart

(* Boolean and other parts of TypeOK.                                      *)
Flags ==
  /\ open \in BOOLEAN /\ alive \in BOOLEAN /\ reachable \in BOOLEAN
  /\ attached \in BOOLEAN /\ detached \in BOOLEAN

Values ==
  /\ bound \subseteq Addr /\ connected \subseteq Addr
  /\ state \in {"ready", "busy", "closed"}
  /\ endpoints \in Int /\ miscounted \in Int /\ refs \in Nat /\ budget \in Nat
  /\ handle \in {"polling", "closing", "freed"}
  /\ request \in Request \cup {NoRequest}
  /\ call \in Call \cup {NoCall}

LEMMA TypeParts == (TypeOK <=> Flags /\ Values) /\ (TypeOK' <=> Flags' /\ Values')
BY DEF TypeOK, Flags, Values

LEMMA CountedFacts ==
  ASSUME TypeOK, Counted
  PROVE  budget' \in Nat
BY DEF TypeOK, Counted

LEMMA NoneOps == NoCall.op = "none" /\ NoRequest.op = "none"
BY DEF NoCall, NoRequest

(* Nothing changes that InUseIsOpen is about.                              *)
LEMMA InUseKept ==
  ASSUME InUseIsOpen, UNCHANGED <<open, state, handle, alive, request>>
  PROVE  InUseIsOpen'
BY DEF InUseIsOpen

LEMMA LifecycleInit == Init => LifecycleInv
<1> SUFFICES ASSUME Init PROVE LifecycleInv
  OBVIOUS
<1>1. TypeOK
  <2>1. Flags
    BY DEF Init, Flags
  <2>2. Values
    BY LifecycleAssumption DEF Init, Values
  <2>3. QED
    BY <2>1, <2>2, TypeParts
<1>2. RefsMatch
  BY DEF Init, RefsMatch
<1>3. InUseIsOpen /\ UsedApart
  BY DEF Init, InUseIsOpen, UsedApart, NoRequest, NoCall
<1>4. QED
  BY <1>1, <1>2, <1>3 DEF LifecycleInv

(* Requests and calls are told apart from their absence by op.             *)
LEMMA OpFacts ==
  ASSUME TypeOK
  PROVE  /\ request = NoRequest <=> request.op = "none"
         /\ call = NoCall <=> call.op = "none"
         /\ request # NoRequest => request \in Request
         /\ call # NoCall => call \in Call
         /\ call.op \in {"bindSync", "unbindSync", "connect", "disconnect"} => call.addr \in Addr
BY DEF TypeOK, Request, NoRequest, Call, NoCall

LEMMA AddedKeeps ==
  ASSUME TypeOK, RefsMatch, Added
  PROVE  /\ RefsMatch' /\ endpoints' \in Int /\ refs' \in Nat
         /\ attached' \in BOOLEAN /\ detached' \in BOOLEAN
<1>1. RefsMatch' /\ endpoints' \in Int /\ refs' \in Nat
  BY DEF TypeOK, RefsMatch, Added
<1>2. attached' \in BOOLEAN /\ detached' \in BOOLEAN
  BY DEF TypeOK, Added
<1>3. QED
  BY <1>1, <1>2

LEMMA RemovedKeeps ==
  ASSUME TypeOK, RefsMatch, Removed
  PROVE  /\ RefsMatch' /\ endpoints' \in Int /\ refs' \in Nat
         /\ attached' \in BOOLEAN /\ detached' \in BOOLEAN
<1>1. RefsMatch' /\ endpoints' \in Int /\ refs' \in Nat
  BY DEF TypeOK, RefsMatch, Removed
<1>2. attached' \in BOOLEAN /\ detached' \in BOOLEAN
  BY DEF TypeOK, Removed
<1>3. QED
  BY <1>1, <1>2

LEMMA UncountedKeeps ==
  ASSUME TypeOK, RefsMatch, UNCHANGED countVars
  PROVE  /\ RefsMatch' /\ endpoints' \in Int /\ refs' \in Nat
         /\ attached' \in BOOLEAN /\ detached' \in BOOLEAN
BY DEF TypeOK, RefsMatch, countVars

LEMMA CloseKeeps ==
  ASSUME TypeOK, RefsMatch, CloseSocket
  PROVE  /\ RefsMatch' /\ endpoints' \in Int /\ refs' \in Nat
         /\ attached' \in BOOLEAN /\ detached' \in BOOLEAN
BY DEF TypeOK, RefsMatch, CloseSocket

(* A step that leaves the socket, its state and the request alone; what it *)
(* does to the call is told by op.                                         *)
LEMMA UseKept ==
  ASSUME TypeOK, InUseIsOpen, UsedApart, UNCHANGED <<open, state, handle, alive, request>>,
         call' = call \/ call' = NoCall \/ call'.op = "unmonitor" \/ state = "ready"
           \/ (call'.op = "poll" /\ handle = "polling")
  PROVE  InUseIsOpen' /\ UsedApart'
<1>1. InUseIsOpen'
  BY InUseKept
<1>2. state = "ready" => open /\ request = NoRequest
  BY DEF InUseIsOpen
<1>3. UsedApart'
  BY <1>2 DEF UsedApart, InUseIsOpen
<1>4. QED
  BY <1>1, <1>3

(* A call that begins with GET_SOCKET finds no request.                    *)
LEMMA UsedNotPoll ==
  ASSUME UsedApart, call.op \in {"bindSync", "unbindSync", "connect", "disconnect"}
  PROVE  request = NoRequest /\ open /\ call # NoCall
BY NoneOps DEF UsedApart, NoCall

(* A method that made the socket busy for its call returns.                *)
LEMMA ReadyAgain ==
  ASSUME InUseIsOpen, UsedApart, call.op \in {"bindSync", "unbindSync"},
         UNCHANGED <<open, handle, alive, request>>, state' = "ready", call' = NoCall
  PROVE  InUseIsOpen' /\ UsedApart'
<1>1. open /\ request = NoRequest /\ call'.op = "none"
  BY NoneOps DEF UsedApart, NoCall
<1>2. QED
  BY <1>1 DEF InUseIsOpen, UsedApart

(* What the worker has done, by kind of request and result.                *)
LEMMA WorkerLeft ==
  ASSUME TypeOK, WorkerSucceeds \/ WorkerFails
  PROVE  /\ request' \in Request /\ request' # NoRequest
         /\ request'.phase \in {"done", "failed"} /\ request'.op = request.op
         /\ request.op \in {"bind", "unbind"} /\ request.addr \in Addr
         /\ \/ /\ request.op = "bind"
               /\ \/ /\ request.addr \notin bound
                     /\ bound' = bound \cup {request.addr} /\ miscounted' = miscounted
                  \/ bound' = bound /\ miscounted' = miscounted + 1
            \/ /\ request.op = "unbind"
               /\ \/ /\ request.addr \in bound
                     /\ bound' = bound \ {request.addr} /\ miscounted' = miscounted
                  \/ bound' = bound /\ miscounted' = miscounted - 1
<1>1. request # NoRequest /\ request \in Request
  BY OpFacts DEF WorkerSucceeds, WorkerFails
<1>2. request.op \in {"bind", "unbind"} /\ request.addr \in Addr
  BY <1>1 DEF Request
<1>3. \E p \in {"done", "failed"} : request' = [request EXCEPT !.phase = p]
  BY DEF WorkerSucceeds, WorkerFails
<1>4. /\ request' \in Request
      /\ request'.phase \in {"done", "failed"} /\ request'.op = request.op
  BY <1>1, <1>3 DEF Request
<1>5. request' # NoRequest
  BY <1>2, <1>4 DEF NoRequest
<1>6. CASE WorkerSucceeds
  BY <1>2, <1>4, <1>5, <1>6 DEF WorkerSucceeds
<1>7. CASE WorkerFails
  BY <1>2, <1>4, <1>5, <1>7 DEF WorkerFails, zmqVars
<1>8. QED
  BY <1>6, <1>7

LEMMA LifecycleNext ==
  ASSUME LifecycleInv, [Next]_vars
  PROVE  LifecycleInv'
<1>1. /\ TypeOK /\ RefsMatch /\ InUseIsOpen /\ UsedApart
  BY DEF LifecycleInv
<1>2. ASSUME NEW a \in Addr, NEW op \in {"bindSync", "unbindSync", "connect", "disconnect"},
             CallStarts(op, a)
      PROVE  LifecycleInv'
  <2>1. /\ UNCHANGED <<zmqVars, alive, countVars, miscounted, handle, request, reachable>>
        /\ state = "ready" /\ state' \in {"ready", "busy"}
    BY <1>2 DEF CallStarts, GetSocket
  <2>2. request = NoRequest /\ open
    BY <1>1, <2>1 DEF InUseIsOpen
  <2>3. TypeOK'
    BY <1>1, <1>2, UncountedKeeps
       DEF CallStarts, GetSocket, Counted, TypeOK, zmqVars, countVars, Call
  <2>4. RefsMatch' /\ InUseIsOpen' /\ UsedApart'
    BY <1>1, <2>1, <2>2, UncountedKeeps DEF InUseIsOpen, UsedApart, zmqVars
  <2>5. QED
    BY <2>3, <2>4 DEF LifecycleInv
<1>3. ASSUME NEW a \in Addr, NEW op \in {"bind", "unbind"}, StartRequest(op, a)
      PROVE  LifecycleInv'
  <2>1. /\ UNCHANGED <<zmqVars, alive, countVars, miscounted, handle, call, reachable>>
        /\ state = "ready" /\ state' = "busy" /\ call = NoCall
    BY <1>3 DEF StartRequest, GetSocket
  <2>2. open
    BY <1>1, <1>3 DEF StartRequest, GetSocket, InUseIsOpen
  <2>3. TypeOK'
    BY <1>1, <1>3, UncountedKeeps
       DEF StartRequest, GetSocket, Counted, TypeOK, zmqVars, countVars, Request
  <2>4. RefsMatch' /\ InUseIsOpen' /\ UsedApart'
    BY <1>1, <2>1, <2>2, UncountedKeeps DEF InUseIsOpen, UsedApart, zmqVars, NoCall
  <2>5. QED
    BY <2>3, <2>4 DEF LifecycleInv
<1>4. ASSUME NEW ok \in BOOLEAN, BindSyncReturns(ok)
      PROVE  LifecycleInv'
  <2>1. call # NoCall /\ request = NoRequest
    BY <1>1, <1>4 DEF BindSyncReturns, UsedApart, NoCall
  <2>2. /\ RefsMatch' /\ endpoints' \in Int /\ refs' \in Nat
        /\ attached' \in BOOLEAN /\ detached' \in BOOLEAN
    BY <1>1, <1>4, AddedKeeps, UncountedKeeps DEF BindSyncReturns
  <2>3. TypeOK'
    <3>1. bound' \subseteq Addr
      BY <1>1, <1>4, OpFacts DEF BindSyncReturns, TypeOK
    <3>2. QED
      BY <1>1, <1>4, <2>2, <3>1 DEF BindSyncReturns, TypeOK, appVars
  <2>4. InUseIsOpen' /\ UsedApart'
    BY <1>1, <1>4, ReadyAgain DEF BindSyncReturns
  <2>5. QED
    BY <2>2, <2>3, <2>4 DEF LifecycleInv
<1>5. CASE UnbindSyncReturns
  <2>1. call # NoCall /\ request = NoRequest
    BY <1>1, <1>5 DEF UnbindSyncReturns, UsedApart, NoCall
  <2>2. /\ RefsMatch' /\ endpoints' \in Int /\ refs' \in Nat
        /\ attached' \in BOOLEAN /\ detached' \in BOOLEAN
    BY <1>1, <1>5, RemovedKeeps, UncountedKeeps DEF UnbindSyncReturns
  <2>3. TypeOK'
    BY <1>1, <1>5, <2>2 DEF UnbindSyncReturns, TypeOK, appVars
  <2>4. InUseIsOpen' /\ UsedApart'
    BY <1>1, <1>5, ReadyAgain DEF UnbindSyncReturns
  <2>5. QED
    BY <2>2, <2>3, <2>4 DEF LifecycleInv
<1>6. ASSUME NEW ok \in BOOLEAN, ConnectReturns(ok)
      PROVE  LifecycleInv'
  <2>1. /\ RefsMatch' /\ endpoints' \in Int /\ refs' \in Nat
        /\ attached' \in BOOLEAN /\ detached' \in BOOLEAN
    BY <1>1, <1>6, AddedKeeps, UncountedKeeps DEF ConnectReturns
  <2>2. TypeOK'
    <3>1. connected' \subseteq Addr /\ miscounted' \in Int
      BY <1>1, <1>6, OpFacts DEF ConnectReturns, TypeOK, Repeated
    <3>2. QED
      BY <1>1, <1>6, <2>1, <3>1 DEF ConnectReturns, TypeOK, appVars
  <2>3. InUseIsOpen' /\ UsedApart'
    BY <1>1, <1>6, UseKept, NoneOps DEF ConnectReturns
  <2>4. QED
    BY <2>1, <2>2, <2>3 DEF LifecycleInv
<1>7. CASE DisconnectReturns
  <2>1. /\ RefsMatch' /\ endpoints' \in Int /\ refs' \in Nat
        /\ attached' \in BOOLEAN /\ detached' \in BOOLEAN
    BY <1>1, <1>7, RemovedKeeps, UncountedKeeps DEF DisconnectReturns
  <2>2. TypeOK'
    BY <1>1, <1>7, <2>1 DEF DisconnectReturns, TypeOK, appVars
  <2>3. InUseIsOpen' /\ UsedApart'
    BY <1>1, <1>7, UseKept, NoneOps DEF DisconnectReturns
  <2>4. QED
    BY <2>1, <2>2, <2>3 DEF LifecycleInv
<1>8. CASE SockOptStarts \/ UnmonitorStarts \/ SockOptReturns \/ PollStarts \/ PollReturns
  <2>1. RefsMatch'
    BY <1>1, <1>8, UncountedKeeps
       DEF SockOptStarts, UnmonitorStarts, SockOptReturns, PollStarts, PollReturns
  <2>2. TypeOK'
    <3>1. Flags'
      BY <1>1, <1>8, TypeParts
         DEF SockOptStarts, UnmonitorStarts, SockOptReturns, PollStarts, PollReturns, Flags, zmqVars,
             countVars, appVars
    <3>2. Values'
      <4>1. call' \in Call \cup {NoCall}
        <5>1. call' \in {[op |-> "sockopt"], [op |-> "unmonitor"], [op |-> "poll"], NoCall}
          BY <1>8, Zenon DEF SockOptStarts, UnmonitorStarts, SockOptReturns, PollStarts, PollReturns
        <5>2. {[op |-> "sockopt"], [op |-> "unmonitor"], [op |-> "poll"]} \subseteq Call
          BY DEF Call
        <5>3. QED
          BY <5>1, <5>2
      <4>2. budget' \in Nat
        <5>1. CASE SockOptStarts
          BY <1>1, <5>1, CountedFacts DEF SockOptStarts, GetSocket
        <5>2. CASE SockOptReturns \/ PollStarts \/ PollReturns
          BY <1>1, <5>2 DEF SockOptReturns, PollStarts, PollReturns, TypeOK, appVars
        <5>3. CASE UnmonitorStarts
          BY <1>1, <5>3, CountedFacts DEF UnmonitorStarts, TypeOK
        <5>4. QED
          BY <1>8, <5>1, <5>2, <5>3
      <4>3. UNCHANGED <<bound, connected, state, endpoints, refs, miscounted, handle, request>>
        BY <1>8
           DEF SockOptStarts, UnmonitorStarts, SockOptReturns, PollStarts, PollReturns, zmqVars,
               countVars
      <4>4. QED
        BY <1>1, <4>1, <4>2, <4>3, TypeParts DEF Values
    <3>3. QED
      BY <3>1, <3>2, TypeParts
  <2>3. InUseIsOpen' /\ UsedApart'
    <3>1. UNCHANGED <<open, state, handle, alive, request>>
      BY <1>8 DEF SockOptStarts, UnmonitorStarts, SockOptReturns, PollStarts, PollReturns, zmqVars
    <3>2. call' = NoCall \/ call'.op = "unmonitor" \/ state = "ready"
            \/ (call'.op = "poll" /\ handle = "polling")
      <4>1. CASE SockOptStarts
        BY <4>1 DEF SockOptStarts, GetSocket
      <4>2. CASE SockOptReturns \/ PollReturns
        BY <4>2 DEF SockOptReturns, PollReturns
      <4>3. CASE PollStarts
        BY <4>3 DEF PollStarts
      <4>4. CASE UnmonitorStarts
        BY <4>4 DEF UnmonitorStarts
      <4>5. QED
        BY <1>8, <4>1, <4>2, <4>3, <4>4
    <3>3. QED
      BY <1>1, <3>1, <3>2, UseKept
  <2>4. QED
    BY <2>1, <2>2, <2>3 DEF LifecycleInv
<1>9. CASE Attach \/ Detach
  <2>1. /\ UNCHANGED <<zmqVars, alive, state, endpoints, refs, miscounted, handle, request, call, reachable>>
        /\ attached' \in BOOLEAN /\ detached' \in BOOLEAN
        /\ budget' \in Nat
    BY <1>1, <1>9, CountedFacts DEF Attach, Detach, GetSocket
  <2>2. TypeOK' /\ RefsMatch'
    BY <1>1, <2>1 DEF TypeOK, RefsMatch, zmqVars
  <2>3. InUseIsOpen' /\ UsedApart'
    BY <1>1, <2>1, UseKept DEF zmqVars
  <2>4. QED
    BY <2>2, <2>3 DEF LifecycleInv
<1>10. ASSUME CloseSocket, UNCHANGED <<request, call>>, alive' \in BOOLEAN, reachable' \in BOOLEAN,
              budget' \in Nat, request = NoRequest, call = NoCall
       PROVE  LifecycleInv'
  <2>1. /\ RefsMatch' /\ endpoints' \in Int /\ refs' \in Nat
        /\ attached' \in BOOLEAN /\ detached' \in BOOLEAN
    BY <1>1, <1>10, CloseKeeps
  <2>2. TypeOK'
    BY <1>1, <1>10, <2>1 DEF CloseSocket, TypeOK
  <2>3. InUseIsOpen' /\ UsedApart'
    BY <1>1, <1>10, NoneOps DEF CloseSocket, InUseIsOpen, UsedApart
  <2>4. QED
    BY <2>1, <2>2, <2>3 DEF LifecycleInv
<1>11. CASE Close
  <2>1. /\ CloseSocket /\ UNCHANGED <<request, call>>
        /\ alive' \in BOOLEAN /\ reachable' \in BOOLEAN /\ budget' \in Nat
    BY <1>1, <1>11 DEF Close, GetSocket, Counted, TypeOK
  <2>2. request = NoRequest /\ call = NoCall
    BY <1>1, <1>11 DEF Close, GetSocket, InUseIsOpen
  <2>3. QED
    BY <1>10, <2>1, <2>2
<1>12. CASE Collect
  <2>1. CASE open
    BY <1>1, <1>10, <1>12, <2>1 DEF Collect, TypeOK, appVars
  <2>2. CASE ~open
    <3>1. TypeOK' /\ RefsMatch'
      BY <1>1, <1>12, <2>2, UncountedKeeps DEF Collect, TypeOK, zmqVars, countVars, appVars
    <3>2. InUseIsOpen' /\ UsedApart'
      BY <1>1, <1>12, <2>2 DEF Collect, InUseIsOpen, UsedApart, zmqVars
    <3>3. QED
      BY <3>1, <3>2 DEF LifecycleInv
  <2>3. QED
    BY <2>1, <2>2
<1>13. CASE WorkerEnters \/ WorkerSucceeds \/ WorkerFails
  <2>1. /\ RefsMatch'
        /\ UNCHANGED <<open, connected, alive, state, countVars, handle, call, appVars>>
        /\ request # NoRequest
    BY <1>1, <1>13, UncountedKeeps DEF WorkerEnters, WorkerSucceeds, WorkerFails, zmqVars
  <2>2. request \in Request
    BY <1>1, <2>1, OpFacts
  <2>3. request' \in Request /\ bound' \subseteq Addr /\ miscounted' \in Int
    <3>1. CASE WorkerEnters
      BY <1>1, <2>2, <3>1 DEF WorkerEnters, Request, zmqVars, TypeOK
    <3>2. CASE WorkerSucceeds \/ WorkerFails
      BY <1>1, <3>2, WorkerLeft DEF TypeOK
    <3>3. QED
      BY <1>13, <3>1, <3>2
  <2>4. TypeOK'
    BY <1>1, <2>1, <2>3 DEF TypeOK, countVars, appVars
  <2>5. InUseIsOpen' /\ UsedApart'
    BY <1>1, <2>1 DEF InUseIsOpen, UsedApart
  <2>6. QED
    BY <2>1, <2>4, <2>5 DEF LifecycleInv
<1>14. CASE AfterBind \/ AfterUnbind
  <2>1. /\ RefsMatch' /\ endpoints' \in Int /\ refs' \in Nat
        /\ attached' \in BOOLEAN /\ detached' \in BOOLEAN
    BY <1>1, <1>14, AddedKeeps, RemovedKeeps DEF AfterBind, AfterUnbind
  <2>2. request # NoRequest
    BY <1>1, <1>14, OpFacts DEF AfterBind, AfterUnbind, Answered
  <2>3. TypeOK'
    BY <1>1, <1>14, <2>1 DEF AfterBind, AfterUnbind, TypeOK, zmqVars
  <2>4. InUseIsOpen' /\ UsedApart'
    BY <1>1, <1>14, <2>2 DEF AfterBind, AfterUnbind, InUseIsOpen, UsedApart, zmqVars
  <2>5. QED
    BY <2>1, <2>3, <2>4 DEF LifecycleInv
<1>15. CASE HandleClosed \/ Drop \/ UNCHANGED vars
  <2>1. TypeOK' /\ RefsMatch'
    BY <1>1, <1>15, UncountedKeeps DEF HandleClosed, Drop, vars, TypeOK, zmqVars, countVars, appVars
  <2>2. InUseIsOpen' /\ UsedApart'
    BY <1>1, <1>15 DEF HandleClosed, Drop, vars, InUseIsOpen, UsedApart, zmqVars
  <2>3. QED
    BY <2>1, <2>2 DEF LifecycleInv
<1>16. QED
  BY <1>2, <1>3, <1>4, <1>5, <1>6, <1>7, <1>8, <1>9, <1>11, <1>12, <1>13, <1>14, <1>15
     DEF Next, AppCall, Returns, Worker, AfterWork

(* The counts of references, the socket's state and the requests fit, for  *)
(* any number of calls, addresses and failures.                            *)
THEOREM LifecycleInvariant == Spec => []LifecycleInv
<1>1. Init => LifecycleInv
  BY LifecycleInit
<1>2. LifecycleInv /\ [Next]_vars => LifecycleInv'
  BY LifecycleNext
<1>3. QED
  BY <1>1, <1>2, PTL DEF Spec

THEOREM LifecycleType == Spec => []TypeOK
<1>1. LifecycleInv => TypeOK
  BY DEF LifecycleInv
<1>2. QED
  BY <1>1, LifecycleInvariant, PTL

(* Ref and Unref balance: see RefsMatch.                                   *)
THEOREM RefsBalanced == Spec => []RefsMatch
<1>1. LifecycleInv => RefsMatch
  BY DEF LifecycleInv
<1>2. QED
  BY <1>1, LifecycleInvariant, PTL

(* What uses the socket finds it open: see InUseIsOpen.                    *)
THEOREM UsedWhileOpen == Spec => []InUseIsOpen
<1>1. LifecycleInv => InUseIsOpen
  BY DEF LifecycleInv
<1>2. QED
  BY <1>1, LifecycleInvariant, PTL

(* Who uses a socket that is closed or with the worker: see UsedApart.     *)
THEOREM OthersKeptApart == Spec => []UsedApart
<1>1. LifecycleInv => UsedApart
  BY DEF LifecycleInv
<1>2. QED
  BY <1>1, LifecycleInvariant, PTL

-----------------------------------------------------------------------------
(* The count of endpoints.  EndpointsExact is inductive itself.            *)
CountInv == EndpointsExact

Finite == IsFiniteSet(bound) /\ IsFiniteSet(connected)

CountedInv == LifecycleInv /\ Finite /\ CountInv

LEMMA Cards ==
  ASSUME Finite
  PROVE  /\ Cardinality(bound) \in Nat /\ Cardinality(connected) \in Nat
         /\ \A a : /\ IsFiniteSet(bound \cup {a}) /\ IsFiniteSet(connected \cup {a})
                  /\ IsFiniteSet(bound \ {a}) /\ IsFiniteSet(connected \ {a})
         /\ \A a : a \notin bound => Cardinality(bound \cup {a}) = Cardinality(bound) + 1
         /\ \A a : a \in bound => Cardinality(bound \ {a}) = Cardinality(bound) - 1
         /\ \A a : a \notin connected => Cardinality(connected \cup {a}) = Cardinality(connected) + 1
         /\ \A a : a \in connected => Cardinality(connected \ {a}) = Cardinality(connected) - 1
BY FS_CardinalityType, FS_AddElement, FS_RemoveElement DEF Finite

LEMMA CountInit == Init => Finite /\ CountInv
BY FS_EmptySet DEF Init, Finite, CountInv, EndpointsExact, Due, Answered, NoCall, NoRequest

(* Nothing that is counted changes.                                        *)
LEMMA CountKept ==
  ASSUME Finite, CountInv, UNCHANGED <<bound, connected, endpoints, miscounted, request>>
  PROVE  Finite' /\ CountInv'
BY DEF Finite, CountInv, EndpointsExact, Due, Answered

(* A method has added or removed an endpoint, or has failed.               *)
LEMMA CountChanged ==
  ASSUME CountedInv, request = NoRequest, request' = NoRequest,
         \/ UNCHANGED <<bound, connected, endpoints, miscounted>>
         \/ /\ endpoints' = endpoints + 1 /\ miscounted' = miscounted + 1
            /\ UNCHANGED <<bound, connected>>
         \/ \E a : /\ endpoints' = endpoints + 1 /\ miscounted' = miscounted
                  /\ \/ a \notin bound /\ bound' = bound \cup {a} /\ connected' = connected
                     \/ a \notin connected /\ connected' = connected \cup {a} /\ bound' = bound
         \/ \E a : /\ endpoints' = endpoints - 1 /\ miscounted' = miscounted
                  /\ \/ a \in bound /\ bound' = bound \ {a} /\ connected' = connected
                     \/ a \in connected /\ connected' = connected \ {a} /\ bound' = bound
  PROVE  Finite' /\ CountInv'
<1>1. Finite /\ CountInv /\ endpoints \in Int /\ miscounted \in Int
  BY DEF CountedInv, LifecycleInv, TypeOK
<1>2. Due = 0 /\ Due' = 0
  BY DEF Due, Answered
<1>3. endpoints = Cardinality(bound) + Cardinality(connected) + miscounted
  BY <1>1, <1>2 DEF CountInv, EndpointsExact
<1>4. Finite'
  BY <1>1, Cards DEF Finite
<1>5. endpoints' = Cardinality(bound') + Cardinality(connected') + miscounted'
  <2>1. CASE UNCHANGED <<bound, connected>>
    BY <1>1, <1>3, <2>1, Cards
  <2>2. CASE UNCHANGED miscounted
    BY <1>1, <1>3, <2>2, Cards
  <2> QED
    BY <2>1, <2>2
<1>6. endpoints' \in Int
  BY <1>1
<1>7. CountInv'
  BY <1>2, <1>5, <1>6 DEF CountInv, EndpointsExact
<1>8. QED
  BY <1>4, <1>7

LEMMA CountNext ==
  ASSUME CountedInv, [Next]_vars
  PROVE  Finite' /\ CountInv'
<1>1. LifecycleInv /\ TypeOK /\ InUseIsOpen /\ UsedApart /\ Finite /\ CountInv
  BY DEF CountedInv, LifecycleInv
<1>2. ASSUME NEW a \in Addr, NEW op \in {"bindSync", "unbindSync", "connect", "disconnect"},
             CallStarts(op, a)
      PROVE  Finite' /\ CountInv'
  BY <1>1, <1>2, CountKept DEF CallStarts, zmqVars, countVars
<1>3. ASSUME NEW a \in Addr, NEW op \in {"bind", "unbind"}, StartRequest(op, a)
      PROVE  Finite' /\ CountInv'
  <2>1. /\ request = NoRequest /\ call = NoCall
        /\ UNCHANGED <<bound, connected, endpoints, miscounted, call>>
        /\ request' = [op |-> op, addr |-> a, phase |-> "queued"]
    BY <1>1, <1>3 DEF StartRequest, GetSocket, InUseIsOpen, zmqVars, countVars
  <2>2. Due = 0 /\ Due' = 0
    BY <2>1 DEF Due, Answered
  <2>3. QED
    BY <1>1, <2>1, <2>2 DEF Finite, CountInv, EndpointsExact
<1>4. ASSUME NEW ok \in BOOLEAN, BindSyncReturns(ok) \/ ConnectReturns(ok)
      PROVE  Finite' /\ CountInv'
  <2>1. request = NoRequest /\ request' = NoRequest
    BY <1>1, <1>4, UsedNotPoll DEF BindSyncReturns, ConnectReturns
  <2>2. \/ UNCHANGED <<bound, connected, endpoints, miscounted>>
        \/ /\ endpoints' = endpoints + 1 /\ miscounted' = miscounted + 1
           /\ UNCHANGED <<bound, connected>>
        \/ /\ endpoints' = endpoints + 1 /\ miscounted' = miscounted
           /\ \/ call.addr \notin bound /\ bound' = bound \cup {call.addr} /\ connected' = connected
              \/ /\ call.addr \notin connected /\ connected' = connected \cup {call.addr}
                 /\ bound' = bound
    <3>1. CASE BindSyncReturns(ok)
      BY <3>1 DEF BindSyncReturns, Added, countVars
    <3>2. CASE ConnectReturns(ok)
      <4>1. CASE ~ok
        BY <3>2, <4>1 DEF ConnectReturns, countVars
      <4>2. CASE ok /\ call.addr \in connected
        <5>1. connected' = connected /\ Repeated = 1
          BY <3>2, <4>2 DEF ConnectReturns, Repeated
        <5>2. QED
          BY <3>2, <4>2, <5>1 DEF ConnectReturns, Added
      <4>3. CASE ok /\ call.addr \notin connected
        <5>1. miscounted' = miscounted
          BY <1>1, <3>2, <4>3 DEF ConnectReturns, Repeated, TypeOK
        <5>2. QED
          BY <3>2, <4>3, <5>1 DEF ConnectReturns, Added
      <4>4. QED
        BY <4>1, <4>2, <4>3
    <3>3. QED
      BY <1>4, <3>1, <3>2
  <2>3. QED
    BY <2>1, <2>2, CountChanged
<1>5. CASE UnbindSyncReturns \/ DisconnectReturns
  <2>1. request = NoRequest /\ request' = NoRequest /\ miscounted' = miscounted
    BY <1>1, <1>5, UsedNotPoll DEF UnbindSyncReturns, DisconnectReturns
  <2>2. \/ UNCHANGED <<bound, connected, endpoints>>
        \/ /\ endpoints' = endpoints - 1
           /\ \/ call.addr \in bound /\ bound' = bound \ {call.addr} /\ connected' = connected
              \/ /\ call.addr \in connected /\ connected' = connected \ {call.addr}
                 /\ bound' = bound
    <3>1. CASE UnbindSyncReturns
      BY <3>1 DEF UnbindSyncReturns, Removed, countVars
    <3>2. CASE DisconnectReturns
      BY <3>2 DEF DisconnectReturns, Removed, countVars
    <3>3. QED
      BY <1>5, <3>1, <3>2
  <2>3. QED
    BY <2>1, <2>2, CountChanged
<1>6. CASE SockOptStarts \/ UnmonitorStarts \/ SockOptReturns \/ PollStarts \/ PollReturns
           \/ Attach \/ Detach \/ HandleClosed \/ Drop \/ UNCHANGED vars
  <2>1. UNCHANGED <<bound, connected, endpoints, miscounted, request>>
    BY <1>6 DEF SockOptStarts, UnmonitorStarts, SockOptReturns, PollStarts, PollReturns, Attach, Detach,
                HandleClosed, Drop, vars, zmqVars, countVars
  <2>2. QED
    BY <1>1, <2>1, CountKept
<1>7. ASSUME CloseSocket, request = NoRequest, call = NoCall, UNCHANGED <<request, call>>
      PROVE  Finite' /\ CountInv'
  <2>1. /\ bound' = {} /\ connected' = {} /\ endpoints' = 0 /\ miscounted' = 0 /\ Due' = 0
    BY <1>7 DEF CloseSocket, Due, Answered
  <2>2. QED
    BY <1>7, <2>1, FS_EmptySet DEF Finite, CountInv, EndpointsExact
<1>8. CASE Close \/ Collect
  <2>1. /\ request = NoRequest /\ call = NoCall /\ UNCHANGED <<request, call>>
        /\ CloseSocket \/ UNCHANGED <<bound, connected, endpoints, miscounted>>
    BY <1>1, <1>8 DEF Close, Collect, GetSocket, InUseIsOpen, zmqVars, countVars
  <2>2. QED
    BY <1>1, <1>7, <2>1, CountKept
<1>9. CASE WorkerEnters
  BY <1>1, <1>9 DEF WorkerEnters, Finite, CountInv, EndpointsExact, Due, Answered, zmqVars, countVars
<1>10. CASE WorkerSucceeds \/ WorkerFails
  <2>2. /\ request # NoRequest /\ request \in Request /\ request.phase = "inside"
        /\ UNCHANGED <<connected, endpoints, call>>
    BY <1>1, <1>10, OpFacts DEF WorkerSucceeds, WorkerFails, zmqVars, countVars
  <2>3. /\ request' # NoRequest /\ request'.phase \in {"done", "failed"}
        /\ request'.op = request.op /\ request.op \in {"bind", "unbind"}
    BY <1>1, <1>10, WorkerLeft
  <2>4. Due = 0 /\ Due' = IF request.op = "bind" THEN 1 ELSE -1
    BY <2>2, <2>3 DEF Due, Answered
  <2>5. /\ Finite' /\ Cardinality(bound) \in Nat /\ Cardinality(connected) \in Nat
        /\ Cardinality(bound') + miscounted' =
             Cardinality(bound) + miscounted + (IF request.op = "bind" THEN 1 ELSE -1)
    <3>1. /\ Cardinality(bound) \in Nat /\ Cardinality(connected) \in Nat
          /\ miscounted \in Int /\ miscounted' \in Int
          /\ IsFiniteSet(bound \cup {request.addr}) /\ IsFiniteSet(bound \ {request.addr})
          /\ request.addr \notin bound =>
               Cardinality(bound \cup {request.addr}) = Cardinality(bound) + 1
          /\ request.addr \in bound =>
               Cardinality(bound \ {request.addr}) = Cardinality(bound) - 1
      <4>1. miscounted \in Int
        BY <1>1 DEF TypeOK
      <4>2. miscounted' \in Int
        BY <1>1, <1>10, <4>1, WorkerLeft
      <4>3. QED
        BY <1>1, <4>1, <4>2, Cards
    <3>2. Finite'
      BY <1>1, <1>10, <2>2, <3>1, WorkerLeft DEF Finite
    <3>3. CASE request.op = "bind"
      <4>1. \/ /\ request.addr \notin bound
               /\ bound' = bound \cup {request.addr} /\ miscounted' = miscounted
            \/ bound' = bound /\ miscounted' = miscounted + 1
        BY <1>1, <1>10, <3>3, WorkerLeft
      <4>2. QED
        BY <3>1, <3>2, <3>3, <4>1
    <3>4. CASE request.op = "unbind"
      <4>1. \/ /\ request.addr \in bound
               /\ bound' = bound \ {request.addr} /\ miscounted' = miscounted
            \/ bound' = bound /\ miscounted' = miscounted - 1
        BY <1>1, <1>10, <3>4, WorkerLeft
      <4>2. Cardinality(bound') + miscounted' = Cardinality(bound) + miscounted + (-1)
        BY <3>1, <4>1
      <4>3. QED
        BY <3>1, <3>2, <3>4, <4>2
    <3>5. QED
      BY <2>3, <3>3, <3>4
  <2>6. EndpointsExact'
    <3>1. /\ endpoints + Due = Cardinality(bound) + Cardinality(connected) + miscounted
          /\ endpoints \in Int /\ miscounted \in Int /\ miscounted' \in Int
          /\ Cardinality(bound') \in Nat
      BY <1>1, <1>10, <2>5, WorkerLeft, FS_CardinalityType DEF CountInv, EndpointsExact, TypeOK, Finite
    <3>2. endpoints' = endpoints /\ connected' = connected
      BY <2>2
    <3>3. endpoints' + Due' = Cardinality(bound') + Cardinality(connected') + miscounted'
      BY <2>4, <2>5, <3>1, <3>2
    <3>4. QED
      BY <3>3 DEF EndpointsExact
  <2>7. QED
    BY <1>1, <2>2, <2>5, <2>6 DEF CountInv
<1>11. CASE AfterBind \/ AfterUnbind
  <2>1. /\ request # NoRequest /\ request \in Request /\ Answered
        /\ request' = NoRequest
        /\ UNCHANGED <<bound, connected, miscounted, call>>
        /\ endpoints' = IF request.op = "bind" THEN endpoints + 1 ELSE endpoints - 1
    BY <1>1, <1>11, OpFacts DEF AfterBind, AfterUnbind, Answered, Added, Removed, zmqVars
  <2>2. Due' = 0 /\ Due = IF request.op = "bind" THEN 1 ELSE -1
    BY <2>1 DEF Due, Answered
  <2>3. /\ endpoints \in Int
        /\ endpoints + Due = Cardinality(bound) + Cardinality(connected) + miscounted
    BY <1>1 DEF TypeOK, CountInv, EndpointsExact
  <2>4. EndpointsExact'
    BY <2>1, <2>2, <2>3 DEF EndpointsExact
  <2>5. QED
    BY <1>1, <2>1, <2>4 DEF Finite, CountInv
<1>12. QED
  BY <1>2, <1>3, <1>4, <1>5, <1>6, <1>8, <1>9, <1>10, <1>11
     DEF Next, AppCall, Returns, Worker, AfterWork

(* The count differs from the truth by the requests that failed, for any   *)
(* number of addresses, calls and failures.                                *)
THEOREM CountedInvariant == Spec => []CountedInv
<1>1. Init => CountedInv
  BY LifecycleInit, CountInit DEF CountedInv
<1>2. CountedInv /\ [Next]_vars => CountedInv'
  <2> SUFFICES ASSUME CountedInv, [Next]_vars PROVE CountedInv'
    OBVIOUS
  <2>1. LifecycleInv'
    BY LifecycleNext DEF CountedInv
  <2>2. Finite' /\ CountInv'
    BY CountNext
  <2>3. QED
    BY <2>1, <2>2 DEF CountedInv
<1>3. QED
  BY <1>1, <1>2, PTL DEF Spec

(* The error of the count of endpoints: see EndpointsExact.                *)
THEOREM CountExact == Spec => []EndpointsExact
<1>1. CountedInv => EndpointsExact
  BY DEF CountedInv, CountInv
<1>2. QED
  BY <1>1, CountedInvariant, PTL

(* A socket that has an address has been counted, if unbinds did not fail  *)
(* more often than binds.                                                  *)
LEMMA LiveCounted ==
  ASSUME CountedInv, Due = 0, Live, miscounted >= 0
  PROVE  endpoints > 0
<1>1. /\ endpoints \in Int /\ miscounted \in Int
      /\ endpoints + 0 = Cardinality(bound) + Cardinality(connected) + miscounted
  BY DEF CountedInv, LifecycleInv, TypeOK, CountInv, EndpointsExact
<1>2. /\ Cardinality(bound) \in Nat /\ Cardinality(connected) \in Nat
      /\ Cardinality(bound) # 0 \/ Cardinality(connected) # 0
  BY Cards, FS_EmptySet DEF CountedInv, Finite, Live
<1>3. QED
  BY <1>1, <1>2

(* A live socket is collected only after more unbinds than binds failed:   *)
(* see CollectedByMiscount.  The collector needs refs = 0, so RefsMatch    *)
(* says that no endpoint is counted.                                       *)
THEOREM LiveKept == Spec => CollectedByMiscount
<1>1. CountedInv /\ [Next]_vars => [alive /\ ~alive' /\ Live => miscounted < 0]_vars
  <2> SUFFICES ASSUME CountedInv, [Next]_vars, alive, ~alive', Live
               PROVE  miscounted < 0
    OBVIOUS
  <2>1. Collect
    <3>1. \/ Collect
          \/ UNCHANGED alive
      BY DEF Next, AppCall, Returns, Worker, AfterWork, vars, CallStarts, StartRequest, SockOptStarts,
             UnmonitorStarts, Attach, Detach, Close, BindSyncReturns, ConnectReturns, UnbindSyncReturns,
             DisconnectReturns, SockOptReturns, PollReturns, WorkerEnters, WorkerSucceeds, WorkerFails, AfterBind,
             AfterUnbind, PollStarts, HandleClosed, Drop
    <3>2. QED
      BY <3>1
  <2>2. refs = 0 /\ Due = 0
    BY <2>1 DEF Collect, Due, Answered
  <2>3. endpoints \in Int /\ miscounted \in Int /\ ~(endpoints > 0)
    BY <2>2 DEF CountedInv, LifecycleInv, TypeOK, RefsMatch
  <2>4. QED
    BY <2>2, <2>3, LiveCounted
<1>2. QED
  BY <1>1, CountedInvariant, PTL DEF Spec, CollectedByMiscount

-----------------------------------------------------------------------------
(* What is counted keeps the event loop running.                           *)
AttachedInv == endpoints > 0 /\ ~detached => attached

LEMMA AttachedNext ==
  ASSUME TypeOK, AttachedInv, [Next]_vars
  PROVE  AttachedInv'
<1>1. CASE UNCHANGED <<endpoints, attached, detached>>
  BY <1>1 DEF AttachedInv
<1>2. CASE Added
  <2>1. endpoints \in Int /\ endpoints' = endpoints + 1
    BY <1>2 DEF TypeOK, Added
  <2>2. CASE endpoints = 0
    BY <1>2, <2>2 DEF Added, AttachedInv
  <2>3. CASE endpoints # 0
    <3>1. UNCHANGED <<attached, detached>>
      BY <1>2, <2>3 DEF Added
    <3>2. endpoints' > 0 => endpoints > 0
      BY <2>1, <2>3
    <3>3. QED
      BY <3>1, <3>2 DEF AttachedInv
  <2>4. QED
    BY <2>2, <2>3
<1>3. CASE Removed
  <2>1. endpoints \in Int /\ endpoints' = endpoints - 1 /\ detached' = detached
    BY <1>3 DEF TypeOK, Removed
  <2>2. endpoints' > 0 => endpoints > 0 /\ attached' = attached
    BY <1>3, <2>1 DEF Removed
  <2>3. QED
    BY <2>1, <2>2 DEF AttachedInv
<1>4. CASE CloseSocket
  <2>1. ~(endpoints' > 0)
    BY <1>4 DEF CloseSocket
  <2>2. QED
    BY <2>1 DEF AttachedInv
<1>5. CASE Attach \/ Detach
  BY <1>5 DEF Attach, Detach, AttachedInv
<1>6. \/ UNCHANGED <<endpoints, attached, detached>>
      \/ Added \/ Removed \/ CloseSocket \/ Attach \/ Detach
  BY DEF Next, AppCall, Returns, Worker, AfterWork, vars, countVars, CallStarts, StartRequest,
         SockOptStarts, UnmonitorStarts, Close, BindSyncReturns, ConnectReturns, UnbindSyncReturns, DisconnectReturns,
         SockOptReturns, PollReturns, WorkerEnters, WorkerSucceeds, WorkerFails, AfterBind, AfterUnbind, PollStarts,
         HandleClosed, Drop, Collect
<1>7. QED
  BY <1>1, <1>2, <1>3, <1>4, <1>5, <1>6

(* A live socket keeps the process running: see LiveAttached.              *)
THEOREM LiveKeepsRunning == Spec => []LiveAttached
<1>1. Init => AttachedInv
  BY DEF Init, AttachedInv
<1>2. CountedInv /\ AttachedInv /\ [Next]_vars => AttachedInv'
  BY AttachedNext DEF CountedInv, LifecycleInv
<1>3. CountedInv /\ AttachedInv => LiveAttached
  <2> SUFFICES ASSUME CountedInv, AttachedInv, Quiet, Live, ~detached, miscounted >= 0
               PROVE  attached
    BY DEF LiveAttached
  <2>1. Due = 0
    BY DEF Quiet, Due, Answered
  <2>2. endpoints > 0
    BY <2>1, LiveCounted
  <2>3. QED
    BY <2>2 DEF AttachedInv
<1>4. QED
  BY <1>1, <1>2, <1>3, CountedInvariant, PTL DEF Spec
=============================================================================
