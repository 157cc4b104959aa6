----------------------------- MODULE MonitorProofs -----------------------------
(***************************************************************************)
(* Proofs about Monitor.  The types, that a monitor has its timer and that *)
(* nothing is left of a stopped one are together inductive.                *)
(***************************************************************************)
EXTENDS Monitor, TLAPS

(* The loop polls the present monitor unless a listener has changed it.    *)
(* It polls none for a timer that was left.                                *)
ItemExplained ==
  pc \in {"loop", "listener"} =>
    /\ item = monitor \/ causes # {} \/ item = null
    /\ item = null => lost \cup unpaired # {}

(* A pair socket comes with its timer; a timer may be without one.         *)
Paired ==
  /\ monitor # null => handle = monitor
  /\ handle # null => handle = monitor \/ handle \in unpaired

IInv == TypeOK /\ TimerRuns /\ NothingLeft /\ ItemExplained /\ ErrorExplained /\ Paired

(* A new pair socket is numbered by the call and starts with no event; one *)
(* event more or less leaves the number of sockets alone.                  *)
LEMMA Appended ==
  ASSUME NEW s \in Seq(Nat)
  PROVE  /\ Append(s, 0) \in Seq(Nat)
         /\ Len(Append(s, 0)) = Len(s) + 1
         /\ Len(s) \in Nat
         /\ DOMAIN Append(s, 0) = 1 .. (Len(s) + 1)
         /\ DOMAIN s = 1 .. Len(s)
  OBVIOUS

LEMMA Replaced ==
  ASSUME NEW s \in Seq(Nat), NEW m \in 1 .. Len(s), NEW k \in Nat
  PROVE  LET r == [s EXCEPT ![m] = k]
         IN  r \in Seq(Nat) /\ Len(r) = Len(s) /\ DOMAIN r = DOMAIN s
  OBVIOUS

LEMMA SomeInRange ==
  ASSUME NEW n \in Nat, NEW m \in 0 .. n
  PROVE  Some(m) \subseteq 1 .. n
  BY DEF Some, null

LEMMA InitIInv == Init => IInv
  <1> SUFFICES ASSUME Init  PROVE IInv
    OBVIOUS
  <1>1. waiting \in Seq(Nat) /\ DOMAIN waiting = {} /\ Len(waiting) = 0
    BY DEF Init
  <1>2. TypeOK
    <2>1. {publisher, monitor, handle, item} \subseteq 0 .. Len(waiting)
      BY <1>1 DEF Init, null
    <2>2. published \in Nat /\ budget \in Nat /\ ittr \in Nat /\ limit \in Nat
      BY MonitorAssumption DEF Init, MonitorAssumption
    <2>3. closed = {} /\ timers = {} /\ lost = {} /\ unpaired = {}
      BY DEF Init
    <2>. QED  BY <1>1, <2>1, <2>2, <2>3 DEF Init, TypeOK
  <1>3. TimerRuns /\ NothingLeft /\ ItemExplained /\ ErrorExplained /\ Paired
    BY <1>1 DEF Init, TimerRuns, NothingLeft, ItemExplained, ErrorExplained, Paired, null
  <1>. QED  BY <1>2, <1>3 DEF IInv

(* monitor() keeps the invariant: the monitor that it replaces is lost.    *)
LEMMA StartKeeps ==
  ASSUME IInv, NEW n \in Limits, NEW paired \in BOOLEAN, Start(n, paired)
  PROVE  IInv'
  <1> DEFINE new == Len(waiting) + 1
  <1>1. /\ waiting' \in Seq(Nat) /\ Len(waiting') = new /\ Len(waiting) \in Nat
        /\ DOMAIN waiting' = 1 .. new /\ DOMAIN waiting = 1 .. Len(waiting)
    BY Appended DEF IInv, TypeOK, Start
  <1>2. /\ publisher' = new /\ handle' = new /\ timers' = timers \cup {new}
        /\ monitor' = (IF paired THEN new ELSE null)
        /\ unpaired' = (IF paired THEN unpaired ELSE unpaired \cup {new})
        /\ lost' = lost \cup (Some(monitor)) \cup (Some(handle)) /\ limit' = n
        /\ UNCHANGED <<closed, published, state, pc, item, ittr>>
    BY <1>1 DEF Start, loopVars
  <1>3. budget' \in Nat /\ n \in Nat
    BY MonitorAssumption DEF IInv, TypeOK, Start, Counted, MonitorAssumption
  <1>4. TypeOK'
    <2>1. Some(monitor) \subseteq 1 .. Len(waiting) /\ Some(handle) \subseteq 1 .. Len(waiting)
      BY <1>1, SomeInRange DEF IInv, TypeOK
    <2>2. 1 .. Len(waiting) \subseteq 1 .. new /\ new \in 1 .. new
      BY <1>1
    <2>3. /\ closed \subseteq 1 .. Len(waiting) /\ timers \subseteq 1 .. Len(waiting)
          /\ lost \subseteq 1 .. Len(waiting) /\ unpaired \subseteq 1 .. Len(waiting)
      BY DEF IInv, TypeOK
    <2>4. /\ lost' \subseteq 1 .. new /\ closed' \subseteq 1 .. new /\ timers' \subseteq 1 .. new
          /\ unpaired' \subseteq 1 .. new
      <3> HIDE DEF new
      <3>. QED  BY <1>2, <2>1, <2>2, <2>3
    <2>5. {publisher', monitor', handle', item'} \subseteq 0 .. new
      BY <1>1, <1>2 DEF IInv, TypeOK, null
    <2>6. waiting' \in Seq(Nat) /\ published' \in Nat /\ ittr' \in Nat /\ limit' \in Nat
      BY <1>1, <1>2, <1>3 DEF IInv, TypeOK, Start
    <2>7. causes' \subseteq {"fault", "meddled"}
      BY DEF Start, Meddles, IInv, TypeOK
    <2>. QED  BY <1>1, <1>2, <1>3, <2>4, <2>5, <2>6, <2>7 DEF IInv, TypeOK
  <1>5. TimerRuns' /\ Paired'
    BY <1>2 DEF TimerRuns, Paired
  <1>6. NothingLeft'
    <2>1. \A m \in DOMAIN waiting' : m \in (closed \cup Some(monitor) \cup lost \cup unpaired)'
      BY <1>1, <1>2 DEF IInv, TypeOK, NothingLeft, Some, null
    <2>2. (timers \subseteq Some(monitor) \cup lost \cup unpaired)'
      BY <1>1, <1>2 DEF IInv, NothingLeft, Some, null
    <2>3. (publisher # null => publisher = monitor \/ publisher \in unpaired)'
      BY <1>2
    <2>4. (monitor \notin closed)'
      BY <1>1, <1>2 DEF IInv, TypeOK, null
    <2>. QED  BY <2>1, <2>2, <2>3, <2>4 DEF NothingLeft
  <1>7. ItemExplained' /\ ErrorExplained'
    BY <1>2 DEF IInv, Start, Meddles, ItemExplained, ErrorExplained, InApp
  <1>. QED  BY <1>4, <1>5, <1>6, <1>7 DEF IInv

(* What Unmonitor and a failed read share: the monitor is stopped, if there*)
(* is a pair socket.                                                       *)
LEMMA StopKeeps ==
  ASSUME IInv, Stop, UNCHANGED <<waiting, state>>
  PROVE  /\ monitor' = null /\ {publisher', handle'} \subseteq 0 .. Len(waiting)
         /\ closed' \subseteq 1 .. Len(waiting) /\ timers' \subseteq 1 .. Len(waiting)
         /\ NothingLeft' /\ Paired' /\ TimerRuns'
         /\ UNCHANGED <<limit, lost, unpaired>>
  <1>1. UNCHANGED <<limit, lost, unpaired>>
    BY DEF Stop
  <1>2. CASE monitor = null
    <2>1. UNCHANGED <<waiting, publisher, closed, timers, monitor, handle, lost, unpaired>>
      BY <1>1, <1>2 DEF Stop
    <2>2. NothingLeft' /\ Paired'
      BY <2>1 DEF IInv, NothingLeft, Paired, Some
    <2>3. TimerRuns'
      BY <1>2, <2>1 DEF TimerRuns
    <2>4. /\ {publisher', handle'} \subseteq 0 .. Len(waiting)
          /\ closed' \subseteq 1 .. Len(waiting) /\ timers' \subseteq 1 .. Len(waiting)
      BY <2>1 DEF IInv, TypeOK
    <2>. QED  BY <1>1, <1>2, <2>1, <2>2, <2>3, <2>4
  <1>3. CASE monitor # null
    <2>1. /\ monitor' = null /\ handle' = null /\ publisher' = null
          /\ closed' = closed \cup {monitor} /\ timers' = timers \ {monitor}
          /\ monitor \in 1 .. Len(waiting)
      BY <1>3 DEF Stop, IInv, TypeOK, Paired, null
    <2>2. /\ closed' \subseteq 1 .. Len(waiting) /\ timers' \subseteq 1 .. Len(waiting)
          /\ {publisher', handle'} \subseteq 0 .. Len(waiting)
      BY <2>1 DEF IInv, TypeOK, null
    <2>3. NothingLeft'
      BY <1>1, <2>1, <2>2 DEF IInv, NothingLeft, Some, null
    <2>. QED  BY <1>1, <2>1, <2>2, <2>3 DEF Paired, TimerRuns
  <1>. QED  BY <1>2, <1>3

LEMMA NextIInv == IInv /\ [Next]_vars => IInv'
  <1> SUFFICES ASSUME IInv, [Next]_vars  PROVE IInv'
    OBVIOUS
  <1>1. ASSUME NEW n \in Limits, NEW paired \in BOOLEAN, Start(n, paired)  PROVE IInv'
    BY <1>1, StartKeeps
  <1>11. CASE StartFails
    <2>1. /\ publisher' \in {publisher, null} /\ budget' \in Nat
          /\ UNCHANGED <<waiting, closed, published, state, monitorVars, timers, pc, item, ittr, causes>>
      BY <1>11 DEF StartFails, Counted, loopVars, IInv, TypeOK
    <2>. QED  BY <2>1 DEF IInv, TypeOK, TimerRuns, NothingLeft, ItemExplained, ErrorExplained,
                          Paired, monitorVars, Some, null
  <1>2. CASE Unmonitor
    <2>1. Stop /\ budget' \in Nat
          /\ UNCHANGED <<waiting, published, state, pc, item, ittr>>
      BY <1>2 DEF Unmonitor, Counted, loopVars, IInv, TypeOK
    <2>2. causes' \subseteq {"fault", "meddled"} /\ ItemExplained' /\ ErrorExplained'
      BY <1>2, <2>1, StopKeeps
         DEF Unmonitor, Meddles, InApp, IInv, TypeOK, ItemExplained, ErrorExplained
    <2>3. /\ monitor' = null /\ {publisher', handle'} \subseteq 0 .. Len(waiting)
          /\ closed' \subseteq 1 .. Len(waiting) /\ timers' \subseteq 1 .. Len(waiting)
          /\ NothingLeft' /\ Paired' /\ TimerRuns'
          /\ UNCHANGED <<limit, lost, unpaired>>
      BY <2>1, StopKeeps
    <2>4. TypeOK'
      <3>1. {publisher', monitor', handle', item'} \subseteq 0 .. Len(waiting')
        BY <2>1, <2>3 DEF IInv, TypeOK, null
      <3>. QED  BY <2>1, <2>2, <2>3, <3>1 DEF IInv, TypeOK
    <2>. QED  BY <2>2, <2>3, <2>4 DEF IInv
  <1>3. CASE Close
    BY <1>3 DEF Close, loopVars, IInv, TypeOK, TimerRuns, NothingLeft, ItemExplained, ErrorExplained, Paired, monitorVars, Some, null
  <1>4. CASE Publish
    <2>1. publisher \in 1 .. Len(waiting) /\ waiting[publisher] \in Nat /\ published' \in Nat
      BY <1>4 DEF Publish, IInv, TypeOK, null
    <2>2. waiting' \in Seq(Nat) /\ Len(waiting') = Len(waiting) /\ DOMAIN waiting' = DOMAIN waiting
      BY <1>4, <2>1, Replaced DEF Publish, IInv, TypeOK
    <2>. QED  BY <1>4, <2>1, <2>2 DEF Publish, loopVars, IInv, TypeOK, TimerRuns, NothingLeft, ItemExplained, ErrorExplained, Paired, monitorVars, Some
  <1>5. ASSUME NEW t \in timers, Fire(t)  PROVE IInv'
    BY <1>5 DEF Fire, zmqVars, loopVars, IInv, TypeOK, TimerRuns, NothingLeft, ItemExplained, ErrorExplained, Paired, monitorVars, Some
  <1>6. CASE ReadEvent
    <2>1. monitor \in 1 .. Len(waiting) /\ waiting[monitor] - 1 \in Nat /\ ittr' \in Nat
      BY <1>6 DEF ReadEvent, Readable, IInv, TypeOK, null
    <2>2. waiting' \in Seq(Nat) /\ Len(waiting') = Len(waiting) /\ DOMAIN waiting' = DOMAIN waiting
      BY <1>6, <2>1, Replaced DEF ReadEvent, IInv, TypeOK
    <2>. QED  BY <1>6, <2>1, <2>2 DEF ReadEvent, IInv, TypeOK, TimerRuns, NothingLeft, ItemExplained, ErrorExplained, Paired, monitorVars, Some
  <1>7. CASE ReadFails
    <2>1. /\ Stop /\ causes' \subseteq {"fault", "meddled"} /\ pc' = "errorListener"
          /\ UNCHANGED <<waiting, published, state, item, ittr, budget, lost, unpaired>>
      BY <1>7 DEF ReadFails, Stop, IInv, TypeOK
    <2>2. ErrorExplained' /\ ItemExplained'
      <3>1. CASE item = monitor /\ item # null
        <4>1. item \notin closed /\ item \in 1 .. Len(waiting) /\ waiting[item] \in Nat
          BY <3>1 DEF IInv, NothingLeft, TypeOK, null
        <4>2. waiting[item] = 0
          BY <1>7, <3>1, <4>1 DEF ReadFails, Readable
        <4>. QED  BY <1>7, <3>1, <4>1, <4>2 DEF ReadFails, ErrorExplained, ItemExplained
      <3>2. CASE causes # {} \/ item = null
        <4>1. causes' # {} \/ (item' = null /\ lost' \cup unpaired' # {})
          BY <1>7, <2>1, <3>2 DEF ReadFails, IInv, ItemExplained
        <4>. QED  BY <2>1, <4>1 DEF ErrorExplained, ItemExplained
      <3>. QED  BY <1>7, <3>1, <3>2 DEF ReadFails, IInv, ItemExplained
    <2>3. /\ monitor' = null /\ {publisher', handle'} \subseteq 0 .. Len(waiting)
          /\ closed' \subseteq 1 .. Len(waiting) /\ timers' \subseteq 1 .. Len(waiting)
          /\ NothingLeft' /\ Paired' /\ TimerRuns'
          /\ UNCHANGED <<limit, lost, unpaired>>
      BY <2>1, StopKeeps
    <2>4. TypeOK'
      <3>1. {publisher', monitor', handle', item'} \subseteq 0 .. Len(waiting')
        BY <2>1, <2>3 DEF IInv, TypeOK, null
      <3>. QED  BY <2>1, <2>2, <2>3, <3>1 DEF IInv, TypeOK
    <2>. QED  BY <2>2, <2>3, <2>4 DEF IInv
  <1>8. CASE LoopEnds
    <2>1. /\ timers' = timers \cup Some(handle) /\ pc' = "idle"
          /\ UNCHANGED <<zmqVars, state, monitorVars, item, ittr, budget, causes>>
      BY <1>8 DEF LoopEnds
    <2>2. Len(waiting) \in Nat /\ Some(handle) \subseteq 1 .. Len(waiting)
      BY SomeInRange DEF IInv, TypeOK
    <2>3. TypeOK'
      BY <2>1, <2>2 DEF IInv, TypeOK, zmqVars, monitorVars
    <2>4. TimerRuns' /\ Paired'
      BY <2>1 DEF IInv, TimerRuns, Paired, monitorVars, Some
    <2>5. NothingLeft'
      BY <2>1 DEF IInv, NothingLeft, Paired, zmqVars, monitorVars, Some
    <2>6. ItemExplained' /\ ErrorExplained'
      BY <2>1 DEF ItemExplained, ErrorExplained
    <2>. QED  BY <2>3, <2>4, <2>5, <2>6 DEF IInv
  <1>9. CASE Return
    BY <1>9 DEF Return, zmqVars, IInv, TypeOK, TimerRuns, NothingLeft, ItemExplained, ErrorExplained, Paired, monitorVars, Some
  <1>10. CASE UNCHANGED vars
    BY <1>10 DEF vars, zmqVars, loopVars, IInv, TypeOK, TimerRuns, NothingLeft, ItemExplained, ErrorExplained, Paired, monitorVars, Some
  <1>. QED
    BY <1>1, <1>2, <1>3, <1>4, <1>5, <1>6, <1>7, <1>8, <1>9, <1>10, <1>11 DEF Next, Timer, Loop

(* The types, for any limits and number of calls and events.               *)
THEOREM TypeCorrect == Spec => []TypeOK
  <1>1. IInv => TypeOK
    BY DEF IInv
  <1>. QED  BY InitIInv, NextIInv, <1>1, PTL DEF Spec

(* A monitor that was asked for has its timer, or the callback that will   *)
(* start it is running (UV_MonitorCallback, Monitor, Unmonitor).           *)
THEOREM TimerKept == Spec => []TimerRuns
  <1>1. IInv => TimerRuns
    BY DEF IInv
  <1>. QED  BY InitIInv, NextIInv, <1>1, PTL DEF Spec

(* The loop reports an error only if zmq_poll failed, a listener meddled   *)
(* with the monitor, or a timer without a pair socket was left: see        *)
(* ErrorExplained.                                                         *)
THEOREM ErrorsExplained == Spec => []ErrorExplained
  <1>1. IInv => ErrorExplained
    BY DEF IInv
  <1>. QED  BY InitIInv, NextIInv, <1>1, PTL DEF Spec

(* unmonitor() closes the pair socket, stops the timer and the publishing, *)
(* whoever calls it and whenever, but for the two kinds of monitor that    *)
(* NothingLeft names.                                                      *)
THEOREM StopIsClean == Spec => []NothingLeft
  <1>1. IInv => NothingLeft
    BY DEF IInv
  <1>. QED  BY InitIInv, NextIInv, <1>1, PTL DEF Spec

(* Where libzmq's calls succeed and no second monitor() comes before the   *)
(* unmonitor(), nothing at all is left.                                    *)
THEOREM StoppedIsGone ==
  Spec => [](lost \cup unpaired = {} /\ monitor = null =>
               DOMAIN waiting \subseteq closed /\ timers = {} /\ publisher = null)
  <1>1. IInv => (lost \cup unpaired = {} /\ monitor = null =>
                   DOMAIN waiting \subseteq closed /\ timers = {} /\ publisher = null)
    BY DEF IInv, NothingLeft, Some
  <1>. QED  BY InitIInv, NextIInv, <1>1, PTL DEF Spec
=============================================================================
