------------------------------- MODULE Monitor -------------------------------
(***************************************************************************)
(* The monitor of a socket: libzmq publishes what happens to the socket to *)
(* a pair socket inside the process; a timer of libuv reads it, a few      *)
(* events at a time, and calls listeners.  They may stop the monitor, start*)
(* it anew or close the socket while the loop that calls them goes on.     *)
(*                                                                         *)
(* A monitor's pair socket and timer have one number, that of the call of  *)
(* monitor that has created them; there is a timer even if libzmq had no   *)
(* pair socket to give.  The application keeps the socket from the garbage *)
(* collector as long as a timer of it may go off.                          *)
(***************************************************************************)
EXTENDS Integers, Sequences

CONSTANTS
  Limits,            \* values of numOfEvents; 0 is no limit
  MaxEvents,         \* bound: events
  MaxCalls,          \* bound: calls of monitor and unmonitor
  MayFail            \* may zmq_poll, zmq_socket and zmq_socket_monitor fail?

ASSUME MonitorAssumption ==
  Limits \subseteq Nat /\ MaxEvents \in Nat /\ MaxCalls \in Nat /\ MayFail \in BOOLEAN

VARIABLES
  (* libzmq *)
  waiting,           \* for every monitor: how many events wait in its pair socket
  publisher,         \* the one that the socket publishes to, or null
  closed,            \* those that have been closed
  published,         \* counts the events, for the bound
  (* the native Socket *)
  state,             \* state_: "ready" or "closed"
  monitor,           \* monitor_socket_, or null
  handle,            \* monitor_handle_, or null
  limit,             \* num_of_events_
  (* libuv *)
  timers,            \* the timers that are running
  (* UV_MonitorCallback *)
  pc,                \* where it is: "idle", "loop", "listener" or "errorListener"
  item,              \* the pair socket it polls, or null
  ittr,              \* the events it has read
  (* the application, and history *)
  budget,            \* calls of monitor and unmonitor left
  lost,              \* monitors that monitor has replaced by another
  unpaired,          \* monitors whose pair socket could not be created
  causes             \* of errors, since a timer went off: zmq_poll has failed for
                     \* an open pair socket ("fault"), a listener has called
                     \* monitor or unmonitor ("meddled")

zmqVars == <<waiting, publisher, closed, published>>
loopVars == <<pc, item, ittr>>
monitorVars == <<monitor, handle, limit, lost, unpaired>>
vars == <<zmqVars, state, monitorVars, timers, loopVars, budget, causes>>

null == 0
Some(m) == {m} \ {null}

-----------------------------------------------------------------------------
(* Methods: the application's main code or a listener runs.                *)
InApp == pc \in {"idle", "listener", "errorListener"}
Counted == budget > 0 /\ budget' = budget - 1
Meddles == causes' = IF pc = "listener" THEN causes \cup {"meddled"} ELSE causes

(* Socket::Monitor.  Nothing keeps it from being called twice, and nothing *)
(* looks at whether there is a pair socket.                                *)
Start(n, paired) ==
  /\ InApp /\ state = "ready" /\ Counted
  /\ paired \/ MayFail
  /\ waiting' = Append(waiting, 0)
  /\ publisher' = Len(waiting')
  /\ handle' = Len(waiting')
  /\ monitor' = IF paired THEN handle' ELSE null
  /\ unpaired' = IF paired THEN unpaired ELSE unpaired \cup {handle'}
  /\ limit' = n
  /\ timers' = timers \cup {handle'}
  /\ lost' = lost \cup Some(monitor) \cup Some(handle)
  /\ Meddles
  /\ UNCHANGED <<closed, published, state, loopVars>>

(* zmq_socket_monitor fails: monitor() returns without a word.  libzmq may *)
(* have ended the publishing to the last monitor before it failed.         *)
StartFails ==
  /\ InApp /\ state = "ready" /\ Counted
  /\ MayFail
  /\ publisher' \in {publisher, null}
  /\ UNCHANGED <<waiting, closed, published, state, monitorVars, timers, loopVars, causes>>

(* Mistake: the timer goes on.                                             *)
StopTimerRuns ==
  /\ IF monitor = null
       THEN UNCHANGED <<publisher, closed, monitor, handle>>
       ELSE /\ publisher' = null
            /\ closed' = closed \cup {monitor}
            /\ monitor' = null /\ handle' = null
  /\ UNCHANGED <<timers, limit, lost, unpaired>>

(* Socket::Unmonitor: nothing is done without a pair socket.               *)
Stop ==
  /\ IF monitor = null
       THEN UNCHANGED <<publisher, closed, timers, monitor, handle>>
       ELSE /\ publisher' = null
            /\ closed' = closed \cup {monitor}
            /\ timers' = timers \ {handle}
            /\ monitor' = null /\ handle' = null
  /\ UNCHANGED <<limit, lost, unpaired>>

(* unmonitor(), also of a closed socket.                                   *)
Unmonitor ==
  /\ InApp /\ Counted
  /\ Stop
  /\ Meddles
  /\ UNCHANGED <<waiting, published, state, loopVars>>

(* close() leaves the monitor to the application.                          *)
Close ==
  /\ InApp /\ state = "ready"
  /\ state' = "closed"
  /\ publisher' = null
  /\ UNCHANGED <<waiting, closed, published, monitorVars, timers, loopVars, budget, causes>>

(* Something happens to the socket, and a pair socket gets the event.      *)
Publish ==
  /\ publisher # null /\ publisher \notin unpaired
  /\ published < MaxEvents
  /\ waiting' = [waiting EXCEPT ![publisher] = @ + 1]
  /\ published' = published + 1
  /\ UNCHANGED <<publisher, closed, state, monitorVars, timers, loopVars, budget, causes>>

-----------------------------------------------------------------------------
(* UV_MonitorCallback.                                                     *)

(* Mistake: the pair socket of the last time is polled.                    *)
FireKeepsItem(t) ==
  /\ pc = "idle" /\ t \in timers
  /\ timers' = timers \ {t}
  /\ IF state = "closed"
       THEN UNCHANGED loopVars
       ELSE pc' = "loop" /\ item' = (IF item = null THEN monitor ELSE item) /\ ittr' = 0
  /\ causes' = {}
  /\ UNCHANGED <<zmqVars, state, monitorVars, budget>>

(* A timer goes off.                                                       *)
Fire(t) ==
  /\ pc = "idle" /\ t \in timers
  /\ timers' = timers \ {t}
  /\ IF state = "closed"
       THEN UNCHANGED loopVars
       ELSE pc' = "loop" /\ item' = monitor /\ ittr' = 0
  /\ causes' = {}
  /\ UNCHANGED <<zmqVars, state, monitorVars, budget>>

MayRead == limit = 0 \/ ittr < limit

(* What zmq_poll may find: TRUE is anything but 0, its failures included.  *)
(* It fails for a closed socket.  For null it polls a file descriptor that *)
(* has not been set.                                                       *)
Polled ==
  IF item = null THEN BOOLEAN
  ELSE IF item \in closed \/ waiting[item] > 0 THEN {TRUE}
  ELSE IF MayFail THEN BOOLEAN ELSE {FALSE}

Readable == monitor # null /\ waiting[monitor] > 0

(* Mistake: takes what zmq_poll returns for an event.                      *)
ReadUnchecked ==
  /\ pc = "loop" /\ MayRead /\ TRUE \in Polled /\ monitor # null
  /\ waiting' = [waiting EXCEPT ![monitor] = @ - 1]
  /\ ittr' = IF limit = 0 THEN ittr ELSE ittr + 1
  /\ pc' = "listener"
  /\ UNCHANGED <<publisher, closed, published, state, monitorVars, timers, item, budget, causes>>

(* zmq_recvmsg and MonitorEvent.  It is item that has been polled.         *)
ReadEvent ==
  /\ pc = "loop" /\ MayRead /\ TRUE \in Polled /\ Readable
  /\ waiting' = [waiting EXCEPT ![monitor] = @ - 1]
  /\ ittr' = IF limit = 0 THEN ittr ELSE ittr + 1
  /\ pc' = "listener"
  /\ UNCHANGED <<publisher, closed, published, state, monitorVars, timers, item, budget, causes>>

(* zmq_recvmsg has nothing to read: the monitor is stopped, MonitorError.  *)
ReadFails ==
  /\ pc = "loop" /\ MayRead /\ TRUE \in Polled /\ ~Readable
  /\ Stop
  /\ causes' = IF item # null /\ item \notin closed /\ waiting[item] = 0
                 THEN causes \cup {"fault"} ELSE causes
  /\ pc' = "errorListener"
  /\ UNCHANGED <<waiting, published, state, item, ittr, budget>>

(* Mistake: the timer is only started again when an event has been read.   *)
LoopEndsIfRead ==
  /\ pc = "loop"
  /\ ~MayRead \/ FALSE \in Polled
  /\ timers' = IF ittr > 0 THEN timers \cup Some(handle) ELSE timers
  /\ pc' = "idle"
  /\ UNCHANGED <<zmqVars, state, monitorVars, item, ittr, budget, causes>>

LoopEnds ==
  /\ pc = "loop"
  /\ ~MayRead \/ FALSE \in Polled
  /\ timers' = timers \cup Some(handle)
  /\ pc' = "idle"
  /\ UNCHANGED <<zmqVars, state, monitorVars, item, ittr, budget, causes>>

(* A listener returns.                                                     *)
Return ==
  /\ \/ pc = "listener" /\ pc' = "loop"
     \/ pc = "errorListener" /\ pc' = "idle"
  /\ UNCHANGED <<zmqVars, state, monitorVars, timers, item, ittr, budget, causes>>

-----------------------------------------------------------------------------
Init ==
  /\ waiting = <<>> /\ publisher = null /\ closed = {} /\ published = 0
  /\ state = "ready" /\ monitor = null /\ handle = null /\ limit = 0
  /\ timers = {}
  /\ pc = "idle" /\ item = null /\ ittr = 0
  /\ budget = MaxCalls /\ lost = {} /\ unpaired = {} /\ causes = {}

Timer == \E t \in timers : Fire(t)
Loop == ReadEvent \/ ReadFails \/ LoopEnds \/ Return

Next ==
  \/ \E n \in Limits, paired \in BOOLEAN : Start(n, paired)
  \/ StartFails
  \/ Unmonitor \/ Close
  \/ Publish
  \/ Timer \/ Loop

Spec == Init /\ [][Next]_vars

(* libuv's timers go off, the callback and the listeners return.           *)
FairSpec == Spec /\ WF_vars(Timer) /\ WF_vars(Loop)

-----------------------------------------------------------------------------
(* The value of every variable.                                            *)
TypeOK ==
  /\ waiting \in Seq(Nat) /\ published \in Nat /\ budget \in Nat /\ ittr \in Nat /\ limit \in Nat
  /\ {publisher, monitor, handle, item} \subseteq 0 .. Len(waiting)
  /\ closed \subseteq 1 .. Len(waiting) /\ timers \subseteq 1 .. Len(waiting)
  /\ lost \subseteq 1 .. Len(waiting) /\ unpaired \subseteq 1 .. Len(waiting)
  /\ state \in {"ready", "closed"}
  /\ pc \in {"idle", "loop", "listener", "errorListener"}
  /\ causes \subseteq {"fault", "meddled"}

(* Whatever listeners do, a monitor that was asked for has its timer, or   *)
(* the callback runs and will start it.                                    *)
TimerRuns ==
  monitor # null /\ state = "ready" => monitor \in timers \/ pc \in {"loop", "listener"}

(* Nothing is left of a monitor that has been stopped: no pair socket that *)
(* would keep the context from terminating, no timer, and libzmq publishes *)
(* to the present monitor only.  Left are the pair socket and the timer of *)
(* a monitor that a second call of monitor has replaced, and the timer and *)
(* the publisher of one for which libzmq had no pair socket, because       *)
(* unmonitor() takes it for not started: of no other.                      *)
NothingLeft ==
  /\ \A m \in DOMAIN waiting : m \in closed \cup Some(monitor) \cup lost \cup unpaired
  /\ timers \subseteq Some(monitor) \cup lost \cup unpaired
  /\ publisher # null => publisher = monitor \/ publisher \in unpaired
  /\ monitor \notin closed

(* monitor_error is raised when there was an error in the monitoring, or   *)
(* a listener that the loop has called stopped or replaced the monitor, or *)
(* the timer's callback found no pair socket, since the timer belonged to  *)
(* a replaced monitor or libzmq had none to give: for nothing else.        *)
ErrorExplained ==
  pc = "errorListener" => causes # {} \/ (item = null /\ lost \cup unpaired # {})

(* What happens to the socket is told to the listeners.                    *)
EventsRead ==
  \A m \in 1 .. MaxCalls :
    monitor = m /\ state = "ready" /\ waiting[m] > 0
      ~> monitor # m \/ state = "closed" \/ waiting[m] = 0
=============================================================================
