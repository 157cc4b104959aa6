------------------------------- MODULE Context -------------------------------
(***************************************************************************)
(* Contexts of libzmq and who keeps them: the default context of           *)
(* lib/index.js, contexts that the program makes itself, and the handle    *)
(* that a native Socket has on its context (binding.cc).                   *)
(*                                                                         *)
(* zmq_term waits, in the main thread, until every socket of the context   *)
(* is gone.  The main thread that waits cannot close one any more, so it   *)
(* matters when the garbage collector may destroy a context.               *)
(***************************************************************************)
EXTENDS Integers, FiniteSets

CONSTANTS
  Contexts,          \* bound: the contexts that can be made, and
  Sockets,           \* the native sockets; numbered in the order they are made
  NoContext,
  DefaultMax,        \* ZMQ_MAX_SOCKETS of a new context
  Limits,            \* values given to setMaxSockets
  MaxMonitors        \* bound: monitors that can be started

ASSUME ContextAssumption ==
  /\ Contexts \subseteq Nat /\ Sockets \subseteq Nat /\ NoContext \notin Contexts
  /\ DefaultMax \in Nat \ {0} /\ Limits \subseteq Nat \ {0} /\ MaxMonitors \in Nat

(* The sockets of libzmq that a native socket may have: its own, and for   *)
(* the nth monitor one that libzmq publishes with and one to read.         *)
Own == <<"own", 0>>
Publisher(n) == <<"publisher", n>>
Reader(n) == <<"reader", n>>
Numbers == 1 .. MaxMonitors
Roles == {Own} \cup {Publisher(n) : n \in Numbers} \cup {Reader(n) : n \in Numbers}
null == 0

VARIABLES
  (* libzmq *)
  status,            \* of a context: "unused", "open", "terminating" or "terminated"
  maxSockets,        \* ZMQ_MAX_SOCKETS of a context, as its first socket finds it
  zsocket,           \* of every role of a socket: "none", "open", "lingering"
                     \* (closed, with messages unsent) or "reaping" (closed)
  publishing,        \* the monitor that libzmq publishes to, for each socket, or null
  (* binding.cc *)
  native,            \* a Socket: "unused", "failed", "open" or "closed"
  home,              \* the context it was given
  keeps,             \* the sockets whose context_ is set
  live,              \* the sockets that are bound or connected: Ref() was called
  reading,           \* monitor_socket_ of a socket: its monitor, or null
  monitors,          \* counts the monitors
  again,             \* history: the sockets whose monitor() was called when
                     \* there was a monitor
  (* lib/index.js and the program *)
  ctx,               \* the default context
  held, referenced,  \* contexts and sockets that the program can reach
  waiting,           \* the context for which the main thread is in zmq_term
  collected          \* history: was that call the garbage collector's?

zmqVars == <<status, maxSockets, zsocket>>
nativeVars == <<native, home, keeps, live>>
monitorVars == <<publishing, reading, monitors, again>>
programVars == <<ctx, held, referenced>>
termVars == <<waiting, collected>>
vars == <<zmqVars, nativeVars, monitorVars, programVars, termVars>>

Running == waiting = NoContext

(* What zmq_term waits for.                                                *)
Alive(c) == {p \in Sockets \X Roles : home[p[1]] = c /\ zsocket[p[1]][p[2]] # "none"}

(* May n more sockets be made?  A context that is still unused is being    *)
(* made in the same step.                                                  *)
HasSlots(c, n) ==
  /\ status[c] \in {"unused", "open"}
  /\ Cardinality(Alive(c)) + n <= maxSockets[c]

-----------------------------------------------------------------------------
(* Contexts.                                                               *)

MakeContext(c) ==
  /\ status[c] = "unused" /\ \A d \in Contexts : d < c => status[d] # "unused"
  /\ status' = [status EXCEPT ![c] = "open"]

(* new zmq.Context.                                                        *)
New(c) ==
  /\ Running
  /\ MakeContext(c)
  /\ held' = held \cup {c}
  /\ UNCHANGED <<maxSockets, zsocket, nativeVars, monitorVars, ctx, referenced, termVars>>

(* defaultContext(): c is what it returns.                                 *)
DefaultContext(c) ==
  /\ ctx' = c
  /\ IF ctx # NoContext THEN c = ctx /\ UNCHANGED status ELSE MakeContext(c)

(* Context.setMaxSockets.  It counts for a context without sockets only.   *)
SetMaxSockets(n) ==
  /\ Running
  /\ \E c \in Contexts :
       /\ DefaultContext(c)
       /\ maxSockets' = IF \E s \in Sockets : home[s] = c THEN maxSockets
                                                         ELSE [maxSockets EXCEPT ![c] = n]
  /\ UNCHANGED <<zsocket, nativeVars, monitorVars, held, referenced, termVars>>

(* The listener of 'exit' that defaultContext has installed.               *)
Exit ==
  /\ Running /\ ctx # NoContext
  /\ ctx' = NoContext
  /\ UNCHANGED <<zmqVars, nativeVars, monitorVars, held, referenced, termVars>>

(* Context::Close: zmq_term begins.                                        *)
Term(c) ==
  /\ Running /\ status[c] = "open"
  /\ status' = [status EXCEPT ![c] = "terminating"]
  /\ waiting' = c
  /\ UNCHANGED <<maxSockets, zsocket, nativeVars, monitorVars, programVars>>

(* The program calls close() of a context of its own.                      *)
CloseContext(c) ==
  /\ c \in held
  /\ Term(c)
  /\ collected' = FALSE

(* The garbage collector runs the destructor: nobody has a reference.      *)
CollectContext(c) ==
  /\ c # ctx /\ c \notin held
  /\ \A s \in keeps : home[s] # c
  /\ Term(c)
  /\ collected' = TRUE

(* Mistake: context_ is not reset.                                         *)
TermReturnsKept ==
  /\ ~Running /\ Alive(waiting) = {}
  /\ waiting' = NoContext /\ collected' = FALSE
  /\ UNCHANGED <<zmqVars, nativeVars, monitorVars, programVars>>

(* zmq_term returns.                                                       *)
TermReturns ==
  /\ ~Running /\ Alive(waiting) = {}
  /\ status' = [status EXCEPT ![waiting] = "terminated"]
  /\ waiting' = NoContext /\ collected' = FALSE
  /\ UNCHANGED <<maxSockets, zsocket, nativeVars, monitorVars, programVars>>

-----------------------------------------------------------------------------
(* Sockets.                                                                *)

(* zmq_socket succeeds, or the program gets an exception and no socket.    *)
Made(s, c) ==
  /\ native[s] = "unused" /\ \A t \in Sockets : t < s => native[t] # "unused"
  /\ home' = [home EXCEPT ![s] = c]
  /\ IF HasSlots(c, 1)
       THEN /\ native' = [native EXCEPT ![s] = "open"]
            /\ zsocket' = [zsocket EXCEPT ![s][Own] = "open"]
            /\ referenced' = referenced \cup {s}
       ELSE /\ native' = [native EXCEPT ![s] = "failed"]
            /\ UNCHANGED <<zsocket, referenced>>

(* Mistake: the socket has no handle on its context.                       *)
ConstructUnkept(s, c) ==
  /\ Made(s, c)
  /\ UNCHANGED keeps

(* Socket::Socket.  The handle on the context is set in any case.          *)
Construct(s, c) ==
  /\ Made(s, c)
  /\ keeps' = keeps \cup {s}

(* new zmq.Socket: in the default context.                                 *)
CreateSocket(s) ==
  /\ Running
  /\ \E c \in Contexts : DefaultContext(c) /\ Construct(s, c)
  /\ UNCHANGED <<maxSockets, live, monitorVars, held, termVars>>

(* new zmq.SocketBinding(context, type).                                   *)
CreateIn(s, c) ==
  /\ Running /\ c \in held
  /\ Construct(s, c)
  /\ UNCHANGED <<status, maxSockets, live, monitorVars, ctx, held, termVars>>

(* What libzmq does with the sockets of s when they are closed.  Without a *)
(* limit to ZMQ_LINGER the socket stays until its messages are sent.       *)
Closed(s, roles) ==
  \E left \in {"lingering", "reaping"} :
    zsocket' = [zsocket EXCEPT ![s] = [r \in Roles |->
                  IF r \notin roles \/ @[r] # "open" THEN @[r]
                  ELSE IF r = Own THEN left ELSE "reaping"]]

(* Mistake: the handle on the context stays.                               *)
CloseKeeps(s) ==
  /\ native[s] = "open"
  /\ native' = [native EXCEPT ![s] = "closed"]
  /\ live' = live \ {s}
  /\ Closed(s, {Own, Publisher(publishing[s])})
  /\ publishing' = [publishing EXCEPT ![s] = null]
  /\ UNCHANGED <<status, maxSockets, home, keeps, reading, monitors, again, ctx, held, termVars>>

(* Socket::Close.  libzmq stops publishing by itself; the pair socket that *)
(* reads is left.                                                          *)
Close(s) ==
  /\ native[s] = "open"
  /\ native' = [native EXCEPT ![s] = "closed"]
  /\ live' = live \ {s}
  /\ Closed(s, {Own, Publisher(publishing[s])})
  /\ publishing' = [publishing EXCEPT ![s] = null]
  /\ keeps' = keeps \ {s}
  /\ UNCHANGED <<status, maxSockets, home, reading, monitors, again, ctx, held, termVars>>

(* close() is called.                                                      *)
CloseSocket(s) ==
  /\ Running /\ s \in referenced
  /\ Close(s)
  /\ UNCHANGED referenced

(* The garbage collector runs the destructor of a socket that neither the  *)
(* program nor Ref() keeps.                                                *)
CollectSocket(s) ==
  /\ Running /\ s \notin referenced \cup live
  /\ Close(s)
  /\ UNCHANGED referenced

(* Binding or connecting takes a reference.  SocketLifecycle has how, and  *)
(* how it may be dropped again; here it is kept until the socket closes.   *)
Attach(s) ==
  /\ Running /\ s \in referenced /\ native[s] = "open"
  /\ live' = live \cup {s}
  /\ UNCHANGED <<zmqVars, native, home, keeps, monitorVars, programVars, termVars>>

(* Socket::Monitor.  libzmq ends the publishing to the last monitor or, in *)
(* older versions, loses its socket; then it publishes to a new one, or    *)
(* fails.  If it is left without a slot for the socket that reads, what is *)
(* published is not read; that of the last monitor is overwritten.         *)
Monitor(s) ==
  /\ Running /\ s \in referenced /\ native[s] = "open"
  /\ monitors < MaxMonitors
  /\ again' = IF publishing[s] # null \/ reading[s] # null THEN again \cup {s} ELSE again
  /\ \E last \in {"open", "reaping"} :
       LET new == IF HasSlots(home[s], 1) THEN {Publisher(monitors + 1)} ELSE {}
           pair == IF new # {} /\ HasSlots(home[s], 2) THEN {Reader(monitors + 1)} ELSE {}
       IN /\ zsocket' = [zsocket EXCEPT ![s] = [r \in Roles |->
                           IF r \in new \cup pair THEN "open"
                           ELSE IF r = Publisher(publishing[s]) THEN last ELSE @[r]]]
          /\ IF new = {}
               THEN /\ publishing' = [publishing EXCEPT ![s] = null]
                    /\ UNCHANGED <<reading, monitors>>
               ELSE /\ monitors' = monitors + 1
                    /\ publishing' = [publishing EXCEPT ![s] = monitors']
                    /\ reading' = [reading EXCEPT ![s] = IF pair = {} THEN null ELSE monitors']
  /\ UNCHANGED <<status, maxSockets, nativeVars, programVars, termVars>>

(* Socket::Unmonitor, also of a closed socket.                             *)
Unmonitor(s) ==
  /\ Running /\ s \in referenced
  /\ reading[s] # null
  /\ Closed(s, {Publisher(publishing[s]), Reader(reading[s])})
  /\ publishing' = [publishing EXCEPT ![s] = null]
  /\ reading' = [reading EXCEPT ![s] = null]
  /\ UNCHANGED <<status, maxSockets, nativeVars, monitors, again, programVars, termVars>>

(* The program drops its references.                                       *)
DropSocket(s) ==
  /\ Running /\ s \in referenced
  /\ referenced' = referenced \ {s}
  /\ UNCHANGED <<zmqVars, nativeVars, monitorVars, ctx, held, termVars>>

DropContext(c) ==
  /\ Running /\ c \in held
  /\ held' = held \ {c}
  /\ UNCHANGED <<zmqVars, nativeVars, monitorVars, ctx, referenced, termVars>>

-----------------------------------------------------------------------------
(* libzmq's threads: what a closed socket had to send is sent, and closed  *)
(* sockets, here all those of one native socket, leave their context.      *)
Becomes(s, old, new) ==
  /\ \E r \in Roles : zsocket[s][r] = old
  /\ zsocket' = [zsocket EXCEPT ![s] = [r \in Roles |-> IF @[r] = old THEN new ELSE @[r]]]
  /\ UNCHANGED <<status, maxSockets, nativeVars, monitorVars, programVars, termVars>>

Deliver(s) == Becomes(s, "lingering", "reaping")
Reap(s) == Becomes(s, "reaping", "none")

-----------------------------------------------------------------------------
Init ==
  /\ status = [c \in Contexts |-> "unused"]
  /\ maxSockets = [c \in Contexts |-> DefaultMax]
  /\ zsocket = [s \in Sockets |-> [r \in Roles |-> "none"]]
  /\ native = [s \in Sockets |-> "unused"] /\ home = [s \in Sockets |-> NoContext]
  /\ publishing = [s \in Sockets |-> null] /\ reading = [s \in Sockets |-> null]
  /\ monitors = 0 /\ again = {} /\ live = {}
  /\ keeps = {} /\ ctx = NoContext /\ held = {} /\ referenced = {}
  /\ waiting = NoContext /\ collected = FALSE

Program ==
  \/ \E n \in Limits : SetMaxSockets(n)
  \/ \E c \in Contexts : New(c) \/ CloseContext(c) \/ DropContext(c)
  \/ \E s \in Sockets : \/ CreateSocket(s) \/ \E c \in Contexts : CreateIn(s, c)
                        \/ CloseSocket(s) \/ Attach(s)
                        \/ Monitor(s) \/ Unmonitor(s) \/ DropSocket(s)
  \/ Exit

Collector == (\E s \in Sockets : CollectSocket(s)) \/ \E c \in Contexts : CollectContext(c)
Reaper == \E s \in Sockets : Reap(s)

Next == Program \/ Collector \/ Reaper \/ TermReturns \/ \E s \in Sockets : Deliver(s)

Spec == Init /\ [][Next]_vars

(* libzmq's reaper thread goes on, zmq_term returns when it may, and the   *)
(* garbage collector finds what can be collected.  Nothing makes a peer    *)
(* take the messages that a closed socket holds.                           *)
Fairness == WF_vars(Reaper) /\ WF_vars(TermReturns) /\ WF_vars(Collector)

FairSpec == Spec /\ Fairness

-----------------------------------------------------------------------------
(* The value of every variable.                                            *)
TypeOK ==
  /\ status \in [Contexts -> {"unused", "open", "terminating", "terminated"}]
  /\ maxSockets \in [Contexts -> Nat \ {0}]
  /\ zsocket \in [Sockets -> [Roles -> {"none", "open", "lingering", "reaping"}]]
  /\ native \in [Sockets -> {"unused", "failed", "open", "closed"}]
  /\ home \in [Sockets -> Contexts \cup {NoContext}]
  /\ publishing \in [Sockets -> 0 .. MaxMonitors] /\ reading \in [Sockets -> 0 .. MaxMonitors]
  /\ monitors \in 0 .. MaxMonitors
  /\ again \subseteq Sockets /\ live \subseteq Sockets
  /\ keeps \subseteq Sockets /\ referenced \subseteq Sockets /\ held \subseteq Contexts
  /\ {ctx, waiting} \subseteq Contexts \cup {NoContext}
  /\ collected \in BOOLEAN
  /\ \A c \in Contexts : status[c] = "terminating" <=> c = waiting

(* A socket of a monitor that nobody closes any more: the pair socket of a *)
(* monitor whose socket was closed without unmonitor(), or one of a monitor*)
(* that was replaced by a second call of monitor().                        *)
Forgotten(p) ==
  /\ zsocket[p[1]][p[2]] = "open" /\ native[p[1]] = "closed"
  /\ p[2] # Own
  /\ p[2] = Reader(reading[p[1]]) \/ p[1] \in again

(* The garbage collector makes the main thread wait for no socket that the *)
(* program still uses: what is open in the context are sockets of monitors *)
(* that nobody closes any more.                                            *)
CollectorSparesUsed ==
  ~Running /\ collected =>
    \A p \in Alive(waiting) : zsocket[p[1]][p[2]] = "open" => Forgotten(p)

(* zmq_term returns, also when the garbage collector calls it, unless the  *)
(* context has messages to send that no peer takes, or sockets of monitors *)
(* that nobody closes any more, or the program itself calls it before it   *)
(* has closed the sockets.                                                 *)
TermEnds ==
  ~Running ~>
    \/ Running
    \/ \E p \in Alive(waiting) : zsocket[p[1]][p[2]] = "lingering" \/ Forgotten(p)
    \/ ~collected /\ \E s \in Sockets : home[s] = waiting /\ native[s] = "open"

(* A context that nothing refers to any more is terminated, unless a socket*)
(* in it is bound or connected, or could not be made: then its handle on   *)
(* the context stays for ever.                                             *)
ContextsFreed ==
  \A c \in Contexts :
    /\ status[c] = "open" /\ c # ctx /\ c \notin held
    /\ \A s \in Sockets : home[s] = c => native[s] # "failed" /\ s \notin referenced \cup live
    ~> status[c] # "open" \/ ~Running

=============================================================================
