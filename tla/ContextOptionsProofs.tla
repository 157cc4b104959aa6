------------------------ MODULE ContextOptionsProofs ------------------------
(* Proofs about Context and Options, which share nothing but this module:  *)
(* for any number of contexts, sockets and monitors, the collector never   *)
(* makes the main thread wait for a socket that the program still uses; for*)
(* any width of numbers, options have the sizes that libzmq expects, and a *)
(* value reads as it was given exactly where ReadsBack says so.            *)
EXTENDS Context, Options, FiniteSetTheorems, WellFoundedInduction, TLAPS

(* A native socket that is open has its handle on the context.             *)
Keeping == \A s \in Sockets : native[s] = "open" => s \in keeps

(* What libzmq has open for a socket, and what became of the socket: the   *)
(* pair socket of a monitor alone outlives it, unless monitor() was called *)
(* again before unmonitor().                                               *)
Match(s) ==
  /\ zsocket[s][Own] = "open" => native[s] = "open"
  /\ publishing[s] # null => native[s] = "open"
  /\ s \in again => native[s] \in {"open", "closed"}
  /\ \A n \in Numbers :
       /\ zsocket[s][Publisher(n)] = "open" =>
            s \in again \/ (native[s] = "open" /\ publishing[s] = n)
       /\ zsocket[s][Reader(n)] = "open" =>
            native[s] \in {"open", "closed"} /\ (s \in again \/ reading[s] = n)

RolesMatch == \A s \in Sockets : Match(s)

(* The collector waits for a context that no socket has a handle on.       *)
Spared == ~Running /\ collected => \A s \in keeps : home[s] # waiting

ContextInv == TypeOK /\ Keeping /\ RolesMatch /\ Spared

Statuses == {"unused", "open", "terminating", "terminated"}
Stages == {"none", "open", "lingering", "reaping"}

-----------------------------------------------------------------------------
(* What the steps of the actions do to one variable.                       *)

(* The sockets of libzmq: only those of s change, each to a value it may   *)
(* have, and no other socket of s is open.                                 *)
LEMMA ClosedFacts ==
  ASSUME zsocket \in [Sockets -> [Roles -> Stages]], NEW s \in Sockets,
         NEW roles, Closed(s, roles)
  PROVE  /\ zsocket' \in [Sockets -> [Roles -> Stages]]
         /\ \A t \in Sockets : t # s => zsocket'[t] = zsocket[t]
         /\ \A r \in Roles : zsocket'[s][r] = "open" => r \notin roles /\ zsocket[s][r] = "open"
<1>1. PICK left \in {"lingering", "reaping"} :
        zsocket' = [zsocket EXCEPT ![s] = [r \in Roles |->
                      IF r \notin roles \/ zsocket[s][r] # "open" THEN zsocket[s][r]
                      ELSE IF r = Own THEN left ELSE "reaping"]]
  BY DEF Closed
<1>2. QED
  BY <1>1 DEF Stages

(* The sockets of libzmq that change are not open then.                    *)
LEMMA BecomesFacts ==
  ASSUME zsocket \in [Sockets -> [Roles -> Stages]], NEW s \in Sockets,
         NEW old, NEW new \in Stages \ {"open"}, Becomes(s, old, new)
  PROVE  /\ zsocket' \in [Sockets -> [Roles -> Stages]]
         /\ \A t \in Sockets, q \in Roles :
              zsocket'[t][q] = "open" => zsocket[t][q] = "open"
BY DEF Becomes

(* The roles are different, and each socket of libzmq has one.             *)
LEMMA RoleFacts ==
  /\ Own \in Roles
  /\ \A n \in Numbers : Publisher(n) \in Roles /\ Reader(n) \in Roles
  /\ \A r \in Roles : r = Own \/ \E n \in Numbers : r = Publisher(n) \/ r = Reader(n)
  /\ \A m : Own # Publisher(m) /\ Own # Reader(m)
  /\ \A m, n : Publisher(m) # Reader(n)
  /\ \A m, n : Publisher(m) = Publisher(n) => m = n
  /\ \A m, n : Reader(m) = Reader(n) => m = n
  /\ \A n \in Numbers : n # null
BY ContextAssumption DEF Own, Publisher, Reader, Roles, Numbers, null

LEMMA NullIs == null \in 0 .. MaxMonitors
BY ContextAssumption DEF null

(* A socket whose native socket and monitor stay, and of which libzmq opens*)
(* nothing.                                                                *)
LEMMA MatchKept ==
  ASSUME NEW t \in Sockets, Match(t),
         native'[t] = native[t], publishing'[t] = publishing[t], reading'[t] = reading[t],
         t \in again' <=> t \in again,
         \A r \in Roles : zsocket'[t][r] = "open" => zsocket[t][r] = "open"
  PROVE  Match(t)'
BY RoleFacts DEF Match

(* A context is made, or is there already: which one terminates stays.     *)
LEMMA DefaultFacts ==
  ASSUME TypeOK, Running, NEW c \in Contexts, DefaultContext(c)
  PROVE  /\ status' \in [Contexts -> Statuses]
         /\ \A d \in Contexts : status'[d] # "terminating"
         /\ ctx' \in Contexts \cup {NoContext}
BY ContextAssumption DEF TypeOK, Running, DefaultContext, MakeContext, Statuses

(* The type invariant again, with the fact that nothing terminates while   *)
(* the main thread runs.                                                   *)
LEMMA Terminating ==
  ASSUME TypeOK, Running
  PROVE  \A c \in Contexts : status[c] # "terminating"
BY ContextAssumption DEF TypeOK, Running

(* A socket is made, and has its handle on the context.                    *)
LEMMA ConstructFacts ==
  ASSUME TypeOK, Keeping, RolesMatch, NEW s \in Sockets, NEW c \in Contexts, Construct(s, c),
         UNCHANGED monitorVars
  PROVE  /\ zsocket' \in [Sockets -> [Roles -> Stages]]
         /\ native' \in [Sockets -> {"unused", "failed", "open", "closed"}]
         /\ home' \in [Sockets -> Contexts \cup {NoContext}]
         /\ keeps' \subseteq Sockets /\ referenced' \subseteq Sockets
         /\ Keeping' /\ RolesMatch'
<1>1. /\ native[s] = "unused"
      /\ home' = [home EXCEPT ![s] = c]
      /\ keeps' = keeps \cup {s}
      /\ publishing' = publishing /\ reading' = reading /\ again' = again
  BY DEF Construct, Made, monitorVars
<1>2. /\ Match(s) /\ publishing[s] = null /\ s \notin again
      /\ \A r \in Roles : zsocket[s][r] # "open"
  <2>1. Match(s)
    BY DEF RolesMatch
  <2>2. publishing[s] = null /\ s \notin again /\ zsocket[s][Own] # "open"
    BY <1>1, <2>1 DEF Match
  <2>3. \A n \in Numbers : zsocket[s][Publisher(n)] # "open" /\ zsocket[s][Reader(n)] # "open"
    BY <1>1, <2>1, <2>2 DEF Match
  <2>4. QED
    BY <2>1, <2>2, <2>3, RoleFacts
<1>3. CASE HasSlots(c, 1)
  <2>1. /\ native' = [native EXCEPT ![s] = "open"]
        /\ zsocket' = [zsocket EXCEPT ![s][Own] = "open"]
        /\ referenced' = referenced \cup {s}
    BY <1>3 DEF Construct, Made
  <2>2. Keeping'
    BY <1>1, <2>1 DEF Keeping, TypeOK
  <2>3. Match(s)'
    <3>1. native'[s] = "open" /\ \A r \in Roles : zsocket'[s][r] = "open" => r = Own
      BY <1>2, <2>1, RoleFacts DEF TypeOK
    <3>2. QED
      BY <1>1, <1>2, <3>1, RoleFacts DEF Match
  <2>4. ASSUME NEW t \in Sockets, t # s
        PROVE  Match(t)'
    BY <1>1, <2>1, <2>4, MatchKept DEF RolesMatch, TypeOK
  <2>5. RolesMatch'
    BY <2>3, <2>4 DEF RolesMatch
  <2>6. QED
    BY <1>1, <1>2, <2>1, <2>2, <2>5, RoleFacts DEF TypeOK, Stages
<1>4. CASE ~HasSlots(c, 1)
  <2>1. /\ native' = [native EXCEPT ![s] = "failed"]
        /\ UNCHANGED <<zsocket, referenced>>
    BY <1>4 DEF Construct, Made
  <2>2. Keeping'
    BY <1>1, <2>1 DEF Keeping, TypeOK
  <2>3. Match(s)'
    BY <1>1, <1>2, <2>1, RoleFacts DEF Match
  <2>4. ASSUME NEW t \in Sockets, t # s
        PROVE  Match(t)'
    BY <1>1, <2>1, <2>4, MatchKept DEF RolesMatch, TypeOK
  <2>5. RolesMatch'
    BY <2>3, <2>4 DEF RolesMatch
  <2>6. QED
    BY <1>1, <2>1, <2>2, <2>5 DEF TypeOK, Stages
<1>5. QED
  BY <1>3, <1>4

-----------------------------------------------------------------------------
(* The steps.                                                              *)

LEMMA ContextInit == Init => ContextInv
<1> SUFFICES ASSUME Init
             PROVE  ContextInv
  OBVIOUS
<1>1. zsocket \in [Sockets -> [Roles -> Stages]]
  BY DEF Init, Stages
<1>2. TypeOK
  <2>1. /\ publishing \in [Sockets -> 0 .. MaxMonitors] /\ reading \in [Sockets -> 0 .. MaxMonitors]
        /\ monitors \in 0 .. MaxMonitors
    BY NullIs, ContextAssumption DEF Init
  <2>2. QED
    BY <1>1, <2>1, ContextAssumption DEF Init, TypeOK, Stages
<1>3. \A s \in Sockets : Match(s)
  BY RoleFacts DEF Init, Match
<1>4. Keeping /\ RolesMatch /\ Spared
  BY <1>3 DEF Init, Keeping, RolesMatch, Spared, Running
<1>5. QED
  BY <1>2, <1>4 DEF ContextInv

(* The program makes and drops contexts, and sets the limit: no socket, no *)
(* handle and no wait changes.                                             *)
LEMMA ContextSteps ==
  ASSUME ContextInv,
         \/ \E n \in Limits : SetMaxSockets(n)
         \/ \E c \in Contexts : New(c) \/ DropContext(c)
         \/ Exit
  PROVE  ContextInv'
<1> USE DEF ContextInv
<1>1. UNCHANGED <<zsocket, nativeVars, monitorVars, referenced, termVars>> /\ Running
  BY DEF SetMaxSockets, New, DropContext, Exit, zmqVars
<1>2. /\ Keeping' /\ RolesMatch' /\ Spared'
  BY <1>1 DEF Keeping, RolesMatch, Match, Spared, Running, nativeVars, monitorVars, termVars
<1>3. TypeOK'
  <2>1. ASSUME NEW n \in Limits, SetMaxSockets(n)
        PROVE  TypeOK'
    <3>1. PICK c \in Contexts :
            /\ DefaultContext(c)
            /\ maxSockets' \in {maxSockets, [maxSockets EXCEPT ![c] = n]}
      BY <2>1 DEF SetMaxSockets
    <3>2. /\ status' \in [Contexts -> Statuses]
          /\ \A d \in Contexts : status'[d] # "terminating"
          /\ ctx' \in Contexts \cup {NoContext}
      BY <3>1, <1>1, DefaultFacts
    <3>3. maxSockets' \in [Contexts -> Nat \ {0}]
      BY <3>1, <2>1, ContextAssumption DEF TypeOK
    <3>4. \A d \in Contexts : status'[d] = "terminating" <=> d = waiting'
      BY <3>2, <1>1, ContextAssumption DEF Running, termVars
    <3>5. held' = held
      BY <2>1 DEF SetMaxSockets
    <3>6. QED
      BY <3>2, <3>3, <3>4, <3>5, <1>1 DEF TypeOK, Statuses, nativeVars, monitorVars, termVars
  <2>2. ASSUME NEW c \in Contexts, New(c)
        PROVE  TypeOK'
    BY <2>2, <1>1 DEF New, MakeContext, TypeOK, nativeVars, monitorVars, termVars
  <2>3. ASSUME NEW c \in Contexts, DropContext(c)
        PROVE  TypeOK'
    BY <2>3, <1>1 DEF DropContext, TypeOK, zmqVars, nativeVars, monitorVars, termVars
  <2>4. ASSUME Exit
        PROVE  TypeOK'
    BY <2>4, <1>1 DEF Exit, TypeOK, zmqVars, nativeVars, monitorVars, termVars
  <2>5. QED
    BY <2>1, <2>2, <2>3, <2>4
<1>4. QED
  BY <1>2, <1>3

(* zmq_term begins: called by the collector, for a context that no socket  *)
(* has a handle on.                                                        *)
LEMMA TermSteps ==
  ASSUME ContextInv, NEW c \in Contexts, CloseContext(c) \/ CollectContext(c)
  PROVE  ContextInv'
<1> USE DEF ContextInv
<1>1. /\ Running /\ status' = [status EXCEPT ![c] = "terminating"] /\ waiting' = c
      /\ UNCHANGED <<maxSockets, zsocket, nativeVars, monitorVars, programVars>>
      /\ collected' \in BOOLEAN
  BY DEF CloseContext, CollectContext, Term
<1>2. TypeOK'
  BY <1>1, Terminating DEF TypeOK, nativeVars, monitorVars, programVars
<1>3. Keeping' /\ RolesMatch'
  BY <1>1 DEF Keeping, RolesMatch, Match, nativeVars, monitorVars
<1>4. Spared'
  <2>1. CASE CloseContext(c)
    BY <2>1 DEF CloseContext, Spared
  <2>2. CASE CollectContext(c)
    BY <2>2, <1>1 DEF CollectContext, Spared, nativeVars
  <2>3. QED
    BY <2>1, <2>2
<1>5. QED
  BY <1>2, <1>3, <1>4

LEMMA TermReturnsStep ==
  ASSUME ContextInv, TermReturns
  PROVE  ContextInv'
<1> USE DEF ContextInv
<1>1. TypeOK'
  BY ContextAssumption DEF TermReturns, TypeOK, Running, nativeVars, monitorVars, programVars
<1>2. Keeping' /\ RolesMatch' /\ Spared'
  BY DEF TermReturns, Keeping, RolesMatch, Match, Spared, Running, nativeVars, monitorVars
<1>3. QED
  BY <1>1, <1>2

(* A socket is made, in a context that is made for it or is there.         *)
LEMMA MakeSteps ==
  ASSUME ContextInv, NEW s \in Sockets,
         CreateSocket(s) \/ \E c \in Contexts : CreateIn(s, c)
  PROVE  ContextInv'
<1> USE DEF ContextInv
<1>1. Running /\ UNCHANGED <<maxSockets, live, monitorVars, held, termVars>>
  BY DEF CreateSocket, CreateIn
<1>2. PICK c \in Contexts : /\ Construct(s, c)
                            /\ DefaultContext(c) \/ UNCHANGED <<status, ctx>>
  BY DEF CreateSocket, CreateIn
<1>3. /\ zsocket' \in [Sockets -> [Roles -> Stages]]
      /\ native' \in [Sockets -> {"unused", "failed", "open", "closed"}]
      /\ home' \in [Sockets -> Contexts \cup {NoContext}]
      /\ keeps' \subseteq Sockets /\ referenced' \subseteq Sockets
      /\ Keeping' /\ RolesMatch'
  BY <1>1, <1>2, ConstructFacts
<1>4. /\ status' \in [Contexts -> Statuses]
      /\ \A d \in Contexts : status'[d] # "terminating"
      /\ ctx' \in Contexts \cup {NoContext}
  <2>1. CASE DefaultContext(c)
    BY <2>1, <1>1, DefaultFacts
  <2>2. CASE UNCHANGED <<status, ctx>>
    BY <2>2, <1>1, Terminating DEF TypeOK, Statuses
  <2>3. QED
    BY <1>2, <2>1, <2>2
<1>5. \A d \in Contexts : status'[d] = "terminating" <=> d = waiting'
  BY <1>1, <1>4, ContextAssumption DEF Running, termVars
<1>6. TypeOK'
  BY <1>1, <1>3, <1>4, <1>5 DEF TypeOK, Statuses, Stages, monitorVars, termVars
<1>7. Spared'
  BY <1>1 DEF Spared, Running, termVars
<1>8. QED
  BY <1>3, <1>6, <1>7

(* A socket is closed, by the program or by the collector.                 *)
LEMMA CloseSteps ==
  ASSUME ContextInv, NEW s \in Sockets, CloseSocket(s) \/ CollectSocket(s)
  PROVE  ContextInv'
<1> USE DEF ContextInv
<1> DEFINE roles == {Own, Publisher(publishing[s])}
<1>1. /\ Running /\ native[s] = "open"
      /\ native' = [native EXCEPT ![s] = "closed"]
      /\ live' = live \ {s}
      /\ Closed(s, roles)
      /\ publishing' = [publishing EXCEPT ![s] = null]
      /\ keeps' = keeps \ {s}
      /\ UNCHANGED <<status, maxSockets, home, reading, monitors, again, ctx, held, termVars,
                     referenced>>
  BY DEF CloseSocket, CollectSocket, Close
<1>2. /\ zsocket' \in [Sockets -> [Roles -> Stages]]
      /\ \A t \in Sockets : t # s => zsocket'[t] = zsocket[t]
      /\ \A r \in Roles : zsocket'[s][r] = "open" => r \notin roles /\ zsocket[s][r] = "open"
  BY <1>1, ClosedFacts DEF TypeOK, Stages
<1>3. TypeOK'
  BY <1>1, <1>2, NullIs DEF TypeOK, Stages, termVars
<1>4. Keeping'
  BY <1>1 DEF Keeping, TypeOK
<1>5. Match(s)'
  <2>1. native'[s] = "closed" /\ publishing'[s] = null /\ reading'[s] = reading[s] /\ again' = again
    BY <1>1 DEF TypeOK
  <2>2. zsocket'[s][Own] # "open"
    BY <1>2, RoleFacts
  <2>3. ASSUME NEW n \in Numbers
        PROVE  /\ zsocket'[s][Publisher(n)] = "open" => s \in again
               /\ zsocket'[s][Reader(n)] = "open" => s \in again \/ reading[s] = n
    BY <1>2, RoleFacts DEF RolesMatch, Match
  <2>4. QED
    BY <2>1, <2>2, <2>3 DEF Match
<1>6. ASSUME NEW t \in Sockets, t # s
      PROVE  Match(t)'
  BY <1>1, <1>2, <1>6, MatchKept DEF RolesMatch, TypeOK
<1>7. RolesMatch'
  BY <1>5, <1>6 DEF RolesMatch
<1>8. Spared'
  BY <1>1 DEF Spared, Running, termVars
<1>9. QED
  BY <1>3, <1>4, <1>7, <1>8

(* A monitor begins.  That of before, if there is one, is overwritten: then*)
(* the socket is one of those whose monitor() was called again.            *)
LEMMA MonitorStep ==
  ASSUME ContextInv, NEW s \in Sockets, Monitor(s)
  PROVE  ContextInv'
<1> USE DEF ContextInv
<1> DEFINE new == IF HasSlots(home[s], 1) THEN {Publisher(monitors + 1)} ELSE {}
           pair == IF new # {} /\ HasSlots(home[s], 2) THEN {Reader(monitors + 1)} ELSE {}
<1>1. /\ native[s] = "open" /\ Running /\ monitors \in 0 .. MaxMonitors /\ monitors < MaxMonitors
      /\ again' = IF publishing[s] # null \/ reading[s] # null THEN again \cup {s} ELSE again
      /\ UNCHANGED <<status, maxSockets, nativeVars, programVars, termVars>>
  BY DEF Monitor, TypeOK
<1>2. PICK last \in {"open", "reaping"} :
        /\ zsocket' = [zsocket EXCEPT ![s] = [r \in Roles |->
                         IF r \in new \cup pair THEN "open"
                         ELSE IF r = Publisher(publishing[s]) THEN last ELSE zsocket[s][r]]]
        /\ IF new = {}
             THEN /\ publishing' = [publishing EXCEPT ![s] = null]
                  /\ UNCHANGED <<reading, monitors>>
             ELSE /\ monitors' = monitors + 1
                  /\ publishing' = [publishing EXCEPT ![s] = monitors']
                  /\ reading' = [reading EXCEPT ![s] = IF pair = {} THEN null ELSE monitors']
  BY Zenon DEF Monitor
<1>3. /\ monitors + 1 \in Numbers
      /\ new \subseteq {Publisher(monitors + 1)} /\ pair \subseteq {Reader(monitors + 1)}
      /\ new = {} => pair = {}
  BY <1>1, ContextAssumption DEF Numbers
<1> HIDE DEF new, pair
<1>4. /\ zsocket' \in [Sockets -> [Roles -> Stages]]
      /\ \A t \in Sockets : t # s => zsocket'[t] = zsocket[t]
      /\ \A r \in Roles : zsocket'[s][r] = "open" =>
           r \in new \cup pair \cup {Publisher(publishing[s])} \/ zsocket[s][r] = "open"
  BY <1>2 DEF TypeOK, Stages
<1>5. /\ publishing' \in [Sockets -> 0 .. MaxMonitors] /\ reading' \in [Sockets -> 0 .. MaxMonitors]
      /\ monitors' \in 0 .. MaxMonitors
      /\ \A t \in Sockets : t # s => publishing'[t] = publishing[t] /\ reading'[t] = reading[t]
      /\ new # {} => publishing'[s] = monitors + 1
      /\ pair # {} => reading'[s] = monitors + 1
  <2>1. CASE new = {}
    BY <1>2, <1>3, <2>1, ContextAssumption DEF TypeOK, null
  <2>2. CASE new # {}
    BY <1>1, <1>2, <2>2, ContextAssumption DEF TypeOK, null
  <2>3. QED
    BY <2>1, <2>2
<1>6. TypeOK'
  BY <1>1, <1>4, <1>5 DEF TypeOK, Stages, nativeVars, programVars, termVars
<1>7. Match(s)'
  <2>1. native'[s] = "open" /\ Match(s)
    BY <1>1 DEF RolesMatch, nativeVars
  <2>2. CASE s \in again'
    BY <2>1, <2>2 DEF Match
  <2>3. CASE s \notin again'
    <3>1. publishing[s] = null /\ reading[s] = null /\ s \notin again
      BY <1>1, <2>3
    <3>2. \A n \in Numbers : zsocket[s][Publisher(n)] # "open" /\ zsocket[s][Reader(n)] # "open"
      BY <2>1, <3>1, RoleFacts DEF Match
    <3>3. ASSUME NEW n \in Numbers
          PROVE  /\ zsocket'[s][Publisher(n)] = "open" => publishing'[s] = n
                 /\ zsocket'[s][Reader(n)] = "open" => reading'[s] = n
      BY <1>3, <1>4, <1>5, <3>1, <3>2, RoleFacts
    <3>4. QED
      BY <2>1, <2>3, <3>3 DEF Match
  <2>4. QED
    BY <2>2, <2>3
<1>8. ASSUME NEW t \in Sockets, t # s
      PROVE  Match(t)'
  BY <1>1, <1>4, <1>5, <1>8, MatchKept DEF RolesMatch, nativeVars
<1>9. Keeping' /\ Spared' /\ RolesMatch'
  BY <1>1, <1>7, <1>8 DEF Keeping, Spared, RolesMatch, Running, nativeVars, termVars
<1>10. QED
  BY <1>6, <1>9

(* Both ends of the monitor of a socket are closed.                        *)
LEMMA UnmonitorStep ==
  ASSUME ContextInv, NEW s \in Sockets, Unmonitor(s)
  PROVE  ContextInv'
<1> USE DEF ContextInv
<1> DEFINE roles == {Publisher(publishing[s]), Reader(reading[s])}
<1>1. /\ Running /\ Closed(s, roles)
      /\ publishing' = [publishing EXCEPT ![s] = null] /\ reading' = [reading EXCEPT ![s] = null]
      /\ UNCHANGED <<status, maxSockets, nativeVars, monitors, again, programVars, termVars>>
  BY DEF Unmonitor
<1>2. /\ zsocket' \in [Sockets -> [Roles -> Stages]]
      /\ \A t \in Sockets : t # s => zsocket'[t] = zsocket[t]
      /\ \A r \in Roles : zsocket'[s][r] = "open" => r \notin roles /\ zsocket[s][r] = "open"
  BY <1>1, ClosedFacts DEF TypeOK, Stages
<1>3. TypeOK'
  BY <1>1, <1>2, NullIs DEF TypeOK, Stages, nativeVars, programVars, termVars
<1>4. Match(s)'
  <2>1. native' = native /\ publishing'[s] = null /\ again' = again /\ Match(s)
    BY <1>1 DEF RolesMatch, TypeOK, nativeVars
  <2>2. ASSUME NEW n \in Numbers
        PROVE  /\ zsocket'[s][Publisher(n)] = "open" => s \in again
               /\ zsocket'[s][Reader(n)] = "open" => native[s] \in {"open", "closed"} /\ s \in again
    BY <1>2, <2>1, RoleFacts DEF Match
  <2>3. QED
    BY <1>2, <2>1, <2>2, RoleFacts DEF Match
<1>5. ASSUME NEW t \in Sockets, t # s
      PROVE  Match(t)'
  BY <1>1, <1>2, <1>5, MatchKept DEF RolesMatch, TypeOK, nativeVars
<1>6. Keeping' /\ Spared' /\ RolesMatch'
  BY <1>1, <1>4, <1>5 DEF Keeping, Spared, RolesMatch, Running, nativeVars, termVars
<1>7. QED
  BY <1>3, <1>6

(* References are taken and dropped, and libzmq goes on: no handle changes.*)
LEMMA OtherSteps ==
  ASSUME ContextInv, NEW s \in Sockets, Attach(s) \/ DropSocket(s) \/ Deliver(s) \/ Reap(s)
  PROVE  ContextInv'
<1> USE DEF ContextInv
<1>1. /\ UNCHANGED <<status, maxSockets, native, home, keeps, monitorVars, ctx, held, termVars>>
      /\ referenced' \subseteq Sockets /\ live' \subseteq Sockets
  BY DEF Attach, DropSocket, Deliver, Reap, Becomes, nativeVars, programVars, zmqVars, TypeOK
<1>2. /\ zsocket' \in [Sockets -> [Roles -> Stages]]
      /\ \A t \in Sockets, q \in Roles : zsocket'[t][q] = "open" => zsocket[t][q] = "open"
  <2>1. CASE Attach(s) \/ DropSocket(s)
    BY <2>1 DEF Attach, DropSocket, TypeOK, Stages, zmqVars
  <2>2. CASE Deliver(s)
    BY <2>2, BecomesFacts DEF Deliver, TypeOK, Stages
  <2>3. CASE Reap(s)
    BY <2>3, BecomesFacts DEF Reap, TypeOK, Stages
  <2>4. QED
    BY <2>1, <2>2, <2>3
<1>3. TypeOK'
  BY <1>1, <1>2 DEF TypeOK, Stages, monitorVars, termVars
<1>4. \A t \in Sockets : Match(t)'
  BY <1>1, <1>2, MatchKept DEF RolesMatch, monitorVars
<1>5. Keeping' /\ Spared' /\ RolesMatch'
  BY <1>1, <1>4 DEF Keeping, Spared, RolesMatch, Running, termVars
<1>6. QED
  BY <1>3, <1>5

LEMMA ContextStep == ContextInv /\ [Next]_vars => ContextInv'
<1> SUFFICES ASSUME ContextInv, [Next]_vars
             PROVE  ContextInv'
  OBVIOUS
<1>1. CASE Program
  BY <1>1, ContextSteps, TermSteps, MakeSteps, CloseSteps, MonitorStep, UnmonitorStep, OtherSteps
     DEF Program
<1>2. CASE Collector
  BY <1>2, CloseSteps, TermSteps DEF Collector
<1>3. CASE Reaper
  BY <1>3, OtherSteps DEF Reaper
<1>4. CASE TermReturns
  BY <1>4, TermReturnsStep
<1>5. CASE \E s \in Sockets : Deliver(s)
  BY <1>5, OtherSteps
<1>6. CASE UNCHANGED vars
  BY <1>6 DEF vars, zmqVars, nativeVars, monitorVars, programVars, termVars, ContextInv,
       TypeOK, Keeping, RolesMatch, Match, Spared, Running
<1>7. QED
  BY <1>1, <1>2, <1>3, <1>4, <1>5, <1>6 DEF Next

LEMMA ContextInvariant == Spec => []ContextInv
BY ContextInit, ContextStep, PTL DEF Spec

-----------------------------------------------------------------------------
(* The results.                                                            *)

(* Every variable has a value of its type, and the context that terminates *)
(* is the one for which the main thread waits in zmq_term.                 *)
THEOREM ContextType == Spec => []TypeOK
<1>1. ContextInv => TypeOK
  BY DEF ContextInv
<1>2. QED
  BY <1>1, ContextInvariant, PTL

(* The handle that a native Socket has on its context (context_, set in    *)
(* its constructor and reset by Close) is enough: when the destructor of a *)
(* context calls zmq_term, no socket of the context is open but those of   *)
(* monitors that nobody closes any more.                                   *)
THEOREM ContextSparesUsed == Spec => []CollectorSparesUsed
<1>1. ContextInv => CollectorSparesUsed
  <2> SUFFICES ASSUME ContextInv, ~Running, collected, NEW p \in Alive(waiting),
                      zsocket[p[1]][p[2]] = "open"
               PROVE  Forgotten(p)
    BY DEF CollectorSparesUsed
  <2>1. p[1] \in Sockets /\ p[2] \in Roles /\ home[p[1]] = waiting
    BY DEF Alive
  <2>2. native[p[1]] # "open" /\ Match(p[1])
    BY <2>1 DEF ContextInv, Keeping, Spared, RolesMatch
  <2>3. p[2] # Own
    BY <2>2 DEF Match
  <2>4. PICK n \in Numbers : p[2] = Publisher(n) \/ p[2] = Reader(n)
    BY <2>1, <2>3, RoleFacts
  <2>5. native[p[1]] = "closed" /\ (p[2] = Reader(reading[p[1]]) \/ p[1] \in again)
    BY <2>2, <2>4 DEF Match
  <2>6. QED
    BY <2>3, <2>5 DEF Forgotten
<1>2. QED
  BY <1>1, ContextInvariant, PTL
-----------------------------------------------------------------------------
(* Powers of two, as the numbers of sets: 2 ^ n is that of 1 .. n.         *)
LEMMA PowerIs ==
  ASSUME NEW n \in Nat
  PROVE  /\ IsFiniteSet(1 .. n) /\ Cardinality(1 .. n) = n
         /\ IsFiniteSet(SUBSET (1 .. n)) /\ Cardinality(SUBSET (1 .. n)) = 2 ^ n
<1>1. IsFiniteSet(1 .. n) /\ Cardinality(1 .. n) = n
  <2>1. IsFiniteSet(1 .. n) /\ Cardinality(1 .. n) = IF 1 > n THEN 0 ELSE n - 1 + 1
    BY FS_Interval
  <2>2. QED
    BY <2>1
<1>2. IsFiniteSet(SUBSET (1 .. n)) /\ Cardinality(SUBSET (1 .. n)) = 2 ^ Cardinality(1 .. n)
  BY <1>1, FS_SUBSET
<1>3. QED
  BY <1>1, <1>2, Zenon

LEMMA PowerType ==
  ASSUME NEW n \in Nat
  PROVE  2 ^ n \in Nat \ {0}
<1>1. Cardinality(SUBSET (1 .. n)) \in Nat /\ (Cardinality(SUBSET (1 .. n)) = 0 <=> SUBSET (1 .. n) = {})
  BY PowerIs, FS_CardinalityType, FS_EmptySet
<1>2. SUBSET (1 .. n) # {}
  OBVIOUS
<1>3. QED
  BY <1>1, <1>2, PowerIs, Zenon

LEMMA PowerMonotone ==
  ASSUME NEW m \in Nat, NEW n \in Nat, m <= n
  PROVE  2 ^ m <= 2 ^ n
<1>1. 1 .. m \subseteq 1 .. n
  OBVIOUS
<1>2. SUBSET (1 .. m) \in SUBSET SUBSET (1 .. n)
  BY <1>1
<1>3. Cardinality(SUBSET (1 .. m)) <= Cardinality(SUBSET (1 .. n))
  BY <1>2, PowerIs, FS_Subset, Zenon
<1>4. QED
  BY <1>3, PowerIs, Zenon

(* A set of 1 .. m + n is a set of 1 .. m and one of 1 .. n.               *)
LEMMA PowerSum ==
  ASSUME NEW m \in Nat, NEW n \in Nat
  PROVE  2 ^ (m + n) = 2 ^ m * 2 ^ n
<1> DEFINE S == SUBSET (1 .. m)  T == SUBSET (1 .. n)  U == SUBSET (1 .. m + n)
           Join(p) == {i \in 1 .. m + n : IF i <= m THEN i \in p[1] ELSE i - m \in p[2]}
           join == [p \in S \X T |-> Join(p)]
           Lower(u) == {i \in 1 .. m : i \in u}
           Upper(u) == {i \in 1 .. n : i + m \in u}
<1>1. ASSUME NEW a \in S, NEW b \in T
      PROVE  a = Lower(Join(<<a, b>>)) /\ b = Upper(Join(<<a, b>>))
  <2>1. \A i \in 1 .. m : i \in 1 .. m + n /\ i <= m
    OBVIOUS
  <2>2. \A i \in 1 .. n : i + m \in 1 .. m + n /\ ~(i + m <= m) /\ i + m - m = i
    OBVIOUS
  <2>3. a = Lower(Join(<<a, b>>))
    BY <2>1
  <2>4. \A i \in 1 .. n : i + m \in Join(<<a, b>>) <=> i \in b
    BY <2>2
  <2> HIDE DEF Join
  <2>5. b = Upper(Join(<<a, b>>))
    BY <2>4
  <2>6. QED
    BY <2>3, <2>5
<1>2. join \in [S \X T -> U]
  OBVIOUS
<1>3. ASSUME NEW p \in S \X T, NEW q \in S \X T, join[p] = join[q]
      PROVE  p = q
  <2>1. PICK a \in S, b \in T : p = <<a, b>>
    OBVIOUS
  <2>2. PICK c \in S, d \in T : q = <<c, d>>
    OBVIOUS
  <2>3. Join(<<a, b>>) = Join(<<c, d>>)
    BY <1>3, <2>1, <2>2
  <2> HIDE DEF Join, Lower, Upper
  <2>4. a = c /\ b = d
    BY <1>1, <2>3
  <2>5. QED
    BY <2>1, <2>2, <2>4
<1>4. ASSUME NEW u \in U
      PROVE  \E p \in S \X T : join[p] = u
  <2> DEFINE a == {i \in 1 .. m : i \in u}  b == {i \in 1 .. n : i + m \in u}
  <2>1. a \in S /\ b \in T /\ <<a, b>> \in S \X T
    OBVIOUS
  <2>2. ASSUME NEW i \in 1 .. m + n
        PROVE  i \in Join(<<a, b>>) <=> i \in u
    <3>1. CASE i <= m
      <4>1. i \in 1 .. m
        BY <3>1
      <4>2. QED
        BY <3>1, <4>1
    <3>2. CASE ~(i <= m)
      <4>1. i - m \in 1 .. n /\ i - m + m = i
        BY <3>2
      <4>2. QED
        BY <3>2, <4>1
    <3>3. QED
      BY <3>1, <3>2
  <2>3. Join(<<a, b>>) = u
    <3>1. Join(<<a, b>>) \subseteq 1 .. m + n /\ u \subseteq 1 .. m + n
      OBVIOUS
    <3> HIDE DEF Join, a, b
    <3>2. QED
      BY <2>2, <3>1
  <2> HIDE DEF Join, a, b
  <2>4. QED
    BY <2>1, <2>3
<1>5. join \in Bijection(S \X T, U)
  <2> HIDE DEF join
  <2>1. join \in Injection(S \X T, U)
    BY <1>2, <1>3 DEF Injection, IsInjective
  <2>2. join \in Surjection(S \X T, U)
    BY <1>2, <1>4 DEF Surjection
  <2>3. QED
    BY <2>1, <2>2 DEF Bijection
<1>6. ExistsBijection(S \X T, U)
  BY <1>5 DEF ExistsBijection
<1>7. /\ IsFiniteSet(S) /\ Cardinality(S) = 2 ^ m
      /\ IsFiniteSet(T) /\ Cardinality(T) = 2 ^ n
      /\ Cardinality(U) = 2 ^ (m + n)
  <2>1. m + n \in Nat
    OBVIOUS
  <2>2. QED
    BY <2>1, PowerIs, Zenon
<1> HIDE DEF S, T, U
<1>8. IsFiniteSet(S \X T) /\ Cardinality(S \X T) = Cardinality(S) * Cardinality(T)
  BY <1>7, FS_Product
<1>9. Cardinality(U) = Cardinality(S \X T)
  BY <1>6, <1>8, FS_Bijection
<1>10. QED
  BY <1>7, <1>8, <1>9, Zenon

LEMMA PowerOne == 2 ^ 1 = 2
<1>1. SUBSET (1 .. 1) = {{}} \cup {{1}}
  OBVIOUS
<1>2. IsFiniteSet({{}}) /\ Cardinality({{}}) = 1
  BY FS_Singleton
<1>3. Cardinality({{}} \cup {{1}}) = Cardinality({{}}) + 1
  <2>1. {1} \notin {{}}
    OBVIOUS
  <2>2. QED
    BY <1>2, <2>1, FS_AddElement, Zenon
<1>4. Cardinality(SUBSET (1 .. 1)) = 2 ^ 1
  BY PowerIs
<1>5. 2 ^ 1 = Cardinality({{}}) + 1
  BY <1>1, <1>3, <1>4, Zenon
<1>6. QED
  BY <1>2, <1>5

-----------------------------------------------------------------------------
(* Whole numbers.                                                          *)
LEMMA Divided ==
  ASSUME NEW u \in Nat \ {0}, NEW q \in Int, NEW r \in 0 .. u - 1
  PROVE  (u * q + r) \div u = q /\ (u * q + r) % u = r
OBVIOUS

LEMMA Remainder ==
  ASSUME NEW a \in Int, NEW b \in Nat \ {0}
  PROVE  /\ a % b \in 0 .. b - 1
         /\ a \in 0 .. b - 1 => a % b = a
         /\ a \in -b .. -1 => a % b = a + b
OBVIOUS

LEMMA MinMax ==
  ASSUME NEW a \in Int, NEW b \in Int
  PROVE  /\ Min({a, b}) = IF a <= b THEN a ELSE b
         /\ Max({a, b}) = IF a >= b THEN a ELSE b
<1>1. Min({a, b}) = IF a <= b THEN a ELSE b
  <2> DEFINE c == IF a <= b THEN a ELSE b
  <2>1. c \in {a, b} /\ c \in Int /\ \A y \in {a, b} : c <= y
    OBVIOUS
  <2>2. \A x \in {a, b} : (\A y \in {a, b} : x <= y) => x = c
    OBVIOUS
  <2> HIDE DEF c
  <2>3. QED
    BY <2>1, <2>2 DEF Min
<1>2. Max({a, b}) = IF a >= b THEN a ELSE b
  <2> DEFINE c == IF a >= b THEN a ELSE b
  <2>1. c \in {a, b} /\ c \in Int /\ \A y \in {a, b} : c >= y
    OBVIOUS
  <2>2. \A x \in {a, b} : (\A y \in {a, b} : x >= y) => x = c
    OBVIOUS
  <2> HIDE DEF c
  <2>3. QED
    BY <2>1, <2>2 DEF Max
<1>3. QED
  BY <1>1, <1>2

-----------------------------------------------------------------------------
(* The numbers of Options: the borders of the types and the first number of*)
(* each unit.                                                              *)
Half == 2 ^ (LongBits - 1)       \* Highest("int64") + 1
IntHalf == 2 ^ (IntBits - 1)     \* Highest("int") + 1
Exact == 2 ^ Mantissa            \* up to it every whole number is a Number
Unit == 2 ^ (LongBits - 1 - Mantissa)   \* that of the last Numbers before Half

LEMMA Borders ==
  /\ Half \in Nat \ {0} /\ IntHalf \in Nat \ {0} /\ Exact \in Nat \ {0} /\ Unit \in Nat \ {0}
  /\ 2 ^ LongBits = 2 * Half /\ 2 ^ IntBits = 2 * IntHalf
  /\ 2 * IntHalf <= Exact
  /\ 2 ^ (LongBits - Mantissa) = 2 * Unit
  /\ Half = Unit * Exact
  /\ Half <= 2 ^ LongBits /\ Exact <= Half
  /\ \E q \in Nat : Exact = 2 * q
  /\ \E q \in Nat : Unit = 2 * q
<1>1. /\ IntBits \in Nat \ {0} /\ LongBits \in Nat \ {0} /\ Mantissa \in Nat \ {0}
      /\ IntBits < Mantissa /\ Mantissa < LongBits - 1
  BY OptionsAssumption
<1>2. /\ LongBits - 1 \in Nat /\ IntBits - 1 \in Nat /\ LongBits - 1 - Mantissa \in Nat
      /\ LongBits - 2 - Mantissa \in Nat /\ LongBits - Mantissa \in Nat /\ Mantissa - 1 \in Nat
      /\ 1 \in Nat
  BY <1>1
<1>3. /\ Half \in Nat \ {0} /\ IntHalf \in Nat \ {0} /\ Exact \in Nat \ {0} /\ Unit \in Nat \ {0}
      /\ 2 ^ (Mantissa - 1) \in Nat \ {0} /\ 2 ^ (LongBits - 2 - Mantissa) \in Nat \ {0}
  BY <1>1, <1>2, PowerType DEF Half, IntHalf, Exact, Unit
<1>4. \A n \in Nat : 2 ^ (1 + n) = 2 * 2 ^ n
  BY <1>2, PowerSum, PowerOne, Zenon
<1>5. /\ 1 + (LongBits - 1) = LongBits /\ 1 + (IntBits - 1) = IntBits
      /\ 1 + (LongBits - 1 - Mantissa) = LongBits - Mantissa
      /\ 1 + (Mantissa - 1) = Mantissa
      /\ 1 + (LongBits - 2 - Mantissa) = LongBits - 1 - Mantissa
      /\ (LongBits - 1 - Mantissa) + Mantissa = LongBits - 1
  BY <1>1
<1>6. 2 ^ LongBits = 2 * Half
  BY <1>2, <1>4, <1>5, Zenon DEF Half
<1>7. 2 ^ IntBits = 2 * IntHalf
  BY <1>2, <1>4, <1>5, Zenon DEF IntHalf
<1>8. 2 ^ (LongBits - Mantissa) = 2 * Unit
  BY <1>2, <1>4, <1>5, Zenon DEF Unit
<1>9. Exact = 2 * 2 ^ (Mantissa - 1)
  BY <1>2, <1>4, <1>5, Zenon DEF Exact
<1>10. Unit = 2 * 2 ^ (LongBits - 2 - Mantissa)
  BY <1>2, <1>4, <1>5, Zenon DEF Unit
<1>11. Half = Unit * Exact
  BY <1>1, <1>2, <1>5, PowerSum, Zenon DEF Half, Unit, Exact
<1>12. 2 ^ IntBits <= Exact
  BY <1>1, PowerMonotone DEF Exact
<1>13. Exact <= Half
  BY <1>1, <1>2, PowerMonotone DEF Exact, Half
<1>14. 2 * IntHalf <= Exact
  BY <1>7, <1>12
<1>15. Half <= 2 ^ LongBits
  BY <1>3, <1>6
<1>16. (\E q \in Nat : Exact = 2 * q) /\ \E q \in Nat : Unit = 2 * q
  BY <1>3, <1>9, <1>10
<1>17. QED
  BY <1>3, <1>6, <1>7, <1>8, <1>11, <1>13, <1>14, <1>15, <1>16

Units(n) == {u \in {2 ^ e : e \in 0 .. LongBits} : Abs(n) < u * 2 ^ Mantissa}

(* Which unit Rounded takes.                                               *)
LEMMA UnitIs ==
  ASSUME NEW n \in Int, NEW e \in 0 .. LongBits, Abs(n) < 2 ^ e * Exact,
         e > 0 => 2 ^ (e - 1) * Exact <= Abs(n)
  PROVE  Min(Units(n)) = 2 ^ e
<1>1. /\ LongBits \in Nat /\ e \in Nat /\ Abs(n) \in Nat /\ Exact \in Nat \ {0}
      /\ \A f \in 0 .. LongBits : f \in Nat /\ 2 ^ f \in Nat \ {0}
  <2>1. LongBits \in Nat /\ \A f \in 0 .. LongBits : f \in Nat
    BY OptionsAssumption
  <2>2. Abs(n) \in Nat
    BY DEF Abs
  <2>3. QED
    BY <2>1, <2>2, Borders, PowerType
<1>2. ASSUME NEW f \in 0 .. LongBits, Abs(n) < 2 ^ f * Exact
      PROVE  2 ^ e <= 2 ^ f
  <2>1. CASE e <= f
    BY <1>1, <2>1, PowerMonotone
  <2>2. CASE f < e
    <3>1. f <= e - 1 /\ e - 1 \in Nat /\ e > 0 /\ f \in Nat /\ e - 1 \in 0 .. LongBits
      BY <1>1, <2>2
    <3>2. 2 ^ f <= 2 ^ (e - 1)
      BY <3>1, PowerMonotone
    <3>3. 2 ^ f * Exact <= 2 ^ (e - 1) * Exact
      <4>1. 2 ^ f \in Nat /\ 2 ^ (e - 1) \in Nat /\ Exact \in Nat
        BY <1>1, <3>1
      <4>2. \A a, b, c \in Nat : a <= b => a * c <= b * c
        OBVIOUS
      <4>3. QED
        BY <3>2, <4>1, <4>2
    <3>4. 2 ^ f * Exact \in Nat /\ 2 ^ (e - 1) * Exact \in Nat
      BY <1>1, <3>1
    <3>5. QED
      BY <1>1, <1>2, <3>1, <3>3, <3>4
  <2>3. QED
    BY <1>1, <2>1, <2>2
<1> DEFINE c == 2 ^ e
<1>3. c \in Units(n) /\ \A y \in Units(n) : c <= y
  BY <1>2 DEF Units, Exact
<1>4. \A x \in Units(n) : x \in Nat
  BY <1>1 DEF Units
<1> HIDE DEF c
<1>5. \A x \in Units(n) : (\A y \in Units(n) : x <= y) => x = c
  BY <1>3, <1>4
<1>6. Min(Units(n)) = c
  BY <1>3, <1>5 DEF Min
<1>7. QED
  BY <1>6 DEF c

LEMMA RoundedTo ==
  ASSUME NEW n \in Int, NEW u \in Nat \ {0}, Min(Units(n)) = u, NEW q \in Int, NEW r \in 0 .. u - 1,
         n = u * q + r
  PROVE  Rounded(n) = u * (IF 2 * r > u \/ (2 * r = u /\ q % 2 = 1) THEN q + 1 ELSE q)
<1>1. n \div u = q /\ n % u = r
  BY Divided
<1>2. QED
  BY <1>1 DEF Rounded, Units

LEMMA SmallExact ==
  ASSUME NEW n \in Int, Abs(n) < Exact
  PROVE  Rounded(n) = n
<1>1. 0 \in 0 .. LongBits /\ 2 ^ 0 = 1
  BY OptionsAssumption
<1>2. Abs(n) < 2 ^ 0 * Exact
  BY <1>1, Borders
<1>3. Min(Units(n)) = 1
  <2> DEFINE e == 0
  <2>1. e \in 0 .. LongBits /\ ~(e > 0) /\ 2 ^ e = 1 /\ Abs(n) < 2 ^ e * Exact
    BY <1>1, <1>2
  <2> HIDE DEF e
  <2>2. QED
    BY <2>1, UnitIs
<1>4. 0 \in 0 .. 1 - 1 /\ n = 1 * n + 0
  OBVIOUS
<1>5. Rounded(n) = 1 * (IF 2 * 0 > 1 \/ (2 * 0 = 1 /\ n % 2 = 1) THEN n + 1 ELSE n)
  BY <1>3, <1>4, RoundedTo
<1>6. QED
  BY <1>5

(* The highest int64_t is no Number: it becomes the next one.              *)
LEMMA HighestRounds == Rounded(Half - 1) = Half
<1> DEFINE n == Half - 1  e == LongBits - 1 - Mantissa
<1>1. /\ e \in 0 .. LongBits /\ e \in Nat /\ e > 0 /\ e - 1 \in Nat
  BY OptionsAssumption
<1>2. /\ Half \in Nat \ {0} /\ Exact \in Nat \ {0} /\ Unit \in Nat \ {0} /\ Half = Unit * Exact
  BY Borders
<1>3. PICK p \in Nat : Exact = 2 * p
  BY Borders
<1>4. PICK v \in Nat : Unit = 2 * v
  BY Borders
<1>5. n \in Int /\ Abs(n) = Half - 1
  BY <1>2 DEF Abs
<1>6. 2 ^ e = Unit
  BY DEF Unit
<1>7. 2 ^ (e - 1) * Exact <= Half - 1
  <2>1. Unit = 2 * 2 ^ (e - 1)
    <3>1. 1 + (e - 1) = e
      BY <1>1
    <3>2. 2 ^ (1 + (e - 1)) = 2 ^ 1 * 2 ^ (e - 1)
      BY <1>1, PowerSum
    <3>3. QED
      BY <1>6, <3>1, <3>2, PowerOne
  <2>2. 2 ^ (e - 1) \in Nat \ {0}
    BY <1>1, PowerType
  <2>3. Half = 2 * (2 ^ (e - 1) * Exact) /\ 2 ^ (e - 1) * Exact \in Nat \ {0}
    <3>1. \A a, b \in Nat \ {0} : (2 * a) * b = 2 * (a * b) /\ a * b \in Nat \ {0}
      OBVIOUS
    <3>2. QED
      BY <1>2, <2>1, <2>2, <3>1
  <2>4. QED
    BY <1>2, <2>3
<1> HIDE DEF n, e
<1>8. Min(Units(n)) = Unit
  BY <1>1, <1>2, <1>5, <1>6, <1>7, UnitIs
<1>9. /\ Exact - 1 \in Int /\ Unit - 1 \in 0 .. Unit - 1
      /\ n = Unit * (Exact - 1) + (Unit - 1)
  <2>1. \A a, b \in Nat : a * b - 1 = a * (b - 1) + (a - 1)
    OBVIOUS
  <2>2. QED
    BY <1>2, <2>1 DEF n
<1>10. Rounded(n) = Unit * (IF 2 * (Unit - 1) > Unit \/ (2 * (Unit - 1) = Unit /\ (Exact - 1) % 2 = 1)
                               THEN Exact - 1 + 1 ELSE Exact - 1)
  <2> DEFINE q == Exact - 1  r == Unit - 1
  <2> HIDE DEF q, r
  <2>1. q \in Int /\ r \in 0 .. Unit - 1 /\ n = Unit * q + r
    BY <1>9 DEF q, r
  <2>2. Rounded(n) = Unit * (IF 2 * r > Unit \/ (2 * r = Unit /\ q % 2 = 1) THEN q + 1 ELSE q)
    BY <1>2, <1>5, <1>8, <2>1, RoundedTo
  <2>3. QED
    BY <2>2 DEF q, r
<1>11. 2 * (Unit - 1) > Unit \/ 2 * (Unit - 1) = Unit
  BY <1>2, <1>4
<1>12. (Exact - 1) % 2 = 1
  <2>1. Exact - 1 = 2 * (p - 1) + 1 /\ p - 1 \in Int /\ 1 \in 0 .. 2 - 1 /\ 2 \in Nat \ {0}
    BY <1>3
  <2>2. QED
    BY <2>1, Divided
<1>13. QED
  BY <1>2, <1>10, <1>11, <1>12 DEF n

(* From Half to what an unsigned value of 64 bits may be the unit is twice *)
(* that.                                                                   *)
LEMMA LargeUnit ==
  ASSUME NEW n \in Int, Half <= Abs(n), Abs(n) < 2 * Half
  PROVE  Min(Units(n)) = 2 * Unit
<1> DEFINE e == LongBits - Mantissa
<1>1. e \in 0 .. LongBits /\ 2 ^ e = 2 * Unit /\ 2 ^ (e - 1) = Unit
  <2>1. e \in 0 .. LongBits /\ e - 1 = LongBits - 1 - Mantissa
    BY OptionsAssumption
  <2>2. QED
    BY <2>1, Borders DEF Unit
<1>2. 2 ^ e * Exact = 2 * Half /\ 2 ^ (e - 1) * Exact = Half
  <2>1. \A a, b \in Nat : (2 * a) * b = 2 * (a * b)
    OBVIOUS
  <2>2. QED
    BY <1>1, <2>1, Borders
<1> HIDE DEF e
<1>3. QED
  BY <1>1, <1>2, UnitIs

LEMMA LowestExact == Rounded(-Half) = -Half
<1>1. Half \in Nat \ {0} /\ Unit \in Nat \ {0} /\ Half = Unit * Exact
  BY Borders
<1>2. PICK p \in Nat : Exact = 2 * p
  BY Borders
<1>3. -Half \in Int /\ Abs(-Half) = Half
  BY <1>1 DEF Abs
<1>4. Min(Units(-Half)) = 2 * Unit
  BY <1>1, <1>3, LargeUnit
<1>5. -Half = (2 * Unit) * (-p) + 0 /\ -p \in Int /\ 0 \in 0 .. 2 * Unit - 1 /\ 2 * Unit \in Nat \ {0}
  <2>1. \A a, b \in Nat : -(a * (2 * b)) = (2 * a) * (-b) + 0
    OBVIOUS
  <2>2. QED
    BY <1>1, <1>2, <2>1
<1> DEFINE n == -Half  u == 2 * Unit  q == -p
<1> HIDE DEF n, u, q
<1>6. Rounded(n) = u * (IF 2 * 0 > u \/ (2 * 0 = u /\ q % 2 = 1) THEN q + 1 ELSE q)
  BY <1>3, <1>4, <1>5, RoundedTo DEF n, u, q
<1>7. ~(2 * 0 > u) /\ 2 * 0 # u
  BY <1>1 DEF u
<1>8. Rounded(n) = u * q
  BY <1>6, <1>7
<1>9. QED
  BY <1>5, <1>8 DEF n, u, q

LEMMA LargePositive ==
  ASSUME NEW n \in Half .. 2 * Half - 1
  PROVE  Rounded(n) \in Nat
<1>1. Half \in Nat \ {0} /\ Unit \in Nat \ {0}
  BY Borders
<1>2. n \in Nat /\ Abs(n) = n /\ Half <= n /\ n < 2 * Half
  BY <1>1 DEF Abs
<1> DEFINE u == 2 * Unit
<1>3. Min(Units(n)) = u /\ u \in Nat \ {0}
  BY <1>1, <1>2, LargeUnit
<1> HIDE DEF u
<1> DEFINE q == n \div u  r == n % u
<1>4. q \in Nat /\ r \in 0 .. u - 1 /\ n = u * q + r
  BY <1>2, <1>3
<1> HIDE DEF q, r
<1>5. Rounded(n) = u * (IF 2 * r > u \/ (2 * r = u /\ q % 2 = 1) THEN q + 1 ELSE q)
  BY <1>2, <1>3, <1>4, RoundedTo
<1>6. u * (q + 1) \in Nat /\ u * q \in Nat
  BY <1>3, <1>4
<1>7. QED
  BY <1>5, <1>6

-----------------------------------------------------------------------------
(* The conversions, for each way in which an option keeps a number.        *)
LEMMA TypeRanges ==
  /\ Lowest("int") = -IntHalf /\ Highest("int") = IntHalf - 1
  /\ Lowest("int64") = -Half /\ Highest("int64") = Half - 1
  /\ Lowest("uint64") = 0 /\ Highest("uint64") = 2 * Half - 1
  /\ Bits("int") = IntBits /\ Bits("int64") = LongBits /\ Bits("uint64") = LongBits
  /\ IntBits # LongBits /\ IntHalf <= Half
<1>1. Bits("int") = IntBits /\ Bits("int64") = LongBits /\ Bits("uint64") = LongBits
  BY DEF Bits
<1>2. Lowest("int") = -IntHalf /\ Lowest("int64") = -Half /\ Lowest("uint64") = 0
  BY <1>1 DEF Lowest, Half, IntHalf
<1>3. 2 ^ LongBits = 2 * Half /\ 2 ^ IntBits = 2 * IntHalf /\ Half \in Nat /\ IntHalf \in Nat
  BY Borders
<1>4. Highest("int") = IntHalf - 1 /\ Highest("int64") = Half - 1 /\ Highest("uint64") = 2 * Half - 1
  BY <1>1, <1>2, <1>3 DEF Highest
<1>5. IntBits # LongBits
  BY OptionsAssumption
<1>6. IntHalf <= Half
  BY Borders
<1>7. QED
  BY <1>1, <1>2, <1>4, <1>5, <1>6

LEMMA WrappedIn ==
  ASSUME NEW n \in Int
  PROVE  /\ Wrapped(n, "int") \in -IntHalf .. IntHalf - 1
         /\ n \in -IntHalf .. IntHalf - 1 => Wrapped(n, "int") = n
         /\ n \in -Half .. Half - 1 => Wrapped(n, "int64") = n
         /\ n \in 0 .. Half - 1 => Wrapped(n, "uint64") = n
         /\ n \in -Half .. -1 => Wrapped(n, "uint64") = n + 2 * Half
<1>1. /\ Half \in Nat \ {0} /\ IntHalf \in Nat \ {0}
      /\ 2 ^ LongBits = 2 * Half /\ 2 ^ IntBits = 2 * IntHalf
  BY Borders
<1> DEFINE i == 2 * IntHalf  l == 2 * Half  a == n + IntHalf  b == n + Half
<1>2. i \in Nat \ {0} /\ l \in Nat \ {0} /\ a \in Int /\ b \in Int
  BY <1>1
<1> HIDE DEF i, l, a, b
<1>3. /\ a % i \in 0 .. i - 1 /\ (a \in 0 .. i - 1 => a % i = a)
      /\ b % l \in 0 .. l - 1 /\ (b \in 0 .. l - 1 => b % l = b)
      /\ n % l \in 0 .. l - 1 /\ (n \in 0 .. l - 1 => n % l = n)
      /\ n \in -l .. -1 => n % l = n + l
  BY <1>2, Remainder
<1>4. /\ Wrapped(n, "int") = -IntHalf + (a % i)
      /\ Wrapped(n, "int64") = -Half + (b % l)
      /\ Wrapped(n, "uint64") = n % l
  <2>1. n - (-IntHalf) = a /\ n - (-Half) = b /\ n - 0 = n /\ 2 ^ IntBits = i /\ 2 ^ LongBits = l
    BY <1>1 DEF a, b, i, l
  <2>2. /\ Wrapped(n, "int") = -IntHalf + ((n - (-IntHalf)) % 2 ^ IntBits)
        /\ Wrapped(n, "int64") = -Half + ((n - (-Half)) % 2 ^ LongBits)
        /\ Wrapped(n, "uint64") = 0 + ((n - 0) % 2 ^ LongBits)
    BY TypeRanges DEF Wrapped
  <2>3. 0 + (n % l) = n % l
    BY <1>2, <1>3
  <2>4. QED
    BY <2>1, <2>2, <2>3, Zenon
<1>5. Wrapped(n, "int") \in -IntHalf .. IntHalf - 1
  BY <1>1, <1>3, <1>4 DEF i
<1>6. n \in -IntHalf .. IntHalf - 1 => Wrapped(n, "int") = n
  BY <1>1, <1>3, <1>4 DEF i, a
<1>7. n \in -Half .. Half - 1 => Wrapped(n, "int64") = n
  BY <1>1, <1>3, <1>4 DEF l, b
<1>8. /\ n \in 0 .. Half - 1 => Wrapped(n, "uint64") = n
      /\ n \in -Half .. -1 => Wrapped(n, "uint64") = n + 2 * Half
  BY <1>1, <1>3, <1>4 DEF l
<1>9. QED
  BY <1>5, <1>6, <1>7, <1>8

LEMMA ToLong ==
  ASSUME NEW n \in Int
  PROVE  To(n, "int64") = IF n < -Half THEN -Half ELSE IF n > Half - 1 THEN Half - 1 ELSE n
<1>1. Half \in Nat \ {0}
  BY Borders
<1>2. To(n, "int64") = Min({Half - 1, Max({-Half, n})})
  BY TypeRanges DEF To
<1> DEFINE m == IF -Half >= n THEN -Half ELSE n
<1>3. Max({-Half, n}) = m /\ m \in Int
  BY <1>1, MinMax
<1> HIDE DEF m
<1>4. Min({Half - 1, m}) = IF Half - 1 <= m THEN Half - 1 ELSE m
  BY <1>1, <1>3, MinMax
<1>5. QED
  BY <1>1, <1>2, <1>3, <1>4 DEF m

(* What is read of a number that was given.                                *)
ReadOf(n, set, lib) == Rounded(Wrapped(To(n, set), lib))

LEMMA IntReads ==
  ASSUME NEW n \in Int
  PROVE  ReadOf(n, "int", "int") = n <=> InRange("int", n)
<1>1. IntHalf \in Nat \ {0} /\ 2 * IntHalf <= Exact /\ Exact \in Nat
  BY Borders
<1> DEFINE w == Wrapped(n, "int")
<1>2. w \in -IntHalf .. IntHalf - 1 /\ (n \in -IntHalf .. IntHalf - 1 => w = n)
  BY WrappedIn
<1>3. To(n, "int") = w
  BY TypeRanges DEF To
<1> HIDE DEF w
<1>4. w \in Int
  BY <1>1, <1>2
<1>5. Wrapped(w, "int") = w
  BY <1>2, <1>4, WrappedIn
<1>6. Rounded(w) = w
  <2>1. Abs(w) < Exact
    BY <1>1, <1>2 DEF Abs
  <2>2. QED
    BY <1>4, <2>1, SmallExact
<1>7. ReadOf(n, "int", "int") = w
  BY <1>3, <1>5, <1>6 DEF ReadOf
<1>8. InRange("int", n) <=> n \in -IntHalf .. IntHalf - 1
  BY TypeRanges DEF InRange
<1>9. QED
  BY <1>2, <1>7, <1>8

LEMMA LongReads ==
  ASSUME NEW n \in Int, Rounded(n) = n
  PROVE  ReadOf(n, "int64", "int64") = n <=> InRange("int64", n) \/ n = Half
<1>1. Half \in Nat \ {0}
  BY Borders
<1>2. InRange("int64", n) <=> n \in -Half .. Half - 1
  BY TypeRanges DEF InRange
<1> DEFINE t == To(n, "int64")
<1>3. t = (IF n < -Half THEN -Half ELSE IF n > Half - 1 THEN Half - 1 ELSE n)
  BY ToLong
<1> HIDE DEF t
<1>4. t \in -Half .. Half - 1 /\ t \in Int
  BY <1>1, <1>3
<1>5. ReadOf(n, "int64", "int64") = Rounded(t)
  BY <1>4, WrappedIn DEF ReadOf, t
<1>6. CASE n \in -Half .. Half - 1
  BY <1>1, <1>2, <1>3, <1>5, <1>6
<1>7. CASE n > Half - 1
  <2>1. t = Half - 1
    BY <1>1, <1>3, <1>7
  <2>2. Rounded(t) = Half
    BY <2>1, HighestRounds
  <2>3. QED
    BY <1>1, <1>2, <1>5, <1>7, <2>2
<1>8. CASE n < -Half
  <2>1. Rounded(t) = -Half
    BY <1>3, <1>8, LowestExact
  <2>2. QED
    BY <1>1, <1>2, <1>5, <1>8, <2>1
<1>9. QED
  BY <1>1, <1>6, <1>7, <1>8

LEMMA UnsignedReads ==
  ASSUME NEW n \in Int, Rounded(n) = n
  PROVE  ReadOf(n, "int64", "uint64") = n <=> (InRange("uint64", n) /\ InRange("int64", n)) \/ n = Half
<1>1. Half \in Nat \ {0}
  BY Borders
<1>2. InRange("uint64", n) /\ InRange("int64", n) <=> n \in 0 .. Half - 1
  BY <1>1, TypeRanges DEF InRange
<1> DEFINE t == To(n, "int64")
<1>3. t = (IF n < -Half THEN -Half ELSE IF n > Half - 1 THEN Half - 1 ELSE n)
  BY ToLong
<1> HIDE DEF t
<1>4. t \in Int
  BY <1>1, <1>3
<1>5. ReadOf(n, "int64", "uint64") = Rounded(Wrapped(t, "uint64"))
  BY DEF ReadOf, t
<1>6. CASE n \in 0 .. Half - 1
  <2>1. t = n
    BY <1>1, <1>3, <1>6
  <2>2. Wrapped(t, "uint64") = n
    BY <1>6, <2>1, WrappedIn
  <2>3. QED
    BY <1>2, <1>5, <1>6, <2>2
<1>7. CASE n > Half - 1
  <2>1. t = Half - 1
    BY <1>1, <1>3, <1>7
  <2>2. t \in 0 .. Half - 1
    BY <1>1, <2>1
  <2>3. Wrapped(t, "uint64") = t
    BY <1>4, <2>2, WrappedIn
  <2>4. Rounded(t) = Half
    BY <2>1, HighestRounds
  <2>5. QED
    BY <1>1, <1>2, <1>5, <1>7, <2>3, <2>4
<1>8. CASE n < 0
  <2>1. t \in -Half .. -1
    BY <1>1, <1>3, <1>8
  <2>2. Wrapped(t, "uint64") = t + 2 * Half
    BY <1>4, <2>1, WrappedIn
  <2>3. t + 2 * Half \in Half .. 2 * Half - 1
    BY <1>1, <2>1
  <2>4. Rounded(t + 2 * Half) \in Nat
    BY <2>3, LargePositive
  <2>5. QED
    BY <1>1, <1>2, <1>5, <1>8, <2>2, <2>4
<1>9. QED
  BY <1>1, <1>6, <1>7, <1>8

-----------------------------------------------------------------------------
(* The least of a set of numbers, by the well-founded induction of the     *)
(* library.                                                                *)
LEMMA Least ==
  ASSUME NEW S \in SUBSET Nat, S # {}
  PROVE  Min(S) \in S /\ \A x \in S : Min(S) <= x
<1> DEFINE R == OpToRel(<, Nat)
<1>1. IsWellFoundedOn(R, Nat)
  BY NatLessThanWellFounded
<1>2. \A x, y \in Nat : <<x, y>> \in R <=> x < y
  BY DEF OpToRel
<1> HIDE DEF R
<1>3. \E x \in S : \A y \in S : ~(<<y, x>> \in R)
  <2>1. S \subseteq Nat
    OBVIOUS
  <2>2. QED
    BY <1>1, <2>1, WFMin, Zenon
<1>4. PICK x \in S : \A y \in S : ~(<<y, x>> \in R)
  BY <1>3, Zenon
<1>5. ASSUME NEW y \in S
      PROVE  x <= y
  <2>1. x \in Nat /\ y \in Nat /\ ~(<<y, x>> \in R)
    BY <1>4
  <2>2. ~(y < x)
    BY <1>2, <2>1
  <2>3. QED
    BY <2>1, <2>2
<1>6. QED
  BY <1>4, <1>5 DEF Min

(* A string is read whole if it has no zero and is UTF-8.                  *)
LEMMA TextReads ==
  ASSUME NEW s \in Seq(Nat)
  PROVE  Decoded(CString(s)) = s <=> \A i \in DOMAIN s : s[i] \notin {zero, malformed}
<1> DEFINE zeros == {i \in DOMAIN s : s[i] = zero}
<1>1. CASE zeros = {}
  <2>1. CString(s) = s /\ \A i \in DOMAIN s : s[i] # zero
    BY <1>1 DEF CString
  <2>2. Decoded(s) = s <=> \A i \in DOMAIN s : s[i] # malformed
    <3>1. s = [i \in DOMAIN s |-> s[i]] /\ replacement # malformed
      BY DEF replacement, malformed
    <3>2. \A i \in DOMAIN s : Decoded(s)[i] = IF s[i] = malformed THEN replacement ELSE s[i]
      BY DEF Decoded
    <3>3. (\A i \in DOMAIN s : s[i] # malformed) => Decoded(s) = s
      BY <3>1 DEF Decoded
    <3>4. QED
      BY <3>1, <3>2, <3>3
  <2>3. QED
    BY <2>1, <2>2
<1>2. CASE zeros # {}
  <2> DEFINE k == Min(zeros)
  <2>1. CString(s) = SubSeq(s, 1, k - 1)
    BY <1>2 DEF CString
  <2>2. zeros \in SUBSET Nat /\ DOMAIN s = 1 .. Len(s) /\ Len(s) \in Nat
    OBVIOUS
  <2>3. k \in zeros
    BY <1>2, <2>2, Least
  <2>4. k \in 1 .. Len(s) /\ s[k] = zero
    BY <2>2, <2>3
  <2> HIDE DEF k, zeros
  <2>5. DOMAIN SubSeq(s, 1, k - 1) = 1 .. k - 1
    BY <2>4
  <2>6. DOMAIN Decoded(CString(s)) = 1 .. k - 1
    BY <2>1, <2>5 DEF Decoded
  <2>7. k \in DOMAIN s /\ k \notin 1 .. k - 1
    BY <2>2, <2>4
  <2>8. QED
    BY <2>4, <2>6, <2>7
<1>3. QED
  BY <1>1, <1>2

-----------------------------------------------------------------------------
(* The types: what binding.cc takes an option for, and what libzmq does.   *)

(* Every option that libzmq has, and lib/index.js or a set of binding.cc   *)
(* too, is in the set of its type, ZMQ_FD in that of an int.               *)
LEMMA SameType ==
  ASSUME NEW v \in Versions, NEW opt \in Option, LibraryType(v, opt) # "none",
         opt \in longOptions \/ Type(v, opt) # "none"
  PROVE  IF opt = 14 THEN Type(v, opt) = "int" /\ LibraryType(v, opt) = "SOCKET"
                     ELSE /\ Type(v, opt) = LibraryType(v, opt)
                          /\ LibraryType(v, opt) \in {"int", "uint32", "int64", "uint64", "binary"}
<1>1. CASE v = 2
  BY <1>1 DEF Option, longOptions, LibraryType, Type, opts_int, opts_uint32, opts_int64,
              opts_uint64, opts_binary
<1>2. CASE v = 3
  BY <1>2 DEF Option, longOptions, LibraryType, Type, opts_int, opts_uint32, opts_int64,
              opts_uint64, opts_binary
<1>3. CASE v = 4
  BY <1>3 DEF Option, longOptions, LibraryType, Type, opts_int, opts_uint32, opts_int64,
              opts_uint64, opts_binary
<1>4. QED
  BY <1>1, <1>2, <1>3 DEF Versions

LEMMA Sizes ==
  /\ \A type \in {"int", "uint32"} : Size(type) = IntBits
  /\ \A type \in {"int64", "uint64"} : Size(type) = LongBits
  /\ Size("SOCKET") = SocketBits /\ Size("binary") = 0 /\ Size("none") = -1
  /\ IntBits \in Nat \ {0} /\ LongBits \in Nat \ {0} /\ IntBits # LongBits
BY OptionsAssumption DEF Size, Bits

(* The ways a value is set.                                                *)
LEMMA SetTypes ==
  ASSUME NEW v \in Versions, NEW opt \in Option, NEW val, Takes(v, opt, val)
  PROVE  /\ Type(v, opt) = LibraryType(v, opt)
         /\ \/ LibraryType(v, opt) = "binary" /\ val.of = "buffer"
            \/ /\ val.of = "number"
               /\ \/ SetType(v, opt) = "int" /\ LibraryType(v, opt) = "int"
                  \/ SetType(v, opt) = "int64" /\ LibraryType(v, opt) = "int64"
                  \/ SetType(v, opt) = "int64" /\ LibraryType(v, opt) = "uint64"
<1> DEFINE type == SetType(v, opt)
<1>1. /\ type # "none" /\ val.of = (IF type = "binary" THEN "buffer" ELSE "number")
      /\ opt \notin ReadOnly /\ Size(LibraryType(v, opt)) = Size(type)
  BY DEF Takes
<1>2. Type(v, opt) \in {"int", "uint32", "int64", "uint64", "binary"}
  BY <1>1 DEF SetType, Type
<1>3. Size(type) # -1
  BY <1>2, Sizes DEF SetType
<1>4. LibraryType(v, opt) # "none"
  BY <1>1, <1>3, Sizes
<1>5. opt # 14 /\ opt # 15
  BY <1>1 DEF ReadOnly
<1>6. /\ Type(v, opt) = LibraryType(v, opt)
      /\ LibraryType(v, opt) \in {"int", "uint32", "int64", "uint64", "binary"}
  BY <1>2, <1>4, <1>5, SameType
<1>7. LibraryType(v, opt) # "uint32"
  BY <1>5 DEF LibraryType
<1>8. QED
  BY <1>1, <1>6, <1>7 DEF SetType

-----------------------------------------------------------------------------
(* The version does not change.                                            *)
LEMMA VersionStays == OptionsSpec => [](version \in Versions)
<1>1. OptionsInit => version \in Versions
  BY DEF OptionsInit
<1>2. version \in Versions /\ [FALSE]_version => (version \in Versions)'
  OBVIOUS
<1>3. QED
  BY <1>1, <1>2, PTL DEF OptionsSpec

(* No option is refused, and none read, with a wrong size but ZMQ_FD, and  *)
(* that where a SOCKET is wider than an int: the sets of Initialize give an*)
(* option, in each version that has it, a type as large as libzmq's.       *)
THEOREM OptionsRightSize == OptionsSpec => []RightSize
<1>1. ASSUME version \in Versions
      PROVE  RightSize
  <2> DEFINE Wrong(opt) ==
        /\ opt \in longOptions \/ Type(version, opt) # "none"
        /\ LibraryType(version, opt) # "none"
        /\ {Size(Type(version, opt)), Size(SetType(version, opt))} # {Size(LibraryType(version, opt))}
  <2>1. Misfits[version] = {opt \in Option : Wrong(opt)}
    BY <1>1 DEF Misfits
  <2>2. ASSUME NEW opt \in Option, opt # 14
        PROVE  ~Wrong(opt)
    <3> SUFFICES ASSUME opt \in longOptions \/ Type(version, opt) # "none",
                        LibraryType(version, opt) # "none"
                 PROVE  /\ Size(Type(version, opt)) = Size(LibraryType(version, opt))
                        /\ Size(SetType(version, opt)) = Size(LibraryType(version, opt))
      OBVIOUS
    <3>1. Type(version, opt) = LibraryType(version, opt)
      BY <1>1, <2>2, SameType
    <3>2. QED
      BY <3>1, Sizes DEF SetType
  <2>3. 14 \in Option /\ (Wrong(14) <=> SocketBits # IntBits)
    <3>1. 14 \in Option /\ 14 \in longOptions /\ LibraryType(version, 14) = "SOCKET"
      BY DEF Option, longOptions, LibraryType
    <3>2. Type(version, 14) = "int"
      BY <1>1, <3>1, SameType
    <3>3. SetType(version, 14) = "int"
      BY <3>2 DEF SetType
    <3>4. Size("int") = IntBits /\ Size("SOCKET") = SocketBits
      BY Sizes
    <3>5. QED
      BY <3>1, <3>2, <3>3, <3>4
  <2> HIDE DEF Wrong
  <2>4. QED
    BY <2>1, <2>2, <2>3 DEF RightSize
<1>2. QED
  BY <1>1, VersionStays, PTL

(* A number is read as it was given exactly where the types say.           *)
LEMMA NumberReads ==
  ASSUME NEW v \in Versions, NEW opt \in Option, NEW val \in Doubles, Takes(v, opt, val)
  PROVE  Same(val, Read(v, opt, Kept(v, opt, val))) = Faithful(v, opt, val)
<1> DEFINE set == SetType(v, opt)  lib == LibraryType(v, opt)  read == ReadOf(val.n, set, lib)
<1>1. PICK n \in Int, fraction \in BOOLEAN : val = Number(n, fraction) /\ Rounded(n) = n
  BY DEF Doubles
<1>2. val.of = "number" /\ val.n = n /\ val.fraction = fraction
  BY <1>1 DEF Number
<1>3. Type(v, opt) # "binary" /\ lib # "binary"
  BY <1>2, SetTypes
<1>4. Read(v, opt, Kept(v, opt, val)) = Number(read, FALSE)
  BY <1>3 DEF Read, Kept, ReadOf
<1>5. Same(val, Read(v, opt, Kept(v, opt, val))) <=> ~fraction /\ read = n
  <2>1. Same(val, Read(v, opt, Kept(v, opt, val))) <=> Number(read, FALSE) = Number(n, fraction)
    BY <1>1, <1>2, <1>4, Zenon DEF Same
  <2>2. Number(read, FALSE).n = read /\ Number(n, fraction).n = n
    BY DEF Number
  <2>3. Number(read, FALSE).fraction = FALSE /\ Number(n, fraction).fraction = fraction
    BY Zenon DEF Number
  <2>4. Number(read, FALSE) = Number(n, fraction) => read = n /\ ~fraction
    BY <2>2, <2>3, Zenon
  <2>5. read = n /\ ~fraction => Number(read, FALSE) = Number(n, fraction)
    BY <1>1, Zenon
  <2>6. QED
    BY <2>1, <2>4, <2>5, Zenon
<1>6. Faithful(v, opt, val) <=>
        /\ ~fraction
        /\ (InRange(lib, n) /\ InRange("int64", n)) \/ (Bits(lib) = LongBits /\ n = Highest("int64") + 1)
  BY <1>2, <1>3 DEF Faithful
<1>7. Half \in Nat \ {0} /\ Highest("int64") + 1 = Half
  BY Borders, TypeRanges
<1>8. read = n <=>
        (InRange(lib, n) /\ InRange("int64", n)) \/ (Bits(lib) = LongBits /\ n = Highest("int64") + 1)
  <2>1. CASE set = "int" /\ lib = "int"
    <3>1. InRange("int", n) => InRange("int64", n)
      <4>1. IntHalf \in Nat /\ IntHalf <= Half
        BY Borders
      <4>2. QED
        BY <1>1, <1>7, <4>1, TypeRanges DEF InRange
    <3>2. Bits(lib) # LongBits
      BY <2>1, TypeRanges
    <3>3. QED
      BY <1>1, <1>2, <2>1, <3>1, <3>2, IntReads
  <2>2. CASE set = "int64" /\ lib = "int64"
    BY <1>1, <1>2, <1>7, <2>2, LongReads, TypeRanges
  <2>3. CASE set = "int64" /\ lib = "uint64"
    BY <1>1, <1>2, <1>7, <2>3, UnsignedReads, TypeRanges
  <2>4. QED
    BY <1>2, <2>1, <2>2, <2>3, SetTypes
<1>9. QED
  BY <1>5, <1>6, <1>8 DEF Same, Faithful

(* Bytes are read up to the first zero, and decoded.                       *)
LEMMA BytesRead ==
  ASSUME NEW v \in Versions, NEW opt \in Option, NEW kind \in {"string", "buffer"},
         NEW s \in Texts, Takes(v, opt, Bytes(kind, s))
  PROVE  Same(Bytes(kind, s), Read(v, opt, Kept(v, opt, Bytes(kind, s))))
           = Faithful(v, opt, Bytes(kind, s))
<1> DEFINE val == Bytes(kind, s)
<1>1. val.of = kind /\ val.s = s /\ kind # "number"
  BY DEF Bytes
<1>2. s \in Seq(Nat)
  <2>1. CASE \E a, b \in {zero, character, malformed, replacement} : s = <<a, b>>
    BY <2>1 DEF zero, character, malformed, replacement
  <2>2. CASE s \in {<<>>, <<character, zero, character>>}
    <3>1. <<>> \in Seq(Nat) /\ <<1, 0, 1>> \in Seq(Nat)
      OBVIOUS
    <3>2. QED
      BY <2>2, <3>1, Zenon DEF zero, character
  <2>3. QED
    BY <2>1, <2>2 DEF Texts
<1>3. Type(v, opt) = "binary" /\ LibraryType(v, opt) = "binary"
  BY <1>1, SetTypes
<1>4. Read(v, opt, Kept(v, opt, val)) = Bytes("string", Decoded(CString(s)))
  BY <1>1, <1>3 DEF Read, Kept
<1>5. Same(val, Read(v, opt, Kept(v, opt, val))) = (Decoded(CString(s)) = s)
  BY <1>1, <1>4 DEF Same, Bytes
<1>6. Faithful(v, opt, val) = (\A i \in DOMAIN s : s[i] \notin {zero, malformed})
  BY <1>1, <1>3 DEF Faithful
<1>7. QED
  BY <1>2, <1>5, <1>6, TextReads

(* A value reads as it was given exactly when both types take it, or when  *)
(* it is the first Number beyond int64_t, which the two roundings restore; *)
(* bytes, exactly when they are UTF-8 and no zero is among them.           *)
THEOREM OptionsReadBack == OptionsSpec => []ReadsBack
<1>1. ASSUME version \in Versions
      PROVE  ReadsBack
  <2> SUFFICES ASSUME NEW opt \in Option, NEW value \in Values, NEW accessor \in BOOLEAN,
                      Takes(version, opt, Converted(value, accessor))
               PROVE  LET val == Converted(value, accessor)
                      IN Same(val, Read(version, opt, Kept(version, opt, val))) = Faithful(version, opt, val)
    BY <1>1 DEF ReadsBack, Exceptions
  <2>1. CASE value \in Doubles
    <3>1. value.of = "number"
      BY <2>1 DEF Doubles, Number
    <3>2. Converted(value, accessor) = value
      BY <3>1 DEF Converted
    <3>3. QED
      BY <1>1, <2>1, <3>2, NumberReads
  <2>2. CASE \E kind \in {"string", "buffer"}, s \in Texts : value = Bytes(kind, s)
    <3>1. PICK kind \in {"string", "buffer"}, s \in Texts : value = Bytes(kind, s)
      BY <2>2
    <3>2. \E given \in {"string", "buffer"} : Converted(value, accessor) = Bytes(given, s)
      BY <3>1 DEF Converted, Bytes
    <3>3. QED
      BY <1>1, <3>2, BytesRead
  <2>3. QED
    BY <2>1, <2>2 DEF Values
<1>2. QED
  BY <1>1, VersionStays, PTL
=============================================================================
