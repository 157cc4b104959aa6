-------------------------------- MODULE Proxy --------------------------------
(***************************************************************************)
(* zmq.proxy of lib/index.js: listeners that send what one socket receives *)
(* on another, and what the backend receives on a capture socket too.      *)
(*                                                                         *)
(* The loops of the three sockets nest in one stack: a listener's send     *)
(* writes, writing notices input and reads, which calls listeners again.   *)
(* The loops are those of SocketPump with one part to a message and        *)
(* nothing that fails; a socket may be polled whenever it has something to *)
(* do (SocketPump is about whether it will be).                            *)
(***************************************************************************)
EXTENDS Integers, Sequences, SequencesExt

CONSTANTS
  Kinds,             \* the types of frontend and backend
  Frames,            \* how many frames an arriving message may have
  HWM,               \* messages libzmq accepts before a peer has to read
  MaxArrivals        \* bound: messages that arrive at both sockets together

AllKinds == {"push/pull", "pull/push", "xpub/xsub", "router/dealer"}

ASSUME ProxyAssumption ==
  /\ Kinds \subseteq AllKinds /\ Frames \subseteq Nat \ {0}
  /\ HWM \in Nat \ {0} /\ MaxArrivals \in Nat

Sockets == {"frontend", "backend", "capture"}

VARIABLES
  kind, capture,     \* the arguments of proxy: types, and is there a capture?
  inbox,             \* per socket: messages that have arrived, each known by its
                     \* place among them and its number of frames
  room,              \* messages that libzmq still accepts
  outgoing,          \* _outgoing
  hand,              \* the batch that sendv could not take, not yet restored
  reading, writing,  \* _isFlushingReads, _isFlushingWrites
  stack,             \* the running calls, the innermost last
  received,          \* history: what was read of a socket
  taken              \* history: what libzmq took from a socket

argVars == <<kind, capture>>
vars == <<argVars, inbox, room, outgoing, hand, reading, writing, stack, received, taken>>

Receives(s) ==
  \/ s = "frontend" /\ kind # "push/pull"
  \/ s = "backend" /\ kind # "pull/push"

-----------------------------------------------------------------------------
(* The listeners.                                                          *)

(* To whom the listener of s sends, in this order.                         *)
Targets(s) ==
  IF s = "frontend" THEN <<"backend">>
  ELSE IF capture THEN <<"frontend", "capture">> ELSE <<"frontend">>

(* Mistake: the pack of router and dealer is made of every message.        *)
ForwardedPacked(m, target) == [m EXCEPT !.frames = IF target = "capture" THEN 1 ELSE 3]

(* What it sends there.  The listeners of router and dealer name three     *)
(* arguments: more are dropped, those that are missing are sent as the     *)
(* string "undefined".                                                     *)
Forwarded(m, target) ==
  IF kind # "router/dealer" THEN m
  ELSE [m EXCEPT !.frames = IF target = "capture" THEN 1 ELSE 3]

-----------------------------------------------------------------------------
(* Frames of the stack.                                                    *)
Call(f, s) == [call |-> f, of |-> s]
Listener(s, m, to) == [call |-> "listener", of |-> s, m |-> m, to |-> to]

Idle == stack = <<>>
Top == Last(stack)
Running(f, s) == ~Idle /\ Top.call = f /\ Top.of = s
Become(frames) == stack' = Front(stack) \o frames

-----------------------------------------------------------------------------
(* libzmq and the event loop.                                              *)
Arrived(s) == Len(inbox[s]) + Len(received[s])

Arrive(s) ==
  /\ Receives(s) /\ Arrived("frontend") + Arrived("backend") < MaxArrivals
  /\ \E k \in Frames :
       inbox' = [inbox EXCEPT ![s] =
                  Append(@, [n |-> Arrived(s) + 1, frames |-> k])]
  /\ UNCHANGED <<argVars, room, outgoing, hand, reading, writing, stack, received, taken>>

Drain(s) ==
  /\ room[s] < HWM
  /\ room' = [room EXCEPT ![s] = @ + 1]
  /\ UNCHANGED <<argVars, inbox, outgoing, hand, reading, writing, stack, received, taken>>

(* The poll callback: onReadReady, then onSendReady.                       *)
Poll(s) ==
  /\ Idle
  /\ stack' = (IF outgoing[s] # <<>> /\ room[s] > 0 THEN <<Call("flushWrites", s)>> ELSE <<>>)
              \o (IF inbox[s] # <<>> THEN <<Call("flushReads", s)>> ELSE <<>>)
  /\ UNCHANGED <<argVars, inbox, room, outgoing, hand, reading, writing, received, taken>>

-----------------------------------------------------------------------------
(* _flushReads.                                                            *)

FlushReads(s) ==
  /\ Running("flushReads", s)
  /\ Become(IF reading[s] THEN <<>> ELSE <<Call("reads", s)>>)
  /\ reading' = [reading EXCEPT ![s] = TRUE]
  /\ UNCHANGED <<argVars, inbox, room, outgoing, hand, writing, received, taken>>

(* A message is read, its listener called.                                 *)
ReadMessage(s) ==
  /\ Running("reads", s) /\ inbox[s] # <<>>
  /\ inbox' = [inbox EXCEPT ![s] = Tail(@)]
  /\ received' = [received EXCEPT ![s] = Append(@, Head(inbox[s]))]
  /\ stack' = Append(stack, Listener(s, Head(inbox[s]), Targets(s)))
  /\ UNCHANGED <<argVars, room, outgoing, hand, reading, writing, taken>>

ReadNothing(s) ==
  /\ Running("reads", s) /\ inbox[s] = <<>>
  /\ reading' = [reading EXCEPT ![s] = FALSE]
  /\ Become(<<Call("flushWrites", s)>>)
  /\ UNCHANGED <<argVars, inbox, room, outgoing, hand, writing, received, taken>>

(* The listener of s calls send of the next target, or returns.            *)
Forward(s) ==
  /\ Running("listener", s)
  /\ IF Top.to = <<>>
       THEN Become(<<>>) /\ UNCHANGED outgoing
       ELSE LET target == Head(Top.to)
            IN /\ outgoing' = [outgoing EXCEPT ![target] = Append(@, Forwarded(Top.m, target))]
               /\ Become(<<[Top EXCEPT !.to = Tail(@)], Call("flushWrites", target)>>)
  /\ UNCHANGED <<argVars, inbox, room, hand, reading, writing, received, taken>>

-----------------------------------------------------------------------------
(* _flushWrites, and sendv.                                                *)

(* Mistake: no guard against re-entry.                                     *)
FlushWritesAlways(s) ==
  /\ Running("flushWrites", s)
  /\ Become(<<Call("writes", s)>>)
  /\ writing' = [writing EXCEPT ![s] = TRUE]
  /\ UNCHANGED <<argVars, inbox, room, outgoing, hand, reading, received, taken>>

FlushWrites(s) ==
  /\ Running("flushWrites", s)
  /\ Become(IF writing[s] THEN <<>> ELSE <<Call("writes", s)>>)
  /\ writing' = [writing EXCEPT ![s] = TRUE]
  /\ UNCHANGED <<argVars, inbox, room, outgoing, hand, reading, received, taken>>

(* Nothing to send, or the socket is neither writable nor readable.        *)
WritesEnd(s) ==
  /\ Running("writes", s)
  /\ outgoing[s] = <<>> \/ (room[s] = 0 /\ inbox[s] = <<>>)
  /\ writing' = [writing EXCEPT ![s] = FALSE]
  /\ Become(<<>>)
  /\ UNCHANGED <<argVars, inbox, room, outgoing, hand, reading, received, taken>>

(* sendv gives a batch to libzmq, calls onReadReady if there is input, and *)
(* the loop goes on.                                                       *)
SendvTakes(s) ==
  /\ Running("writes", s) /\ outgoing[s] # <<>> /\ room[s] > 0
  /\ outgoing' = [outgoing EXCEPT ![s] = Tail(@)]
  /\ taken' = [taken EXCEPT ![s] = Append(@, Head(outgoing[s]))]
  /\ room' = [room EXCEPT ![s] = @ - 1]
  /\ stack' = IF inbox[s] = <<>> THEN stack ELSE Append(stack, Call("flushReads", s))
  /\ UNCHANGED <<argVars, inbox, hand, reading, writing, received>>

(* sendv finds input only: it calls onReadReady before it returns false.   *)
SendvReads(s) ==
  /\ Running("writes", s) /\ outgoing[s] # <<>> /\ room[s] = 0 /\ inbox[s] # <<>>
  /\ hand' = [hand EXCEPT ![s] = <<Head(outgoing[s])>>]
  /\ outgoing' = [outgoing EXCEPT ![s] = Tail(@)]
  /\ Become(<<Call("restore", s), Call("flushReads", s)>>)
  /\ UNCHANGED <<argVars, inbox, room, reading, writing, received, taken>>

(* Mistake: the batch goes behind those that listeners have appended.      *)
RestoreBehind(s) ==
  /\ Running("restore", s)
  /\ outgoing' = [outgoing EXCEPT ![s] = @ \o hand[s]]
  /\ hand' = [hand EXCEPT ![s] = <<>>]
  /\ writing' = [writing EXCEPT ![s] = FALSE]
  /\ Become(<<>>)
  /\ UNCHANGED <<argVars, inbox, room, reading, received, taken>>

Restore(s) ==
  /\ Running("restore", s)
  /\ outgoing' = [outgoing EXCEPT ![s] = hand[s] \o @]
  /\ hand' = [hand EXCEPT ![s] = <<>>]
  /\ writing' = [writing EXCEPT ![s] = FALSE]
  /\ Become(<<>>)
  /\ UNCHANGED <<argVars, inbox, room, reading, received, taken>>

-----------------------------------------------------------------------------
(* proxy() refuses sockets of other types and in the other order.          *)
Init ==
  /\ kind \in Kinds /\ capture \in BOOLEAN
  /\ inbox = [s \in Sockets |-> <<>>] /\ outgoing = inbox /\ hand = inbox
  /\ received = inbox /\ taken = inbox
  /\ room = [s \in Sockets |-> HWM]
  /\ reading = [s \in Sockets |-> FALSE] /\ writing = reading
  /\ stack = <<>>

Step(s) ==
  \/ FlushReads(s) \/ ReadMessage(s) \/ ReadNothing(s) \/ Forward(s)
  \/ FlushWrites(s) \/ WritesEnd(s) \/ SendvTakes(s) \/ SendvReads(s) \/ Restore(s)

Next == \E s \in Sockets : Arrive(s) \/ Drain(s) \/ Poll(s) \/ Step(s)

Spec == Init /\ [][Next]_vars

-----------------------------------------------------------------------------
(* What was given to a target, in the order in which it is or will be sent.*)
GivenTo(target) == taken[target] \o hand[target] \o outgoing[target]
Numbers(seq) == [i \in DOMAIN seq |-> seq[i].n]

(* The messages of s that a running listener has still to send to target.  *)
Due(s, target) ==
  [i \in {j \in DOMAIN stack : /\ stack[j].call = "listener" /\ stack[j].of = s
                               /\ target \in ToSet(stack[j].to)} |-> stack[i].m.n]

(* Each direction keeps the order, forgets nothing and repeats nothing,    *)
(* however the loops nest: what is received on s and was not given to its  *)
(* target is what a listener that runs has still to send.                  *)
InOrder(s, target) ==
  LET got == Numbers(received[s])  given == Numbers(GivenTo(target))
  IN /\ IsPrefix(given, got)
     /\ Len(got) = Len(given) + (IF Due(s, target) = <<>> THEN 0 ELSE 1)

(* See InOrder.  The capture socket sends what the backend receives, in the*)
(* same order as the frontend does.                                        *)
ForwardedInOrder ==
  /\ InOrder("frontend", "backend") /\ InOrder("backend", "frontend")
  /\ capture => InOrder("backend", "capture")

(* However much arrives on both sides, the calls nest to a bounded depth:  *)
(* no loop of a socket runs inside another one of the same kind.           *)
NestingBounded ==
  \A s \in Sockets, calls \in {{"reads"}, {"listener"}, {"writes", "restore"}} :
    \A i, j \in {k \in DOMAIN stack : stack[k].of = s /\ stack[k].call \in calls} : i = j

(* Messages go through unaltered, but for those between a router and a     *)
(* dealer that do not have three frames.                                   *)
Unaltered ==
  \A s \in {"frontend", "backend"} : \A i \in DOMAIN GivenTo(Targets(s)[1]) :
    LET m == received[s][i]
    IN GivenTo(Targets(s)[1])[i] = m \/ (kind = "router/dealer" /\ m.frames # 3)

=============================================================================
