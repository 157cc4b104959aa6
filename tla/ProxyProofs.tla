----------------------------- MODULE ProxyProofs -----------------------------
(* Proofs about Proxy, for every value of its constants: however many      *)
(* messages arrive on both sides, of how many frames, and whenever the     *)
(* peers read.                                                             *)
EXTENDS Proxy, SequenceTheorems, TLAPS

(* The values of the variables.                                            *)
Message == [n : Nat, frames : Nat]
Calls == {"flushReads", "reads", "flushWrites", "writes", "restore"}
Frame == [call : Calls, of : Sockets]
         \cup [call : {"listener"}, of : Sockets, m : Message, to : Seq(Sockets)]
Queues == [Sockets -> Seq(Message)]

Types ==
  /\ inbox \in Queues /\ outgoing \in Queues /\ hand \in Queues
  /\ received \in Queues /\ taken \in Queues
  /\ room \in [Sockets -> Nat]
  /\ reading \in [Sockets -> BOOLEAN] /\ writing \in [Sockets -> BOOLEAN]
  /\ capture \in BOOLEAN
  /\ stack \in Seq(Frame)

(* The calls that run a loop of a socket.  A loop that sendv has left      *)
(* without a message writes until the batch is restored.                   *)
ReadsAt(i) == stack[i].call = "reads"
WritesAt(i) == stack[i].call \in {"writes", "restore"}
ListensAt(i) == stack[i].call = "listener"

(* The flags of the loops: they are set while the loop is in the stack, so *)
(* the loop is there once.                                                 *)
ReadsOnce ==
  /\ \A i \in DOMAIN stack : ReadsAt(i) => reading[stack[i].of]
  /\ \A i, j \in DOMAIN stack :
       ReadsAt(i) /\ ReadsAt(j) /\ stack[i].of = stack[j].of => i = j

WritesOnce ==
  /\ \A i \in DOMAIN stack : WritesAt(i) => writing[stack[i].of]
  /\ \A i, j \in DOMAIN stack :
       WritesAt(i) /\ WritesAt(j) /\ stack[i].of = stack[j].of => i = j

(* A listener is called by the loop that reads its socket.                 *)
ListenersInLoop ==
  \A i \in DOMAIN stack : ListensAt(i) =>
    /\ i > 1 /\ ReadsAt(i - 1) /\ stack[i - 1].of = stack[i].of

NestInv == ReadsOnce /\ WritesOnce /\ ListenersInLoop

(* The messages of a socket that receives have their places; the capture   *)
(* socket receives none.                                                   *)
Placed ==
  /\ \A s \in Sockets : \A i \in DOMAIN received[s] : received[s][i].n = i
  /\ \A s \in Sockets : \A i \in DOMAIN inbox[s] : inbox[s][i].n = Len(received[s]) + i
  /\ inbox["capture"] = <<>>

(* A batch is in hand only while a call will restore it.                   *)
HandRestored ==
  \A s \in Sockets : hand[s] # <<>> =>
    \E i \in DOMAIN stack : stack[i].call = "restore" /\ stack[i].of = s

(* What a listener of s has still to do.                                   *)
Rest(s) ==
  IF s = "frontend" THEN {<<"backend">>, <<>>}
  ELSE IF capture THEN {<<"frontend", "capture">>, <<"capture">>, <<>>}
  ELSE {<<"frontend">>, <<>>}

(* A listener has the message that was read last of its socket.            *)
ListenersHold ==
  \A i \in DOMAIN stack : ListensAt(i) =>
    /\ stack[i].of \in {"frontend", "backend"}
    /\ stack[i].to \in Rest(stack[i].of)
    /\ received[stack[i].of] # <<>>
    /\ stack[i].m = received[stack[i].of][Len(received[stack[i].of])]

(* Does a listener of s run that has still to send to target?              *)
DueAt(i, s, target) ==
  /\ ListensAt(i) /\ stack[i].of = s
  /\ target \in ToSet(stack[i].to)
IsDue(s, target) == \E i \in DOMAIN stack : DueAt(i, s, target)

(* What target was given is what s has received, one by one, but for what  *)
(* is due.                                                                 *)
Fed(s, target) ==
  /\ Len(received[s]) = Len(GivenTo(target)) + (IF IsDue(s, target) THEN 1 ELSE 0)
  /\ \A i \in DOMAIN GivenTo(target) :
       GivenTo(target)[i] = Forwarded(received[s][i], target)

FedInv ==
  /\ Fed("frontend", "backend") /\ Fed("backend", "frontend")
  /\ capture => Fed("backend", "capture")

ForwardInv == Types /\ NestInv /\ Placed /\ HandRestored /\ ListenersHold /\ FedInv

-----------------------------------------------------------------------------
(* What a step does to the stack.                                          *)

LEMMA FrameFacts ==
  /\ \A f \in Calls, s \in Sockets : Call(f, s) \in Frame /\ Call(f, s).call = f /\ Call(f, s).of = s
  /\ \A s \in Sockets, m \in Message, to \in Seq(Sockets) :
       LET x == Listener(s, m, to)
       IN /\ x \in Frame /\ x.call = "listener" /\ x.of = s /\ x.m = m /\ x.to = to
  /\ \A x \in Frame : /\ x.of \in Sockets
                      /\ x.call \in Calls \/ x.call = "listener"
                      /\ x.call = "listener" =>
                           /\ x.m \in Message /\ x.to \in Seq(Sockets)
                           /\ x = Listener(x.of, x.m, x.to)
BY DEF Frame, Call, Calls, Listener

(* The running call, f of s, is replaced by two, one or no call.           *)
Replaces(f, s, new) ==
  /\ Len(stack) \in Nat \ {0}
  /\ stack[Len(stack)].call = f /\ stack[Len(stack)].of = s
  /\ stack' \in Seq(Frame)
  /\ Len(stack') = Len(stack) - 1 + Len(new)
  /\ \A i \in 1 .. Len(stack) - 1 : stack'[i] = stack[i]
  /\ \A i \in 1 .. Len(new) : stack'[Len(stack) - 1 + i] = new[i]

(* A call is added.                                                        *)
Pushes(f, s, new) ==
  /\ Len(stack) \in Nat \ {0}
  /\ stack[Len(stack)].call = f /\ stack[Len(stack)].of = s
  /\ stack' \in Seq(Frame)
  /\ Len(stack') = Len(stack) + 1
  /\ \A i \in 1 .. Len(stack) : stack'[i] = stack[i]
  /\ stack'[Len(stack) + 1] = new

LEMMA FrontFacts ==
  ASSUME NEW S, NEW q \in Seq(S), q # <<>>
  PROVE  /\ Front(q) \in Seq(S) /\ Len(Front(q)) = Len(q) - 1 /\ Len(q) \in Nat \ {0}
         /\ \A i \in 1 .. Len(q) - 1 : Front(q)[i] = q[i]
<1>1. Len(q) \in Nat \ {0} /\ \A i \in 1 .. Len(q) - 1 : q[i] \in S
  BY EmptySeq, ElementOfSeq
<1> DEFINE n == Len(q) - 1  p == SubSeq(q, 1, n)
<1>2. n \in Int /\ n \in Nat /\ 1 \in Int /\ \A i \in 1 .. n : q[i] \in S
  BY <1>1
<1> HIDE DEF n
<1>3. /\ p \in Seq(S) /\ Len(p) = IF 1 <= n THEN n - 1 + 1 ELSE 0
      /\ \A i \in 1 .. n - 1 + 1 : p[i] = q[1 + i - 1]
  BY <1>2, SubSeqProperties
<1>4. Len(p) = n /\ \A i \in 1 .. n : p[i] = q[i]
  BY <1>2, <1>3
<1>5. Front(q) = p
  BY DEF n, Front
<1>6. QED
  BY <1>1, <1>3, <1>4, <1>5 DEF n

LEMMA RunningFacts ==
  ASSUME Types, NEW f, NEW s, Running(f, s)
  PROVE  /\ Len(stack) \in Nat \ {0} /\ stack \in Seq(Frame) /\ stack # <<>>
         /\ Top = stack[Len(stack)] /\ Top \in Frame /\ Top.call = f /\ Top.of = s
BY EmptySeq DEF Types, Running, Idle, Top, Last

LEMMA BecomeReplaces ==
  ASSUME Types, NEW f, NEW s, Running(f, s), NEW new \in Seq(Frame), Become(new)
  PROVE  Replaces(f, s, new)
<1>1. /\ Len(stack) \in Nat \ {0} /\ stack \in Seq(Frame) /\ stack # <<>>
      /\ Top = stack[Len(stack)] /\ Top.call = f /\ Top.of = s
  BY RunningFacts
<1>2. /\ Front(stack) \in Seq(Frame) /\ Len(Front(stack)) = Len(stack) - 1
      /\ \A i \in 1 .. Len(stack) - 1 : Front(stack)[i] = stack[i]
  BY <1>1, FrontFacts
<1>3. stack' = Front(stack) \o new
  BY DEF Become
<1> DEFINE p == Front(stack)
<1> HIDE DEF p
<1>4. /\ p \in Seq(Frame) /\ Len(p) = Len(stack) - 1
      /\ \A i \in 1 .. Len(stack) - 1 : p[i] = stack[i]
      /\ stack' = p \o new
  BY <1>2, <1>3 DEF p
<1>5. /\ stack' \in Seq(Frame) /\ Len(stack') = Len(p) + Len(new)
      /\ \A i \in 1 .. Len(p) + Len(new) :
           stack'[i] = IF i <= Len(p) THEN p[i] ELSE new[i - Len(p)]
  BY <1>4, ConcatProperties
<1>6. Len(new) \in Nat
  BY LenProperties
<1>7. \A i \in 1 .. Len(stack) - 1 : stack'[i] = stack[i]
  BY <1>1, <1>4, <1>5, <1>6
<1>8. \A i \in 1 .. Len(new) : stack'[Len(stack) - 1 + i] = new[i]
  <2> SUFFICES ASSUME NEW i \in 1 .. Len(new)
               PROVE  stack'[Len(stack) - 1 + i] = new[i]
    OBVIOUS
  <2> DEFINE k == Len(stack) - 1 + i
  <2>1. k \in 1 .. Len(p) + Len(new) /\ ~(k <= Len(p)) /\ k - Len(p) = i
    BY <1>1, <1>4, <1>6
  <2> HIDE DEF k
  <2>2. stack'[k] = new[k - Len(p)]
    BY <1>5, <2>1
  <2>3. QED
    BY <2>1, <2>2 DEF k
<1>9. QED
  BY <1>1, <1>4, <1>5, <1>7, <1>8 DEF Replaces

LEMMA AppendPushes ==
  ASSUME Types, NEW f, NEW s, Running(f, s), NEW new \in Frame, stack' = Append(stack, new)
  PROVE  Pushes(f, s, new)
<1>1. /\ Len(stack) \in Nat \ {0} /\ stack \in Seq(Frame)
      /\ Top = stack[Len(stack)] /\ Top.call = f /\ Top.of = s
  BY RunningFacts
<1>2. QED
  BY <1>1, AppendProperties DEF Pushes

-----------------------------------------------------------------------------
(* Calls of some kinds are the same before and after a step.               *)
Stay(calls) ==
  /\ \A i \in DOMAIN stack : stack[i].call \in calls =>
       i \in DOMAIN stack' /\ stack'[i] = stack[i]
  /\ \A i \in DOMAIN stack' : stack'[i].call \in calls =>
       i \in DOMAIN stack /\ stack'[i] = stack[i]

(* So are all that wait for the running one.                               *)
CallersStay ==
  \A i \in DOMAIN stack : i < Len(stack) => i \in DOMAIN stack' /\ stack'[i] = stack[i]

LEMMA ReplacesStay ==
  ASSUME Types, NEW f, NEW s, NEW new \in Seq(Frame), Replaces(f, s, new)
  PROVE  /\ CallersStay
         /\ \A calls : f \notin calls /\ (\A i \in 1 .. Len(new) : new[i].call \notin calls)
              => Stay(calls)
<1>1. /\ DOMAIN stack = 1 .. Len(stack) /\ DOMAIN stack' = 1 .. Len(stack')
      /\ Len(new) \in Nat /\ Len(stack) \in Nat \ {0}
  BY LenProperties DEF Types, Replaces
<1>2. CallersStay
  BY <1>1 DEF CallersStay, Replaces
<1>3. ASSUME NEW calls, f \notin calls, \A i \in 1 .. Len(new) : new[i].call \notin calls
      PROVE  Stay(calls)
  <2>1. ASSUME NEW i \in DOMAIN stack, stack[i].call \in calls
        PROVE  i \in DOMAIN stack' /\ stack'[i] = stack[i]
    <3>1. i # Len(stack)
      BY <1>3, <2>1 DEF Replaces
    <3>2. i \in 1 .. Len(stack) - 1 /\ i \in DOMAIN stack'
      BY <1>1, <3>1 DEF Replaces
    <3>3. QED
      BY <3>2 DEF Replaces
  <2>2. ASSUME NEW i \in DOMAIN stack', stack'[i].call \in calls
        PROVE  i \in DOMAIN stack /\ stack'[i] = stack[i]
    <3>1. CASE i \in 1 .. Len(stack) - 1
      BY <3>1, <1>1 DEF Replaces
    <3>2. CASE i \notin 1 .. Len(stack) - 1
      <4> DEFINE k == i - (Len(stack) - 1)
      <4>1. k \in 1 .. Len(new) /\ i = Len(stack) - 1 + k
        BY <1>1, <3>2 DEF Replaces
      <4> HIDE DEF k
      <4>2. stack'[i] = new[k]
        BY <4>1 DEF Replaces
      <4>3. QED
        BY <1>3, <2>2, <4>1, <4>2
    <3>3. QED
      BY <3>1, <3>2
  <2>3. QED
    BY <2>1, <2>2 DEF Stay
<1>4. QED
  BY <1>2, <1>3

LEMMA PopStays ==
  ASSUME Types, NEW f, NEW s, Replaces(f, s, <<>>)
  PROVE  CallersStay /\ \A calls : f \notin calls => Stay(calls)
<1>1. <<>> \in Seq(Frame) /\ 1 .. Len(<<>>) = {}
  OBVIOUS
<1>2. \A calls : \A i \in 1 .. Len(<<>>) : <<>>[i].call \notin calls
  BY <1>1
<1>3. CallersStay
  BY <1>1, ReplacesStay
<1>4. ASSUME NEW calls, f \notin calls
      PROVE  Stay(calls)
  BY <1>1, <1>2, <1>4, ReplacesStay
<1>5. QED
  BY <1>3, <1>4

LEMMA OneStays ==
  ASSUME Types, NEW f, NEW s, NEW x \in Frame, Replaces(f, s, <<x>>)
  PROVE  CallersStay /\ \A calls : f \notin calls /\ x.call \notin calls => Stay(calls)
<1> DEFINE new == <<x>>
<1>1. new \in Seq(Frame) /\ \A i \in 1 .. Len(new) : new[i] = x
  OBVIOUS
<1>2. Replaces(f, s, new)
  OBVIOUS
<1> HIDE DEF new
<1>3. QED
  BY <1>1, <1>2, ReplacesStay

LEMMA TwoStay ==
  ASSUME Types, NEW f, NEW s, NEW x \in Frame, NEW y \in Frame, Replaces(f, s, <<x, y>>)
  PROVE  /\ CallersStay
         /\ \A calls : f \notin calls /\ x.call \notin calls /\ y.call \notin calls => Stay(calls)
<1> DEFINE new == <<x, y>>
<1>1. new \in Seq(Frame) /\ \A i \in 1 .. Len(new) : new[i] = x \/ new[i] = y
  OBVIOUS
<1>2. Replaces(f, s, new)
  OBVIOUS
<1> HIDE DEF new
<1>3. QED
  BY <1>1, <1>2, ReplacesStay

LEMMA PushesStay ==
  ASSUME Types, NEW f, NEW s, NEW new, Pushes(f, s, new)
  PROVE  CallersStay /\ \A calls : new.call \notin calls => Stay(calls)
<1>1. /\ DOMAIN stack = 1 .. Len(stack) /\ DOMAIN stack' = 1 .. Len(stack')
      /\ Len(stack) \in Nat \ {0}
  BY LenProperties DEF Types, Pushes
<1>2. CallersStay
  BY <1>1 DEF CallersStay, Pushes
<1>3. ASSUME NEW calls, new.call \notin calls
      PROVE  Stay(calls)
  BY <1>1, <1>3 DEF Stay, Pushes
<1>4. QED
  BY <1>2, <1>3

LEMMA UnchangedStay == UNCHANGED stack => CallersStay /\ \A calls : Stay(calls)
BY DEF CallersStay, Stay

-----------------------------------------------------------------------------
(* What calls that stay keep of the invariant.                             *)

LEMMA ReadsKept ==
  ASSUME ReadsOnce, Stay({"reads"}), UNCHANGED reading
  PROVE  ReadsOnce'
BY DEF ReadsOnce, ReadsAt, Stay

LEMMA WritesKept ==
  ASSUME WritesOnce, Stay({"writes", "restore"}), UNCHANGED writing
  PROVE  WritesOnce'
BY DEF WritesOnce, WritesAt, Stay

LEMMA InLoopKept ==
  ASSUME Types, ListenersInLoop, Stay({"listener"}), CallersStay
  PROVE  ListenersInLoop'
<1> SUFFICES ASSUME NEW i \in DOMAIN stack', ListensAt(i)'
             PROVE  i > 1 /\ ReadsAt(i - 1)' /\ stack'[i - 1].of = stack'[i].of
  BY DEF ListenersInLoop
<1>1. i \in DOMAIN stack /\ stack'[i] = stack[i] /\ ListensAt(i)
  BY DEF Stay, ListensAt
<1>2. i > 1 /\ ReadsAt(i - 1) /\ stack[i - 1].of = stack[i].of
  BY <1>1 DEF ListenersInLoop
<1>3. DOMAIN stack = 1 .. Len(stack) /\ Len(stack) \in Nat
  BY LenProperties DEF Types
<1>4. i - 1 \in DOMAIN stack /\ i - 1 < Len(stack)
  BY <1>1, <1>2, <1>3
<1>5. stack'[i - 1] = stack[i - 1]
  BY <1>4 DEF CallersStay
<1>6. QED
  BY <1>1, <1>2, <1>5 DEF ReadsAt

LEMMA HandKept ==
  ASSUME HandRestored, Stay({"restore"}), UNCHANGED hand
  PROVE  HandRestored'
BY DEF HandRestored, Stay

LEMMA HoldKept ==
  ASSUME ListenersHold, Stay({"listener"}), UNCHANGED <<received, capture>>
  PROVE  ListenersHold'
BY DEF ListenersHold, ListensAt, Rest, Stay

LEMMA DueKept ==
  ASSUME Stay({"listener"}), NEW s, NEW target
  PROVE  IsDue(s, target)' = IsDue(s, target)
<1>1. \A i \in DOMAIN stack : DueAt(i, s, target) => i \in DOMAIN stack' /\ DueAt(i, s, target)'
  BY DEF Stay, DueAt, ListensAt
<1>2. \A i \in DOMAIN stack' : DueAt(i, s, target)' => i \in DOMAIN stack /\ DueAt(i, s, target)
  BY DEF Stay, DueAt, ListensAt
<1>3. QED
  BY <1>1, <1>2 DEF IsDue

LEMMA FedKept ==
  ASSUME FedInv, UNCHANGED <<received, capture, kind>>, Stay({"listener"}),
         \A target \in Sockets : GivenTo(target)' = GivenTo(target)
  PROVE  FedInv'
<1>1. ASSUME NEW s \in Sockets, NEW target \in Sockets, Fed(s, target)
      PROVE  Fed(s, target)'
  <2>1. IsDue(s, target)' = IsDue(s, target)
    BY DueKept
  <2>2. \A m : Forwarded(m, target)' = Forwarded(m, target)
    BY DEF Forwarded
  <2>3. QED
    BY <1>1, <2>1, <2>2 DEF Fed
<1>2. QED
  BY <1>1 DEF FedInv, Sockets

-----------------------------------------------------------------------------
(* The stack after each action.                                            *)

LEMMA SmallStacks ==
  /\ <<>> \in Seq(Frame) /\ Len(<<>>) = 0
  /\ \A x \in Frame : <<x>> \in Seq(Frame) /\ Len(<<x>>) = 1 /\ <<x>>[1] = x
  /\ \A x, y \in Frame : /\ <<x, y>> \in Seq(Frame) /\ Len(<<x, y>>) = 2
                         /\ <<x, y>>[1] = x /\ <<x, y>>[2] = y
OBVIOUS

LEMMA PollStack ==
  ASSUME NEW s \in Sockets, Poll(s)
  PROVE  /\ stack' \in Seq(Frame) /\ CallersStay
         /\ \A calls : "flushReads" \notin calls /\ "flushWrites" \notin calls => Stay(calls)
<1>1. Call("flushWrites", s) \in Frame /\ Call("flushReads", s) \in Frame
  BY FrameFacts DEF Calls
<1>2. stack = <<>> /\ stack' \in {<<>>, <<Call("flushWrites", s)>>, <<Call("flushReads", s)>>,
                                  <<Call("flushWrites", s), Call("flushReads", s)>>}
  <2> DEFINE a == Call("flushWrites", s)  b == Call("flushReads", s)
  <2>1. stack = <<>> /\ \E w \in {<<>>, <<a>>}, r \in {<<>>, <<b>>} : stack' = w \o r
    BY DEF Poll, Idle
  <2> HIDE DEF a, b
  <2>2. <<>> \o <<>> = <<>> /\ <<a>> \o <<>> = <<a>> /\ <<>> \o <<b>> = <<b>>
    OBVIOUS
  <2>3. <<a>> \o <<b>> = <<a, b>>
    <3>1. <<a>> \in Seq({a, b}) /\ <<b>> \in Seq({a, b}) /\ <<a, b>> \in Seq({a, b})
      OBVIOUS
    <3>2. Len(<<a>>) = 1 /\ Len(<<b>>) = 1 /\ Len(<<a, b>>) = 2
      OBVIOUS
    <3>3. <<a>> \o <<b>> \in Seq({a, b}) /\ Len(<<a>> \o <<b>>) = 2
      BY <3>1, <3>2, ConcatProperties
    <3>4. (<<a>> \o <<b>>)[1] = a /\ (<<a>> \o <<b>>)[2] = b
      BY <3>1, <3>2, ConcatProperties
    <3> DEFINE ab == <<a>> \o <<b>>  c == <<a, b>>
    <3>5. /\ ab \in Seq({a, b}) /\ c \in Seq({a, b}) /\ Len(ab) = Len(c)
          /\ \A i \in 1 .. Len(ab) : ab[i] = c[i]
      <4>1. c[1] = a /\ c[2] = b
        OBVIOUS
      <4> HIDE DEF ab, c
      <4>2. \A i \in 1 .. 2 : ab[i] = c[i]
        BY <3>4, <4>1 DEF ab
      <4>3. QED
        BY <3>1, <3>2, <3>3, <4>2 DEF ab, c
    <3> HIDE DEF ab, c
    <3>6. ab = c
      BY <3>5, SeqEqual
    <3>7. QED
      BY <3>6 DEF ab, c
  <2>4. QED
    BY <2>1, <2>2, <2>3 DEF a, b
<1>3. stack' \in Seq(Frame)
  BY <1>1, <1>2, SmallStacks
<1>4. \A i \in DOMAIN stack' : stack'[i].call \in {"flushReads", "flushWrites"}
  BY <1>2 DEF Call
<1>5. QED
  BY <1>2, <1>3, <1>4 DEF CallersStay, Stay

LEMMA FlushReadsStack ==
  ASSUME Types, NEW s \in Sockets, FlushReads(s)
  PROVE  Replaces("flushReads", s, IF reading[s] THEN <<>> ELSE <<Call("reads", s)>>)
<1>1. Call("reads", s) \in Frame
  BY FrameFacts DEF Calls
<1>2. QED
  BY <1>1, SmallStacks, BecomeReplaces DEF FlushReads

LEMMA ReadNothingStack ==
  ASSUME Types, NEW s \in Sockets, ReadNothing(s)
  PROVE  Replaces("reads", s, <<Call("flushWrites", s)>>)
<1>1. Call("flushWrites", s) \in Frame
  BY FrameFacts DEF Calls
<1>2. QED
  BY <1>1, SmallStacks, BecomeReplaces DEF ReadNothing

LEMMA FlushWritesStack ==
  ASSUME Types, NEW s \in Sockets, FlushWrites(s)
  PROVE  Replaces("flushWrites", s, IF writing[s] THEN <<>> ELSE <<Call("writes", s)>>)
<1>1. Call("writes", s) \in Frame
  BY FrameFacts DEF Calls
<1>2. QED
  BY <1>1, SmallStacks, BecomeReplaces DEF FlushWrites

LEMMA WritesEndStack ==
  ASSUME Types, NEW s \in Sockets, WritesEnd(s)
  PROVE  Replaces("writes", s, <<>>)
BY SmallStacks, BecomeReplaces DEF WritesEnd

LEMMA SendvTakesStack ==
  ASSUME Types, NEW s \in Sockets, SendvTakes(s)
  PROVE  /\ Running("writes", s)
         /\ UNCHANGED stack \/ Pushes("writes", s, Call("flushReads", s))
<1>1. Call("flushReads", s) \in Frame
  BY FrameFacts DEF Calls
<1>2. QED
  BY <1>1, AppendPushes DEF SendvTakes

LEMMA SendvReadsStack ==
  ASSUME Types, NEW s \in Sockets, SendvReads(s)
  PROVE  Replaces("writes", s, <<Call("restore", s), Call("flushReads", s)>>)
<1>1. Call("restore", s) \in Frame /\ Call("flushReads", s) \in Frame
  BY FrameFacts DEF Calls
<1>2. QED
  BY <1>1, SmallStacks, BecomeReplaces DEF SendvReads

LEMMA RestoreStack ==
  ASSUME Types, NEW s \in Sockets, Restore(s)
  PROVE  Replaces("restore", s, <<>>)
BY SmallStacks, BecomeReplaces DEF Restore

(* No message is in the inbox of the capture socket.                       *)
LEMMA ReadMessageStack ==
  ASSUME Types, Placed, NEW s \in Sockets, ReadMessage(s)
  PROVE  /\ s \in {"frontend", "backend"}
         /\ Head(inbox[s]) \in Message /\ Targets(s) \in Seq(Sockets)
         /\ Pushes("reads", s, Listener(s, Head(inbox[s]), Targets(s)))
<1>1. s \in {"frontend", "backend"} /\ inbox[s] # <<>> /\ inbox[s] \in Seq(Message)
  BY DEF Placed, ReadMessage, Sockets, Types, Queues
<1>2. Head(inbox[s]) \in Message
  BY <1>1, HeadTailProperties
<1>3. Targets(s) \in Seq(Sockets)
  <2>1. /\ <<"backend">> \in Seq(Sockets) /\ <<"frontend">> \in Seq(Sockets)
        /\ <<"frontend", "capture">> \in Seq(Sockets)
    BY DEF Sockets
  <2>2. QED
    BY <2>1 DEF Targets
<1>4. Listener(s, Head(inbox[s]), Targets(s)) \in Frame
  BY <1>1, <1>2, <1>3, FrameFacts DEF Sockets
<1>5. QED
  BY <1>1, <1>2, <1>3, <1>4, AppendPushes DEF ReadMessage

(* The listener that runs has a message, and what it has still to do.      *)
LEMMA ForwardStack ==
  ASSUME Types, ListenersHold, NEW s \in Sockets, Forward(s)
  PROVE  /\ s \in {"frontend", "backend"}
         /\ Top = stack[Len(stack)] /\ Top.m \in Message /\ Top.to \in Rest(s)
         /\ received[s] # <<>> /\ Top.m = received[s][Len(received[s])]
         /\ Top.to = <<>> => Replaces("listener", s, <<>>)
         /\ Top.to # <<>> => /\ Head(Top.to) \in Sockets
                             /\ Replaces("listener", s, <<Listener(s, Top.m, Tail(Top.to)),
                                                          Call("flushWrites", Head(Top.to))>>)
<1>1. /\ Len(stack) \in Nat \ {0} /\ stack \in Seq(Frame)
      /\ Top = stack[Len(stack)] /\ Top \in Frame /\ Top.call = "listener" /\ Top.of = s
      /\ Running("listener", s)
  BY RunningFacts DEF Forward
<1>2. Top.m \in Message /\ Top.to \in Seq(Sockets) /\ Top = Listener(s, Top.m, Top.to)
  BY <1>1, FrameFacts
<1>3. Len(stack) \in DOMAIN stack /\ ListensAt(Len(stack))
  BY <1>1 DEF ListensAt
<1>4. /\ s \in {"frontend", "backend"} /\ Top.to \in Rest(s)
      /\ received[s] # <<>> /\ Top.m = received[s][Len(received[s])]
  BY <1>1, <1>3 DEF ListenersHold
<1>5. Top.to = <<>> => Replaces("listener", s, <<>>)
  BY <1>1, SmallStacks, BecomeReplaces DEF Forward
<1>6. ASSUME Top.to # <<>>
      PROVE  /\ Head(Top.to) \in Sockets
             /\ Replaces("listener", s, <<Listener(s, Top.m, Tail(Top.to)),
                                          Call("flushWrites", Head(Top.to))>>)
  <2>1. Head(Top.to) \in Sockets /\ Tail(Top.to) \in Seq(Sockets)
    BY <1>2, <1>6, HeadTailProperties
  <2>2. [Top EXCEPT !.to = Tail(@)] = Listener(s, Top.m, Tail(Top.to))
    <3> DEFINE x == [Top EXCEPT !.to = Tail(@)]
    <3>1. Top \in [call : {"listener"}, of : Sockets, m : Message, to : Seq(Sockets)]
      BY <1>1 DEF Frame, Calls
    <3>2. /\ x \in [call : {"listener"}, of : Sockets, m : Message, to : Seq(Sockets)]
          /\ x.of = Top.of /\ x.m = Top.m /\ x.to = Tail(Top.to)
      BY <3>1, <2>1
    <3> HIDE DEF x
    <3>3. x = Listener(x.of, x.m, x.to)
      BY <3>2 DEF Listener
    <3>4. x = Listener(s, Top.m, Tail(Top.to))
      BY <1>1, <3>2, <3>3
    <3>5. QED
      BY <3>4 DEF x
  <2>3. Become(<<Listener(s, Top.m, Tail(Top.to)), Call("flushWrites", Head(Top.to))>>)
    BY <1>6, <2>2 DEF Forward
  <2>4. /\ Listener(s, Top.m, Tail(Top.to)) \in Frame
        /\ Call("flushWrites", Head(Top.to)) \in Frame
    BY <1>2, <2>1, FrameFacts DEF Calls
  <2>5. QED
    BY <1>1, <2>1, <2>3, <2>4, SmallStacks, BecomeReplaces
<1>7. QED
  BY <1>1, <1>2, <1>4, <1>5, <1>6

(* Calls of the kinds that an action neither ends nor begins stay.         *)
LEMMA StepStays ==
  ASSUME Types, Placed, ListenersHold, NEW s \in Sockets, NEW calls
  PROVE  /\ Arrive(s) \/ Drain(s) => Stay(calls) /\ CallersStay
         /\ Poll(s) /\ {"flushReads", "flushWrites"} \cap calls = {} => Stay(calls) /\ CallersStay
         /\ FlushReads(s) /\ {"flushReads", "reads"} \cap calls = {} => Stay(calls) /\ CallersStay
         /\ FlushReads(s) /\ reading[s] /\ {"flushReads"} \cap calls = {} => Stay(calls)
         /\ ReadMessage(s) /\ {"listener"} \cap calls = {} => Stay(calls) /\ CallersStay
         /\ ReadNothing(s) /\ {"reads", "flushWrites"} \cap calls = {} => Stay(calls) /\ CallersStay
         /\ Forward(s) /\ {"listener", "flushWrites"} \cap calls = {} => Stay(calls) /\ CallersStay
         /\ FlushWrites(s) /\ {"flushWrites", "writes"} \cap calls = {} => Stay(calls) /\ CallersStay
         /\ FlushWrites(s) /\ writing[s] /\ {"flushWrites"} \cap calls = {} => Stay(calls)
         /\ WritesEnd(s) /\ {"writes"} \cap calls = {} => Stay(calls) /\ CallersStay
         /\ SendvTakes(s) /\ {"flushReads"} \cap calls = {} => Stay(calls) /\ CallersStay
         /\ SendvReads(s) /\ {"writes", "restore", "flushReads"} \cap calls = {}
              => Stay(calls) /\ CallersStay
         /\ Restore(s) /\ {"restore"} \cap calls = {} => Stay(calls) /\ CallersStay
<1>1. \A f \in Calls, t \in Sockets : Call(f, t) \in Frame /\ Call(f, t).call = f
  BY FrameFacts
<1>2. Arrive(s) \/ Drain(s) => Stay(calls) /\ CallersStay
  BY UnchangedStay DEF Arrive, Drain
<1>3. Poll(s) /\ {"flushReads", "flushWrites"} \cap calls = {} => Stay(calls) /\ CallersStay
  BY PollStack
<1>4. ASSUME FlushReads(s), {"flushReads"} \cap calls = {}, "reads" \notin calls \/ reading[s]
      PROVE  Stay(calls) /\ CallersStay
  <2>1. CASE reading[s]
    <3>1. Replaces("flushReads", s, <<>>)
      BY <1>4, <2>1, FlushReadsStack
    <3>2. QED
      BY <1>4, <3>1, PopStays
  <2>2. CASE ~reading[s]
    <3>1. Replaces("flushReads", s, <<Call("reads", s)>>)
      BY <1>4, <2>2, FlushReadsStack
    <3>2. QED
      BY <1>1, <1>4, <2>2, <3>1, OneStays DEF Calls
  <2>3. QED
    BY <2>1, <2>2
<1>5. ReadMessage(s) /\ {"listener"} \cap calls = {} => Stay(calls) /\ CallersStay
  <2>1. Listener(s, Head(inbox[s]), Targets(s)).call = "listener"
    BY DEF Listener
  <2>2. QED
    BY <2>1, ReadMessageStack, PushesStay
<1>6. ReadNothing(s) /\ {"reads", "flushWrites"} \cap calls = {} => Stay(calls) /\ CallersStay
  BY <1>1, ReadNothingStack, OneStays DEF Calls
<1>7. ASSUME Forward(s), {"listener", "flushWrites"} \cap calls = {}
      PROVE  Stay(calls) /\ CallersStay
  <2>1. CASE Top.to = <<>>
    <3>1. Replaces("listener", s, <<>>)
      BY <1>7, <2>1, ForwardStack
    <3>2. QED
      BY <1>7, <3>1, PopStays
  <2>2. CASE Top.to # <<>>
    <3> DEFINE a == Listener(s, Top.m, Tail(Top.to))  b == Call("flushWrites", Head(Top.to))
    <3>1. Replaces("listener", s, <<a, b>>) /\ Head(Top.to) \in Sockets /\ Top.m \in Message
      BY <1>7, <2>2, ForwardStack
    <3>2. Top.to \in Seq(Sockets)
      BY <1>7, RunningFacts, FrameFacts DEF Forward
    <3>3. a \in Frame /\ a.call = "listener"
      <4>1. Tail(Top.to) \in Seq(Sockets)
        BY <2>2, <3>2, HeadTailProperties
      <4>2. \A m \in Message, to \in Seq(Sockets) :
              Listener(s, m, to) \in Frame /\ Listener(s, m, to).call = "listener"
        BY FrameFacts
      <4>3. QED
        BY <3>1, <4>1, <4>2
    <3>4. b \in Frame /\ b.call = "flushWrites"
      BY <1>1, <3>1 DEF Calls
    <3> HIDE DEF a, b
    <3>5. QED
      BY <1>7, <3>1, <3>3, <3>4, TwoStay
  <2>3. QED
    BY <2>1, <2>2
<1>8. ASSUME FlushWrites(s), {"flushWrites"} \cap calls = {}, "writes" \notin calls \/ writing[s]
      PROVE  Stay(calls) /\ CallersStay
  <2>1. CASE writing[s]
    <3>1. Replaces("flushWrites", s, <<>>)
      BY <1>8, <2>1, FlushWritesStack
    <3>2. QED
      BY <1>8, <3>1, PopStays
  <2>2. CASE ~writing[s]
    <3>1. Replaces("flushWrites", s, <<Call("writes", s)>>)
      BY <1>8, <2>2, FlushWritesStack
    <3>2. QED
      BY <1>1, <1>8, <2>2, <3>1, OneStays DEF Calls
  <2>3. QED
    BY <2>1, <2>2
<1>9. WritesEnd(s) /\ {"writes"} \cap calls = {} => Stay(calls) /\ CallersStay
  BY WritesEndStack, PopStays
<1>10. SendvTakes(s) /\ {"flushReads"} \cap calls = {} => Stay(calls) /\ CallersStay
  BY <1>1, SendvTakesStack, PushesStay, UnchangedStay DEF Calls
<1>11. SendvReads(s) /\ {"writes", "restore", "flushReads"} \cap calls = {}
         => Stay(calls) /\ CallersStay
  BY <1>1, SendvReadsStack, TwoStay DEF Calls
<1>12. Restore(s) /\ {"restore"} \cap calls = {} => Stay(calls) /\ CallersStay
  BY RestoreStack, PopStays
<1>13. QED
  BY <1>2, <1>3, <1>4, <1>5, <1>6, <1>7, <1>8, <1>9, <1>10, <1>11, <1>12

-----------------------------------------------------------------------------
(* The loops nest to a bounded depth.                                      *)

LoopCalls == {"reads", "writes", "restore", "listener"}

(* A step that changes no loop, no flag and no listener.                   *)
LEMMA NestKept ==
  ASSUME Types, NestInv, CallersStay, \A calls \in SUBSET LoopCalls : Stay(calls),
         UNCHANGED <<reading, writing>>
  PROVE  NestInv'
<1>1. Stay({"reads"}) /\ Stay({"writes", "restore"}) /\ Stay({"listener"})
  BY DEF LoopCalls
<1>2. QED
  BY <1>1, ReadsKept, WritesKept, InLoopKept DEF NestInv

(* The loop that reads begins, unless it runs: then the flag is set.       *)
LEMMA FlushReadsNest ==
  ASSUME Types, Placed, ListenersHold, NestInv, NEW s \in Sockets, FlushReads(s)
  PROVE  NestInv'
<1>1. CallersStay /\ Stay({"writes", "restore"}) /\ Stay({"listener"})
  BY StepStays
<1>2. reading' = [reading EXCEPT ![s] = TRUE] /\ UNCHANGED writing
  BY DEF FlushReads
<1>3. ReadsOnce'
  <2>1. CASE reading[s]
    <3>1. UNCHANGED reading
      BY <1>2, <2>1 DEF Types
    <3>2. Stay({"reads"})
      BY <2>1, StepStays
    <3>3. QED
      BY <3>1, <3>2, ReadsKept DEF NestInv
  <2>2. CASE ~reading[s]
    <3>1. Replaces("flushReads", s, <<Call("reads", s)>>)
      BY <2>2, FlushReadsStack
    <3>2. /\ Len(stack) \in Nat \ {0} /\ Len(stack') = Len(stack)
          /\ \A i \in 1 .. Len(stack) - 1 : stack'[i] = stack[i]
          /\ stack'[Len(stack)] = Call("reads", s)
      BY <3>1 DEF Replaces
    <3>3. Call("reads", s).of = s /\ DOMAIN stack = 1 .. Len(stack) /\ DOMAIN stack' = 1 .. Len(stack)
      BY <3>1, <3>2, LenProperties DEF Types, Replaces, Call
    <3>4. \A i \in 1 .. Len(stack) - 1 : ReadsAt(i)' => stack'[i].of # s /\ reading[stack'[i].of]
      BY <2>2, <3>2, <3>3 DEF NestInv, ReadsOnce, ReadsAt
    <3>5. \A i \in 1 .. Len(stack) - 1 : stack[i].of \in Sockets
      BY <3>3, FrameFacts, ElementOfSeq DEF Types
    <3>6. \A i \in DOMAIN stack' : ReadsAt(i)' => reading'[stack'[i].of]
      BY <1>2, <3>2, <3>3, <3>4, <3>5 DEF Types
    <3>7. \A i, j \in DOMAIN stack' :
            ReadsAt(i)' /\ ReadsAt(j)' /\ stack'[i].of = stack'[j].of => i = j
      BY <3>2, <3>3, <3>4 DEF NestInv, ReadsOnce, ReadsAt
    <3>8. QED
      BY <3>6, <3>7 DEF ReadsOnce
  <2>3. QED
    BY <2>1, <2>2
<1>4. QED
  BY <1>1, <1>2, <1>3, WritesKept, InLoopKept DEF NestInv

(* The loop that reads ends.                                               *)
LEMMA ReadNothingNest ==
  ASSUME Types, Placed, ListenersHold, NestInv, NEW s \in Sockets, ReadNothing(s)
  PROVE  NestInv'
<1>1. Replaces("reads", s, <<Call("flushWrites", s)>>)
  BY ReadNothingStack
<1>2. CallersStay /\ Stay({"writes", "restore"}) /\ Stay({"listener"})
  BY StepStays
<1>3. reading' = [reading EXCEPT ![s] = FALSE] /\ UNCHANGED writing
  BY DEF ReadNothing
<1>4. ReadsOnce'
  <2>1. /\ Len(stack) \in Nat \ {0} /\ Len(stack') = Len(stack)
        /\ stack[Len(stack)].call = "reads" /\ stack[Len(stack)].of = s
        /\ \A i \in 1 .. Len(stack) - 1 : stack'[i] = stack[i]
        /\ stack'[Len(stack)].call = "flushWrites"
    <3>1. Call("flushWrites", s).call = "flushWrites"
      BY DEF Call
    <3>2. QED
      BY <1>1, <3>1 DEF Replaces
  <2>2. DOMAIN stack = 1 .. Len(stack) /\ DOMAIN stack' = 1 .. Len(stack)
    BY <1>1, <2>1, LenProperties DEF Types, Replaces
  <2>3. \A i \in 1 .. Len(stack) - 1 : ReadsAt(i) => stack[i].of # s /\ reading[stack[i].of]
    BY <2>1, <2>2 DEF NestInv, ReadsOnce, ReadsAt
  <2>4. \A i \in 1 .. Len(stack) - 1 : stack[i].of \in Sockets
    BY <2>2, FrameFacts, ElementOfSeq DEF Types
  <2>5. \A i \in DOMAIN stack' : ReadsAt(i)' => i \in 1 .. Len(stack) - 1 /\ ReadsAt(i)
    BY <2>1, <2>2 DEF ReadsAt
  <2>6. \A i \in DOMAIN stack' : ReadsAt(i)' => reading'[stack'[i].of]
    BY <1>3, <2>1, <2>3, <2>4, <2>5 DEF Types
  <2>7. QED
    BY <2>1, <2>2, <2>5, <2>6 DEF NestInv, ReadsOnce
<1>5. QED
  BY <1>2, <1>3, <1>4, WritesKept, InLoopKept DEF NestInv

(* The loop that writes begins, unless it runs.                            *)
LEMMA FlushWritesNest ==
  ASSUME Types, Placed, ListenersHold, NestInv, NEW s \in Sockets, FlushWrites(s)
  PROVE  NestInv'
<1>1. CallersStay /\ Stay({"reads"}) /\ Stay({"listener"})
  BY StepStays
<1>2. writing' = [writing EXCEPT ![s] = TRUE] /\ UNCHANGED reading
  BY DEF FlushWrites
<1>3. WritesOnce'
  <2>1. CASE writing[s]
    <3>1. UNCHANGED writing
      BY <1>2, <2>1 DEF Types
    <3>2. Stay({"writes", "restore"})
      BY <2>1, StepStays
    <3>3. QED
      BY <3>1, <3>2, WritesKept DEF NestInv
  <2>2. CASE ~writing[s]
    <3>1. Replaces("flushWrites", s, <<Call("writes", s)>>)
      BY <2>2, FlushWritesStack
    <3>2. /\ Len(stack) \in Nat \ {0} /\ Len(stack') = Len(stack)
          /\ \A i \in 1 .. Len(stack) - 1 : stack'[i] = stack[i]
          /\ stack'[Len(stack)] = Call("writes", s)
      BY <3>1 DEF Replaces
    <3>3. Call("writes", s).of = s /\ DOMAIN stack = 1 .. Len(stack) /\ DOMAIN stack' = 1 .. Len(stack)
      BY <3>1, <3>2, LenProperties DEF Types, Replaces, Call
    <3>4. \A i \in 1 .. Len(stack) - 1 : WritesAt(i)' => stack'[i].of # s /\ writing[stack'[i].of]
      BY <2>2, <3>2, <3>3 DEF NestInv, WritesOnce, WritesAt
    <3>5. \A i \in 1 .. Len(stack) - 1 : stack[i].of \in Sockets
      BY <3>3, FrameFacts, ElementOfSeq DEF Types
    <3>6. \A i \in DOMAIN stack' : WritesAt(i)' => writing'[stack'[i].of]
      BY <1>2, <3>2, <3>3, <3>4, <3>5 DEF Types
    <3>7. \A i, j \in DOMAIN stack' :
            WritesAt(i)' /\ WritesAt(j)' /\ stack'[i].of = stack'[j].of => i = j
      BY <3>2, <3>3, <3>4 DEF NestInv, WritesOnce, WritesAt
    <3>8. QED
      BY <3>6, <3>7 DEF WritesOnce
  <2>3. QED
    BY <2>1, <2>2
<1>4. QED
  BY <1>1, <1>2, <1>3, ReadsKept, InLoopKept DEF NestInv

(* The loop that writes ends, with or without a batch to restore.          *)
LEMMA WritesEndNest ==
  ASSUME Types, Placed, ListenersHold, NestInv, NEW s \in Sockets, WritesEnd(s) \/ Restore(s)
  PROVE  NestInv'
<1>1. PICK f \in {"writes", "restore"} : Replaces(f, s, <<>>)
  BY WritesEndStack, RestoreStack
<1>2. CallersStay /\ Stay({"reads"}) /\ Stay({"listener"})
  BY StepStays
<1>3. writing' = [writing EXCEPT ![s] = FALSE] /\ UNCHANGED reading
  BY DEF WritesEnd, Restore
<1>4. WritesOnce'
  <2>1. /\ Len(stack) \in Nat \ {0} /\ Len(stack') = Len(stack) - 1
        /\ stack[Len(stack)].call \in {"writes", "restore"} /\ stack[Len(stack)].of = s
        /\ \A i \in 1 .. Len(stack) - 1 : stack'[i] = stack[i]
    BY <1>1, SmallStacks DEF Replaces
  <2>2. DOMAIN stack = 1 .. Len(stack) /\ DOMAIN stack' = 1 .. Len(stack) - 1
    BY <1>1, <2>1, LenProperties DEF Types, Replaces
  <2>3. \A i \in 1 .. Len(stack) - 1 : WritesAt(i) => stack[i].of # s /\ writing[stack[i].of]
    BY <2>1, <2>2 DEF NestInv, WritesOnce, WritesAt
  <2>4. \A i \in 1 .. Len(stack) - 1 : stack[i].of \in Sockets
    BY <2>2, FrameFacts, ElementOfSeq DEF Types
  <2>5. \A i \in DOMAIN stack' : WritesAt(i)' => WritesAt(i)
    BY <2>1, <2>2 DEF WritesAt
  <2>6. \A i \in DOMAIN stack' : WritesAt(i)' => writing'[stack'[i].of]
    BY <1>3, <2>1, <2>2, <2>3, <2>4, <2>5 DEF Types
  <2>7. QED
    BY <2>1, <2>2, <2>5, <2>6 DEF NestInv, WritesOnce
<1>5. QED
  BY <1>2, <1>3, <1>4, ReadsKept, InLoopKept DEF NestInv

(* sendv has taken a batch off the queue that the loop will restore.       *)
LEMMA SendvReadsNest ==
  ASSUME Types, Placed, ListenersHold, NestInv, NEW s \in Sockets, SendvReads(s)
  PROVE  NestInv'
<1> DEFINE new == <<Call("restore", s), Call("flushReads", s)>>
<1>1. Replaces("writes", s, new)
  BY SendvReadsStack
<1>2. /\ new \in Seq(Frame) /\ Len(new) = 2
      /\ new[1].call = "restore" /\ new[1].of = s /\ new[2].call = "flushReads"
  <2>1. /\ Call("restore", s) \in Frame /\ Call("flushReads", s) \in Frame
        /\ Call("restore", s).call = "restore" /\ Call("flushReads", s).call = "flushReads"
        /\ Call("restore", s).of = s
    BY FrameFacts DEF Calls
  <2>2. QED
    BY <2>1, SmallStacks
<1> HIDE DEF new
<1>3. CallersStay /\ Stay({"reads"}) /\ Stay({"listener"})
  BY StepStays
<1>4. UNCHANGED <<reading, writing>>
  BY DEF SendvReads
<1>5. WritesOnce'
  <2>1. /\ Len(stack) \in Nat \ {0} /\ Len(stack') = Len(stack) + 1
        /\ stack[Len(stack)].call = "writes" /\ stack[Len(stack)].of = s
        /\ \A i \in 1 .. Len(stack) - 1 : stack'[i] = stack[i]
        /\ stack'[Len(stack)] = new[1]
        /\ stack'[Len(stack) + 1] = new[2]
    BY <1>1, <1>2 DEF Replaces
  <2>2. DOMAIN stack = 1 .. Len(stack) /\ DOMAIN stack' = 1 .. Len(stack) + 1
    BY <1>1, <2>1, LenProperties DEF Types, Replaces
  <2>3. \A i \in DOMAIN stack' : WritesAt(i)' =>
          i \in DOMAIN stack /\ WritesAt(i) /\ stack'[i].of = stack[i].of
    BY <1>2, <2>1, <2>2 DEF WritesAt
  <2>4. QED
    BY <1>4, <2>3 DEF NestInv, WritesOnce
<1>6. QED
  BY <1>3, <1>4, <1>5, ReadsKept, InLoopKept DEF NestInv

(* The loop calls a listener for what it has read.                         *)
LEMMA ReadMessageNest ==
  ASSUME Types, Placed, ListenersHold, NestInv, NEW s \in Sockets, ReadMessage(s)
  PROVE  NestInv'
<1> DEFINE new == Listener(s, Head(inbox[s]), Targets(s))
<1>1. Pushes("reads", s, new) /\ new.call = "listener" /\ new.of = s
  BY ReadMessageStack DEF Listener
<1> HIDE DEF new
<1>2. Stay({"reads"}) /\ Stay({"writes", "restore"})
  BY StepStays
<1>3. UNCHANGED <<reading, writing>>
  BY DEF ReadMessage
<1>4. ListenersInLoop'
  <2>1. DOMAIN stack = 1 .. Len(stack) /\ DOMAIN stack' = 1 .. Len(stack) + 1
    BY <1>1, LenProperties DEF Types, Pushes
  <2>2. ASSUME NEW i \in DOMAIN stack', ListensAt(i)'
        PROVE  i > 1 /\ ReadsAt(i - 1)' /\ stack'[i - 1].of = stack'[i].of
    <3>1. CASE i = Len(stack) + 1
      BY <1>1, <3>1 DEF Pushes, ReadsAt
    <3>2. CASE i # Len(stack) + 1
      <4>1. i \in DOMAIN stack /\ stack'[i] = stack[i] /\ ListensAt(i)
        BY <1>1, <2>1, <2>2, <3>2 DEF Pushes, ListensAt
      <4>2. i > 1 /\ ReadsAt(i - 1) /\ stack[i - 1].of = stack[i].of
        BY <4>1 DEF NestInv, ListenersInLoop
      <4>3. stack'[i - 1] = stack[i - 1]
        BY <1>1, <2>1, <4>1, <4>2 DEF Pushes
      <4>4. QED
        BY <4>1, <4>2, <4>3 DEF ReadsAt
    <3>3. QED
      BY <3>1, <3>2
  <2>3. QED
    BY <2>2 DEF ListenersInLoop
<1>5. QED
  BY <1>2, <1>3, <1>4, ReadsKept, WritesKept DEF NestInv

(* A listener sends or returns.                                            *)
LEMMA ForwardNest ==
  ASSUME Types, Placed, ListenersHold, NestInv, NEW s \in Sockets, Forward(s)
  PROVE  NestInv'
<1>1. ReadsOnce' /\ WritesOnce'
  <2>1. Stay({"reads"}) /\ Stay({"writes", "restore"})
    BY StepStays
  <2>2. UNCHANGED <<reading, writing>>
    BY DEF Forward
  <2>3. QED
    BY <2>1, <2>2, ReadsKept, WritesKept DEF NestInv
<1>2. CASE Top.to = <<>>
  <2>1. Replaces("listener", s, <<>>)
    BY <1>2, ForwardStack
  <2>3. DOMAIN stack = 1 .. Len(stack) /\ DOMAIN stack' = 1 .. Len(stack) - 1 /\ Len(stack) \in Nat
    BY <2>1, SmallStacks, LenProperties DEF Types, Replaces
  <2>4. \A i \in DOMAIN stack' : stack'[i] = stack[i]
    BY <2>1, <2>3 DEF Replaces
  <2>5. ListenersInLoop'
    BY <2>3, <2>4 DEF NestInv, ListenersInLoop, ListensAt, ReadsAt
  <2>6. QED
    BY <1>1, <2>5 DEF NestInv
<1>3. CASE Top.to # <<>>
  <2> DEFINE new == <<Listener(s, Top.m, Tail(Top.to)), Call("flushWrites", Head(Top.to))>>
  <2>1. Replaces("listener", s, new)
    BY <1>3, ForwardStack
  <2>2. /\ Len(new) = 2 /\ new[1].call = "listener" /\ new[1].of = s
        /\ new[2].call = "flushWrites"
    BY DEF Listener, Call
  <2> HIDE DEF new
  <2>3. /\ Len(stack) \in Nat \ {0}
        /\ DOMAIN stack = 1 .. Len(stack) /\ DOMAIN stack' = 1 .. Len(stack) + 1
        /\ stack'[Len(stack)] = new[1] /\ stack'[Len(stack) + 1] = new[2]
        /\ stack[Len(stack)].call = "listener" /\ stack[Len(stack)].of = s
        /\ \A i \in 1 .. Len(stack) - 1 : stack'[i] = stack[i]
    <3>1. Len(stack') = Len(stack) + 1 /\ Len(stack) \in Nat \ {0}
      BY <2>1, <2>2 DEF Replaces
    <3>2. QED
      BY <2>1, <2>2, <3>1, LenProperties DEF Types, Replaces
  <2>4. \A i \in DOMAIN stack : i \in DOMAIN stack' /\ stack'[i].call = stack[i].call
                                /\ stack'[i].of = stack[i].of
    BY <2>2, <2>3
  <2>5. \A i \in DOMAIN stack' : i \in DOMAIN stack \/ stack'[i].call = "flushWrites"
    BY <2>2, <2>3
  <2>6. ListenersInLoop'
    <3> SUFFICES ASSUME NEW i \in DOMAIN stack', ListensAt(i)'
                 PROVE  i > 1 /\ ReadsAt(i - 1)' /\ stack'[i - 1].of = stack'[i].of
      BY DEF ListenersInLoop
    <3>1. i \in DOMAIN stack /\ ListensAt(i)
      BY <2>4, <2>5 DEF ListensAt
    <3>2. i > 1 /\ ReadsAt(i - 1) /\ stack[i - 1].of = stack[i].of
      BY <3>1 DEF NestInv, ListenersInLoop
    <3>3. i - 1 \in DOMAIN stack
      BY <2>3, <3>1, <3>2
    <3>4. QED
      BY <2>4, <3>1, <3>2, <3>3 DEF ReadsAt
  <2>7. QED
    BY <1>1, <2>6 DEF NestInv
<1>4. QED
  BY <1>2, <1>3

-----------------------------------------------------------------------------
(* Values, places, batches in hand and listeners.                          *)

LEMMA ForwardedType ==
  ASSUME NEW m \in Message, NEW target
  PROVE  Forwarded(m, target) \in Message
BY DEF Forwarded, Message

LEMMA StackType ==
  ASSUME Types, Placed, ListenersHold, NEW s \in Sockets, Poll(s) \/ Step(s)
  PROVE  stack' \in Seq(Frame)
<1>1. CASE Poll(s)
  BY <1>1, PollStack
<1>2. CASE FlushReads(s)
  BY <1>2, FlushReadsStack DEF Replaces
<1>3. CASE ReadMessage(s)
  BY <1>3, ReadMessageStack DEF Pushes
<1>4. CASE ReadNothing(s)
  BY <1>4, ReadNothingStack DEF Replaces
<1>5. CASE Forward(s)
  BY <1>5, ForwardStack DEF Replaces
<1>6. CASE FlushWrites(s)
  BY <1>6, FlushWritesStack DEF Replaces
<1>7. CASE WritesEnd(s)
  BY <1>7, WritesEndStack DEF Replaces
<1>8. CASE SendvTakes(s)
  BY <1>8, SendvTakesStack DEF Pushes, Types
<1>9. CASE SendvReads(s)
  BY <1>9, SendvReadsStack DEF Replaces
<1>10. CASE Restore(s)
  BY <1>10, RestoreStack DEF Replaces
<1>11. QED
  BY <1>1, <1>2, <1>3, <1>4, <1>5, <1>6, <1>7, <1>8, <1>9, <1>10 DEF Step

LEMMA QueueFacts ==
  ASSUME NEW q \in Queues, NEW s \in Sockets
  PROVE  /\ q[s] \in Seq(Message)
         /\ \A x \in Seq(Message) : [q EXCEPT ![s] = x] \in Queues
         /\ \A m \in Message : Append(q[s], m) \in Seq(Message)
         /\ q[s] # <<>> => /\ Head(q[s]) \in Message /\ Tail(q[s]) \in Seq(Message)
                           /\ <<Head(q[s])>> \in Seq(Message)
<1>1. q[s] \in Seq(Message)
  BY DEF Queues
<1>2. \A x \in Seq(Message) : [q EXCEPT ![s] = x] \in Queues
  BY DEF Queues
<1>3. \A m \in Message : Append(q[s], m) \in Seq(Message)
  BY <1>1, AppendProperties
<1>4. q[s] # <<>> => Head(q[s]) \in Message /\ Tail(q[s]) \in Seq(Message)
  BY <1>1, HeadTailProperties
<1>5. \A m \in Message : <<m>> \in Seq(Message)
  OBVIOUS
<1>6. QED
  BY <1>1, <1>2, <1>3, <1>4, <1>5

LEMMA TypesStep ==
  ASSUME Types, Placed, ListenersHold, NEW s \in Sockets,
         Arrive(s) \/ Drain(s) \/ Poll(s) \/ Step(s)
  PROVE  Types'
<1>1. CASE Arrive(s)
  <2>1. PICK k \in Frames :
          inbox' = [inbox EXCEPT ![s] = Append(inbox[s], [n |-> Arrived(s) + 1, frames |-> k])]
    BY <1>1 DEF Arrive
  <2>2. [n |-> Arrived(s) + 1, frames |-> k] \in Message
    <3>1. Len(inbox[s]) \in Nat /\ Len(received[s]) \in Nat
      BY QueueFacts, LenProperties DEF Types
    <3>2. k \in Nat
      BY ProxyAssumption
    <3>3. \A i, j \in Nat : i + j + 1 \in Nat
      OBVIOUS
    <3>4. Arrived(s) + 1 \in Nat
      BY <3>1, <3>3 DEF Arrived
    <3>5. QED
      BY <3>2, <3>4 DEF Message
  <2>3. inbox' \in Queues
    BY <2>1, <2>2, QueueFacts DEF Types
  <2>4. QED
    BY <1>1, <2>3 DEF Arrive, Types, argVars
<1>2. CASE Drain(s)
  BY <1>2 DEF Drain, Types, argVars
<1>3. CASE Poll(s)
  BY <1>3, StackType DEF Poll, Types, argVars
<1>4. CASE FlushReads(s) \/ ReadNothing(s)
  <2>1. stack' \in Seq(Frame)
    BY <1>4, StackType DEF Step
  <2>2. QED
    BY <1>4, <2>1 DEF FlushReads, ReadNothing, Types, argVars
<1>5. CASE ReadMessage(s)
  <2>1. stack' \in Seq(Frame)
    BY <1>5, StackType DEF Step
  <2>2. /\ inbox[s] # <<>> /\ inbox' = [inbox EXCEPT ![s] = Tail(inbox[s])]
        /\ received' = [received EXCEPT ![s] = Append(received[s], Head(inbox[s]))]
    BY <1>5 DEF ReadMessage
  <2>3. inbox' \in Queues /\ received' \in Queues
    BY <2>2, QueueFacts DEF Types
  <2>4. QED
    BY <1>5, <2>1, <2>3 DEF ReadMessage, Types, argVars
<1>6. CASE Forward(s)
  <2>1. stack' \in Seq(Frame)
    BY <1>6, StackType DEF Step
  <2>2. outgoing' \in Queues
    <3>1. CASE Top.to = <<>>
      BY <1>6, <3>1 DEF Forward, Types
    <3>2. CASE Top.to # <<>>
      <4> DEFINE target == Head(Top.to)
      <4>1. target \in Sockets /\ Top.m \in Message
        BY <1>6, <3>2, ForwardStack
      <4>2. outgoing' = [outgoing EXCEPT ![target] =
                           Append(outgoing[target], Forwarded(Top.m, target))]
        BY <1>6, <3>2 DEF Forward
      <4> HIDE DEF target
      <4>3. QED
        BY <4>1, <4>2, ForwardedType, QueueFacts DEF Types
    <3>3. QED
      BY <3>1, <3>2
  <2>3. QED
    BY <1>6, <2>1, <2>2 DEF Forward, Types, argVars
<1>7. CASE FlushWrites(s) \/ WritesEnd(s)
  <2>1. stack' \in Seq(Frame)
    BY <1>7, StackType DEF Step
  <2>2. QED
    BY <1>7, <2>1 DEF FlushWrites, WritesEnd, Types, argVars
<1>8. CASE SendvTakes(s)
  <2>1. stack' \in Seq(Frame)
    BY <1>8, StackType DEF Step
  <2>2. /\ outgoing[s] # <<>> /\ outgoing' = [outgoing EXCEPT ![s] = Tail(outgoing[s])]
        /\ taken' = [taken EXCEPT ![s] = Append(taken[s], Head(outgoing[s]))]
    BY <1>8 DEF SendvTakes
  <2>3. outgoing' \in Queues /\ taken' \in Queues
    BY <2>2, QueueFacts DEF Types
  <2>4. room' \in [Sockets -> Nat]
    BY <1>8 DEF SendvTakes, Types
  <2>5. QED
    BY <1>8, <2>1, <2>3, <2>4 DEF SendvTakes, Types, argVars
<1>9. CASE SendvReads(s)
  <2>1. stack' \in Seq(Frame)
    BY <1>9, StackType DEF Step
  <2>2. /\ outgoing[s] # <<>> /\ outgoing' = [outgoing EXCEPT ![s] = Tail(outgoing[s])]
        /\ hand' = [hand EXCEPT ![s] = <<Head(outgoing[s])>>]
    BY <1>9 DEF SendvReads
  <2>3. outgoing' \in Queues /\ hand' \in Queues
    BY <2>2, QueueFacts DEF Types
  <2>4. QED
    BY <1>9, <2>1, <2>3 DEF SendvReads, Types, argVars
<1>10. CASE Restore(s)
  <2>1. stack' \in Seq(Frame)
    BY <1>10, StackType DEF Step
  <2>2. /\ outgoing' = [outgoing EXCEPT ![s] = hand[s] \o outgoing[s]]
        /\ hand' = [hand EXCEPT ![s] = <<>>]
        /\ writing' = [writing EXCEPT ![s] = FALSE]
    BY <1>10 DEF Restore
  <2>3. hand[s] \o outgoing[s] \in Seq(Message) /\ <<>> \in Seq(Message)
    <3>1. hand[s] \in Seq(Message) /\ outgoing[s] \in Seq(Message)
      BY QueueFacts DEF Types
    <3>2. QED
      BY <3>1, ConcatProperties, EmptySeq
  <2>4. outgoing' \in Queues /\ hand' \in Queues
    BY <2>2, <2>3, QueueFacts DEF Types
  <2>5. QED
    BY <1>10, <2>1, <2>2, <2>4 DEF Restore, Types, argVars
<1>11. QED
  BY <1>1, <1>2, <1>3, <1>4, <1>5, <1>6, <1>7, <1>8, <1>9, <1>10 DEF Step

LEMMA PlacedStep ==
  ASSUME Types, Placed, NEW s \in Sockets, Arrive(s) \/ Drain(s) \/ Poll(s) \/ Step(s)
  PROVE  Placed'
<1>1. CASE Arrive(s)
  <2>1. PICK k \in Frames :
          inbox' = [inbox EXCEPT ![s] = Append(inbox[s], [n |-> Arrived(s) + 1, frames |-> k])]
    BY <1>1 DEF Arrive
  <2> DEFINE new == [n |-> Arrived(s) + 1, frames |-> k]
  <2>2. new.n = Len(inbox[s]) + Len(received[s]) + 1 /\ s # "capture"
    BY <1>1 DEF Arrive, Arrived, Receives
  <2> HIDE DEF new
  <2>3. inbox' = [inbox EXCEPT ![s] = Append(inbox[s], new)]
    BY <2>1 DEF new
  <2>4. UNCHANGED received
    BY <1>1 DEF Arrive
  <2>5. inbox[s] \in Seq(Message) /\ Len(received[s]) \in Nat /\ inbox \in [Sockets -> Seq(Message)]
    BY QueueFacts, LenProperties DEF Types, Queues
  <2>6. \A i \in DOMAIN inbox'[s] : inbox'[s][i].n = Len(received'[s]) + i
    <3>1. inbox'[s] = Append(inbox[s], new)
      BY <2>3, <2>5
    <3>2. /\ DOMAIN inbox[s] = 1 .. Len(inbox[s]) /\ DOMAIN inbox'[s] = 1 .. Len(inbox[s]) + 1
          /\ \A i \in 1 .. Len(inbox[s]) : inbox'[s][i] = inbox[s][i]
          /\ inbox'[s][Len(inbox[s]) + 1] = new
          /\ Len(inbox[s]) \in Nat
      BY <2>5, <3>1
    <3> DEFINE k0 == Len(inbox[s])  r == Len(received[s])  q == inbox[s]
    <3>3. /\ \A i \in 1 .. k0 : q[i].n = r + i
          /\ k0 \in Nat /\ r \in Nat /\ new.n = k0 + r + 1
      BY <2>2, <2>5, <3>2 DEF Placed
    <3> HIDE DEF k0, r
    <3>4. ASSUME NEW i \in 1 .. k0 + 1
          PROVE  inbox'[s][i].n = r + i
      <4>1. CASE i \in 1 .. k0
        BY <3>2, <3>3, <4>1 DEF k0
      <4>2. CASE i = k0 + 1
        <5>1. inbox'[s][i] = new
          BY <3>2, <4>2 DEF k0
        <5>2. k0 + r + 1 = r + (k0 + 1)
          BY <3>3
        <5>3. QED
          BY <3>3, <4>2, <5>1, <5>2
      <4>3. QED
        BY <3>3, <4>1, <4>2
    <3>5. QED
      BY <2>4, <3>2, <3>4 DEF k0, r
  <2>7. \A t \in Sockets : t # s => inbox'[t] = inbox[t]
    BY <2>3, <2>5
  <2>8. QED
    BY <2>2, <2>4, <2>6, <2>7 DEF Placed, Sockets
<1>2. CASE ReadMessage(s)
  <2>1. /\ inbox[s] # <<>> /\ inbox' = [inbox EXCEPT ![s] = Tail(inbox[s])]
        /\ received' = [received EXCEPT ![s] = Append(received[s], Head(inbox[s]))]
    BY <1>2 DEF ReadMessage
  <2>2. /\ inbox[s] \in Seq(Message) /\ received[s] \in Seq(Message)
        /\ inbox \in [Sockets -> Seq(Message)] /\ received \in [Sockets -> Seq(Message)]
    BY QueueFacts DEF Types, Queues
  <2>3. inbox'[s] = Tail(inbox[s]) /\ received'[s] = Append(received[s], Head(inbox[s]))
    BY <2>1, <2>2
  <2>4. /\ Len(inbox[s]) \in Nat \ {0} /\ Head(inbox[s]) = inbox[s][1]
        /\ DOMAIN inbox[s] = 1 .. Len(inbox[s]) /\ DOMAIN received[s] = 1 .. Len(received[s])
        /\ Len(received[s]) \in Nat /\ Head(inbox[s]) \in Message
    BY <2>1, <2>2, EmptySeq, LenProperties
  <2>5. Head(inbox[s]).n = Len(received[s]) + 1
    BY <2>4 DEF Placed
  <2>6. \A i \in DOMAIN received'[s] : received'[s][i].n = i
    <3>1. /\ DOMAIN received'[s] = 1 .. Len(received[s]) + 1
          /\ \A i \in 1 .. Len(received[s]) : received'[s][i] = received[s][i]
          /\ received'[s][Len(received[s]) + 1] = Head(inbox[s])
      BY <2>2, <2>3, <2>4, AppendProperties, LenProperties
    <3>2. QED
      BY <2>4, <2>5, <3>1 DEF Placed
  <2>7. \A i \in DOMAIN inbox'[s] : inbox'[s][i].n = Len(received'[s]) + i
    <3>1. /\ Len(inbox'[s]) = Len(inbox[s]) - 1 /\ DOMAIN inbox'[s] = 1 .. Len(inbox'[s])
          /\ \A i \in 1 .. Len(inbox'[s]) : inbox'[s][i] = inbox[s][i + 1]
      BY <2>1, <2>2, <2>3, HeadTailProperties, LenProperties
    <3>2. Len(received'[s]) = Len(received[s]) + 1
      BY <2>2, <2>3, <2>4, AppendProperties
    <3>3. ASSUME NEW i \in DOMAIN inbox'[s]
          PROVE  inbox'[s][i].n = Len(received'[s]) + i
      <4>1. i + 1 \in DOMAIN inbox[s] /\ i \in 1 .. Len(inbox'[s]) /\ i \in Nat
        BY <2>4, <3>1
      <4>2. inbox[s][i + 1].n = Len(received[s]) + (i + 1)
        BY <4>1 DEF Placed
      <4>3. inbox'[s][i].n = Len(received[s]) + (i + 1)
        BY <3>1, <4>1, <4>2
      <4>4. Len(received[s]) + (i + 1) = Len(received'[s]) + i
        <5> DEFINE r == Len(received[s])  t == Len(received'[s])
        <5>1. r \in Nat /\ t = r + 1
          BY <2>4, <3>2
        <5> HIDE DEF r, t
        <5>2. r + (i + 1) = t + i
          BY <4>1, <5>1
        <5>3. QED
          BY <5>2 DEF r, t
      <4>5. QED
        BY <4>3, <4>4
    <3>4. QED
      BY <3>3
  <2>8. \A t \in Sockets : t # s => inbox'[t] = inbox[t] /\ received'[t] = received[t]
    BY <2>1, <2>2
  <2>9. s # "capture"
    BY <2>1 DEF Placed
  <2>10. QED
    BY <2>6, <2>7, <2>8, <2>9 DEF Placed, Sockets
<1>3. CASE UNCHANGED <<inbox, received>>
  BY <1>3 DEF Placed
<1>4. QED
  BY <1>1, <1>2, <1>3 DEF Step, Drain, Poll, FlushReads, ReadNothing, Forward, FlushWrites,
     WritesEnd, SendvTakes, SendvReads, Restore

(* While the loop of s writes, no batch of s is in hand.                   *)
LEMMA HandFree ==
  ASSUME Types, NestInv, HandRestored, NEW s \in Sockets, Running("writes", s)
  PROVE  hand[s] = <<>>
<1> SUFFICES ASSUME hand[s] # <<>>
             PROVE  FALSE
  OBVIOUS
<1>1. PICK i \in DOMAIN stack : stack[i].call = "restore" /\ stack[i].of = s
  BY DEF HandRestored
<1>2. /\ Len(stack) \in DOMAIN stack
      /\ stack[Len(stack)].call = "writes" /\ stack[Len(stack)].of = s
  BY RunningFacts, LenProperties
<1>3. i = Len(stack)
  BY <1>1, <1>2 DEF NestInv, WritesOnce, WritesAt
<1>4. QED
  BY <1>1, <1>2, <1>3

LEMMA HandStep ==
  ASSUME Types, NestInv, HandRestored, Placed, ListenersHold, NEW s \in Sockets,
         Arrive(s) \/ Drain(s) \/ Poll(s) \/ Step(s)
  PROVE  HandRestored'
<1>1. CASE SendvReads(s)
  <2>1. Replaces("writes", s, <<Call("restore", s), Call("flushReads", s)>>)
    BY <1>1, SendvReadsStack
  <2>2. hand' = [hand EXCEPT ![s] = <<Head(outgoing[s])>>]
    BY <1>1 DEF SendvReads
  <2>3. /\ Len(stack) \in Nat \ {0} /\ DOMAIN stack = 1 .. Len(stack)
        /\ DOMAIN stack' = 1 .. Len(stack) + 1
        /\ stack[Len(stack)].call = "writes"
        /\ stack'[Len(stack)].call = "restore" /\ stack'[Len(stack)].of = s
        /\ \A i \in 1 .. Len(stack) - 1 : stack'[i] = stack[i]
    <3>1. Len(stack') = Len(stack) + 1 /\ Len(stack) \in Nat \ {0}
      BY <2>1 DEF Replaces
    <3>2. QED
      BY <2>1, <3>1, LenProperties DEF Replaces, Types, Call
  <2>4. ASSUME NEW t \in Sockets, hand'[t] # <<>>
        PROVE  \E i \in DOMAIN stack' : stack'[i].call = "restore" /\ stack'[i].of = t
    <3>1. CASE t = s
      <4>1. Len(stack) \in DOMAIN stack'
        BY <2>3
      <4>2. QED
        BY <2>3, <3>1, <4>1
    <3>2. CASE t # s
      <4>1. hand[t] # <<>>
        BY <2>2, <2>4, <3>2 DEF Types, Queues
      <4>2. PICK i \in DOMAIN stack : stack[i].call = "restore" /\ stack[i].of = t
        BY <4>1 DEF HandRestored
      <4>3. i \in 1 .. Len(stack) - 1 /\ i \in DOMAIN stack'
        BY <2>3, <4>2
      <4>4. QED
        BY <2>3, <4>2, <4>3
    <3>3. QED
      BY <3>1, <3>2
  <2>5. QED
    BY <2>4 DEF HandRestored
<1>2. CASE Restore(s)
  <2>1. Replaces("restore", s, <<>>)
    BY <1>2, RestoreStack
  <2>2. hand' = [hand EXCEPT ![s] = <<>>]
    BY <1>2 DEF Restore
  <2>3. /\ Len(stack) \in Nat \ {0} /\ DOMAIN stack = 1 .. Len(stack)
        /\ DOMAIN stack' = 1 .. Len(stack) - 1
        /\ stack[Len(stack)].of = s
        /\ \A i \in 1 .. Len(stack) - 1 : stack'[i] = stack[i]
    <3>1. Len(stack') = Len(stack) - 1 /\ Len(stack) \in Nat \ {0}
      BY <2>1, SmallStacks DEF Replaces
    <3>2. QED
      BY <2>1, <3>1, LenProperties DEF Replaces, Types
  <2>4. ASSUME NEW t \in Sockets, hand'[t] # <<>>
        PROVE  \E i \in DOMAIN stack' : stack'[i].call = "restore" /\ stack'[i].of = t
    <3>1. t # s /\ hand[t] # <<>>
      BY <2>2, <2>4 DEF Types, Queues
    <3>2. PICK i \in DOMAIN stack : stack[i].call = "restore" /\ stack[i].of = t
      BY <3>1 DEF HandRestored
    <3>3. i \in DOMAIN stack' /\ stack'[i] = stack[i]
      BY <2>3, <3>1, <3>2
    <3>4. QED
      BY <3>2, <3>3
  <2>5. QED
    BY <2>4 DEF HandRestored
<1>3. CASE \/ Arrive(s) \/ Drain(s) \/ Poll(s) \/ FlushReads(s) \/ ReadMessage(s) \/ ReadNothing(s)
           \/ Forward(s) \/ FlushWrites(s) \/ WritesEnd(s) \/ SendvTakes(s)
  <2>1. Stay({"restore"})
    BY <1>3, StepStays
  <2>2. UNCHANGED hand
    BY <1>3 DEF Arrive, Drain, Poll, FlushReads, ReadMessage, ReadNothing, Forward, FlushWrites,
       WritesEnd, SendvTakes
  <2>3. QED
    BY <2>1, <2>2, HandKept
<1>4. QED
  BY <1>1, <1>2, <1>3 DEF Step

(* A socket has one listener at a time, and none when its loop is on top.  *)
LEMMA OneListener ==
  ASSUME Types, NestInv
  PROVE  /\ \A i, j \in DOMAIN stack :
              ListensAt(i) /\ ListensAt(j) /\ stack[i].of = stack[j].of => i = j
         /\ \A s : Running("reads", s) =>
              \A i \in DOMAIN stack : ListensAt(i) => stack[i].of # s
<1>1. DOMAIN stack = 1 .. Len(stack) /\ Len(stack) \in Nat
  BY LenProperties DEF Types
<1>2. \A i \in DOMAIN stack : ListensAt(i) =>
        i - 1 \in DOMAIN stack /\ ReadsAt(i - 1) /\ stack[i - 1].of = stack[i].of
  BY <1>1 DEF NestInv, ListenersInLoop
<1>3. \A i, j \in DOMAIN stack :
        ListensAt(i) /\ ListensAt(j) /\ stack[i].of = stack[j].of => i = j
  <2> SUFFICES ASSUME NEW i \in DOMAIN stack, NEW j \in DOMAIN stack,
                      ListensAt(i), ListensAt(j), stack[i].of = stack[j].of
               PROVE  i = j
    OBVIOUS
  <2>1. i - 1 = j - 1
    BY <1>2 DEF NestInv, ReadsOnce
  <2>2. QED
    BY <1>1, <2>1
<1>4. ASSUME NEW s, Running("reads", s), NEW i \in DOMAIN stack, ListensAt(i), stack[i].of = s
      PROVE  FALSE
  <2>1. Len(stack) \in DOMAIN stack /\ ReadsAt(Len(stack)) /\ stack[Len(stack)].of = s
    BY <1>1, <1>4, RunningFacts DEF ReadsAt
  <2>2. i - 1 = Len(stack)
    BY <1>2, <1>4, <2>1 DEF NestInv, ReadsOnce
  <2>3. QED
    BY <1>1, <1>4, <2>2
<1>5. QED
  BY <1>3, <1>4

LEMMA NestStep ==
  ASSUME Types, Placed, ListenersHold, NestInv, NEW s \in Sockets,
         Arrive(s) \/ Drain(s) \/ Poll(s) \/ Step(s)
  PROVE  NestInv'
<1>1. CASE Arrive(s) \/ Drain(s) \/ Poll(s) \/ SendvTakes(s)
  <2>1. CallersStay /\ \A calls \in SUBSET LoopCalls : Stay(calls)
    <3>1. \A calls \in SUBSET LoopCalls :
            {"flushReads", "flushWrites"} \cap calls = {} /\ {"flushReads"} \cap calls = {}
      BY DEF LoopCalls
    <3>2. \A calls \in SUBSET LoopCalls : Stay(calls) /\ CallersStay
      BY <1>1, <3>1, StepStays
    <3>3. {} \in SUBSET LoopCalls
      OBVIOUS
    <3>4. QED
      BY <3>2, <3>3
  <2>2. UNCHANGED <<reading, writing>>
    BY <1>1 DEF Arrive, Drain, Poll, SendvTakes
  <2>3. QED
    BY <2>1, <2>2, NestKept
<1>2. QED
  BY <1>1, FlushReadsNest, ReadMessageNest, ReadNothingNest, ForwardNest, FlushWritesNest,
     WritesEndNest, SendvReadsNest DEF Step

LEMMA RestFacts ==
  ASSUME Types, NEW s \in {"frontend", "backend"}
  PROVE  /\ Targets(s) \in Rest(s)
         /\ s = "frontend" => ToSet(Targets(s)) = {"backend"}
         /\ s = "backend" => ToSet(Targets(s)) = IF capture THEN {"frontend", "capture"} ELSE {"frontend"}
         /\ \A to \in Rest(s) : to # <<>> =>
              /\ Tail(to) \in Rest(s)
              /\ Head(to) \in (IF s = "frontend" THEN {"backend"} ELSE {"frontend", "capture"})
              /\ Head(to) \in ToSet(to) /\ ToSet(Tail(to)) = ToSet(to) \ {Head(to)}
<1>1. /\ \A x : Tail(<<x>>) = <<>> /\ Head(<<x>>) = x
      /\ Tail(<<"frontend", "capture">>) = <<"capture">>
      /\ Head(<<"frontend", "capture">>) = "frontend"
  OBVIOUS
<1>2. /\ ToSet(<<>>) = {} /\ \A x : ToSet(<<x>>) = {x}
      /\ \A x, y : ToSet(<<x, y>>) = {x, y}
  BY DEF ToSet
<1>3. Targets(s) \in Rest(s)
  BY DEF Targets, Rest
<1>4. /\ s = "frontend" => ToSet(Targets(s)) = {"backend"}
      /\ s = "backend" => ToSet(Targets(s)) = IF capture THEN {"frontend", "capture"} ELSE {"frontend"}
  BY <1>2 DEF Targets
<1>5. ASSUME NEW to \in Rest(s), to # <<>>
      PROVE  /\ Tail(to) \in Rest(s)
             /\ Head(to) \in (IF s = "frontend" THEN {"backend"} ELSE {"frontend", "capture"})
             /\ Head(to) \in ToSet(to) /\ ToSet(Tail(to)) = ToSet(to) \ {Head(to)}
  <2>1. \/ s = "frontend" /\ to = <<"backend">>
        \/ s = "backend" /\ capture /\ to = <<"frontend", "capture">>
        \/ s = "backend" /\ capture /\ to = <<"capture">>
        \/ s = "backend" /\ ~capture /\ to = <<"frontend">>
    BY <1>5 DEF Rest
  <2>2. Tail(to) \in Rest(s)
    BY <1>1, <2>1 DEF Rest
  <2>3. Head(to) \in (IF s = "frontend" THEN {"backend"} ELSE {"frontend", "capture"})
    BY <1>1, <2>1
  <2>4. Head(to) \in ToSet(to) /\ ToSet(Tail(to)) = ToSet(to) \ {Head(to)}
    <3>1. CASE to = <<"frontend", "capture">>
      BY <1>1, <1>2, <3>1
    <3>2. ASSUME NEW x, to = <<x>>
          PROVE  Head(to) \in ToSet(to) /\ ToSet(Tail(to)) = ToSet(to) \ {Head(to)}
      BY <1>1, <1>2, <3>2
    <3>3. QED
      BY <2>1, <3>1, <3>2
  <2>5. QED
    BY <2>2, <2>3, <2>4
<1>6. QED
  BY <1>3, <1>4, <1>5

(* The frames after the two actions that change a listener.                *)
LEMMA ReadMessageFrames ==
  ASSUME Types, Placed, NEW s \in Sockets, ReadMessage(s)
  PROVE  /\ DOMAIN stack' = DOMAIN stack \cup {Len(stack) + 1} /\ Len(stack) + 1 \notin DOMAIN stack
         /\ \A i \in DOMAIN stack : stack'[i] = stack[i]
         /\ LET new == stack'[Len(stack) + 1]
            IN new.call = "listener" /\ new.of = s /\ new.m = Head(inbox[s]) /\ new.to = Targets(s)
<1>1. Pushes("reads", s, Listener(s, Head(inbox[s]), Targets(s)))
  BY ReadMessageStack
<1>2. /\ Len(stack) \in Nat /\ Len(stack') = Len(stack) + 1
      /\ DOMAIN stack = 1 .. Len(stack) /\ DOMAIN stack' = 1 .. Len(stack')
  BY <1>1, LenProperties DEF Pushes, Types
<1>3. DOMAIN stack' = DOMAIN stack \cup {Len(stack) + 1} /\ Len(stack) + 1 \notin DOMAIN stack
  BY <1>2
<1>4. (\A i \in DOMAIN stack : stack'[i] = stack[i])
      /\ stack'[Len(stack) + 1] = Listener(s, Head(inbox[s]), Targets(s))
  BY <1>1, <1>2 DEF Pushes
<1>5. QED
  BY <1>3, <1>4 DEF Listener

(* The listeners after Forward: that of s has less to do, or is gone.      *)
LEMMA ForwardFrames ==
  ASSUME Types, NestInv, Placed, ListenersHold, NEW s \in Sockets, Forward(s)
  PROVE  /\ Len(stack) \in DOMAIN stack /\ Top = stack[Len(stack)] /\ ListensAt(Len(stack))
         /\ stack[Len(stack)].of = s
         /\ \A i \in DOMAIN stack : ListensAt(i) /\ stack[i].of # s =>
              i \in DOMAIN stack' /\ stack'[i] = stack[i]
         /\ \A i \in DOMAIN stack' : ListensAt(i)' =>
              \/ i \in DOMAIN stack /\ ListensAt(i) /\ stack[i].of # s /\ stack'[i] = stack[i]
              \/ /\ i = Len(stack) /\ Top.to # <<>> /\ stack'[i].of = s
                 /\ stack'[i].m = Top.m /\ stack'[i].to = Tail(Top.to)
         /\ Top.to # <<>> => /\ Len(stack) \in DOMAIN stack' /\ stack'[Len(stack)].call = "listener"
                             /\ stack'[Len(stack)].of = s /\ stack'[Len(stack)].to = Tail(Top.to)
<1>1. /\ Len(stack) \in Nat \ {0} /\ DOMAIN stack = 1 .. Len(stack)
      /\ Top = stack[Len(stack)] /\ ListensAt(Len(stack)) /\ stack[Len(stack)].of = s
  BY RunningFacts, LenProperties DEF Forward, ListensAt
<1>2. \A i \in 1 .. Len(stack) - 1 : ListensAt(i) => stack[i].of # s
  BY <1>1, OneListener
<1>3. CASE Top.to = <<>>
  <2>1. Replaces("listener", s, <<>>)
    BY <1>3, ForwardStack
  <2>2. /\ \A i \in 1 .. Len(stack) - 1 : stack'[i] = stack[i]
        /\ DOMAIN stack' = 1 .. Len(stack) - 1
    <3>1. Len(stack') = Len(stack) - 1
      BY <1>1, <2>1, SmallStacks DEF Replaces
    <3>2. QED
      BY <2>1, <3>1, LenProperties DEF Replaces
  <2>3. QED
    BY <1>1, <1>2, <1>3, <2>2 DEF ListensAt
<1>4. CASE Top.to # <<>>
  <2> DEFINE a == Listener(s, Top.m, Tail(Top.to))  b == Call("flushWrites", Head(Top.to))
  <2>1. Replaces("listener", s, <<a, b>>)
    BY <1>4, ForwardStack
  <2>2. /\ a.call = "listener" /\ a.of = s /\ a.m = Top.m /\ a.to = Tail(Top.to)
        /\ b.call = "flushWrites"
    BY DEF Listener, Call
  <2> HIDE DEF a, b
  <2>3. /\ \A i \in 1 .. Len(stack) - 1 : stack'[i] = stack[i]
        /\ stack'[Len(stack)] = a /\ stack'[Len(stack) + 1] = b
        /\ DOMAIN stack' = 1 .. Len(stack) + 1
    <3>1. Len(<<a, b>>) = 2 /\ <<a, b>>[1] = a /\ <<a, b>>[2] = b
      OBVIOUS
    <3>2. Len(stack') = Len(stack) + 1
      BY <1>1, <2>1, <3>1 DEF Replaces
    <3>3. QED
      BY <1>1, <2>1, <3>1, <3>2, LenProperties DEF Replaces
  <2>4. ASSUME NEW i \in DOMAIN stack', ListensAt(i)'
        PROVE  \/ i \in DOMAIN stack /\ ListensAt(i) /\ stack[i].of # s /\ stack'[i] = stack[i]
               \/ /\ i = Len(stack) /\ Top.to # <<>> /\ stack'[i].of = s
                  /\ stack'[i].m = Top.m /\ stack'[i].to = Tail(Top.to)
    <3>1. i \in 1 .. Len(stack) - 1 \/ i = Len(stack)
      BY <1>1, <2>2, <2>3, <2>4 DEF ListensAt
    <3>2. QED
      BY <1>1, <1>2, <1>4, <2>2, <2>3, <2>4, <3>1 DEF ListensAt
  <2>5. \A i \in DOMAIN stack : ListensAt(i) /\ stack[i].of # s =>
          i \in DOMAIN stack' /\ stack'[i] = stack[i]
    BY <1>1, <2>3
  <2>6. /\ Len(stack) \in DOMAIN stack' /\ stack'[Len(stack)].call = "listener"
        /\ stack'[Len(stack)].of = s /\ stack'[Len(stack)].to = Tail(Top.to)
    BY <1>1, <2>2, <2>3 DEF ListensAt
  <2>7. QED
    BY <1>1, <2>4, <2>5, <2>6
<1>5. QED
  BY <1>3, <1>4

LEMMA HoldStep ==
  ASSUME Types, NestInv, Placed, ListenersHold, NEW s \in Sockets,
         Arrive(s) \/ Drain(s) \/ Poll(s) \/ Step(s)
  PROVE  ListenersHold'
<1>1. CASE ReadMessage(s)
  <2>1. /\ received' = [received EXCEPT ![s] = Append(received[s], Head(inbox[s]))]
        /\ Running("reads", s) /\ UNCHANGED capture
    BY <1>1 DEF ReadMessage, argVars
  <2>2. s \in {"frontend", "backend"} /\ Head(inbox[s]) \in Message
    BY <1>1, ReadMessageStack
  <2>3. /\ \A t \in Sockets : t # s => received'[t] = received[t]
        /\ received'[s] # <<>> /\ received'[s][Len(received'[s])] = Head(inbox[s])
    <3>1. /\ received'[s] = Append(received[s], Head(inbox[s])) /\ received[s] \in Seq(Message)
          /\ \A t \in Sockets : t # s => received'[t] = received[t]
      BY <2>1 DEF Types, Queues
    <3>2. QED
      BY <2>2, <3>1, AppendProperties
  <2>4. ASSUME NEW i \in DOMAIN stack', ListensAt(i)'
        PROVE  /\ stack'[i].of \in {"frontend", "backend"}
               /\ stack'[i].to \in Rest(stack'[i].of)
               /\ received'[stack'[i].of] # <<>>
               /\ stack'[i].m = received'[stack'[i].of][Len(received'[stack'[i].of])]
    <3>1. CASE i \in DOMAIN stack
      <4>1. stack'[i] = stack[i] /\ ListensAt(i)
        BY <1>1, <2>4, <3>1, ReadMessageFrames DEF ListensAt
      <4>2. stack[i].of # s
        BY <2>1, <3>1, <4>1, OneListener
      <4>3. stack[i].of \in {"frontend", "backend"} /\ stack[i].of \in Sockets
        BY <3>1, <4>1 DEF ListenersHold, Sockets
      <4>4. received'[stack[i].of] = received[stack[i].of]
        BY <2>3, <4>2, <4>3
      <4>5. QED
        BY <3>1, <4>1, <4>3, <4>4 DEF ListenersHold
    <3>2. CASE i = Len(stack) + 1
      <4>1. stack'[i].of = s /\ stack'[i].m = Head(inbox[s]) /\ stack'[i].to = Targets(s)
        BY <1>1, <3>2, ReadMessageFrames
      <4>2. QED
        BY <2>2, <2>3, <4>1, RestFacts
    <3>3. QED
      BY <1>1, <3>1, <3>2, ReadMessageFrames
  <2>5. \A t : Rest(t)' = Rest(t)
    BY <2>1 DEF Rest
  <2>6. QED
    BY <2>4, <2>5 DEF ListenersHold
<1>2. CASE Forward(s)
  <2>1. UNCHANGED <<received, capture>>
    BY <1>2 DEF Forward, argVars
  <2>2. ASSUME NEW i \in DOMAIN stack', ListensAt(i)'
        PROVE  /\ stack'[i].of \in {"frontend", "backend"}
               /\ stack'[i].to \in Rest(stack'[i].of)
               /\ received[stack'[i].of] # <<>>
               /\ stack'[i].m = received[stack'[i].of][Len(received[stack'[i].of])]
    <3>1. CASE i \in DOMAIN stack /\ ListensAt(i) /\ stack'[i] = stack[i]
      BY <3>1 DEF ListenersHold
    <3>2. CASE /\ Top.to # <<>> /\ stack'[i].of = s
               /\ stack'[i].m = Top.m /\ stack'[i].to = Tail(Top.to)
      <4>1. /\ s \in {"frontend", "backend"} /\ Top.to \in Rest(s)
            /\ received[s] # <<>> /\ Top.m = received[s][Len(received[s])]
        BY <1>2, ForwardStack
      <4>2. QED
        BY <3>2, <4>1, RestFacts
    <3>3. QED
      BY <1>2, <2>2, <3>1, <3>2, ForwardFrames
  <2>3. \A t : Rest(t)' = Rest(t)
    BY <2>1 DEF Rest
  <2>4. QED
    BY <2>1, <2>2, <2>3 DEF ListenersHold
<1>3. CASE \/ Arrive(s) \/ Drain(s) \/ Poll(s) \/ FlushReads(s) \/ ReadNothing(s)
           \/ FlushWrites(s) \/ WritesEnd(s) \/ SendvTakes(s) \/ SendvReads(s) \/ Restore(s)
  <2>1. Stay({"listener"})
    BY <1>3, StepStays
  <2>2. UNCHANGED <<received, capture>>
    BY <1>3 DEF Arrive, Drain, Poll, FlushReads, ReadNothing, FlushWrites,
       WritesEnd, SendvTakes, SendvReads, Restore, argVars
  <2>3. QED
    BY <2>1, <2>2, HoldKept
<1>4. QED
  BY <1>1, <1>2, <1>3 DEF Step

-----------------------------------------------------------------------------
(* What is given to a target.                                              *)

LEMMA GivenFacts ==
  ASSUME NEW a \in Seq(Message), NEW b \in Seq(Message), NEW c \in Seq(Message)
  PROVE  /\ a \o b \o c \in Seq(Message)
         /\ \A m \in Message : a \o b \o Append(c, m) = Append(a \o b \o c, m)
         /\ b = <<>> /\ c # <<>> => /\ Append(a, Head(c)) \o b \o Tail(c) = a \o b \o c
                                    /\ a \o <<Head(c)>> \o Tail(c) = a \o b \o c
         /\ a \o <<>> \o (b \o c) = a \o b \o c
<1>1. /\ a \o b \in Seq(Message) /\ b \o c \in Seq(Message) /\ <<>> \in Seq(Message)
      /\ a \o <<>> = a
  BY ConcatProperties, ConcatEmptySeq, EmptySeq
<1>2. a \o b \o c \in Seq(Message)
  BY <1>1, ConcatProperties
<1>3. a \o <<>> \o (b \o c) = a \o b \o c
  BY <1>1, ConcatAssociative
<1>4. ASSUME NEW m \in Message
      PROVE  a \o b \o Append(c, m) = Append(a \o b \o c, m)
  <2>1. <<m>> \in Seq(Message) /\ Append(c, m) = c \o <<m>>
        /\ Append(a \o b \o c, m) = (a \o b \o c) \o <<m>>
    BY <1>2, AppendIsConcat
  <2>2. QED
    BY <1>1, <2>1, ConcatAssociative
<1>5. ASSUME b = <<>>, c # <<>>
      PROVE  /\ Append(a, Head(c)) \o b \o Tail(c) = a \o b \o c
             /\ a \o <<Head(c)>> \o Tail(c) = a \o b \o c
  <2>1. /\ Head(c) \in Message /\ Tail(c) \in Seq(Message) /\ <<Head(c)>> \in Seq(Message)
        /\ c = <<Head(c)>> \o Tail(c)
    <3>1. Head(c) \in Message /\ Tail(c) \in Seq(Message)
      BY <1>5, HeadTailProperties
    <3>2. <<Head(c)>> \in Seq(Message)
      BY <3>1
    <3>3. c = <<Head(c)>> \o Tail(c)
      BY <1>5
    <3>4. QED
      BY <3>1, <3>2, <3>3
  <2>2. Append(a, Head(c)) = a \o <<Head(c)>>
    BY <2>1, AppendIsConcat
  <2>3. (a \o <<Head(c)>>) \o Tail(c) = a \o c
    BY <2>1, ConcatAssociative
  <2>4. (a \o <<Head(c)>>) \o <<>> = a \o <<Head(c)>>
    <3>1. a \o <<Head(c)>> \in Seq(Message)
      BY <2>1, ConcatProperties
    <3>2. QED
      BY <3>1, ConcatEmptySeq
  <2>5. QED
    BY <1>1, <1>5, <2>2, <2>3, <2>4
<1>6. QED
  BY <1>2, <1>3, <1>4, <1>5

LEMMA GivenType ==
  ASSUME Types, NEW t \in Sockets
  PROVE  GivenTo(t) \in Seq(Message)
BY GivenFacts, QueueFacts DEF GivenTo, Types

(* Sending and restoring move what was given along, in its order.          *)
LEMMA GivenStep ==
  ASSUME Types, NestInv, HandRestored, NEW s \in Sockets,
         Arrive(s) \/ Drain(s) \/ Poll(s) \/ Step(s), ~Forward(s), NEW t \in Sockets
  PROVE  GivenTo(t)' = GivenTo(t)
<1>1. taken[t] \in Seq(Message) /\ hand[t] \in Seq(Message) /\ outgoing[t] \in Seq(Message)
  BY QueueFacts DEF Types
<1>2. CASE UNCHANGED <<taken, hand, outgoing>>
  BY <1>2 DEF GivenTo
<1>3. CASE SendvTakes(s)
  <2>1. /\ outgoing[s] # <<>> /\ outgoing' = [outgoing EXCEPT ![s] = Tail(outgoing[s])]
        /\ taken' = [taken EXCEPT ![s] = Append(taken[s], Head(outgoing[s]))]
        /\ UNCHANGED hand /\ hand[s] = <<>>
    BY <1>3, HandFree DEF SendvTakes
  <2>2. CASE t = s
    <3>1. /\ taken'[t] = Append(taken[t], Head(outgoing[t])) /\ hand'[t] = hand[t]
          /\ outgoing'[t] = Tail(outgoing[t])
      BY <2>1, <2>2 DEF Types, Queues
    <3>2. Append(taken[t], Head(outgoing[t])) \o hand[t] \o Tail(outgoing[t])
            = taken[t] \o hand[t] \o outgoing[t]
      <4> DEFINE a == taken[t]  b == hand[t]  c == outgoing[t]
      <4>1. /\ a \in Seq(Message) /\ b \in Seq(Message) /\ c \in Seq(Message)
            /\ b = <<>> /\ c # <<>>
        BY <1>1, <2>1, <2>2
      <4> HIDE DEF a, b, c
      <4>2. Append(a, Head(c)) \o b \o Tail(c) = a \o b \o c
        BY <4>1, GivenFacts
      <4>3. QED
        BY <4>2 DEF a, b, c
    <3>3. QED
      BY <3>1, <3>2 DEF GivenTo
  <2>3. CASE t # s
    BY <2>1, <2>3 DEF GivenTo, Types, Queues
  <2>4. QED
    BY <2>2, <2>3
<1>4. CASE SendvReads(s)
  <2>1. /\ outgoing[s] # <<>> /\ outgoing' = [outgoing EXCEPT ![s] = Tail(outgoing[s])]
        /\ hand' = [hand EXCEPT ![s] = <<Head(outgoing[s])>>]
        /\ UNCHANGED taken /\ hand[s] = <<>>
    BY <1>4, HandFree DEF SendvReads
  <2>2. CASE t = s
    <3>1. /\ taken'[t] = taken[t] /\ hand'[t] = <<Head(outgoing[t])>>
          /\ outgoing'[t] = Tail(outgoing[t])
      BY <2>1, <2>2 DEF Types, Queues
    <3>2. taken[t] \o <<Head(outgoing[t])>> \o Tail(outgoing[t]) = taken[t] \o hand[t] \o outgoing[t]
      <4> DEFINE a == taken[t]  b == hand[t]  c == outgoing[t]
      <4>1. /\ a \in Seq(Message) /\ b \in Seq(Message) /\ c \in Seq(Message)
            /\ b = <<>> /\ c # <<>>
        BY <1>1, <2>1, <2>2
      <4> HIDE DEF a, b, c
      <4>2. a \o <<Head(c)>> \o Tail(c) = a \o b \o c
        BY <4>1, GivenFacts
      <4>3. QED
        BY <4>2 DEF a, b, c
    <3>3. QED
      BY <3>1, <3>2 DEF GivenTo
  <2>3. CASE t # s
    BY <2>1, <2>3 DEF GivenTo, Types, Queues
  <2>4. QED
    BY <2>2, <2>3
<1>5. CASE Restore(s)
  <2>1. /\ outgoing' = [outgoing EXCEPT ![s] = hand[s] \o outgoing[s]]
        /\ hand' = [hand EXCEPT ![s] = <<>>]
        /\ UNCHANGED taken
    BY <1>5 DEF Restore
  <2>2. CASE t = s
    <3>1. /\ taken'[t] = taken[t] /\ hand'[t] = <<>> /\ outgoing'[t] = hand[t] \o outgoing[t]
      BY <2>1, <2>2 DEF Types, Queues
    <3>2. taken[t] \o <<>> \o (hand[t] \o outgoing[t]) = taken[t] \o hand[t] \o outgoing[t]
      BY <1>1, GivenFacts
    <3>3. QED
      BY <3>1, <3>2 DEF GivenTo
  <2>3. CASE t # s
    BY <2>1, <2>3 DEF GivenTo, Types, Queues
  <2>4. QED
    BY <2>2, <2>3
<1>6. QED
  BY <1>2, <1>3, <1>4, <1>5 DEF Step, Arrive, Drain, Poll, FlushReads, ReadMessage, ReadNothing,
     FlushWrites, WritesEnd

(* A message is read: it is due to every target of the listener.           *)
LEMMA ReadMessageFed ==
  ASSUME Types, NestInv, Placed, HandRestored, ListenersHold, NEW s \in Sockets, ReadMessage(s),
         NEW r \in {"frontend", "backend"}, NEW target \in Sockets, Fed(r, target),
         r = s => target \in ToSet(Targets(s))
  PROVE  Fed(r, target)'
<1>1. /\ received' = [received EXCEPT ![s] = Append(received[s], Head(inbox[s]))]
      /\ Running("reads", s) /\ UNCHANGED <<kind, capture>> /\ ~Forward(s)
  BY DEF ReadMessage, Running, Forward, argVars
<1>2. GivenTo(target)' = GivenTo(target)
  BY <1>1, GivenStep DEF Step
<1>3. \A m : Forwarded(m, target)' = Forwarded(m, target)
  BY <1>1 DEF Forwarded
<1>4. \A i \in DOMAIN stack : ListensAt(i) => stack[i].of # s
  BY <1>1, OneListener
<1>5. CASE r # s
  <2>1. received'[r] = received[r]
    BY <1>1, <1>5 DEF Types, Queues, Sockets
  <2>2. IsDue(r, target)' = IsDue(r, target)
    BY <1>5, ReadMessageFrames DEF IsDue, DueAt, ListensAt
  <2>3. QED
    BY <1>2, <1>3, <2>1, <2>2 DEF Fed
<1>6. CASE r = s
  <2>1. ~IsDue(s, target)
    BY <1>4 DEF IsDue, DueAt
  <2>2. IsDue(s, target)'
    BY <1>6, ReadMessageFrames DEF IsDue, DueAt, ListensAt
  <2>3. /\ Len(received'[s]) = Len(received[s]) + 1 /\ Len(received[s]) \in Nat
        /\ \A i \in 1 .. Len(received[s]) : received'[s][i] = received[s][i]
    <3>1. Head(inbox[s]) \in Message /\ received[s] \in Seq(Message)
      BY ReadMessageStack, QueueFacts DEF Types
    <3>2. received'[s] = Append(received[s], Head(inbox[s]))
      BY <1>1 DEF Types, Queues
    <3>3. QED
      BY <3>1, <3>2, AppendProperties, LenProperties
  <2>4. /\ Len(received[s]) = Len(GivenTo(target))
        /\ DOMAIN GivenTo(target) = 1 .. Len(GivenTo(target))
    <3>1. DOMAIN GivenTo(target) = 1 .. Len(GivenTo(target)) /\ Len(GivenTo(target)) \in Nat
      BY GivenType, LenProperties
    <3>2. QED
      BY <1>6, <2>1, <3>1 DEF Fed
  <2>5. \A i \in DOMAIN GivenTo(target) :
          GivenTo(target)[i] = Forwarded(received'[s][i], target)
    BY <1>6, <2>3, <2>4 DEF Fed
  <2>6. QED
    BY <1>2, <1>3, <1>6, <2>2, <2>3, <2>4, <2>5 DEF Fed
<1>7. QED
  BY <1>5, <1>6

(* A listener sends: what it had due to that target is given.              *)
LEMMA ForwardFed ==
  ASSUME Types, NestInv, Placed, HandRestored, ListenersHold, NEW s \in Sockets, Forward(s),
         NEW r \in {"frontend", "backend"}, NEW target \in Sockets, Fed(r, target),
         target = "backend" <=> r = "frontend"
  PROVE  Fed(r, target)'
<1>1. /\ s \in {"frontend", "backend"} /\ Top.m \in Message /\ Top.to \in Rest(s)
      /\ received[s] # <<>> /\ Top.m = received[s][Len(received[s])]
  BY ForwardStack
<1>2. UNCHANGED <<received, hand, taken, kind, capture>>
  BY DEF Forward, argVars
<1>3. \A m : Forwarded(m, target)' = Forwarded(m, target)
  BY <1>2 DEF Forwarded
<1>4. CASE r # s \/ Top.to = <<>> \/ Head(Top.to) # target
  <2>1. GivenTo(target)' = GivenTo(target)
    <3>1. CASE Top.to = <<>>
      BY <1>2, <3>1 DEF Forward, GivenTo
    <3>2. CASE Top.to # <<>>
      <4>1. Head(Top.to) # target
        BY <1>1, <1>4, <3>2, RestFacts
      <4>2. outgoing'[target] = outgoing[target]
        BY <3>2, <4>1 DEF Forward, Types, Queues
      <4>3. QED
        BY <1>2, <4>2 DEF GivenTo
    <3>3. QED
      BY <3>1, <3>2
  <2>2. IsDue(r, target)' = IsDue(r, target)
    <3>1. ASSUME NEW i \in DOMAIN stack, DueAt(i, r, target)
          PROVE  IsDue(r, target)'
      <4>1. CASE r # s
        BY <3>1, <4>1, ForwardFrames DEF IsDue, DueAt, ListensAt
      <4>2. CASE r = s
        <5>1. i = Len(stack) /\ Top = stack[i]
          BY <3>1, <4>2, ForwardFrames, OneListener DEF DueAt
        <5>2. target \in ToSet(Top.to)
          BY <3>1, <5>1 DEF DueAt
        <5>3. Top.to # <<>>
          BY <5>2 DEF ToSet
        <5>4. target \in ToSet(Tail(Top.to))
          BY <1>1, <1>4, <4>2, <5>2, <5>3, RestFacts
        <5>5. QED
          BY <4>2, <5>3, <5>4, ForwardFrames DEF IsDue, DueAt, ListensAt
      <4>3. QED
        BY <4>1, <4>2
    <3>2. ASSUME NEW i \in DOMAIN stack', DueAt(i, r, target)'
          PROVE  IsDue(r, target)
      <4>1. CASE i \in DOMAIN stack /\ ListensAt(i) /\ stack'[i] = stack[i]
        BY <3>2, <4>1 DEF IsDue, DueAt, ListensAt
      <4>2. CASE /\ Top.to # <<>> /\ stack'[i].of = s
                 /\ stack'[i].m = Top.m /\ stack'[i].to = Tail(Top.to)
        <5>1. r = s /\ target \in ToSet(Tail(Top.to))
          BY <3>2, <4>2 DEF DueAt
        <5>2. target \in ToSet(Top.to)
          BY <1>1, <4>2, <5>1, RestFacts
        <5>3. QED
          BY <5>1, <5>2, ForwardFrames DEF IsDue, DueAt
      <4>3. QED
        BY <3>2, <4>1, <4>2, ForwardFrames DEF DueAt
    <3>3. QED
      BY <3>1, <3>2 DEF IsDue
  <2>3. QED
    BY <1>2, <1>3, <2>1, <2>2 DEF Fed
<1>5. CASE r = s /\ Top.to # <<>> /\ Head(Top.to) = target
  <2>1. outgoing' = [outgoing EXCEPT ![target] = Append(outgoing[target], Forwarded(Top.m, target))]
    BY <1>5 DEF Forward
  <2>2. Forwarded(Top.m, target) \in Message
    BY <1>1, ForwardedType
  <2>3. GivenTo(target)' = Append(GivenTo(target), Forwarded(Top.m, target))
    <3>1. /\ taken[target] \in Seq(Message) /\ hand[target] \in Seq(Message)
          /\ outgoing[target] \in Seq(Message)
      BY QueueFacts DEF Types
    <3>2. outgoing'[target] = Append(outgoing[target], Forwarded(Top.m, target))
      BY <2>1 DEF Types, Queues
    <3>3. taken[target] \o hand[target] \o Append(outgoing[target], Forwarded(Top.m, target))
            = Append(taken[target] \o hand[target] \o outgoing[target], Forwarded(Top.m, target))
      <4> DEFINE a == taken[target]  b == hand[target]  c == outgoing[target]
                 m == Forwarded(Top.m, target)
      <4>1. a \in Seq(Message) /\ b \in Seq(Message) /\ c \in Seq(Message) /\ m \in Message
        BY <2>2, <3>1
      <4> HIDE DEF a, b, c, m
      <4>2. a \o b \o Append(c, m) = Append(a \o b \o c, m)
        BY <4>1, GivenFacts
      <4>3. QED
        BY <4>2 DEF a, b, c, m
    <3>4. QED
      BY <1>2, <3>2, <3>3 DEF GivenTo
  <2>4. IsDue(s, target)
    <3>1. target \in ToSet(Top.to)
      BY <1>1, <1>5, RestFacts
    <3>2. QED
      BY <3>1, ForwardFrames DEF IsDue, DueAt
  <2>5. ~IsDue(s, target)'
    <3> SUFFICES ASSUME NEW i \in DOMAIN stack', DueAt(i, s, target)'
                 PROVE  FALSE
      BY DEF IsDue
    <3>1. stack'[i].to = Tail(Top.to)
      BY ForwardFrames DEF DueAt
    <3>2. target \in ToSet(Tail(Top.to))
      BY <3>1 DEF DueAt
    <3>3. QED
      BY <1>1, <1>5, <3>2, RestFacts
  <2> DEFINE g == GivenTo(target)  n == Len(g)  new == Forwarded(Top.m, target)
  <2>6. g \in Seq(Message) /\ n \in Nat /\ DOMAIN g = 1 .. n
    BY GivenType, LenProperties
  <2>7. Len(received[s]) = n + 1 /\ \A i \in 1 .. n : g[i] = Forwarded(received[s][i], target)
    BY <1>5, <2>4, <2>6 DEF Fed
  <2>8. new = Forwarded(received[s][n + 1], target)
    BY <1>1, <2>7
  <2>9. /\ Len(GivenTo(target)') = n + 1 /\ DOMAIN (GivenTo(target)') = 1 .. n + 1
        /\ \A i \in 1 .. n : (GivenTo(target)')[i] = g[i]
        /\ (GivenTo(target)')[n + 1] = new
    BY <2>2, <2>3, <2>6, AppendProperties, LenProperties
  <2> HIDE DEF g, n, new
  <2>10. \A i \in DOMAIN (GivenTo(target)') :
           (GivenTo(target)')[i] = Forwarded(received[s][i], target)
    <3>1. \A i \in 1 .. n + 1 : i \in 1 .. n \/ i = n + 1
      BY <2>6
    <3>2. QED
      BY <2>7, <2>8, <2>9, <3>1
  <2>11. QED
    BY <1>2, <1>3, <1>5, <2>5, <2>6, <2>7, <2>9, <2>10 DEF Fed
<1>6. QED
  BY <1>4, <1>5

LEMMA FedStep ==
  ASSUME Types, NestInv, Placed, HandRestored, ListenersHold, FedInv, NEW s \in Sockets,
         Arrive(s) \/ Drain(s) \/ Poll(s) \/ Step(s)
  PROVE  FedInv'
<1>1. "frontend" \in Sockets /\ "backend" \in Sockets /\ "capture" \in Sockets
  BY DEF Sockets
<1>2. CASE ReadMessage(s)
  <2>1. UNCHANGED capture
    BY <1>2 DEF ReadMessage, argVars
  <2>2. /\ "backend" \in ToSet(Targets("frontend")) /\ "frontend" \in ToSet(Targets("backend"))
        /\ capture => "capture" \in ToSet(Targets("backend"))
    BY RestFacts
  <2>3. QED
    BY <1>1, <1>2, <2>1, <2>2, ReadMessageFed DEF FedInv
<1>3. CASE Forward(s)
  <2>1. UNCHANGED capture
    BY <1>3 DEF Forward, argVars
  <2>2. QED
    BY <1>1, <1>3, <2>1, ForwardFed DEF FedInv
<1>4. CASE \/ Arrive(s) \/ Drain(s) \/ Poll(s) \/ FlushReads(s) \/ ReadNothing(s)
           \/ FlushWrites(s) \/ WritesEnd(s) \/ SendvTakes(s) \/ SendvReads(s) \/ Restore(s)
  <2>1. Stay({"listener"})
    BY <1>4, StepStays
  <2>2. UNCHANGED <<received, capture, kind>>
    BY <1>4 DEF Arrive, Drain, Poll, FlushReads, ReadNothing, FlushWrites,
       WritesEnd, SendvTakes, SendvReads, Restore, argVars
  <2>3. CASE ~Forward(s)
    BY <1>4, <2>1, <2>2, <2>3, GivenStep, FedKept DEF Step
  <2>4. QED
    BY <1>3, <2>3
<1>5. QED
  BY <1>2, <1>3, <1>4 DEF Step

-----------------------------------------------------------------------------
LEMMA ForwardInit == Init => ForwardInv
<1> SUFFICES ASSUME Init
             PROVE  ForwardInv
  OBVIOUS
<1>1. <<>> \in Seq(Message) /\ <<>> \in Seq(Frame) /\ DOMAIN <<>> = {} /\ Len(<<>>) = 0
  BY EmptySeq
<1>2. /\ inbox = [s \in Sockets |-> <<>>] /\ outgoing = inbox /\ hand = inbox
      /\ received = inbox /\ taken = inbox /\ stack = <<>> /\ capture \in BOOLEAN
      /\ room = [s \in Sockets |-> HWM]
      /\ reading = [s \in Sockets |-> FALSE] /\ writing = reading
  BY DEF Init
<1>3. Types
  BY <1>1, <1>2, ProxyAssumption DEF Types, Queues
<1>4. NestInv
  BY <1>1, <1>2 DEF NestInv, ReadsOnce, WritesOnce, ListenersInLoop
<1>5. Placed /\ HandRestored /\ ListenersHold
  BY <1>1, <1>2 DEF Placed, HandRestored, ListenersHold, Sockets
<1>6. \A s, target \in Sockets : Fed(s, target)
  <2> SUFFICES ASSUME NEW s \in Sockets, NEW target \in Sockets
               PROVE  Fed(s, target)
    OBVIOUS
  <2>1. GivenTo(target) = <<>> /\ received[s] = <<>>
    <3>1. <<>> \o <<>> = <<>>
      OBVIOUS
    <3>2. QED
      BY <1>2, <3>1 DEF GivenTo
  <2>2. ~IsDue(s, target)
    BY <1>1, <1>2 DEF IsDue
  <2>3. QED
    BY <1>1, <2>1, <2>2 DEF Fed
<1>7. QED
  BY <1>3, <1>4, <1>5, <1>6 DEF ForwardInv, FedInv, Sockets

LEMMA ForwardStep == ForwardInv /\ [Next]_vars => ForwardInv'
<1> SUFFICES ASSUME ForwardInv, [Next]_vars
             PROVE  ForwardInv'
  OBVIOUS
<1>1. ASSUME NEW s \in Sockets, Arrive(s) \/ Drain(s) \/ Poll(s) \/ Step(s)
      PROVE  ForwardInv'
  BY <1>1, TypesStep, NestStep, PlacedStep, HandStep, HoldStep, FedStep DEF ForwardInv
<1>2. CASE UNCHANGED vars
  <2>1. /\ UNCHANGED <<inbox, room, outgoing, hand, reading, writing, stack, received, taken>>
        /\ UNCHANGED <<kind, capture>>
    BY <1>2 DEF vars, argVars
  <2>2. Types' /\ Placed'
    BY <2>1 DEF ForwardInv, Types, Placed
  <2>3. CallersStay /\ \A calls : Stay(calls)
    BY <2>1, UnchangedStay
  <2>4. NestInv' /\ HandRestored' /\ ListenersHold'
    BY <2>1, <2>3, NestKept, HandKept, HoldKept DEF ForwardInv
  <2>5. FedInv'
    BY <2>1, <2>3, FedKept DEF ForwardInv, GivenTo
  <2>6. QED
    BY <2>2, <2>4, <2>5 DEF ForwardInv
<1>3. QED
  BY <1>1, <1>2 DEF Next

LEMMA ForwardInvariant == Spec => []ForwardInv
BY ForwardInit, ForwardStep, PTL DEF Spec

-----------------------------------------------------------------------------
(* The results.                                                            *)

(* However much arrives on both sides, every loop of a socket is in the    *)
(* stack once at most, and so is its listener: the stack is not deeper for *)
(* more messages.                                                          *)
THEOREM ProxyNests == Spec => []NestingBounded
<1>1. ForwardInv => NestingBounded
  <2> SUFFICES ASSUME ForwardInv, NEW s \in Sockets,
                      NEW calls \in {{"reads"}, {"listener"}, {"writes", "restore"}},
                      NEW i \in {k \in DOMAIN stack : stack[k].of = s /\ stack[k].call \in calls},
                      NEW j \in {k \in DOMAIN stack : stack[k].of = s /\ stack[k].call \in calls}
               PROVE  i = j
    BY DEF NestingBounded
  <2>1. CASE calls = {"reads"}
    BY <2>1 DEF ForwardInv, NestInv, ReadsOnce, ReadsAt
  <2>2. CASE calls = {"listener"}
    BY <2>2, OneListener DEF ForwardInv, ListensAt
  <2>3. CASE calls = {"writes", "restore"}
    BY <2>3 DEF ForwardInv, NestInv, WritesOnce, WritesAt
  <2>4. QED
    BY <2>1, <2>2, <2>3
<1>2. QED
  BY <1>1, ForwardInvariant, PTL

(* What is due is a function, which is <<>> if nothing is.                 *)
LEMMA DueIsDue ==
  ASSUME NEW s, NEW target
  PROVE  Due(s, target) = <<>> <=> ~IsDue(s, target)
<1> DEFINE D == {j \in DOMAIN stack : /\ stack[j].call = "listener" /\ stack[j].of = s
                                      /\ target \in ToSet(stack[j].to)}
<1>1. D = {} <=> ~IsDue(s, target)
  BY DEF IsDue, DueAt, ListensAt
<1>2. Due(s, target) = [i \in D |-> stack[i].m.n]
  BY DEF Due
<1> HIDE DEF D
<1>3. CASE D = {}
  <2>1. [i \in D |-> stack[i].m.n] \in [1 .. 0 -> {0}]
    BY <1>3
  <2>2. [i \in D |-> stack[i].m.n] \in Seq({0})
    BY <2>1, SeqDef
  <2>3. [i \in D |-> stack[i].m.n] = <<>>
    BY <1>3, <2>2, EmptySeq, LenProperties
  <2>4. QED
    BY <1>1, <1>2, <1>3, <2>3
<1>4. CASE D # {}
  <2>1. DOMAIN Due(s, target) = D /\ DOMAIN <<>> = {}
    BY <1>2
  <2>2. QED
    BY <1>1, <1>4, <2>1
<1>5. QED
  BY <1>3, <1>4

LEMMA PrefixFacts ==
  ASSUME NEW S, NEW q \in Seq(S), NEW r \in Seq(S), Len(q) <= Len(r),
         \A i \in 1 .. Len(q) : q[i] = r[i]
  PROVE  IsPrefix(q, r)
<1> DEFINE n == Len(q)  a == SubSeq(q, 1, n)  b == SubSeq(r, 1, n)
<1>1. /\ n \in Nat /\ n \in Int /\ 1 \in Int
      /\ \A i \in 1 .. n : q[i] \in S /\ r[i] \in S
  BY LenProperties, ElementOfSeq
<1> HIDE DEF n
<1>2. /\ a \in Seq(S) /\ Len(a) = n /\ \A i \in 1 .. n : a[i] = q[i]
  <2>1. /\ a \in Seq(S) /\ Len(a) = IF 1 <= n THEN n - 1 + 1 ELSE 0
        /\ \A i \in 1 .. n - 1 + 1 : a[i] = q[1 + i - 1]
    BY <1>1, SubSeqProperties
  <2>2. QED
    BY <1>1, <2>1
<1>3. /\ b \in Seq(S) /\ Len(b) = n /\ \A i \in 1 .. n : b[i] = r[i]
  <2>1. /\ b \in Seq(S) /\ Len(b) = IF 1 <= n THEN n - 1 + 1 ELSE 0
        /\ \A i \in 1 .. n - 1 + 1 : b[i] = r[1 + i - 1]
    BY <1>1, SubSeqProperties
  <2>2. QED
    BY <1>1, <2>1
<1> HIDE DEF a, b
<1>4. a = b
  <2>1. \A i \in 1 .. Len(a) : a[i] = b[i]
    BY <1>2, <1>3 DEF n
  <2>2. QED
    BY <1>2, <1>3, <2>1, SeqEqual
<1>5. QED
  BY <1>4 DEF IsPrefix, a, b, n

LEMMA NumbersFacts ==
  ASSUME NEW q \in Seq(Message)
  PROVE  /\ Numbers(q) \in Seq(Nat) /\ Len(Numbers(q)) = Len(q)
         /\ \A i \in 1 .. Len(q) : Numbers(q)[i] = q[i].n
<1>1. DOMAIN q = 1 .. Len(q) /\ Len(q) \in Nat /\ \A i \in 1 .. Len(q) : q[i].n \in Nat
  <2>1. \A i \in 1 .. Len(q) : q[i] \in Message
    BY ElementOfSeq
  <2>2. \A m \in Message : m.n \in Nat
    BY DEF Message
  <2>3. QED
    BY <2>1, <2>2, LenProperties
<1>2. Numbers(q) \in [1 .. Len(q) -> Nat]
  BY <1>1 DEF Numbers
<1>3. Numbers(q) \in Seq(Nat)
  BY <1>1, <1>2, SeqDef
<1>4. 1 .. Len(Numbers(q)) = 1 .. Len(q)
  BY <1>2, <1>3, LenProperties
<1>5. Len(Numbers(q)) = Len(q)
  BY <1>1, <1>3, <1>4, LenProperties
<1>6. QED
  BY <1>1, <1>3, <1>5 DEF Numbers

LEMMA FedInOrder ==
  ASSUME Types, NEW s \in Sockets, NEW target \in Sockets, Fed(s, target)
  PROVE  InOrder(s, target)
<1> DEFINE r == received[s]  g == GivenTo(target)
<1>1. r \in Seq(Message) /\ g \in Seq(Message)
  BY QueueFacts, GivenType DEF Types
<1>2. /\ Len(r) = Len(g) + (IF IsDue(s, target) THEN 1 ELSE 0)
      /\ \A i \in DOMAIN g : g[i] = Forwarded(r[i], target)
  BY DEF Fed
<1>3. InOrder(s, target) <=>
        /\ IsPrefix(Numbers(g), Numbers(r))
        /\ Len(Numbers(r)) = Len(Numbers(g)) + (IF Due(s, target) = <<>> THEN 0 ELSE 1)
  BY DEF InOrder
<1> HIDE DEF r, g
<1>4. /\ Len(r) \in Nat /\ Len(g) \in Nat /\ DOMAIN g = 1 .. Len(g)
      /\ Len(g) <= Len(r) /\ \A i \in 1 .. Len(g) : r[i] \in Message
  BY <1>1, <1>2, LenProperties, ElementOfSeq
<1>5. \A i \in 1 .. Len(g) : g[i].n = r[i].n
  <2>1. \A m \in Message : Forwarded(m, target).n = m.n
    BY DEF Forwarded, Message
  <2>2. QED
    BY <1>2, <1>4, <2>1
<1>6. /\ Numbers(g) \in Seq(Nat) /\ Numbers(r) \in Seq(Nat)
      /\ Len(Numbers(g)) = Len(g) /\ Len(Numbers(r)) = Len(r)
      /\ \A i \in 1 .. Len(Numbers(g)) : Numbers(g)[i] = Numbers(r)[i]
  BY <1>1, <1>4, <1>5, NumbersFacts
<1>7. IsPrefix(Numbers(g), Numbers(r))
  BY <1>4, <1>6, PrefixFacts
<1>8. QED
  BY <1>2, <1>3, <1>6, <1>7, DueIsDue

(* Each direction keeps the order, forgets nothing and repeats nothing,    *)
(* however the loops nest; the capture socket sends what the backend       *)
(* receives in the order in which the frontend sends it.                   *)
THEOREM ProxyForwards == Spec => []ForwardedInOrder
<1>1. ForwardInv => ForwardedInOrder
  BY FedInOrder DEF ForwardInv, FedInv, ForwardedInOrder, Sockets
<1>2. QED
  BY <1>1, ForwardInvariant, PTL

(* What a listener sends is what was received, except that between a router*)
(* and a dealer a message gets three frames.                               *)
THEOREM ProxyUnaltered == Spec => []Unaltered
<1>1. ForwardInv => Unaltered
  <2> SUFFICES ASSUME ForwardInv, NEW s \in {"frontend", "backend"},
                      NEW i \in DOMAIN GivenTo(Targets(s)[1])
               PROVE  \/ GivenTo(Targets(s)[1])[i] = received[s][i]
                      \/ kind = "router/dealer" /\ received[s][i].frames # 3
    BY DEF Unaltered
  <2> DEFINE target == Targets(s)[1]  m == received[s][i]
  <2>1. target = IF s = "frontend" THEN "backend" ELSE "frontend"
    <3>1. /\ <<"backend">>[1] = "backend" /\ <<"frontend">>[1] = "frontend"
          /\ <<"frontend", "capture">>[1] = "frontend"
      OBVIOUS
    <3>2. QED
      BY <3>1 DEF Targets
  <2>2. Fed(s, target) /\ target \in Sockets /\ s \in Sockets
    BY <2>1 DEF ForwardInv, FedInv, Sockets
  <2>3. GivenTo(target)[i] = Forwarded(m, target) /\ m \in Message
    <3>1. /\ GivenTo(target) \in Seq(Message) /\ received[s] \in Seq(Message)
      BY <2>2, GivenType, QueueFacts DEF ForwardInv, Types
    <3>2. /\ Len(received[s]) = Len(GivenTo(target)) + (IF IsDue(s, target) THEN 1 ELSE 0)
          /\ GivenTo(target)[i] = Forwarded(m, target)
      BY <2>2 DEF Fed
    <3>3. i \in 1 .. Len(received[s])
      <4> DEFINE g == GivenTo(target)  r == received[s]
      <4>1. i \in 1 .. Len(g) /\ Len(g) \in Nat /\ Len(r) \in Nat /\ Len(r) >= Len(g)
        BY <3>1, <3>2, LenProperties
      <4> HIDE DEF g, r
      <4>2. i \in 1 .. Len(r)
        BY <4>1
      <4>3. QED
        BY <4>2 DEF r
    <3>4. QED
      BY <3>1, <3>2, <3>3, ElementOfSeq
  <2>4. target # "capture"
    BY <2>1
  <2> HIDE DEF target, m
  <2>5. Forwarded(m, target) = m \/ (kind = "router/dealer" /\ m.frames # 3)
    <3>1. \A x \in Message : x.frames = 3 => [x EXCEPT !.frames = 3] = x
      BY DEF Message
    <3>2. m.frames = 3 => Forwarded(m, target) = m
      BY <2>3, <2>4, <3>1 DEF Forwarded
    <3>3. QED
      BY <3>2 DEF Forwarded
  <2>6. QED
    BY <2>3, <2>5 DEF target, m
<1>2. QED
  BY <1>1, ForwardInvariant, PTL
=============================================================================
