---------------------------- MODULE OutboxProofs ----------------------------
(* The promise of the outgoing queue, proved for every number of calls.    *)
EXTENDS Outbox, SequenceTheorems, TLAPS

LEMMA OneNat == ASSUME NEW n \in Nat, n # 0, n <= 1 PROVE n = 1
OBVIOUS

(* A sequence that is neither empty nor longer than one.                   *)
LEMMA AtMostOne ==
  ASSUME NEW S, NEW h \in Seq(S), Len(h) <= 1, h # <<>>
  PROVE  Len(h) = 1 /\ h[1] \in S /\ h = <<h[1]>>
<1>1. Len(h) \in Nat /\ Len(h) # 0
  BY EmptySeq
<1>2. Len(h) = 1
  BY <1>1, OneNat
<1>3. QED
  BY <1>2

LEMMA BatchFacts ==
  ASSUME NEW c \in Nat, NEW more \in BOOLEAN
  PROVE  /\ NewBatch(c, more) \in Batch
         /\ \A b \in Batch : Extended(b, c, more) \in Batch
BY DEF NewBatch, Extended, Batch

LEMMA AppendedType ==
  ASSUME NEW q \in Seq(Batch), NEW c \in Nat, NEW more \in BOOLEAN
  PROVE  Appended(q, c, more) \in Seq(Batch) /\ Appended(q, c, more) # <<>>
<1>1. CASE q = <<>> \/ LastOf(q).isClosed
  BY <1>1, BatchFacts DEF Appended
<1>2. CASE ~(q = <<>> \/ LastOf(q).isClosed)
  <2>1. Len(q) \in 1 .. Len(q) /\ LastOf(q) \in Batch
    BY <1>2, EmptySeq, ElementOfSeq DEF LastOf
  <2>2. Extended(LastOf(q), c, more) \in Batch
    BY <2>1, BatchFacts
  <2>3. QED
    BY <1>2, <2>1, <2>2, ExceptSeq DEF Appended
<1>3. QED
  BY <1>1, <1>2

THEOREM OutboxTypeCorrect == OutboxSpec => []OutboxType
<1>1. OutboxInit => OutboxType
  BY DEF OutboxInit, OutboxType
<1>2. OutboxType /\ [OutboxNext]_outboxVars => OutboxType'
  <2> SUFFICES ASSUME OutboxType, [OutboxNext]_outboxVars PROVE OutboxType'
    OBVIOUS
  <2> USE DEF OutboxType
  <2>1. ASSUME NEW more \in BOOLEAN, AppendChunk(more) PROVE OutboxType'
    <3>1. calls' \in Seq(BOOLEAN) /\ Len(calls') \in Nat
      BY <2>1 DEF AppendChunk
    <3>2. outgoing' \in Seq(Batch)
      BY <2>1, <3>1, AppendedType DEF AppendChunk
    <3>3. QED
      BY <2>1, <3>1, <3>2 DEF AppendChunk
  <2>2. CASE Fetch
    BY <2>2 DEF Fetch, CanSend
  <2>3. CASE Restore
    BY <2>3, ConcatProperties DEF Restore
  <2>4. CASE Settle
    <3>1. settled' \in Seq(Batch) /\ Len(settled') = Len(settled) + Len(hand)
      BY <2>4, ConcatProperties DEF Settle
    <3>2. DOMAIN settled \subseteq DOMAIN settled'
      BY <3>1
    <3>3. QED
      BY <2>4, <3>1, <3>2 DEF Settle
  <2>5. CASE Discard
    <3>1. settled' \in Seq(Batch) /\ Len(settled') = Len(settled) + Len(hand)
      BY <2>5, ConcatProperties DEF Discard
    <3>2. Len(hand) = 1
      BY <2>5, AtMostOne DEF Discard
    <3>3. DOMAIN settled \subseteq DOMAIN settled' /\ Len(settled) + 1 \in DOMAIN settled'
      BY <3>1, <3>2
    <3>4. QED
      BY <2>5, <3>1, <3>3 DEF Discard
  <2>6. CASE UNCHANGED outboxVars
    BY <2>6 DEF outboxVars
  <2>7. QED
    BY <2>1, <2>2, <2>3, <2>4, <2>5, <2>6 DEF OutboxNext
<1>3. QED
  BY <1>1, <1>2, PTL DEF OutboxSpec
-----------------------------------------------------------------------------
LEMMA AppendFacts ==
  ASSUME NEW S, NEW s \in Seq(S), NEW e \in S
  PROVE  /\ Append(s, e) \in Seq(S) /\ Append(s, e) # <<>>
         /\ Len(Append(s, e)) = Len(s) + 1
         /\ DOMAIN Append(s, e) = 1 .. Len(s) + 1
         /\ Append(s, e)[Len(s) + 1] = e
         /\ \A i \in 1 .. Len(s) : Append(s, e)[i] = s[i]
OBVIOUS

LEMMA LastIndex ==
  ASSUME NEW S, NEW s \in Seq(S), s # <<>>
  PROVE  /\ Len(s) \in Nat /\ Len(s) \in 1 .. Len(s) /\ 1 \in 1 .. Len(s)
         /\ DOMAIN s = 1 .. Len(s) /\ LastOf(s) = s[Len(s)] /\ s[Len(s)] \in S
BY EmptySeq, ElementOfSeq DEF LastOf

(* A message stays one when another call of send is made.                  *)
LEMMA MessageKept ==
  ASSUME NEW b \in Batch, NEW cs \in Seq(BOOLEAN), NEW more \in BOOLEAN, Message(b, cs)
  PROVE  Message(b, Append(cs, more))
<1> DEFINE ds == Append(cs, more)
<1>1. \A i \in 1 .. Len(cs) : ds[i] = cs[i] /\ i \in DOMAIN ds
  BY AppendFacts
<1>2. b.parts \in Seq(Nat) /\ b.parts # <<>>
  BY DEF Message, Batch
<1>3. Len(b.parts) \in DOMAIN b.parts /\ Final(b) = b.parts[Len(b.parts)]
  BY <1>2, LastIndex DEF Final
<1>4. \A k \in DOMAIN b.parts : b.parts[k] \in 1 .. Len(cs)
  BY DEF Message
<1>5. \A k \in DOMAIN b.parts : b.parts[k] \in DOMAIN ds /\ ds[b.parts[k]] = cs[b.parts[k]]
  BY <1>1, <1>4, Zenon
<1>6. \A k \in 1 .. Len(b.parts) - 1 : k \in DOMAIN b.parts
  BY <1>2
<1> HIDE DEF ds
<1>7. Message(b, ds)
  BY <1>2, <1>3, <1>5, <1>6, Zenon DEF Message
<1>8. QED
  BY <1>7 DEF ds

LEMMA MessageNew ==
  ASSUME NEW cs \in Seq(BOOLEAN), NEW more \in BOOLEAN
  PROVE  Message(NewBatch(Len(cs) + 1, more), Append(cs, more))
<1> DEFINE c == Len(cs) + 1
           ds == Append(cs, more)
           b == NewBatch(c, more)
<1>1. c \in DOMAIN ds /\ ds[c] = more
  BY AppendFacts
<1>2. b.parts = <<c>> /\ b.isClosed = ~more
  BY DEF NewBatch
<1> HIDE DEF b, c, ds
<1>3. DOMAIN b.parts = {1} /\ b.parts[1] = c /\ b.parts # <<>> /\ Len(b.parts) = 1
  BY <1>2
<1>4. Final(b) = c /\ \A k \in 1 .. Len(b.parts) - 1 : FALSE
  BY <1>3 DEF Final, LastOf
<1>5. \A k \in DOMAIN b.parts : b.parts[k] \in DOMAIN ds
  BY <1>1, <1>3
<1>6. ds[Final(b)] = ~b.isClosed
  BY <1>1, <1>2, <1>4, Zenon
<1>7. Message(b, ds)
  BY <1>3, <1>4, <1>5, <1>6, Zenon DEF Message
<1>8. QED
  BY <1>7 DEF b, c, ds

LEMMA MessageExtended ==
  ASSUME NEW a \in Batch, NEW cs \in Seq(BOOLEAN), NEW more \in BOOLEAN,
         Message(a, cs), ~a.isClosed, Final(a) = Len(cs)
  PROVE  LET b == Extended(a, Len(cs) + 1, more)
         IN  Message(b, Append(cs, more)) /\ First(b) = First(a) /\ Final(b) = Len(cs) + 1
<1> DEFINE c == Len(cs) + 1
           ds == Append(cs, more)
           b == Extended(a, c, more)
           m == Len(a.parts)
<1>1. /\ c \in DOMAIN ds /\ ds[c] = more /\ Len(cs) \in Nat
      /\ \A i \in 1 .. Len(cs) : ds[i] = cs[i] /\ i \in DOMAIN ds
  BY AppendFacts
<1>2. /\ a.parts \in Seq(Nat) /\ a.parts # <<>> /\ m \in Nat /\ m \in 1 .. m /\ 1 \in 1 .. m
      /\ Final(a) = a.parts[m] /\ DOMAIN a.parts = 1 .. m
  BY LastIndex DEF Message, Batch, Final
<1>3. b.parts = Append(a.parts, c) /\ b.isClosed = ~more /\ c \in Nat
  BY DEF Extended
<1>4. /\ \A k \in 1 .. m : a.parts[k] \in 1 .. Len(cs)
      /\ \A k \in 1 .. m - 1 : a.parts[k + 1] = a.parts[k] + 1 /\ cs[a.parts[k]]
      /\ cs[a.parts[m]]
  <2>1. /\ \A k \in DOMAIN a.parts : a.parts[k] \in DOMAIN cs
        /\ \A k \in 1 .. m - 1 : a.parts[k + 1] = a.parts[k] + 1 /\ cs[a.parts[k]]
        /\ cs[Final(a)] = ~a.isClosed
    BY Zenon DEF Message
  <2>2. DOMAIN cs = 1 .. Len(cs)
    BY LenProperties
  <2>3. QED
    BY <1>2, <2>1, <2>2, Zenon
<1> HIDE DEF b, c, ds, m
<1>5. /\ b.parts # <<>> /\ Len(b.parts) = m + 1 /\ DOMAIN b.parts = 1 .. m + 1
      /\ b.parts[m + 1] = c /\ \A k \in 1 .. m : b.parts[k] = a.parts[k]
  BY <1>2, <1>3, AppendFacts DEF m
<1>6. First(b) = First(a) /\ Final(b) = c
  BY <1>2, <1>5 DEF First, Final, LastOf
<1>7. \A k \in DOMAIN b.parts : b.parts[k] \in DOMAIN ds
  <2> TAKE k \in DOMAIN b.parts
  <2>1. CASE k = m + 1
    BY <1>1, <1>5, <2>1
  <2>2. CASE k \in 1 .. m
    BY <1>1, <1>4, <1>5, <2>2
  <2>3. QED
    BY <1>2, <1>5, <2>1, <2>2
<1>8. ASSUME NEW k \in 1 .. Len(b.parts) - 1
      PROVE  b.parts[k + 1] = b.parts[k] + 1 /\ ds[b.parts[k]]
  <2>1. k \in 1 .. m /\ b.parts[k] = a.parts[k] /\ ds[a.parts[k]] = cs[a.parts[k]]
    BY <1>1, <1>2, <1>4, <1>5
  <2>2. CASE k \in 1 .. m - 1
    <3>1. k + 1 \in 1 .. m
      BY <1>2, <2>2
    <3>2. QED
      BY <1>4, <1>5, <2>1, <2>2, <3>1, Zenon
  <2>3. CASE k = m
    <3>1. a.parts[m] + 1 = c
      BY <1>2, c = Len(cs) + 1 DEF c
    <3>2. QED
      BY <1>4, <1>5, <2>1, <2>3, <3>1, Zenon
  <2>4. QED
    BY <1>2, <2>1, <2>2, <2>3
<1>9. ds[Final(b)] = ~b.isClosed
  BY <1>1, <1>3, <1>6, Zenon
<1>10. Message(b, ds)
  BY <1>5, <1>7, <1>8, <1>9, Zenon DEF Message
<1>11. QED
  BY <1>6, <1>10 DEF b, c, ds

(* A new message after complete ones.                                      *)
LEMMA MessagesNew ==
  ASSUME NEW f \in Seq(Batch), NEW cs \in Seq(BOOLEAN), NEW more \in BOOLEAN,
         Messages(f, cs), f # <<>> => LastOf(f).isClosed
  PROVE  Messages(Append(f, NewBatch(Len(cs) + 1, more)), Append(cs, more))
<1> DEFINE n == Len(f)
           c == Len(cs) + 1
           b == NewBatch(c, more)
           g == Append(f, b)
           ds == Append(cs, more)
<1>1. /\ n \in Nat /\ c \in Nat /\ b \in Batch
      /\ First(b) = c /\ Final(b) = c /\ Message(b, ds) /\ Len(ds) = c
  BY BatchFacts, MessageNew, AppendFacts DEF NewBatch, First, Final, LastOf
<1>2. /\ g # <<>> /\ Len(g) = n + 1 /\ g[n + 1] = b
      /\ DOMAIN g = 1 .. n + 1 /\ \A i \in 1 .. n : g[i] = f[i]
  BY <1>1, AppendFacts
<1>3. \A i \in 1 .. n : Message(f[i], ds)
  BY MessageKept, ElementOfSeq DEF Messages
<1>4. \A i \in 1 .. n : f[i].isClosed
  BY DEF Messages, LastOf
<1>5. Contiguous(g)
  <2>1. First(g[1]) = 1
    BY <1>1, <1>2 DEF Messages, Contiguous
  <2>2. ASSUME NEW i \in 1 .. Len(g) - 1 PROVE First(g[i + 1]) = Final(g[i]) + 1
    <3>1. CASE i < n
      BY <1>2, <3>1 DEF Messages, Contiguous
    <3>2. CASE i = n
      BY <1>1, <1>2, <3>2 DEF Messages, LastOf
    <3>3. QED
      BY <1>2, <3>1, <3>2
  <2>3. QED
    BY <2>1, <2>2 DEF Contiguous
<1>6. Final(LastOf(g)) = Len(ds)
  BY <1>1, <1>2 DEF LastOf
<1> HIDE DEF n, c, b, g, ds
<1>7. Messages(g, ds)
  BY <1>1, <1>2, <1>3, <1>4, <1>5, <1>6 DEF Messages
<1>8. QED
  BY <1>7 DEF n, c, b, g, ds

(* One more call of send for the message under construction.               *)
LEMMA MessagesExtended ==
  ASSUME NEW f \in Seq(Batch), NEW cs \in Seq(BOOLEAN), NEW more \in BOOLEAN,
         Messages(f, cs), f # <<>>, ~LastOf(f).isClosed
  PROVE  Messages([f EXCEPT ![Len(f)] = Extended(LastOf(f), Len(cs) + 1, more)],
                  Append(cs, more))
<1> DEFINE n == Len(f)
           c == Len(cs) + 1
           a == LastOf(f)
           b == Extended(a, c, more)
           g == [f EXCEPT ![n] = b]
           ds == Append(cs, more)
<1>1. n \in Nat /\ n \in 1 .. n /\ 1 \in 1 .. n /\ DOMAIN f = 1 .. n /\ a = f[n] /\ a \in Batch
  BY LastIndex
<1>2. Message(a, cs) /\ Final(a) = Len(cs) /\ c \in Nat /\ Len(ds) = c
  BY <1>1, AppendFacts DEF Messages
<1>3. b \in Batch /\ Message(b, ds) /\ First(b) = First(a) /\ Final(b) = c
  BY <1>1, <1>2, BatchFacts, MessageExtended
<1>4. /\ Len(g) = n /\ g # <<>> /\ DOMAIN g = 1 .. n /\ g[n] = b
      /\ \A i \in 1 .. n - 1 : g[i] = f[i]
  <2>1. g \in Seq(Batch) /\ Len(g) = n /\ \A i \in 1 .. n : g[i] = IF i = n THEN b ELSE f[i]
    BY <1>1, <1>3, ExceptSeq
  <2>2. DOMAIN g = 1 .. n /\ g # <<>>
    BY <1>1
  <2> HIDE DEF g, n, b
  <2>3. \A i \in 1 .. n - 1 : i \in 1 .. n /\ i # n
    BY <1>1
  <2>4. QED
    BY <1>1, <2>1, <2>2, <2>3
<1>5. \A i \in 1 .. n - 1 : i \in 1 .. n /\ i + 1 \in 1 .. n
  BY <1>1
<1>6. \A i \in 1 .. n : Message(f[i], ds)
  BY MessageKept, ElementOfSeq DEF Messages
<1>7. /\ \A i \in 1 .. n - 1 : f[i].isClosed /\ First(f[i + 1]) = Final(f[i]) + 1
      /\ First(f[1]) = 1
  BY DEF Messages, Contiguous
<1> HIDE DEF n, c, a, b, g, ds
<1>8. \A i \in 1 .. n : Message(g[i], ds) /\ First(g[i]) = First(f[i])
  <2> TAKE i \in 1 .. n
  <2>1. CASE i = n
    BY <1>1, <1>3, <1>4, <2>1
  <2>2. CASE i \in 1 .. n - 1
    BY <1>4, <1>6, <2>2
  <2>3. QED
    BY <1>1, <2>1, <2>2
<1>9. Contiguous(g)
  BY <1>1, <1>4, <1>5, <1>7, <1>8 DEF Contiguous
<1>10. Final(LastOf(g)) = Len(ds)
  BY <1>2, <1>3, <1>4 DEF LastOf
<1>11. Messages(g, ds)
  BY <1>4, <1>7, <1>8, <1>9, <1>10 DEF Messages
<1>12. QED
  BY <1>11 DEF n, c, a, b, g, ds
-----------------------------------------------------------------------------
(* How the whole flow of batches changes: it only grows at its end.        *)
LEMMA FlowType ==
  ASSUME OutboxType
  PROVE  Flow \in Seq(Batch) /\ settled \o hand \in Seq(Batch)
BY ConcatProperties DEF OutboxType, Flow

LEMMA FlowLast ==
  ASSUME NEW S, NEW p \in Seq(S), NEW q \in Seq(S), q # <<>>
  PROVE  p \o q # <<>> /\ LastOf(p \o q) = LastOf(q)
<1>1. Len(q) \in 1 .. Len(q) /\ Len(q) # 0 /\ Len(q) \in Nat /\ Len(p) \in Nat
  BY LastIndex
<1>2. /\ p \o q \in Seq(S) /\ Len(p \o q) = Len(p) + Len(q)
      /\ \A i \in 1 .. Len(p) + Len(q) :
           (p \o q)[i] = IF i <= Len(p) THEN p[i] ELSE q[i - Len(p)]
  BY ConcatProperties
<1>3. Len(p) + Len(q) \in 1 .. Len(p) + Len(q) /\ ~(Len(p) + Len(q) <= Len(p))
      /\ Len(p) + Len(q) - Len(p) = Len(q)
  BY <1>1
<1>4. p \o q # <<>>
  BY <1>1, <1>2, ConcatEqualIffEmpty
<1>5. QED
  BY <1>2, <1>3, <1>4 DEF LastOf

LEMMA ConcatAppend ==
  ASSUME NEW S, NEW p \in Seq(S), NEW q \in Seq(S), NEW e \in S
  PROVE  p \o Append(q, e) = Append(p \o q, e)
OBVIOUS

LEMMA ConcatExcept ==
  ASSUME NEW S, NEW p \in Seq(S), NEW q \in Seq(S), NEW e \in S, q # <<>>
  PROVE  p \o [q EXCEPT ![Len(q)] = e] = [p \o q EXCEPT ![Len(p \o q)] = e]
<1>1. Len(q) \in 1 .. Len(q) /\ Len(q) \in Nat /\ Len(p) \in Nat
  BY LastIndex
<1> DEFINE m == Len(p)
           n == Len(q)
           r == [q EXCEPT ![n] = e]
           f == p \o q
           g == [f EXCEPT ![m + n] = e]
<1>2. /\ r \in Seq(S) /\ Len(r) = n
      /\ \A j \in 1 .. n : r[j] = IF j = n THEN e ELSE q[j]
  BY <1>1, ExceptSeq
<1>3. /\ f \in Seq(S) /\ Len(f) = m + n
      /\ \A i \in 1 .. m + n : f[i] = IF i <= m THEN p[i] ELSE q[i - m]
  BY ConcatProperties
<1>4. /\ p \o r \in Seq(S) /\ Len(p \o r) = m + n
      /\ \A i \in 1 .. m + n : (p \o r)[i] = IF i <= m THEN p[i] ELSE r[i - m]
  BY <1>2, ConcatProperties
<1>5. m + n \in 1 .. Len(f)
  BY <1>1, <1>3
<1> HIDE DEF m, n, r, f
<1>6. /\ g \in Seq(S) /\ Len(g) = m + n
      /\ \A i \in 1 .. m + n : g[i] = IF i = m + n THEN e ELSE f[i]
  BY <1>3, <1>5, ExceptSeq
<1> HIDE DEF g
<1>7. \A i \in 1 .. m + n : (p \o r)[i] = g[i]
  <2> TAKE i \in 1 .. m + n
  <2>1. CASE i <= m
    <3>1. i # m + n
      BY <1>1, <2>1 DEF m, n
    <3>2. QED
      BY <1>3, <1>4, <1>6, <2>1, <3>1
  <2>2. CASE ~(i <= m)
    <3>1. i - m \in 1 .. n /\ (i - m = n <=> i = m + n)
      BY <1>1, <2>2 DEF m, n
    <3>2. QED
      BY <1>2, <1>3, <1>4, <1>6, <2>2, <3>1
  <2>3. QED
    BY <2>1, <2>2
<1>8. p \o r = g
  BY <1>4, <1>6, <1>7, SeqEqual
<1>9. QED
  BY <1>3, <1>8 DEF m, n, r, f, g

LEMMA ConcatHeadTail ==
  ASSUME NEW S, NEW p \in Seq(S), NEW q \in Seq(S), q # <<>>
  PROVE  p \o <<Head(q)>> \o Tail(q) = p \o q
OBVIOUS

LEMMA TailEmpty ==
  ASSUME NEW S, NEW q \in Seq(S), q # <<>>, Tail(q) = <<>>
  PROVE  LastOf(q) = Head(q)
<1> DEFINE n == Len(q)
           t == Tail(q)
           m == Len(t)
<1>1. n \in Nat /\ m = n - 1
  BY HeadTailProperties
<1> HIDE DEF t
<1>2. m = 0
  <2>1. t = <<>>
    BY DEF t
  <2>2. QED
    BY <2>1
<1> HIDE DEF m, n
<1>3. n = 1
  BY <1>1, <1>2
<1>4. QED
  BY <1>3 DEF LastOf, n

LEMMA OutboxInitInv == OutboxInit => OutboxInv
<1> SUFFICES ASSUME OutboxInit PROVE OutboxInv
  OBVIOUS
<1>1. OutboxType /\ Flow = <<>> /\ calls = <<>>
  BY DEF OutboxInit, OutboxType, Flow
<1>2. QED
  BY <1>1 DEF OutboxInv, Messages, Contiguous

(* The four steps that only move a batch leave the flow alone.             *)
LEMMA MoveInv ==
  ASSUME OutboxInv, OutboxType', UNCHANGED calls, Flow' = Flow,
         outgoing' = <<>> /\ Flow # <<>> => LastOf(Flow).isClosed
  PROVE  OutboxInv'
BY DEF OutboxInv

LEMMA OutboxNextInv == OutboxInv /\ OutboxType' /\ [OutboxNext]_outboxVars => OutboxInv'
<1> SUFFICES ASSUME OutboxInv, OutboxType', [OutboxNext]_outboxVars PROVE OutboxInv'
  OBVIOUS
<1>1. /\ outgoing \in Seq(Batch) /\ hand \in Seq(Batch) /\ settled \in Seq(Batch)
      /\ Len(hand) <= 1 /\ calls \in Seq(BOOLEAN)
      /\ settled \o hand \in Seq(Batch) /\ Flow \in Seq(Batch)
      /\ Flow = settled \o hand \o outgoing
  BY FlowType DEF OutboxInv, OutboxType, Flow
<1>2. ASSUME NEW more \in BOOLEAN, AppendChunk(more) PROVE OutboxInv'
  <2> DEFINE c == Len(calls) + 1
  <2>1. c \in Nat /\ calls' = Append(calls, more) /\ outgoing' = Appended(outgoing, c, more)
    BY <1>1, <1>2, AppendFacts DEF AppendChunk
  <2>2. outgoing' # <<>> /\ Flow' = settled \o hand \o outgoing'
    BY <1>1, <1>2, <2>1, AppendedType DEF AppendChunk, Flow
  <2>3. Messages(Flow', calls')
    <3>1. CASE outgoing = <<>> \/ LastOf(outgoing).isClosed
      <4>1. Flow' = Append(Flow, NewBatch(c, more))
        <5>1. NewBatch(c, more) \in Batch /\ outgoing' = Append(outgoing, NewBatch(c, more))
          BY <2>1, <3>1, BatchFacts DEF Appended
        <5>2. QED
          BY <1>1, <2>2, <5>1, ConcatAppend
      <4>2. Flow # <<>> => LastOf(Flow).isClosed
        BY <1>1, <3>1, FlowLast DEF OutboxInv
      <4>3. QED
        BY <1>1, <2>1, <4>1, <4>2, MessagesNew DEF OutboxInv
    <3>2. CASE ~(outgoing = <<>> \/ LastOf(outgoing).isClosed)
      <4>1. Flow # <<>> /\ LastOf(Flow) = LastOf(outgoing) /\ LastOf(outgoing) \in Batch
        BY <1>1, <3>2, FlowLast, LastIndex
      <4>2. Flow' = [Flow EXCEPT ![Len(Flow)] = Extended(LastOf(Flow), c, more)]
        <5> DEFINE b == Extended(LastOf(outgoing), c, more)
        <5>1. b \in Batch /\ outgoing' = [outgoing EXCEPT ![Len(outgoing)] = b]
          BY <2>1, <3>2, <4>1, BatchFacts DEF Appended
        <5> HIDE DEF b
        <5> DEFINE p == settled \o hand
        <5>2. Flow = p \o outgoing /\ Flow' = p \o [outgoing EXCEPT ![Len(outgoing)] = b]
          BY <1>1, <2>2, <5>1
        <5>3. p \in Seq(Batch) /\ outgoing # <<>>
          BY <1>1, <3>2
        <5> HIDE DEF p
        <5>4. Flow' = [Flow EXCEPT ![Len(Flow)] = b]
          BY <1>1, <5>1, <5>2, <5>3, ConcatExcept
        <5>5. QED
          BY <4>1, <5>4 DEF b
      <4>3. QED
        BY <1>1, <2>1, <3>2, <4>1, <4>2, MessagesExtended DEF OutboxInv
    <3>3. QED
      BY <3>1, <3>2
  <2>4. QED
    BY <2>2, <2>3 DEF OutboxInv
<1>3. CASE Fetch
  <2>1. outgoing # <<>> /\ Head(outgoing).isClosed /\ hand = <<>> /\ UNCHANGED <<settled, calls>>
    BY <1>3 DEF Fetch, CanSend
  <2>2. Flow = settled \o outgoing
    BY <1>1, <2>1, ConcatEmptySeq
  <2>3. Flow' = settled \o <<Head(outgoing)>> \o Tail(outgoing)
    BY <1>3 DEF Fetch, Flow
  <2>4. Flow' = Flow
    BY <1>1, <2>1, <2>2, <2>3, ConcatHeadTail
  <2>5. ASSUME outgoing' = <<>> PROVE LastOf(Flow).isClosed
    <3>1. Tail(outgoing) = <<>>
      BY <1>3, <2>5 DEF Fetch
    <3>2. LastOf(outgoing) = Head(outgoing)
      BY <1>1, <2>1, <3>1, TailEmpty
    <3>3. QED
      BY <1>1, <2>1, <2>2, <3>2, FlowLast
  <2>6. QED
    BY <2>1, <2>4, <2>5, MoveInv
<1>4. CASE Restore
  <2>1. hand # <<>> /\ outgoing' = hand \o outgoing /\ hand' = <<>> /\ UNCHANGED <<settled, calls>>
    BY <1>4 DEF Restore
  <2>2. outgoing' # <<>>
    BY <1>1, <2>1, ConcatEqualIffEmpty
  <2>3. Flow' = settled \o (hand \o outgoing)
    BY <1>1, <2>1, ConcatEmptySeq DEF Flow
  <2>4. QED
    BY <1>1, <2>1, <2>2, <2>3, ConcatAssociative, MoveInv
<1>5. CASE Settle \/ Discard
  <2>1. hand # <<>> /\ settled' = settled \o hand /\ hand' = <<>> /\ UNCHANGED <<outgoing, calls>>
    BY <1>5 DEF Settle, Discard
  <2>2. Flow' = Flow
    BY <1>1, <2>1, ConcatEmptySeq DEF Flow
  <2>3. QED
    BY <2>1, <2>2, MoveInv DEF OutboxInv
<1>6. CASE UNCHANGED outboxVars
  BY <1>6, MoveInv DEF outboxVars, Flow, OutboxInv
<1>7. QED
  BY <1>2, <1>3, <1>4, <1>5, <1>6 DEF OutboxNext

(* The queue keeps its messages whole and in order, whatever the number of *)
(* calls of send and of fetches and restores.                              *)
THEOREM OutboxInvariant == OutboxSpec => []OutboxInv
<1>1. OutboxSpec => []OutboxType
  BY OutboxTypeCorrect
<1>2. QED
  BY <1>1, OutboxInitInv, OutboxNextInv, PTL DEF OutboxSpec

LEMMA OutboxInvImpliesOrder == OutboxInv => SettledInOrder
<1> SUFFICES ASSUME OutboxInv PROVE SettledInOrder
  OBVIOUS
<1> DEFINE rest == hand \o outgoing
           n == Len(settled)
<1>1. /\ outgoing \in Seq(Batch) /\ hand \in Seq(Batch) /\ settled \in Seq(Batch)
      /\ rest \in Seq(Batch) /\ Flow = settled \o rest /\ Messages(Flow, calls)
  BY ConcatProperties, ConcatAssociative DEF OutboxInv, OutboxType, Flow
<1> HIDE DEF rest
<1>2. /\ n \in Nat /\ Len(rest) \in Nat /\ Len(Flow) = n + Len(rest)
      /\ DOMAIN Flow = 1 .. n + Len(rest)
      /\ \A i \in 1 .. n : i \in DOMAIN Flow /\ Flow[i] = settled[i]
  BY <1>1, ConcatProperties
<1>3. \A i \in DOMAIN settled : Message(settled[i], calls)
  <2>1. \A i \in DOMAIN Flow : Message(Flow[i], calls)
    BY <1>1 DEF Messages
  <2>2. \A i \in DOMAIN settled : i \in 1 .. n
    BY <1>1
  <2>3. QED
    BY <1>2, <2>1, <2>2
<1>4. ASSUME NEW i \in DOMAIN settled PROVE settled[i].isClosed
  <2>0. i \in 1 .. n
    BY <1>1
  <2>1. CASE i <= Len(Flow) - 1
    <3>1. i \in 1 .. Len(Flow) - 1
      BY <1>2, <2>0, <2>1
    <3>2. Flow[i].isClosed
      BY <1>1, <3>1 DEF Messages
    <3>3. QED
      BY <1>2, <2>0, <3>2
  <2>2. CASE i = Len(Flow)
    <3>1. Len(rest) = 0
      BY <1>1, <1>2, <2>2
    <3>2. rest = <<>>
      BY <1>1, <3>1
    <3>3. outgoing = <<>>
      BY <1>1, <3>2, ConcatEqualIffEmpty DEF rest
    <3>4. Flow # <<>> /\ LastOf(Flow) = settled[i]
      BY <1>1, <1>2, <2>2 DEF LastOf
    <3>5. QED
      BY <3>3, <3>4 DEF OutboxInv
  <2>3. QED
    BY <1>1, <1>2, <2>1, <2>2
<1>5. Contiguous(settled)
  <2>1. Contiguous(Flow)
    BY <1>1 DEF Messages
  <2>2. ASSUME settled # <<>> PROVE First(settled[1]) = 1
    <3>1. 1 \in 1 .. n
      BY <1>1, <2>2, LastIndex
    <3>2. Flow # <<>> /\ Flow[1] = settled[1]
      BY <1>1, <1>2, <3>1
    <3>3. QED
      BY <2>1, <3>2 DEF Contiguous
  <2>3. ASSUME NEW i \in 1 .. n - 1 PROVE First(settled[i + 1]) = Final(settled[i]) + 1
    <3>1. i \in 1 .. n /\ i + 1 \in 1 .. n /\ i \in 1 .. Len(Flow) - 1
      BY <1>2
    <3>2. QED
      BY <1>2, <2>1, <3>1 DEF Contiguous
  <2>4. QED
    BY <2>2, <2>3 DEF Contiguous
<1>6. QED
  BY <1>3, <1>4, <1>5 DEF SettledInOrder

(* FIFO, whole messages, nothing lost or duplicated in the queue.          *)
THEOREM OutboxOrder == OutboxSpec => []SettledInOrder
BY OutboxInvariant, OutboxInvImpliesOrder, PTL
=============================================================================
