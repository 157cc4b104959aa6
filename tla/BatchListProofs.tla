--------------------------- MODULE BatchListProofs ---------------------------
(* The linked list implements the queue, for every number of calls.        *)
EXTENDS BatchList, SequenceTheorems, TLAPS

Batch == Abstract!Batch

(* The histories, and with them the parts of a batch, have their types.    *)
Histories == calls \in Seq(BOOLEAN) /\ settled \in Seq(Batch)

Inv == ListInv /\ Histories

-----------------------------------------------------------------------------
(* Sequences that grow, or change, at their end.                           *)

LEMMA AppendFacts ==
  ASSUME NEW S, NEW s \in Seq(S), NEW x \in S
  PROVE  /\ Append(s, x) \in Seq(S) /\ Len(Append(s, x)) = Len(s) + 1 /\ Len(s) \in Nat
         /\ Append(s, x)[Len(s) + 1] = x
         /\ \A i \in 1 .. Len(s) : Append(s, x)[i] = s[i]
OBVIOUS

(* Positions in a suffix.                                                  *)
LEMMA SuffixPositions ==
  ASSUME NEW n \in Nat, NEW m \in 1 .. n
  PROVE  /\ \A i \in 1 .. n - m + 1 : m + i - 1 \in 1 .. n /\ (m + i - 1 = n <=> i = n - m + 1)
         /\ \A i \in 1 .. n - m + 2 : i \in 1 .. n - m + 1 \/ i = n - m + 2
         /\ m + (n - m + 2) - 1 = n + 1 /\ n - m + 2 = (n - m + 1) + 1
OBVIOUS

LEMMA SuffixOfAppend ==
  ASSUME NEW S, NEW s \in Seq(S), NEW x \in S, NEW m \in 1 .. Len(s)
  PROVE  SubSeq(Append(s, x), m, Len(s) + 1) = Append(SubSeq(s, m, Len(s)), x)
<1>1. Len(s) \in Nat /\ m \in Int /\ m <= Len(s) /\ 1 <= m
  BY LenProperties
<1>2. \A i \in m .. Len(s) + 1 : Append(s, x)[i] \in S
  BY <1>1, AppendFacts, ElementOfSeq
<1>3. \A i \in m .. Len(s) : s[i] \in S
  BY <1>1, ElementOfSeq
<1> DEFINE u == SubSeq(Append(s, x), m, Len(s) + 1)
           v == SubSeq(s, m, Len(s))
<1>4. /\ u \in Seq(S) /\ Len(u) = Len(s) - m + 2
      /\ \A i \in 1 .. Len(s) - m + 2 : u[i] = Append(s, x)[m + i - 1]
  BY <1>1, <1>2, SubSeqProperties
<1>5. /\ v \in Seq(S) /\ Len(v) = Len(s) - m + 1
      /\ \A i \in 1 .. Len(s) - m + 1 : v[i] = s[m + i - 1]
  BY <1>1, <1>3, SubSeqProperties
<1> HIDE DEF u, v
<1>6. Append(v, x) \in Seq(S) /\ Len(Append(v, x)) = Len(u)
  BY <1>1, <1>4, <1>5, AppendFacts
<1>7. ASSUME NEW i \in 1 .. Len(u) PROVE u[i] = Append(v, x)[i]
  <2>1. u[i] = Append(s, x)[m + i - 1]
    BY <1>4
  <2>2. CASE i \in 1 .. Len(s) - m + 1
    <3>1. m + i - 1 \in 1 .. Len(s)
      BY <1>1, <2>2, SuffixPositions
    <3>2. u[i] = s[m + i - 1]
      BY <2>1, <3>1, AppendFacts
    <3>3. i \in 1 .. Len(v) /\ v[i] = s[m + i - 1]
      BY <1>5, <2>2
    <3>4. QED
      BY <1>5, <3>2, <3>3, AppendFacts
  <2>3. CASE i = Len(s) - m + 2
    <3>1. m + i - 1 = Len(s) + 1 /\ i = Len(v) + 1
      BY <1>1, <1>5, <2>3, SuffixPositions
    <3>2. u[i] = x
      BY <2>1, <3>1, AppendFacts
    <3>3. Append(v, x)[Len(v) + 1] = x
      BY <1>5, AppendFacts
    <3>4. QED
      BY <3>1, <3>2, <3>3
  <2>4. i \in 1 .. Len(s) - m + 2
    BY <1>4
  <2>5. QED
    BY <1>1, <2>2, <2>3, <2>4, SuffixPositions
<1>8. u = Append(v, x)
  BY <1>4, <1>6, <1>7, SeqEqual
<1>9. QED
  BY <1>8 DEF u, v

LEMMA SuffixOfExcept ==
  ASSUME NEW S, NEW s \in Seq(S), NEW x \in S, NEW m \in 1 .. Len(s)
  PROVE  /\ Len(SubSeq(s, m, Len(s))) \in 1 .. Len(SubSeq(s, m, Len(s)))
         /\ SubSeq(s, m, Len(s))[Len(SubSeq(s, m, Len(s)))] = s[Len(s)]
         /\ SubSeq([s EXCEPT ![Len(s)] = x], m, Len(s))
              = [SubSeq(s, m, Len(s)) EXCEPT ![Len(SubSeq(s, m, Len(s)))] = x]
<1>1. Len(s) \in Nat /\ m \in Int /\ m <= Len(s) /\ 1 <= m
  BY LenProperties
<1> DEFINE t == [s EXCEPT ![Len(s)] = x]
           u == SubSeq(t, m, Len(s))
           v == SubSeq(s, m, Len(s))
           w == [v EXCEPT ![Len(v)] = x]
<1>2. Len(s) \in 1 .. Len(s)
  BY <1>1
<1>3. /\ t \in Seq(S) /\ Len(t) = Len(s)
      /\ \A j \in 1 .. Len(s) : t[j] = IF j = Len(s) THEN x ELSE s[j]
  BY <1>2, ExceptSeq
<1>4. \A i \in m .. Len(s) : s[i] \in S
  BY <1>1, ElementOfSeq
<1> HIDE DEF t
<1>5. \A i \in m .. Len(s) : t[i] \in S
  BY <1>1, <1>3, ElementOfSeq
<1>6. /\ u \in Seq(S) /\ Len(u) = Len(s) - m + 1
      /\ \A i \in 1 .. Len(s) - m + 1 : u[i] = t[m + i - 1]
  BY <1>1, <1>5, SubSeqProperties
<1>7. /\ v \in Seq(S) /\ Len(v) = Len(s) - m + 1
      /\ \A i \in 1 .. Len(s) - m + 1 : v[i] = s[m + i - 1]
  BY <1>1, <1>4, SubSeqProperties
<1> HIDE DEF u, v
<1>8. Len(v) \in 1 .. Len(v)
  BY <1>1, <1>7
<1>9. v[Len(v)] = s[Len(s)]
  BY <1>1, <1>7
<1>10. /\ w \in Seq(S) /\ Len(w) = Len(v)
       /\ \A j \in 1 .. Len(v) : w[j] = IF j = Len(v) THEN x ELSE v[j]
  BY <1>7, <1>8, ExceptSeq
<1> HIDE DEF w
<1>11. ASSUME NEW i \in 1 .. Len(u) PROVE u[i] = w[i]
  <2>1. i \in 1 .. Len(s) - m + 1 /\ i \in 1 .. Len(v)
    BY <1>6, <1>7
  <2>2. m + i - 1 \in 1 .. Len(s) /\ (m + i - 1 = Len(s) <=> i = Len(v))
    BY <1>1, <1>7, <2>1, SuffixPositions
  <2>3. u[i] = IF i = Len(v) THEN x ELSE s[m + i - 1]
    BY <1>3, <1>6, <2>1, <2>2
  <2>4. w[i] = IF i = Len(v) THEN x ELSE s[m + i - 1]
    BY <1>7, <1>10, <2>1
  <2>5. QED
    BY <2>3, <2>4
<1>12. u = w
  BY <1>6, <1>7, <1>10, <1>11, SeqEqual
<1>13. QED
  BY <1>8, <1>9, <1>12 DEF u, v, w, t

LEMMA LastSuffix ==
  ASSUME NEW S, NEW s \in Seq(S), s # <<>>
  PROVE  SubSeq(s, Len(s), Len(s)) = <<s[Len(s)]>>
<1>1. Len(s) \in Nat \ {0}
  BY EmptySeq
<1>2. Len(s) \in 1 .. Len(s)
  BY <1>1
<1>3. SubSeq(s, Len(s), Len(s)) = <<s[Len(s)]>> \o SubSeq(s, Len(s) + 1, Len(s))
  BY <1>2, SubSeqRecursiveFirst
<1>4. SubSeq(s, Len(s) + 1, Len(s)) = <<>>
  BY <1>1, SubSeqEmpty
<1>5. <<s[Len(s)]>> \in Seq(S)
  BY <1>2, ElementOfSeq
<1>6. QED
  BY <1>3, <1>4, <1>5, ConcatEmptySeq

-----------------------------------------------------------------------------
(* Filled, as the queue's specification has it.                            *)

LEMMA BatchFacts ==
  ASSUME NEW c \in Nat, NEW more \in BOOLEAN
  PROVE  /\ Abstract!NewBatch(c, more) \in Batch
         /\ \A b \in Batch : Abstract!Extended(b, c, more) \in Batch
BY DEF Abstract!NewBatch, Abstract!Extended, Abstract!Batch, Batch

LEMMA FilledNew ==
  ASSUME NEW bs \in Seq(Batch), NEW c \in Nat, NEW more \in BOOLEAN
  PROVE  Filled(Append(bs, [parts |-> <<>>, isClosed |-> FALSE]), Len(bs) + 1, c, more)
           = Append(bs, Abstract!NewBatch(c, more))
<1> DEFINE empty == [parts |-> <<>>, isClosed |-> FALSE]
           new == [parts |-> Append(empty.parts, c), isClosed |-> empty.isClosed \/ ~more]
           s == Append(bs, empty)
           t == Append(bs, Abstract!NewBatch(c, more))
<1>1. empty \in Batch
  BY DEF Abstract!Batch, Batch
<1>2. new = Abstract!NewBatch(c, more)
  <2>1. Append(empty.parts, c) = <<c>>
    OBVIOUS
  <2>2. (empty.isClosed \/ ~more) = ~more
    OBVIOUS
  <2>3. QED
    BY <2>1, <2>2, Zenon DEF Abstract!NewBatch
<1> HIDE DEF new
<1>3. /\ s \in Seq(Batch) /\ Len(s) = Len(bs) + 1 /\ Len(bs) \in Nat
      /\ s[Len(bs) + 1] = empty
      /\ \A i \in 1 .. Len(bs) : s[i] = bs[i]
  BY <1>1, AppendFacts
<1>4. /\ t \in Seq(Batch) /\ Len(t) = Len(bs) + 1
      /\ t[Len(bs) + 1] = new
      /\ \A i \in 1 .. Len(bs) : t[i] = bs[i]
  <2>1. Abstract!NewBatch(c, more) \in Batch
    BY BatchFacts
  <2> DEFINE b == Abstract!NewBatch(c, more)
  <2> HIDE DEF b
  <2>2. b \in Batch /\ b = new /\ t = Append(bs, b)
    BY <1>2, <2>1 DEF b
  <2> HIDE DEF t
  <2>3. QED
    BY <2>2, AppendFacts
<1>5. Filled(s, Len(bs) + 1, c, more) = [s EXCEPT ![Len(bs) + 1] = new]
  BY <1>3 DEF Filled, new
<1> HIDE DEF s, t
<1>6. Len(bs) + 1 \in 1 .. Len(s) /\ new \in Batch
  BY <1>2, <1>3, BatchFacts
<1> DEFINE u == [s EXCEPT ![Len(bs) + 1] = new]
<1>7. /\ u \in Seq(Batch) /\ Len(u) = Len(s)
      /\ \A j \in 1 .. Len(s) : u[j] = IF j = Len(bs) + 1 THEN new ELSE s[j]
  BY <1>3, <1>6, ExceptSeq
<1> HIDE DEF u
<1>8. ASSUME NEW i \in 1 .. Len(u) PROVE u[i] = t[i]
  <2>1. i = Len(bs) + 1 \/ i \in 1 .. Len(bs)
    BY <1>3, <1>7
  <2>2. CASE i = Len(bs) + 1
    BY <1>4, <1>6, <1>7, <2>2
  <2>3. CASE i \in 1 .. Len(bs)
    <3>1. i # Len(bs) + 1 /\ i \in 1 .. Len(s)
      BY <1>3, <2>3
    <3>2. QED
      BY <1>3, <1>4, <1>7, <2>3, <3>1
  <2>4. QED
    BY <2>1, <2>2, <2>3
<1>9. u = t
  BY <1>3, <1>4, <1>7, <1>8, SeqEqual
<1>10. QED
  BY <1>5, <1>9 DEF u, s, t

LEMMA FilledLast ==
  ASSUME NEW bs \in Seq(Batch), NEW c \in Nat, NEW more \in BOOLEAN, NEW b \in 1 .. Len(bs),
         ~bs[b].isClosed
  PROVE  Filled(bs, b, c, more) = [bs EXCEPT ![b] = Abstract!Extended(bs[b], c, more)]
<1> DEFINE new == [parts |-> Append(bs[b].parts, c), isClosed |-> bs[b].isClosed \/ ~more]
<1>1. (bs[b].isClosed \/ ~more) = ~more
  OBVIOUS
<1>2. new = Abstract!Extended(bs[b], c, more)
  BY <1>1, Zenon DEF Abstract!Extended
<1>3. Filled(bs, b, c, more) = [bs EXCEPT ![b] = new]
  BY DEF Filled
<1>4. QED
  BY <1>2, <1>3

-----------------------------------------------------------------------------
(* The list in its two shapes, without the arithmetic of Len.              *)
LEMMA ListFacts ==
  ASSUME Inv
  PROVE  /\ batches \in Seq(Batch) /\ Len(batches) \in Nat
         /\ lastBatch = Len(batches) /\ Len(next) = Len(batches) /\ next \in Seq(Nat)
         /\ \A b \in 1 .. Len(batches) : next[b] = IF b < Len(batches) THEN b + 1 ELSE null
         /\ firstBatch = null \/ firstBatch \in 1 .. Len(batches)
         /\ inHand = null \/ inHand \in 1 .. Len(batches)
         /\ calls \in Seq(BOOLEAN) /\ settled \in Seq(Batch)
         /\ lastBatch = null <=> batches = <<>>
         /\ lastBatch # null => lastBatch \in 1 .. Len(batches)
<1>1. /\ batches \in Seq(Batch) /\ next \in Seq(Nat) /\ Linked
      /\ firstBatch \in 0 .. Len(batches) /\ inHand \in 0 .. Len(batches)
      /\ calls \in Seq(BOOLEAN) /\ settled \in Seq(Batch)
  BY DEF Inv, ListInv, Histories, Batch
<1>2. Len(batches) \in Nat
  BY <1>1, LenProperties
<1>3. DOMAIN next = 1 .. Len(batches)
  BY <1>1, LenProperties DEF Linked
<1>4. /\ lastBatch = Len(batches) /\ Len(next) = Len(batches)
      /\ \A b \in 1 .. Len(batches) : next[b] = IF b < Len(batches) THEN b + 1 ELSE null
  BY <1>1, <1>3 DEF Linked
<1>5. lastBatch = null <=> batches = <<>>
  BY <1>1, <1>4, EmptySeq DEF null
<1>6. QED
  BY <1>1, <1>2, <1>4, <1>5 DEF null

(* append either begins a batch or extends the last one.                   *)
LEMMA AppendCases ==
  ASSUME Inv, NEW more \in BOOLEAN, append(more)
  PROVE  /\ calls' = Append(calls, more) /\ calls' \in Seq(BOOLEAN) /\ Len(calls') \in Nat
         /\ UNCHANGED <<inHand, settled, failed>>
         /\ \/ /\ Full
               /\ batches' = Append(batches, Abstract!NewBatch(Len(calls'), more))
               /\ lastBatch' = Len(batches) + 1
               /\ firstBatch' = IF firstBatch = null THEN Len(batches) + 1 ELSE firstBatch
               /\ next' = IF lastBatch = null THEN Append(next, null)
                          ELSE Append([next EXCEPT ![lastBatch] = Len(batches) + 1], null)
               /\ length' = length + 1
            \/ /\ ~Full
               /\ lastBatch \in 1 .. Len(batches) /\ ~batches[lastBatch].isClosed
               /\ batches' = [batches EXCEPT ![Len(batches)] =
                                Abstract!Extended(batches[Len(batches)], Len(calls'), more)]
               /\ UNCHANGED <<next, firstBatch, lastBatch, length>>
<1>1. calls' = Append(calls, more) /\ calls' \in Seq(BOOLEAN) /\ Len(calls') \in Nat
  BY ListFacts DEF append
<1>2. CASE Full
  <2>1. batches' = Filled(Append(batches, [parts |-> <<>>, isClosed |-> FALSE]), Len(batches) + 1,
                          Len(calls'), more)
    BY <1>2 DEF append
  <2>2. batches' = Append(batches, Abstract!NewBatch(Len(calls'), more))
    BY <1>1, <2>1, ListFacts, FilledNew
  <2>3. QED
    BY <1>1, <1>2, <2>2 DEF append
<1>3. CASE ~Full
  <2>1. lastBatch \in 1 .. Len(batches) /\ ~batches[lastBatch].isClosed /\ lastBatch = Len(batches)
    BY <1>3, ListFacts DEF Full
  <2>2. batches' = Filled(batches, lastBatch, Len(calls'), more)
    BY <1>3 DEF append
  <2>3. batches' = [batches EXCEPT ![Len(batches)] =
                      Abstract!Extended(batches[Len(batches)], Len(calls'), more)]
    <3>1. Len(batches) \in 1 .. Len(batches) /\ ~batches[Len(batches)].isClosed
      BY <2>1
    <3>2. batches \in Seq(Batch) /\ Len(calls') \in Nat
      BY <1>1, ListFacts
    <3>3. Filled(batches, Len(batches), Len(calls'), more) =
            [batches EXCEPT ![Len(batches)] =
               Abstract!Extended(batches[Len(batches)], Len(calls'), more)]
      BY <3>1, <3>2, FilledLast
    <3>4. QED
      BY <2>1, <2>2, <3>3, Zenon
  <2>4. QED
    BY <1>1, <1>3, <2>1, <2>3 DEF append
<1>4. QED
  BY <1>2, <1>3

LEMMA InvInit == Init => Inv
<1> SUFFICES ASSUME Init PROVE Inv
  OBVIOUS
<1>1. batches = <<>> /\ next = <<>> /\ calls = <<>> /\ settled = <<>> /\ Len(<<>>) = 0
  BY DEF Init
<1>2. Linked
  BY <1>1 DEF Init, Linked, null
<1>3. ListInv
  BY <1>1, <1>2 DEF Init, ListInv, null
<1>4. QED
  BY <1>1, <1>3 DEF Inv, Histories

(* The queue grows, or its last batch does; the batch in hand, which is    *)
(* complete, does not change.                                              *)
LEMMA InvAppend ==
  ASSUME Inv, NEW more \in BOOLEAN, append(more)
  PROVE  Inv'
<1> DEFINE n == Len(batches)
<1>1. /\ batches \in Seq(Batch) /\ n \in Nat /\ lastBatch = n /\ Len(next) = n
      /\ next \in Seq(Nat)
      /\ \A b \in 1 .. n : next[b] = IF b < n THEN b + 1 ELSE null
      /\ firstBatch = null \/ firstBatch \in 1 .. n
      /\ inHand = null \/ inHand \in 1 .. n
      /\ lastBatch # null => lastBatch \in 1 .. n
  BY ListFacts
<1>2. /\ calls' \in Seq(BOOLEAN) /\ Len(calls') \in Nat
      /\ UNCHANGED <<inHand, settled, failed>>
  BY AppendCases
<1>3. Histories'
  BY <1>2, ListFacts DEF Histories
<1>4. /\ inHand # null => next[inHand] = firstBatch /\ batches[inHand].isClosed
      /\ firstBatch = null /\ lastBatch # null => batches[lastBatch].isClosed
  BY DEF Inv, ListInv
<1>5. CASE Full
  <2> DEFINE linked == IF lastBatch = null THEN next ELSE [next EXCEPT ![lastBatch] = n + 1]
  <2>1. /\ batches' = Append(batches, Abstract!NewBatch(Len(calls'), more))
        /\ lastBatch' = n + 1
        /\ firstBatch' = IF firstBatch = null THEN n + 1 ELSE firstBatch
        /\ next' = Append(linked, null)
    BY <1>5, AppendCases
  <2>2. /\ batches' \in Seq(Batch) /\ Len(batches') = n + 1
        /\ \A b \in 1 .. n : batches'[b] = batches[b]
    BY <1>1, <1>2, <2>1, BatchFacts, AppendFacts
  <2>3. /\ linked \in Seq(Nat) /\ Len(linked) = n
        /\ \A b \in 1 .. n : linked[b] = b + 1
    <3>1. CASE lastBatch = null
      BY <1>1, <3>1 DEF null
    <3>2. CASE lastBatch # null
      <4>1. lastBatch \in 1 .. Len(next) /\ n + 1 \in Nat
        BY <1>1, <3>2
      <4>2. /\ linked \in Seq(Nat) /\ Len(linked) = Len(next)
            /\ \A b \in 1 .. Len(next) : linked[b] = IF b = lastBatch THEN n + 1 ELSE next[b]
        BY <1>1, <3>2, <4>1, ExceptSeq
      <4>3. QED
        BY <1>1, <4>2
    <3>3. QED
      BY <3>1, <3>2
  <2> HIDE DEF linked
  <2>4. /\ next' \in Seq(Nat) /\ Len(next') = n + 1
        /\ next'[n + 1] = null
        /\ \A b \in 1 .. n : next'[b] = b + 1
    BY <2>1, <2>3, AppendFacts DEF null
  <2>5. Linked'
    <3>1. DOMAIN next' = 1 .. n + 1
      BY <2>4, LenProperties
    <3>2. \A b \in 1 .. n + 1 : next'[b] = IF b < n + 1 THEN b + 1 ELSE null
      BY <1>1, <2>4
    <3>3. QED
      BY <2>1, <2>2, <2>4, <3>1, <3>2 DEF Linked, null
  <2>6. firstBatch' \in 0 .. Len(batches') /\ inHand' \in 0 .. Len(batches') /\ firstBatch' # null
    BY <1>1, <1>2, <2>1, <2>2 DEF null
  <2>7. inHand' # null => next'[inHand'] = firstBatch' /\ batches'[inHand'].isClosed
    <3> SUFFICES ASSUME inHand # null
                 PROVE  next'[inHand] = firstBatch' /\ batches'[inHand].isClosed
      BY <1>2
    <3>1. inHand \in 1 .. n /\ next[inHand] = firstBatch /\ batches[inHand].isClosed
      BY <1>1, <1>4
    <3>2. next'[inHand] = inHand + 1 /\ batches'[inHand].isClosed
      BY <2>2, <2>4, <3>1
    <3>3. firstBatch' = inHand + 1
      BY <1>1, <2>1, <3>1 DEF null
    <3>4. QED
      BY <3>2, <3>3
  <2>8. ListInv'
    BY <2>2, <2>4, <2>5, <2>6, <2>7 DEF ListInv, Batch
  <2>9. QED
    BY <1>3, <2>8 DEF Inv
<1>6. CASE ~Full
  <2>1. /\ lastBatch \in 1 .. n /\ ~batches[lastBatch].isClosed
        /\ batches' = [batches EXCEPT ![n] = Abstract!Extended(batches[n], Len(calls'), more)]
        /\ UNCHANGED <<next, firstBatch, lastBatch>>
    BY <1>6, AppendCases
  <2>2. batches[n] \in Batch /\ n \in 1 .. n
    BY <1>1, <2>1, ElementOfSeq
  <2>3. /\ batches' \in Seq(Batch) /\ Len(batches') = n
        /\ \A b \in 1 .. n : b # n => batches'[b] = batches[b]
    BY <1>1, <1>2, <2>1, <2>2, BatchFacts, ExceptSeq
  <2>4. firstBatch # null /\ inHand # n
    <3>1. n # null /\ lastBatch # null
      BY <1>1, <2>1 DEF null
    <3>2. firstBatch # null
      BY <1>4, <2>1, <3>1, Zenon
    <3>3. ASSUME inHand = n PROVE FALSE
      <4>1. inHand # null /\ inHand = lastBatch
        BY <1>1, <3>1, <3>3
      <4>2. batches[lastBatch].isClosed
        BY <1>4, <4>1
      <4>3. QED
        BY <2>1, <4>2, Zenon
    <3>4. QED
      BY <3>2, <3>3
  <2>5. inHand' # null => next'[inHand'] = firstBatch' /\ batches'[inHand'].isClosed
    BY <1>1, <1>2, <1>4, <2>1, <2>3, <2>4
  <2>6. Linked'
    BY <1>1, <2>1, <2>3 DEF Inv, ListInv, Linked
  <2>7. ListInv'
    BY <1>1, <1>2, <2>1, <2>3, <2>4, <2>5, <2>6 DEF Inv, ListInv, Batch
  <2>8. QED
    BY <1>3, <2>7 DEF Inv
<1>7. QED
  BY <1>5, <1>6

LEMMA InvNext ==
  ASSUME Inv, [Next]_vars
  PROVE  Inv'
<1>1. /\ batches \in Seq(Batch) /\ Len(batches) \in Nat /\ lastBatch = Len(batches)
      /\ \A b \in 1 .. Len(batches) : next[b] = IF b < Len(batches) THEN b + 1 ELSE null
      /\ firstBatch = null \/ firstBatch \in 1 .. Len(batches)
      /\ inHand = null \/ inHand \in 1 .. Len(batches)
      /\ calls \in Seq(BOOLEAN) /\ settled \in Seq(Batch)
  BY ListFacts
<1>2. ListInv /\ Linked /\ Histories
  BY DEF Inv, ListInv
<1>3. /\ inHand # null => next[inHand] = firstBatch /\ batches[inHand].isClosed
      /\ firstBatch = null /\ lastBatch # null => batches[lastBatch].isClosed
  BY DEF Inv, ListInv
<1>4. ASSUME UNCHANGED <<batches, next, lastBatch, calls>>, settled' \in Seq(Batch),
             firstBatch' \in 0 .. Len(batches), inHand' \in 0 .. Len(batches),
             inHand' # null => next[inHand'] = firstBatch' /\ batches[inHand'].isClosed,
             firstBatch' = null /\ lastBatch # null => batches[lastBatch].isClosed
      PROVE  Inv'
  BY <1>2, <1>4 DEF Inv, ListInv, Linked, Histories
<1>5. ASSUME NEW more \in BOOLEAN, append(more) PROVE Inv'
  BY <1>5, InvAppend
<1>6. CASE fetch
  <2>1. /\ UNCHANGED <<batches, next, lastBatch, settled, calls>>
        /\ firstBatch \in 1 .. Len(batches) /\ batches[firstBatch].isClosed
        /\ inHand' = firstBatch /\ firstBatch' = next[firstBatch]
    BY <1>1, <1>6 DEF fetch
  <2>2. firstBatch' = IF firstBatch < Len(batches) THEN firstBatch + 1 ELSE null
    BY <1>1, <2>1
  <2>3. firstBatch' \in 0 .. Len(batches) /\ inHand' \in 0 .. Len(batches)
    BY <1>1, <2>1, <2>2 DEF null
  <2>4. firstBatch' = null => lastBatch = firstBatch
    BY <1>1, <2>1, <2>2 DEF null
  <2>5. inHand' # null => next[inHand'] = firstBatch' /\ batches[inHand'].isClosed
    BY <2>1
  <2>6. firstBatch' = null /\ lastBatch # null => batches[lastBatch].isClosed
    BY <2>1, <2>4
  <2>7. settled' \in Seq(Batch)
    BY <1>1, <2>1
  <2>8. QED
    BY <1>4, <2>1, <2>3, <2>5, <2>6, <2>7
<1>7. CASE restore
  <2>1. /\ UNCHANGED <<batches, next, lastBatch, settled, calls>>
        /\ inHand # null /\ firstBatch' = inHand /\ inHand' = null
    BY <1>7 DEF restore
  <2>2. inHand \in 1 .. Len(batches)
    BY <1>1, <2>1
  <2>3. firstBatch' \in 0 .. Len(batches) /\ inHand' \in 0 .. Len(batches) /\ firstBatch' # null
    BY <1>1, <2>1, <2>2 DEF null
  <2>4. settled' \in Seq(Batch)
    BY <1>1, <2>1
  <2>5. QED
    BY <1>4, <2>1, <2>3, <2>4
<1>8. CASE \E sent \in BOOLEAN : finish(sent)
  <2>1. /\ UNCHANGED <<batches, next, firstBatch, lastBatch, calls>>
        /\ inHand # null /\ inHand' = null /\ settled' = Append(settled, batches[inHand])
    BY <1>8 DEF finish, listVars
  <2>2. inHand \in 1 .. Len(batches)
    BY <1>1, <2>1
  <2>3. settled' \in Seq(Batch)
    BY <1>1, <2>1, <2>2, ElementOfSeq, AppendFacts
  <2>4. firstBatch' \in 0 .. Len(batches) /\ inHand' \in 0 .. Len(batches)
    BY <1>1, <2>1 DEF null
  <2>5. QED
    BY <1>3, <1>4, <2>1, <2>3, <2>4
<1>9. CASE UNCHANGED vars
  <2>1. UNCHANGED <<batches, next, firstBatch, lastBatch, inHand, settled, calls>>
    BY <1>9 DEF vars, listVars
  <2>2. firstBatch' \in 0 .. Len(batches) /\ inHand' \in 0 .. Len(batches) /\ settled' \in Seq(Batch)
    BY <1>1, <2>1 DEF null
  <2>3. QED
    BY <1>3, <1>4, <2>1, <2>2
<1>10. QED
  BY <1>5, <1>6, <1>7, <1>8, <1>9 DEF Next

(* The list keeps its shape.                                               *)
THEOREM ListInvariant == Spec => []Inv
<1>1. Init => Inv
  BY InvInit
<1>2. Inv /\ [Next]_vars => Inv'
  BY InvNext
<1>3. QED
  BY <1>1, <1>2, PTL DEF Spec

(* The list keeps its shape, with a batch in hand or without: see ListInv. *)
THEOREM ListShape == Spec => []ListInv
<1>1. Inv => ListInv
  BY DEF Inv
<1>2. QED
  BY <1>1, ListInvariant, PTL

-----------------------------------------------------------------------------
(* The list as a queue.                                                    *)
LEMMA QueueFacts ==
  ASSUME Inv
  PROVE  /\ Queue \in Seq(Batch) /\ Held \in Seq(Batch)
         /\ Queue = <<>> <=> firstBatch = null
         /\ firstBatch # null =>
              /\ Len(Queue) = Len(batches) - firstBatch + 1
              /\ Head(Queue) = batches[firstBatch]
              /\ Tail(Queue) = SubSeq(batches, firstBatch + 1, Len(batches))
              /\ Queue = <<batches[firstBatch]>> \o SubSeq(batches, firstBatch + 1, Len(batches))
              /\ Len(Queue) \in 1 .. Len(Queue)
              /\ Abstract!LastOf(Queue) = batches[Len(batches)]
<1> DEFINE n == Len(batches)
<1>1. /\ batches \in Seq(Batch) /\ n \in Nat
      /\ firstBatch = null \/ firstBatch \in 1 .. n
      /\ inHand = null \/ inHand \in 1 .. n
  BY ListFacts
<1>2. Held \in Seq(Batch)
  <2>1. CASE inHand = null
    BY <2>1 DEF Held
  <2>2. CASE inHand \in 1 .. n
    BY <1>1, <2>2, ElementOfSeq DEF Held, null
  <2>3. QED
    BY <1>1, <2>1, <2>2
<1>3. CASE firstBatch = null
  BY <1>2, <1>3 DEF Queue
<1>4. CASE firstBatch \in 1 .. n
  <2>1. Queue = SubSeq(batches, firstBatch, n) /\ firstBatch # null /\ n \in firstBatch .. n
    BY <1>1, <1>4 DEF Queue, null
  <2>2. \A i \in firstBatch .. n : batches[i] \in Batch
    BY <1>1, <1>4, ElementOfSeq
  <2>3. firstBatch \in Int /\ n \in Int /\ firstBatch <= n
    BY <1>1, <1>4
  <2>4. Queue \in Seq(Batch) /\ Len(Queue) = n - firstBatch + 1
    BY <2>1, <2>2, <2>3, SubSeqProperties
  <2>5. Queue # <<>>
    BY <2>3, <2>4
  <2>6. Head(Queue) = batches[firstBatch] /\ Tail(Queue) = SubSeq(batches, firstBatch + 1, n)
    BY <1>1, <1>4, <2>1, HeadTailOfSubSeq
  <2>7. Queue = <<batches[firstBatch]>> \o SubSeq(batches, firstBatch + 1, n)
    BY <1>1, <1>4, <2>1, SubSeqRecursiveFirst
  <2>8. Len(Queue) \in 1 .. Len(Queue) /\ Queue[Len(Queue)] = batches[n]
    <3>1. n \in 1 .. n
      BY <1>1, <1>4
    <3>2. batches[n] \in Batch
      BY <1>1, <3>1, ElementOfSeq
    <3>3. QED
      BY <1>1, <1>4, <2>1, <3>2, SuffixOfExcept
  <2>9. Abstract!LastOf(Queue) = batches[n]
    BY <2>8 DEF Abstract!LastOf
  <2>10. QED
    BY <1>2, <2>1, <2>4, <2>5, <2>6, <2>7, <2>8, <2>9
<1>5. QED
  BY <1>1, <1>3, <1>4

LEMMA AppendRefines ==
  ASSUME Inv, NEW more \in BOOLEAN, append(more)
  PROVE  /\ Queue' = Abstract!Appended(Queue, Len(calls'), more)
         /\ Held' = Held
         /\ length = Len(Queue) => length' = Len(Queue')
<1> DEFINE n == Len(batches)
           c == Len(calls')
<1>1. /\ batches \in Seq(Batch) /\ n \in Nat /\ lastBatch = n
      /\ firstBatch = null \/ firstBatch \in 1 .. n
      /\ inHand = null \/ inHand \in 1 .. n
      /\ lastBatch = null <=> batches = <<>>
  BY ListFacts
<1>2. c \in Nat /\ inHand' = inHand
  BY AppendCases
<1>3. /\ inHand # null => batches[inHand].isClosed
      /\ firstBatch = null /\ lastBatch # null => batches[lastBatch].isClosed
  BY DEF Inv, ListInv
<1>4. /\ Queue \in Seq(Batch)
      /\ Queue = <<>> <=> firstBatch = null
      /\ firstBatch # null => /\ Len(Queue) \in 1 .. Len(Queue)
                              /\ Abstract!LastOf(Queue) = batches[n]
  BY QueueFacts
<1>5. CASE Full
  <2> DEFINE new == Abstract!NewBatch(c, more)
  <2>1. /\ batches' = Append(batches, new)
        /\ firstBatch' = IF firstBatch = null THEN n + 1 ELSE firstBatch
        /\ length' = length + 1
    BY <1>5, AppendCases
  <2>2. new \in Batch
    BY <1>2, BatchFacts
  <2> HIDE DEF new
  <2>3. /\ batches' \in Seq(Batch) /\ Len(batches') = n + 1 /\ batches'[n + 1] = new
        /\ \A b \in 1 .. n : batches'[b] = batches[b]
    BY <1>1, <2>1, <2>2, AppendFacts
  <2>4. Held' = Held
    <3>1. CASE inHand = null
      BY <1>2, <3>1 DEF Held
    <3>2. CASE inHand \in 1 .. n
      BY <1>2, <2>3, <3>2 DEF Held
    <3>3. QED
      BY <1>1, <3>1, <3>2
  <2>5. Queue' = Append(Queue, new)
    <3>1. Len(batches') = Len(batches) + 1
      BY <2>3
    <3>2. CASE firstBatch = null
      <4>1. firstBatch' = Len(batches') /\ firstBatch' # null /\ batches' # <<>>
        BY <1>1, <2>1, <2>3, <3>2, EmptySeq DEF null
      <4>2. Queue' = SubSeq(batches', Len(batches'), Len(batches'))
        BY <4>1 DEF Queue
      <4>3. Queue' = <<new>>
        BY <2>3, <4>1, <4>2, LastSuffix
      <4>4. QED
        BY <1>4, <3>2, <4>3
    <3>3. CASE firstBatch \in 1 .. n
      <4>1. firstBatch # null /\ firstBatch' = firstBatch
        BY <2>1, <3>3 DEF null
      <4>2. Queue' = SubSeq(Append(batches, new), firstBatch, Len(batches) + 1)
        BY <2>1, <2>3, <4>1 DEF Queue
      <4>3. Queue = SubSeq(batches, firstBatch, Len(batches))
        BY <4>1 DEF Queue
      <4>4. QED
        BY <1>1, <2>2, <3>3, <4>2, <4>3, SuffixOfAppend
    <3>4. QED
      BY <1>1, <3>2, <3>3
  <2>6. Queue = <<>> \/ Abstract!LastOf(Queue).isClosed
    <3>1. CASE firstBatch = null
      BY <1>4, <3>1
    <3>2. CASE firstBatch # null
      <4>1. lastBatch # null
        BY <1>1, <3>2 DEF null
      <4>2. batches[n].isClosed
        BY <1>1, <1>5, <4>1, Zenon DEF Full
      <4>3. QED
        BY <1>4, <3>2, <4>2
    <3>3. QED
      BY <3>1, <3>2
  <2>7. Queue' = Abstract!Appended(Queue, c, more)
    BY <2>5, <2>6 DEF Abstract!Appended, new
  <2>8. length = Len(Queue) => length' = Len(Queue')
    BY <1>4, <2>1, <2>2, <2>5, AppendFacts
  <2>9. QED
    BY <2>4, <2>7, <2>8
<1>6. CASE ~Full
  <2> DEFINE new == Abstract!Extended(batches[n], c, more)
  <2>1. /\ lastBatch \in 1 .. n /\ ~batches[lastBatch].isClosed
        /\ batches' = [batches EXCEPT ![n] = new]
        /\ UNCHANGED <<firstBatch, length>>
    BY <1>6, AppendCases
  <2>2. n \in 1 .. n /\ ~batches[n].isClosed /\ n # null
    BY <1>1, <2>1 DEF null
  <2>3. new \in Batch
    BY <1>1, <1>2, <2>2, BatchFacts, ElementOfSeq
  <2> HIDE DEF new
  <2>4. /\ batches' \in Seq(Batch) /\ Len(batches') = n
        /\ \A b \in 1 .. n : b # n => batches'[b] = batches[b]
    BY <1>1, <2>1, <2>2, <2>3, ExceptSeq
  <2>5. firstBatch \in 1 .. n /\ firstBatch # null
    <3>1. firstBatch # null
      BY <1>1, <1>3, <2>2, Zenon
    <3>2. QED
      BY <1>1, <3>1
  <2>6. Held' = Held
    <3>1. CASE inHand = null
      BY <1>2, <3>1 DEF Held
    <3>2. CASE inHand # null
      <4>1. inHand # n
        BY <1>3, <2>2, <3>2, Zenon
      <4>2. batches'[inHand] = batches[inHand]
        BY <1>1, <2>4, <3>2, <4>1
      <4>3. QED
        BY <1>2, <4>2 DEF Held
    <3>3. QED
      BY <3>1, <3>2
  <2>7. Queue' = [Queue EXCEPT ![Len(Queue)] = new]
    <3>1. Queue = SubSeq(batches, firstBatch, Len(batches))
      BY <2>5 DEF Queue
    <3>2. Queue' = SubSeq([batches EXCEPT ![Len(batches)] = new], firstBatch, Len(batches))
      BY <2>1, <2>4, <2>5 DEF Queue
    <3>3. QED
      BY <1>1, <2>3, <2>5, <3>1, <3>2, SuffixOfExcept
  <2>8. Queue # <<>> /\ ~Abstract!LastOf(Queue).isClosed /\ Abstract!LastOf(Queue) = batches[n]
    BY <1>4, <2>2, <2>5
  <2>9. Queue' = Abstract!Appended(Queue, c, more)
    <3>1. new = Abstract!Extended(Abstract!LastOf(Queue), c, more)
      BY <2>8, Zenon DEF new
    <3>2. QED
      BY <2>7, <2>8, <3>1, Zenon DEF Abstract!Appended
  <2>10. length = Len(Queue) => length' = Len(Queue')
    <3>1. Len(Queue') = Len(Queue)
      BY <1>4, <2>3, <2>5, <2>7, ExceptSeq
    <3>2. QED
      BY <2>1, <3>1
  <2>11. QED
    BY <2>6, <2>9, <2>10
<1>7. QED
  BY <1>5, <1>6

LEMMA FetchRefines ==
  ASSUME Inv, fetch
  PROVE  Abstract!Fetch /\ (length = Len(Queue) => length' = Len(Queue'))
<1> DEFINE n == Len(batches)
<1>1. /\ batches \in Seq(Batch) /\ n \in Nat
      /\ firstBatch = null \/ firstBatch \in 1 .. n
      /\ \A b \in 1 .. n : next[b] = IF b < n THEN b + 1 ELSE null
  BY ListFacts
<1>2. /\ inHand = null /\ firstBatch # null /\ batches[firstBatch].isClosed
      /\ inHand' = firstBatch /\ firstBatch' = next[firstBatch]
      /\ length' = length - 1
      /\ UNCHANGED <<batches, settled, failed, calls>>
  BY DEF fetch
<1>3. /\ Queue \in Seq(Batch) /\ Queue # <<>>
      /\ Head(Queue) = batches[firstBatch]
      /\ Tail(Queue) = SubSeq(batches, firstBatch + 1, n)
  BY <1>2, QueueFacts
<1>4. Held = <<>> /\ Held' = <<Head(Queue)>>
  BY <1>2, <1>3 DEF Held
<1>5. Queue' = Tail(Queue)
  <2>1. CASE firstBatch < n
    <3>1. firstBatch' = firstBatch + 1 /\ firstBatch' # null
      BY <1>1, <1>2, <2>1 DEF null
    <3>2. QED
      BY <1>2, <1>3, <3>1 DEF Queue
  <2>2. CASE ~(firstBatch < n)
    <3>1. firstBatch' = null /\ n < firstBatch + 1 /\ firstBatch + 1 \in Int
      BY <1>1, <1>2, <2>2
    <3>2. Tail(Queue) = <<>>
      BY <1>1, <1>3, <3>1, SubSeqEmpty
    <3>3. QED
      BY <3>1, <3>2 DEF Queue
  <2>3. QED
    BY <2>1, <2>2
<1>6. Abstract!CanSend(Queue)
  BY <1>2, <1>3 DEF Abstract!CanSend
<1>7. Abstract!Fetch
  BY <1>2, <1>4, <1>5, <1>6 DEF Abstract!Fetch
<1>8. length = Len(Queue) => length' = Len(Queue')
  BY <1>2, <1>3, <1>5, HeadTailProperties
<1>9. QED
  BY <1>7, <1>8

LEMMA RestoreRefines ==
  ASSUME Inv, restore
  PROVE  Abstract!Restore /\ (length = Len(Queue) => length' = Len(Queue'))
<1> DEFINE n == Len(batches)
<1>1. /\ batches \in Seq(Batch) /\ n \in Nat
      /\ firstBatch = null \/ firstBatch \in 1 .. n
      /\ inHand = null \/ inHand \in 1 .. n
      /\ \A b \in 1 .. n : next[b] = IF b < n THEN b + 1 ELSE null
  BY ListFacts
<1>2. /\ inHand # null /\ firstBatch' = inHand /\ inHand' = null
      /\ length' = length + 1
      /\ UNCHANGED <<batches, settled, failed, calls>>
  BY DEF restore
<1>3. next[inHand] = firstBatch
  BY <1>2 DEF Inv, ListInv
<1>4. Held = <<batches[inHand]>> /\ Held' = <<>> /\ Held # <<>>
  BY <1>2 DEF Held
<1>5. Queue' = SubSeq(batches, inHand, n)
  BY <1>2 DEF Queue
<1>6. Queue' = <<batches[inHand]>> \o SubSeq(batches, inHand + 1, n)
  <2>1. inHand \in 1 .. n /\ n \in inHand .. n
    BY <1>1, <1>2
  <2>2. QED
    BY <1>1, <1>5, <2>1, SubSeqRecursiveFirst
<1>7. Queue = SubSeq(batches, inHand + 1, n)
  <2>1. CASE inHand < n
    <3>1. firstBatch = inHand + 1 /\ firstBatch # null
      BY <1>1, <1>2, <1>3, <2>1 DEF null
    <3>2. QED
      BY <3>1 DEF Queue
  <2>2. CASE ~(inHand < n)
    <3>1. firstBatch = null /\ n < inHand + 1 /\ inHand + 1 \in Int
      BY <1>1, <1>2, <1>3, <2>2
    <3>2. SubSeq(batches, inHand + 1, n) = <<>>
      BY <1>1, <3>1, SubSeqEmpty
    <3>3. QED
      BY <3>1, <3>2 DEF Queue
  <2>3. QED
    BY <2>1, <2>2
<1>8. Queue' = Held \o Queue
  BY <1>4, <1>6, <1>7
<1>9. Abstract!Restore
  BY <1>2, <1>4, <1>8 DEF Abstract!Restore
<1>10. length = Len(Queue) => length' = Len(Queue')
  <2>1. Queue \in Seq(Batch) /\ Held \in Seq(Batch) /\ Len(Held) = 1
    BY <1>4, QueueFacts
  <2>2. Len(Queue') = 1 + Len(Queue) /\ Len(Queue) \in Nat
    BY <1>8, <2>1, ConcatProperties, LenProperties
  <2>3. QED
    BY <1>2, <2>2
<1>11. QED
  BY <1>9, <1>10

LEMMA FinishRefines ==
  ASSUME Inv, NEW sent \in BOOLEAN, finish(sent)
  PROVE  /\ Abstract!Settle \/ Abstract!Discard
         /\ length = Len(Queue) => length' = Len(Queue')
<1>1. /\ inHand # null /\ inHand' = null
      /\ settled' = Append(settled, batches[inHand])
      /\ failed' = IF sent THEN failed ELSE failed \cup {Len(settled')}
      /\ UNCHANGED <<batches, firstBatch, length, calls>>
  BY DEF finish, listVars
<1>2. /\ settled \in Seq(Batch) /\ batches \in Seq(Batch)
      /\ inHand \in 1 .. Len(batches)
  BY <1>1, ListFacts
<1>3. batches[inHand] \in Batch
  BY <1>2, ElementOfSeq
<1>4. Held = <<batches[inHand]>> /\ Held' = <<>> /\ Held # <<>>
  BY <1>1 DEF Held
<1>5. settled' = settled \o Held /\ Len(settled') = Len(settled) + 1
  BY <1>1, <1>2, <1>3, <1>4
<1>6. Queue' = Queue
  BY <1>1 DEF Queue
<1>7. CASE sent
  BY <1>1, <1>4, <1>5, <1>6, <1>7 DEF Abstract!Settle
<1>8. CASE ~sent
  BY <1>1, <1>4, <1>5, <1>6, <1>8 DEF Abstract!Discard
<1>9. QED
  BY <1>1, <1>6, <1>7, <1>8

-----------------------------------------------------------------------------
LEMMA StepRefines ==
  ASSUME Inv, [Next]_vars
  PROVE  /\ [Abstract!OutboxNext]_Abstract!outboxVars
         /\ length = Len(Queue) => length' = Len(Queue')
<1>1. ASSUME NEW more \in BOOLEAN, append(more)
      PROVE  /\ Abstract!AppendChunk(more)
             /\ length = Len(Queue) => length' = Len(Queue')
  BY <1>1, AppendRefines, AppendCases DEF Abstract!AppendChunk
<1>2. CASE UNCHANGED vars
  <2>1. UNCHANGED <<Queue, Held, settled, failed, calls, length>>
    BY <1>2 DEF vars, listVars, Queue, Held
  <2>2. QED
    BY <2>1 DEF Abstract!outboxVars
<1>3. QED
  BY <1>1, <1>2, FetchRefines, RestoreRefines, FinishRefines DEF Next, Abstract!OutboxNext

LEMMA InitRefines == Init => Abstract!OutboxInit /\ length = Len(Queue)
BY DEF Init, Abstract!OutboxInit, Queue, Held

(* The list behaves as the queue that the socket's loops rely on.          *)
THEOREM ListImplements == Spec => ImplementsOutbox
<1>1. Init => Abstract!OutboxInit
  BY InitRefines
<1>2. Inv /\ [Next]_vars => [Abstract!OutboxNext]_Abstract!outboxVars
  BY StepRefines
<1>3. QED
  BY <1>1, <1>2, ListInvariant, PTL DEF Spec, ImplementsOutbox, Abstract!OutboxSpec

(* length, which append, fetch and restore count separately, is the number *)
(* of batches in the list.                                                 *)
THEOREM LengthCounted == Spec => [](length = Len(Queue))
<1>1. Init => length = Len(Queue)
  BY InitRefines
<1>2. Inv /\ length = Len(Queue) /\ [Next]_vars => (length = Len(Queue))'
  BY StepRefines
<1>3. QED
  BY <1>1, <1>2, ListInvariant, PTL DEF Spec

(* What the queue promises to send() holds of the list: see SettledInOrder *)
(* in Outbox.                                                              *)
Promise == INSTANCE OutboxProofs WITH outgoing <- Queue, hand <- Held

THEOREM ListOrder == Spec => []Abstract!SettledInOrder
<1>1. Promise!OutboxSpec => []Promise!SettledInOrder
  BY Promise!OutboxOrder
<1>2. Abstract!OutboxInit => Promise!OutboxInit
  BY DEF Abstract!OutboxInit, Promise!OutboxInit
<1>3. [Abstract!OutboxNext]_Abstract!outboxVars => [Promise!OutboxNext]_Promise!outboxVars
  <2>1. \A q, c, more : Abstract!Appended(q, c, more) = Promise!Appended(q, c, more)
    BY DEF Abstract!Appended, Promise!Appended, Abstract!NewBatch, Promise!NewBatch,
           Abstract!Extended, Promise!Extended, Abstract!LastOf, Promise!LastOf
  <2>2. \A more : Abstract!AppendChunk(more) => Promise!AppendChunk(more)
    BY <2>1 DEF Abstract!AppendChunk, Promise!AppendChunk
  <2>3. Abstract!Fetch => Promise!Fetch
    BY DEF Abstract!Fetch, Promise!Fetch, Abstract!CanSend, Promise!CanSend
  <2>4. /\ Abstract!Restore => Promise!Restore
        /\ Abstract!Settle => Promise!Settle
        /\ Abstract!Discard => Promise!Discard
    BY DEF Abstract!Restore, Promise!Restore, Abstract!Settle, Promise!Settle,
           Abstract!Discard, Promise!Discard
  <2>5. QED
    BY <2>2, <2>3, <2>4
       DEF Abstract!OutboxNext, Promise!OutboxNext, Abstract!outboxVars, Promise!outboxVars
<1>4. Promise!SettledInOrder => Abstract!SettledInOrder
  BY DEF Promise!SettledInOrder, Abstract!SettledInOrder, Promise!Message, Abstract!Message,
         Promise!Contiguous, Abstract!Contiguous, Promise!First, Abstract!First,
         Promise!Final, Abstract!Final, Promise!LastOf, Abstract!LastOf
<1>5. QED
  BY <1>1, <1>2, <1>3, <1>4, ListImplements, PTL
     DEF ImplementsOutbox, Abstract!OutboxSpec, Promise!OutboxSpec
=============================================================================
