-------------------------- MODULE SocketPumpProofs --------------------------
(* Proofs about SocketPump, for every value of its constants.              *)
EXTENDS SocketPump, OutboxProofs, SequenceTheorems, TLAPS

-----------------------------------------------------------------------------
(* Stacks.  Every action cuts the stack at some depth and puts frames on   *)
(* top: u is s cut at k, with the frames of t above.                       *)
Shape(u, s, k, t) ==
  /\ k \in 0 .. Len(s)
  /\ u \in Seq(Frames)
  /\ Len(u) = k + Len(t)
  /\ \A i \in 1 .. k : u[i] = s[i]
  /\ \A i \in 1 .. Len(t) : u[k + i] = t[i]

LEMMA CutFacts ==
  ASSUME NEW s \in Seq(Frames), NEW k \in 0 .. Len(s)
  PROVE  /\ SubSeq(s, 1, k) \in Seq(Frames)
         /\ Len(SubSeq(s, 1, k)) = k
         /\ \A i \in 1 .. k : SubSeq(s, 1, k)[i] = s[i]
<1>1. k \in Nat /\ \A i \in 1 .. k : s[i] \in Frames
  OBVIOUS
<1>2. /\ SubSeq(s, 1, k) \in Seq(Frames)
      /\ Len(SubSeq(s, 1, k)) = IF 1 <= k THEN k - 1 + 1 ELSE 0
      /\ \A i \in 1 .. k - 1 + 1 : SubSeq(s, 1, k)[i] = s[1 + i - 1]
  BY <1>1, SubSeqProperties
<1>3. QED
  BY <1>1, <1>2

LEMMA PushShape ==
  ASSUME NEW s \in Seq(Frames), NEW t \in Seq(Frames)
  PROVE  Shape(s \o t, s, Len(s), t)
BY ConcatProperties DEF Shape

LEMMA CutShape ==
  ASSUME NEW s \in Seq(Frames), NEW k \in 0 .. Len(s), NEW t \in Seq(Frames)
  PROVE  Shape(SubSeq(s, 1, k) \o t, s, k, t)
<1> DEFINE p == SubSeq(s, 1, k)
<1>1. k \in Nat /\ p \in Seq(Frames) /\ Len(p) = k /\ \A i \in 1 .. k : p[i] = s[i]
  BY CutFacts
<1> HIDE DEF p
<1>2. Shape(p \o t, p, k, t)
  BY <1>1, PushShape
<1>3. Shape(p \o t, s, k, t)
  BY <1>1, <1>2 DEF Shape
<1>4. QED
  BY <1>3 DEF p

LEMMA PopShape ==
  ASSUME NEW s \in Seq(Frames), NEW k \in 0 .. Len(s)
  PROVE  Shape(SubSeq(s, 1, k), s, k, <<>>)
<1>1. Len(<<>>) = 0
  OBVIOUS
<1>2. k \in Nat
  OBVIOUS
<1>3. QED
  BY <1>1, <1>2, CutFacts DEF Shape

LEMMA AppendShape ==
  ASSUME NEW s \in Seq(Frames), NEW g \in Frames
  PROVE  Shape(Append(s, g), s, Len(s), <<g>>)
<1>1. /\ Append(s, g) \in Seq(Frames)
      /\ Len(Append(s, g)) = Len(s) + 1
      /\ \A i \in 1 .. Len(s) : Append(s, g)[i] = s[i]
      /\ Append(s, g)[Len(s) + 1] = g
  OBVIOUS
<1>2. Len(<<g>>) = 1 /\ <<g>>[1] = g /\ Len(s) \in Nat
  OBVIOUS
<1> DEFINE n == Len(s)  u == Append(s, g)  t == <<g>>
<1>3. /\ u \in Seq(Frames) /\ Len(u) = n + 1 /\ n \in Nat
      /\ \A i \in 1 .. n : u[i] = s[i]
      /\ u[n + 1] = g /\ Len(t) = 1 /\ t[1] = g /\ n = Len(s)
  BY <1>1, <1>2
<1> HIDE DEF n, u, t
<1>4. \A i \in 1 .. Len(t) : u[n + i] = t[i]
  BY <1>3
<1>5. Shape(u, s, n, t)
  BY <1>3, <1>4 DEF Shape
<1>6. QED
  BY <1>5 DEF n, u, t

LEMMA CutAppendShape ==
  ASSUME NEW s \in Seq(Frames), NEW k \in 0 .. Len(s), NEW g \in Frames
  PROVE  Shape(Append(SubSeq(s, 1, k), g), s, k, <<g>>)
<1> DEFINE p == SubSeq(s, 1, k)
<1>1. k \in Nat /\ p \in Seq(Frames) /\ Len(p) = k /\ \A i \in 1 .. k : p[i] = s[i]
  BY CutFacts
<1> HIDE DEF p
<1>2. Shape(Append(p, g), p, k, <<g>>)
  BY <1>1, AppendShape
<1>3. Shape(Append(p, g), s, k, <<g>>)
  BY <1>1, <1>2 DEF Shape
<1>4. QED
  BY <1>3 DEF p

(* Nothing changes.                                                        *)
LEMMA SameShape ==
  ASSUME NEW s \in Seq(Frames)
  PROVE  Shape(s, s, Len(s), <<>>)
<1>1. Len(<<>>) = 0
  OBVIOUS
<1>2. Len(s) \in Nat
  OBVIOUS
<1>3. QED
  BY <1>1, <1>2 DEF Shape

-----------------------------------------------------------------------------
(* Frames of a set S on a stack.                                           *)
Once(s, S) == \A i, j \in 1 .. Len(s) : s[i] \in S /\ s[j] \in S => i = j
Has(s, S) == \E i \in 1 .. Len(s) : s[i] \in S
NoneBelow(s, S, k) == \A i \in 1 .. k : s[i] \notin S

LEMMA SplitShape ==
  ASSUME NEW s \in Seq(Frames), NEW u, NEW k, NEW t \in Seq(Frames), Shape(u, s, k, t),
         NEW i \in 1 .. Len(u)
  PROVE  \/ i \in 1 .. k /\ i \in 1 .. Len(s) /\ u[i] = s[i]
         \/ i - k \in 1 .. Len(t) /\ i = k + (i - k) /\ u[i] = t[i - k]
<1>1. k \in Nat /\ Len(s) \in Nat /\ Len(t) \in Nat /\ k <= Len(s) /\ Len(u) = k + Len(t)
  BY DEF Shape
<1>2. CASE i <= k
  BY <1>1, <1>2 DEF Shape
<1>3. CASE ~(i <= k)
  <2>1. i - k \in 1 .. Len(t) /\ k + (i - k) = i
    BY <1>1, <1>3
  <2>2. u[k + (i - k)] = t[i - k]
    BY <2>1 DEF Shape
  <2>3. QED
    BY <2>1, <2>2
<1>4. QED
  BY <1>2, <1>3

(* No frame of S comes or goes.                                            *)
LEMMA Kept ==
  ASSUME NEW s \in Seq(Frames), NEW u, NEW k, NEW t \in Seq(Frames), Shape(u, s, k, t), NEW S,
         \A i \in 1 .. Len(s) : i > k => s[i] \notin S,
         \A i \in 1 .. Len(t) : t[i] \notin S
  PROVE  /\ Once(s, S) => Once(u, S)
         /\ Has(u, S) <=> Has(s, S)
<1>1. k \in Nat /\ Len(s) \in Nat /\ Len(t) \in Nat /\ k <= Len(s) /\ Len(u) = k + Len(t)
  BY DEF Shape
<1>2. ASSUME NEW i \in 1 .. Len(u), u[i] \in S
      PROVE  i \in 1 .. k /\ i \in 1 .. Len(s) /\ u[i] = s[i]
  BY <1>2, SplitShape
<1>3. ASSUME NEW i \in 1 .. Len(s), s[i] \in S
      PROVE  i \in 1 .. Len(u) /\ u[i] = s[i]
  <2>1. i <= k
    BY <1>1, <1>3
  <2>2. QED
    BY <1>1, <2>1 DEF Shape
<1>4. Once(s, S) => Once(u, S)
  BY <1>2 DEF Once
<1>5. Has(u, S) <=> Has(s, S)
  BY <1>2, <1>3 DEF Has
<1>6. QED
  BY <1>4, <1>5

(* The frame at k + 1 is the only one of S.                                *)
LEMMA OnlyOne ==
  ASSUME NEW s \in Seq(Frames), NEW S, Once(s, S), NEW k \in Nat, k + 1 <= Len(s), s[k + 1] \in S
  PROVE  NoneBelow(s, S, k)
BY DEF Once, NoneBelow

LEMMA HasNone ==
  ASSUME NEW s \in Seq(Frames), NEW S, ~Has(s, S), NEW k \in 0 .. Len(s)
  PROVE  NoneBelow(s, S, k)
BY DEF Has, NoneBelow

(* The frames of S are gone.                                               *)
LEMMA Gone ==
  ASSUME NEW s \in Seq(Frames), NEW u, NEW k, NEW t \in Seq(Frames), Shape(u, s, k, t), NEW S,
         NoneBelow(s, S, k),
         \A i \in 1 .. Len(t) : t[i] \notin S
  PROVE  Once(u, S) /\ ~Has(u, S)
<1>1. ASSUME NEW i \in 1 .. Len(u)
      PROVE  u[i] \notin S
  BY SplitShape DEF NoneBelow
<1>2. QED
  BY <1>1 DEF Once, Has

(* The first of the new frames is the only one of S.                       *)
LEMMA Entered ==
  ASSUME NEW s \in Seq(Frames), NEW u, NEW k, NEW t \in Seq(Frames), Shape(u, s, k, t), NEW S,
         NoneBelow(s, S, k),
         1 <= Len(t), t[1] \in S,
         \A i \in 2 .. Len(t) : t[i] \notin S
  PROVE  /\ Once(u, S)
         /\ \A T \in SUBSET S : Has(u, T) <=> t[1] \in T
<1>1. k \in Nat /\ Len(t) \in Nat /\ Len(u) = k + Len(t)
  BY DEF Shape
<1>2. k + 1 \in 1 .. Len(u) /\ u[k + 1] = t[1]
  BY <1>1 DEF Shape
<1>3. ASSUME NEW i \in 1 .. Len(u), u[i] \in S
      PROVE  i = k + 1
  <2>1. i - k \in 1 .. Len(t) /\ i = k + (i - k) /\ u[i] = t[i - k]
    BY <1>3, SplitShape DEF NoneBelow
  <2>2. i - k = 1
    BY <1>1, <1>3, <2>1
  <2>3. QED
    BY <1>1, <2>2
<1>4. Once(u, S)
  BY <1>3 DEF Once
<1>5. ASSUME NEW T \in SUBSET S
      PROVE  Has(u, T) <=> t[1] \in T
  BY <1>2, <1>3 DEF Has
<1>6. QED
  BY <1>4, <1>5

(* Every f has a g right below it.                                         *)
Above(s, f, g) == \A i \in 1 .. Len(s) : s[i] = f => i > 1 /\ s[i - 1] = g

LEMMA AboveKept ==
  ASSUME NEW s \in Seq(Frames), NEW u, NEW k, NEW t \in Seq(Frames), Shape(u, s, k, t),
         NEW f, NEW g, Above(s, f, g),
         1 <= Len(t) /\ t[1] = f => k > 0 /\ s[k] = g,
         \A i \in 2 .. Len(t) : t[i] = f => t[i - 1] = g
  PROVE  Above(u, f, g)
<1>1. k \in Nat /\ Len(s) \in Nat /\ Len(t) \in Nat /\ k <= Len(s) /\ Len(u) = k + Len(t)
  BY DEF Shape
<1>2. ASSUME NEW i \in 1 .. Len(u), u[i] = f
      PROVE  i > 1 /\ u[i - 1] = g
  <2>1. CASE i \in 1 .. k /\ i \in 1 .. Len(s) /\ u[i] = s[i]
    <3>1. i > 1 /\ s[i - 1] = g
      BY <1>2, <2>1 DEF Above
    <3>2. i - 1 \in 1 .. k
      BY <1>1, <2>1, <3>1
    <3>3. QED
      BY <3>1, <3>2 DEF Shape
  <2>2. CASE i - k \in 1 .. Len(t) /\ i = k + (i - k) /\ u[i] = t[i - k]
    <3>1. CASE i - k = 1
      <4>1. k > 0 /\ s[k] = g /\ i = k + 1
        BY <1>1, <1>2, <2>2, <3>1
      <4>2. k \in 1 .. k /\ i - 1 = k
        BY <1>1, <4>1
      <4>3. QED
        BY <1>1, <4>1, <4>2 DEF Shape
    <3>2. CASE i - k # 1
      <4> DEFINE j == i - k
      <4>1. j \in 2 .. Len(t) /\ j - 1 \in 1 .. Len(t) /\ k + (j - 1) = i - 1 /\ i > 1
        BY <1>1, <2>2, <3>2
      <4>2. t[j - 1] = g
        BY <1>2, <2>2, <4>1
      <4>3. u[k + (j - 1)] = t[j - 1]
        BY <4>1 DEF Shape
      <4>4. QED
        BY <4>1, <4>2, <4>3
    <3>3. QED
      BY <3>1, <3>2
  <2>3. QED
    BY <2>1, <2>2, SplitShape
<1>3. QED
  BY <1>2 DEF Above

-----------------------------------------------------------------------------
(* OneWriter, of any stack s, flag w and whether a batch is in hand (h).   *)
Writer(s, w, h) ==
  /\ Once(s, WriteFrames)
  /\ w <=> Has(s, WriteFrames)
  /\ Has(s, {"sendv", "sendvFalse"}) => h
  /\ h => Has(s, {"sendv", "sendvFalse", "sendvThrew"})
  /\ Above(s, "onSent", "writes")

LEMMA SomeWriteFrames ==
  /\ {"sendv", "sendvFalse"} \in SUBSET WriteFrames
  /\ {"sendv", "sendvFalse", "sendvThrew"} \in SUBSET WriteFrames
  /\ "onSent" \notin WriteFrames
BY DEF WriteFrames

(* What the frame of _flushWrites says about the flag and the batch.       *)
LEMMA WriterFrame ==
  ASSUME NEW s \in Seq(Frames), NEW w, NEW h, Writer(s, w, h),
         NEW i \in 1 .. Len(s), s[i] \in WriteFrames
  PROVE  /\ w
         /\ h => s[i] \in {"sendv", "sendvFalse", "sendvThrew"}
         /\ s[i] \in {"sendv", "sendvFalse"} => h
BY SomeWriteFrames DEF Writer, Once, Has

LEMMA NoWriter ==
  ASSUME NEW s, ~Has(s, WriteFrames)
  PROVE  ~Has(s, {"sendv", "sendvFalse"}) /\ ~Has(s, {"sendv", "sendvFalse", "sendvThrew"})
BY SomeWriteFrames DEF Has

LEMMA WriterKept ==
  ASSUME NEW s \in Seq(Frames), NEW u, NEW k, NEW t \in Seq(Frames), NEW w, NEW h,
         Writer(s, w, h), Shape(u, s, k, t),
         \A i \in 1 .. Len(s) : i > k => s[i] \notin WriteFrames,
         \A i \in 1 .. Len(t) : t[i] \notin WriteFrames /\ t[i] # "onSent"
  PROVE  Writer(u, w, h)
<1>1. /\ Once(u, WriteFrames)
      /\ Has(u, WriteFrames) <=> Has(s, WriteFrames)
  BY Kept DEF Writer
<1>2. Has(u, {"sendv", "sendvFalse"}) <=> Has(s, {"sendv", "sendvFalse"})
  BY SomeWriteFrames, Kept
<1>3. Has(u, {"sendv", "sendvFalse", "sendvThrew"}) <=> Has(s, {"sendv", "sendvFalse", "sendvThrew"})
  BY SomeWriteFrames, Kept
<1>4. Above(u, "onSent", "writes")
  <2>1. ~(1 <= Len(t) /\ t[1] = "onSent") /\ \A i \in 2 .. Len(t) : t[i] # "onSent"
    <3>1. Len(t) \in Nat
      OBVIOUS
    <3>2. QED
      BY <3>1
  <2>2. QED
    BY <2>1, AboveKept DEF Writer
<1>5. QED
  BY <1>1, <1>2, <1>3, <1>4 DEF Writer

LEMMA WriterLeft ==
  ASSUME NEW s \in Seq(Frames), NEW u, NEW k, NEW t \in Seq(Frames), NEW w, NEW h,
         Writer(s, w, h), Shape(u, s, k, t),
         k + 1 <= Len(s), s[k + 1] \in WriteFrames,
         \A i \in 1 .. Len(t) : t[i] \notin WriteFrames /\ t[i] # "onSent"
  PROVE  Writer(u, FALSE, FALSE)
<1>1. k \in Nat
  BY DEF Shape
<1>2. Once(u, WriteFrames) /\ ~Has(u, WriteFrames)
  BY <1>1, OnlyOne, Gone DEF Writer
<1>3. Above(u, "onSent", "writes")
  <2>1. ~(1 <= Len(t) /\ t[1] = "onSent") /\ \A i \in 2 .. Len(t) : t[i] # "onSent"
    <3>1. Len(t) \in Nat
      OBVIOUS
    <3>2. QED
      BY <3>1
  <2>2. QED
    BY <2>1, AboveKept DEF Writer
<1>4. QED
  BY <1>2, <1>3, NoWriter DEF Writer

(* The frame of _flushWrites becomes t[1], or enters as t[1].              *)
LEMMA WriterPut ==
  ASSUME NEW s \in Seq(Frames), NEW u, NEW k, NEW t \in Seq(Frames), NEW w, NEW h, NEW h2,
         Writer(s, w, h), Shape(u, s, k, t),
         ~Has(s, WriteFrames) \/ (k + 1 <= Len(s) /\ s[k + 1] \in WriteFrames),
         1 <= Len(t), t[1] \in WriteFrames,
         \A i \in 2 .. Len(t) :
           t[i] \notin WriteFrames /\ (t[i] = "onSent" => t[i - 1] = "writes"),
         t[1] \in {"sendv", "sendvFalse"} => h2,
         h2 => t[1] \in {"sendv", "sendvFalse", "sendvThrew"}
  PROVE  Writer(u, TRUE, h2)
<1>1. k \in Nat /\ k \in 0 .. Len(s)
  BY DEF Shape
<1>2. NoneBelow(s, WriteFrames, k)
  <2>1. CASE ~Has(s, WriteFrames)
    BY <1>1, <2>1, HasNone
  <2>2. CASE k + 1 <= Len(s) /\ s[k + 1] \in WriteFrames
    BY <1>1, <2>2, OnlyOne DEF Writer
  <2>3. QED
    BY <2>1, <2>2
<1>3. /\ Once(u, WriteFrames)
      /\ \A T \in SUBSET WriteFrames : Has(u, T) <=> t[1] \in T
  BY <1>2, Entered
<1>4. /\ Has(u, WriteFrames)
      /\ Has(u, {"sendv", "sendvFalse"}) => h2
      /\ h2 => Has(u, {"sendv", "sendvFalse", "sendvThrew"})
  BY <1>3, SomeWriteFrames
<1>5. Above(u, "onSent", "writes")
  BY SomeWriteFrames, AboveKept DEF Writer
<1>6. QED
  BY <1>3, <1>4, <1>5 DEF Writer

-----------------------------------------------------------------------------
(* OneReader, of any stack s and flag r.                                   *)
Reader(s, r) ==
  /\ Once(s, {"reads"})
  /\ Has(s, {"reads"}) => r
  /\ Above(s, "onMessage", "reads")

(* The loop goes on, and may call the listeners.                           *)
LEMMA ReaderKept ==
  ASSUME NEW s \in Seq(Frames), NEW u, NEW k, NEW t \in Seq(Frames), NEW r,
         Reader(s, r), Shape(u, s, k, t),
         \A i \in 1 .. Len(s) : i > k => s[i] # "reads",
         \A i \in 1 .. Len(t) : t[i] # "reads",
         1 <= Len(t) /\ t[1] = "onMessage" => k > 0 /\ s[k] = "reads",
         \A i \in 2 .. Len(t) : t[i] # "onMessage"
  PROVE  Reader(u, r)
<1>1. Once(u, {"reads"}) /\ (Has(u, {"reads"}) <=> Has(s, {"reads"}))
  BY Kept DEF Reader
<1>2. Above(u, "onMessage", "reads")
  BY AboveKept DEF Reader
<1>3. QED
  BY <1>1, <1>2 DEF Reader

(* The loop ends.                                                          *)
LEMMA ReaderLeft ==
  ASSUME NEW s \in Seq(Frames), NEW u, NEW k, NEW t \in Seq(Frames), NEW r, NEW r2,
         Reader(s, r), Shape(u, s, k, t),
         k + 1 <= Len(s), s[k + 1] = "reads",
         \A i \in 1 .. Len(t) : t[i] # "reads" /\ t[i] # "onMessage"
  PROVE  Reader(u, r2)
<1>1. k \in Nat
  BY DEF Shape
<1>2. Once(u, {"reads"}) /\ ~Has(u, {"reads"})
  BY <1>1, OnlyOne, Gone DEF Reader
<1>3. ~(1 <= Len(t) /\ t[1] = "onMessage") /\ \A i \in 2 .. Len(t) : t[i] # "onMessage"
  <2>1. Len(t) \in Nat
    OBVIOUS
  <2>2. QED
    BY <2>1
<1>4. Above(u, "onMessage", "reads")
  BY <1>3, AboveKept DEF Reader
<1>5. QED
  BY <1>2, <1>4 DEF Reader

(* A loop begins.                                                          *)
LEMMA ReaderEntered ==
  ASSUME NEW s \in Seq(Frames), NEW u, NEW k, ~Has(s, {"reads"}), Above(s, "onMessage", "reads"),
         Shape(u, s, k, <<"reads">>)
  PROVE  Reader(u, TRUE)
<1> DEFINE t == <<"reads">>
<1>1. t \in Seq(Frames) /\ Len(t) = 1 /\ t[1] = "reads" /\ Shape(u, s, k, t)
  BY DEF Frames
<1> HIDE DEF t
<1>2. k \in 0 .. Len(s)
  BY DEF Shape
<1>3. NoneBelow(s, {"reads"}, k)
  BY <1>2, HasNone
<1>4. \A i \in 2 .. Len(t) : FALSE
  BY <1>1
<1>5. Once(u, {"reads"})
  <2>1. 1 <= Len(t) /\ t[1] \in {"reads"} /\ \A i \in 2 .. Len(t) : t[i] \notin {"reads"}
    BY <1>1, <1>4
  <2>2. QED
    BY <1>1, <1>3, <2>1, Entered
<1>6. Above(u, "onMessage", "reads")
  BY <1>1, <1>4, AboveKept
<1>7. QED
  BY <1>5, <1>6 DEF Reader

-----------------------------------------------------------------------------
(* The inductive invariant.                                                *)
StackType ==
  /\ stack \in Seq(Frames)
  /\ isFlushingWrites \in BOOLEAN
  /\ isFlushingReads \in BOOLEAN

StackInv == StackType /\ OneWriter /\ OneReader

Holding == hand # <<>>

Positions(s, S) == {i \in DOMAIN s : s[i] \in S}

LEMMA PositionsMean ==
  ASSUME NEW s \in Seq(Frames)
  PROVE  /\ \A S : Positions(s, S) # {} <=> Has(s, S)
         /\ \A S : (\A i, j \in Positions(s, S) : i = j) <=> Once(s, S)
         /\ \A f, g : (\A i \in Positions(s, {f}) : i > 1 /\ s[i - 1] = g) <=> Above(s, f, g)
<1>1. DOMAIN s = 1 .. Len(s)
  OBVIOUS
<1>2. ASSUME NEW S PROVE Positions(s, S) # {} <=> Has(s, S)
  BY <1>1 DEF Positions, Has
<1>3. ASSUME NEW S PROVE (\A i, j \in Positions(s, S) : i = j) <=> Once(s, S)
  BY <1>1 DEF Positions, Once
<1>4. ASSUME NEW f, NEW g
      PROVE  (\A i \in Positions(s, {f}) : i > 1 /\ s[i - 1] = g) <=> Above(s, f, g)
  BY <1>1 DEF Positions, Above
<1>5. QED
  BY <1>2, <1>3, <1>4

LEMMA StackInvMeans ==
  /\ StackInv <=> /\ StackType
                  /\ Writer(stack, isFlushingWrites, Holding)
                  /\ Reader(stack, isFlushingReads)
  /\ StackInv' <=> /\ StackType'
                   /\ Writer(stack', isFlushingWrites', Holding')
                   /\ Reader(stack', isFlushingReads')
<1>1. ASSUME StackType
      PROVE  /\ OneWriter <=> Writer(stack, isFlushingWrites, Holding)
             /\ OneReader <=> Reader(stack, isFlushingReads)
  <2>1. \A S : Active(S) = Positions(stack, S)
    BY DEF Active, Positions
  <2>2. stack \in Seq(Frames)
    BY <1>1 DEF StackType
  <2>3. QED
    BY <2>1, <2>2, PositionsMean, Zenon DEF OneWriter, OneReader, Writer, Reader, Holding
<1>2. ASSUME StackType'
      PROVE  /\ OneWriter' <=> Writer(stack', isFlushingWrites', Holding')
             /\ OneReader' <=> Reader(stack', isFlushingReads')
  <2>1. \A S : Active(S)' = Positions(stack', S)
    BY DEF Active, Positions
  <2>2. stack' \in Seq(Frames)
    BY <1>2 DEF StackType
  <2>3. QED
    BY <2>1, <2>2, PositionsMean, Zenon DEF OneWriter, OneReader, Writer, Reader, Holding
<1>3. QED
  BY <1>1, <1>2, Zenon DEF StackInv

LEMMA StackInvInit == Init => StackInv
<1> SUFFICES ASSUME Init PROVE StackInv
  OBVIOUS
<1>1. stack = <<>> /\ hand = <<>> /\ isFlushingWrites = FALSE /\ isFlushingReads = FALSE
  BY DEF Init, OutboxInit
<1>2. stack \in Seq(Frames) /\ Len(stack) = 0 /\ StackType
  <2>1. <<>> \in Seq(Frames) /\ Len(<<>>) = 0
    OBVIOUS
  <2>2. QED
    BY <1>1, <2>1 DEF StackType
<1>3. \A S : Active(S) = {}
  <2>1. DOMAIN stack = 1 .. 0
    BY <1>2 DEF StackType
  <2>2. QED
    BY <2>1 DEF Active
<1>4. QED
  BY <1>1, <1>2, <1>3 DEF StackInv, OneWriter, OneReader

(* What follows a step that leaves the stack alone.                        *)
LEMMA Still ==
  StackInv /\ UNCHANGED <<stack, isFlushingReads, isFlushingWrites, hand>> => StackInv'
BY DEF StackInv, StackType, OneWriter, OneReader, Active

LEMMA Top ==
  ASSUME StackType, NEW f, Running(f)
  PROVE  /\ Len(stack) \in Nat \ {0}
         /\ Len(stack) - 1 \in 0 .. Len(stack)
         /\ Len(stack) - 1 + 1 = Len(stack)
         /\ stack[Len(stack)] = f
         /\ f \in Frames
         /\ Shape(Callers, stack, Len(stack) - 1, <<>>)
         /\ \A g \in Frames : Shape(Append(Callers, g), stack, Len(stack) - 1, <<g>>)
         /\ \A t \in Seq(Frames) : Shape(Callers \o t, stack, Len(stack) - 1, t)
<1>1. Len(stack) \in Nat \ {0} /\ stack[Len(stack)] = f /\ f \in Frames
  BY DEF StackType, Running, LastOf
<1>2. Len(stack) - 1 \in 0 .. Len(stack) /\ Len(stack) - 1 + 1 = Len(stack)
  BY <1>1
<1>3. QED
  BY <1>1, <1>2, PopShape, CutAppendShape, CutShape DEF StackType, Callers

(* Frames that are neither loops nor listeners and callbacks of loops.     *)
Neutral == (Frames \ (WriteFrames \cup {"reads", "onMessage", "onSent"}))

(* A step that touches neither loop.                                       *)
LEMMA NeutralStep ==
  ASSUME StackInv, NEW k, NEW t \in Seq(Neutral), Shape(stack', stack, k, t),
         \A i \in 1 .. Len(stack) : i > k => stack[i] \notin WriteFrames \cup {"reads"},
         UNCHANGED <<isFlushingReads, isFlushingWrites, hand>>
  PROVE  StackInv'
<1>1. t \in Seq(Frames) /\ \A i \in 1 .. Len(t) : t[i] \in Neutral
  BY DEF Neutral
<1>2. /\ \A i \in 1 .. Len(t) : t[i] \notin WriteFrames /\ t[i] # "onSent"
      /\ \A i \in 1 .. Len(t) : t[i] # "reads" /\ t[i] # "onMessage"
  BY <1>1 DEF Neutral
<1>3. StackType' /\ StackType
  BY DEF StackInv, StackType, Shape
<1>4. Writer(stack', isFlushingWrites, Holding)
  BY <1>1, <1>2, <1>3, StackInvMeans, WriterKept DEF StackType
<1>5. Reader(stack', isFlushingReads)
  <2>1. ~(1 <= Len(t) /\ t[1] = "onMessage") /\ \A i \in 2 .. Len(t) : t[i] # "onMessage"
    <3>1. Len(t) \in Nat
      BY <1>1
    <3>2. QED
      BY <1>2, <3>1
  <2>2. QED
    BY <1>1, <1>2, <1>3, <2>1, StackInvMeans, ReaderKept DEF StackType
<1>6. QED
  BY <1>3, <1>4, <1>5, StackInvMeans DEF Holding

(* The running frame is replaced by neutral ones.                          *)
LEMMA NeutralTop ==
  ASSUME StackInv, NEW f, Running(f), f \notin WriteFrames \cup {"reads"},
         NEW t \in Seq(Neutral), Shape(stack', stack, Len(stack) - 1, t),
         UNCHANGED <<isFlushingReads, isFlushingWrites, hand>>
  PROVE  StackInv'
<1>1. \A i \in 1 .. Len(stack) : i > Len(stack) - 1 => stack[i] \notin WriteFrames \cup {"reads"}
  BY Top DEF StackInv
<1>2. QED
  BY <1>1, NeutralStep

(* Neutral frames are pushed.                                              *)
LEMMA NeutralPush ==
  ASSUME StackInv, NEW t \in Seq(Neutral), stack' = stack \o t,
         UNCHANGED <<isFlushingReads, isFlushingWrites, hand>>
  PROVE  StackInv'
<1>1. t \in Seq(Frames)
  BY DEF Neutral
<1>2. Shape(stack', stack, Len(stack), t)
  BY <1>1, PushShape DEF StackInv, StackType
<1>3. \A i \in 1 .. Len(stack) : i > Len(stack) => FALSE
  BY DEF StackInv, StackType
<1>4. QED
  BY <1>2, <1>3, NeutralStep

LEMMA NeutralFrames ==
  /\ {"pollout", "flushReads", "flushWrites", "emitBind", "onBind", "exception", "onReadError",
      "onSendError", "onWriteError"} \subseteq Neutral
  /\ Neutral \subseteq Frames
BY DEF Neutral, Frames, AppFrames, WriteFrames, CallFrames

LEMMA NeutralSeqs ==
  /\ <<>> \in Seq(Neutral)
  /\ \A f \in Neutral : <<f>> \in Seq(Neutral)
  /\ \A f, g \in Neutral : <<f, g>> \in Seq(Neutral)
  /\ \A f, g, h \in Neutral : <<f, g, h>> \in Seq(Neutral)
  /\ \A f, g, h, i \in Neutral : <<f, g, h, i>> \in Seq(Neutral)
OBVIOUS

(* Steps that leave the stack alone.                                       *)
LEMMA StillActions ==
  ASSUME StackInv,
         \/ Arrive \/ Drain \/ (\E ok \in BOOLEAN : WorkerRuns(ok))
         \/ Pause \/ Read \/ Close \/ (\E kind \in {"bind", "unbind"} : StartWork(kind))
  PROVE  StackInv'
<1>1. UNCHANGED <<stack, isFlushingReads, isFlushingWrites, hand>>
  BY DEF Arrive, Drain, WorkerRuns, Pause, Read, Close, StartWork, outboxVars, loopVars
<1>2. QED
  BY <1>1, Still

(* Steps of the event loop, which begin with an empty stack.               *)
LEMMA LoopActions ==
  ASSUME StackInv, PollCallback \/ AfterWork
  PROVE  StackInv'
<1>1. Idle /\ UNCHANGED <<isFlushingReads, isFlushingWrites, hand>>
  BY DEF PollCallback, AfterWork, outboxVars, loopVars
<1>2. stack' \in Seq(Neutral)
  <2>1. CASE PollCallback
    <3>1. \/ stack' = <<>> \o <<>> \/ stack' = <<"pollout">> \o <<>>
          \/ stack' = <<>> \o <<"flushReads">> \/ stack' = <<"pollout">> \o <<"flushReads">>
      BY <2>1 DEF PollCallback
    <3>2. <<>> \in Seq(Neutral) /\ <<"pollout">> \in Seq(Neutral) /\ <<"flushReads">> \in Seq(Neutral)
      BY NeutralFrames, NeutralSeqs
    <3>3. QED
      BY <3>1, <3>2, ConcatProperties
  <2>2. CASE AfterWork
    <3>1. \/ stack' = <<"emitBind", "flushWrites", "flushReads">>
          \/ stack' = <<"emitBind", "flushWrites", "flushReads", "emitBind">>
          \/ stack' = <<"emitBind">>
      BY <2>2 DEF AfterWork
    <3>2. QED
      BY <3>1, NeutralFrames, NeutralSeqs
  <2>3. QED
    BY <2>1, <2>2
<1>3. stack' = stack \o stack'
  BY <1>1, <1>2 DEF Idle
<1>4. QED
  BY <1>1, <1>2, <1>3, NeutralPush

(* The running frame, not one of the two loops, is replaced or returns.    *)
LEMMA CallActions ==
  ASSUME StackInv, NotifySendReady \/ EmitBind \/ Return
  PROVE  StackInv'
<1>1. StackType /\ UNCHANGED <<isFlushingReads, isFlushingWrites, hand>>
  BY DEF StackInv, NotifySendReady, EmitBind, Return, outboxVars, loopVars
<1>2. CASE NotifySendReady
  <2>1. Running("pollout") /\ stack' = Append(Callers, "flushWrites")
    BY <1>2 DEF NotifySendReady, Become
  <2>2. Shape(stack', stack, Len(stack) - 1, <<"flushWrites">>)
    BY <1>1, <2>1, Top, NeutralFrames
  <2>3. QED
    BY <1>1, <2>1, <2>2, NeutralTop, NeutralFrames, NeutralSeqs DEF WriteFrames
<1>3. CASE EmitBind
  <2>1. Running("emitBind") /\ stack' = Append(Callers, "onBind")
    BY <1>3 DEF EmitBind, Become
  <2>2. Shape(stack', stack, Len(stack) - 1, <<"onBind">>)
    BY <1>1, <2>1, Top, NeutralFrames
  <2>3. QED
    BY <1>1, <2>1, <2>2, NeutralTop, NeutralFrames, NeutralSeqs DEF WriteFrames
<1>4. CASE Return
  <2>1. PICK f \in AppFrames : Running(f)
    BY <1>4 DEF Return, Idle, InApp, Running
  <2>2. stack' = Callers
    BY <1>4 DEF Return, Pop
  <2>3. Shape(stack', stack, Len(stack) - 1, <<>>)
    BY <1>1, <2>1, <2>2, Top
  <2>4. QED
    BY <1>1, <2>1, <2>3, NeutralTop, NeutralSeqs DEF AppFrames, WriteFrames
<1>5. QED
  BY <1>2, <1>3, <1>4

(* Calls of send and resume by the application.                            *)
LEMMA AppActions ==
  ASSUME StackInv, (\E more \in BOOLEAN : Send(more)) \/ SendNothing \/ Resume
  PROVE  StackInv'
<1>1. UNCHANGED <<isFlushingReads, isFlushingWrites, hand>>
  BY DEF Send, SendNothing, Resume, AppendChunk, outboxVars, loopVars
<1>2. CASE Resume
  <2>1. stack' = stack \o <<"flushWrites", "flushReads">>
    BY <1>2 DEF Resume
  <2>2. QED
    BY <1>1, <2>1, NeutralPush, NeutralFrames, NeutralSeqs
<1>3. CASE (\E more \in BOOLEAN : Send(more)) \/ SendNothing
  <2>1. stack' = stack \/ stack' = Append(stack, "flushWrites")
    BY <1>3 DEF Send, SendNothing, Push
  <2>2. CASE stack' = stack
    BY <1>1, <2>2, Still
  <2>3. CASE stack' = Append(stack, "flushWrites")
    <3>1. stack' = stack \o <<"flushWrites">>
      BY <2>3 DEF StackInv, StackType
    <3>2. QED
      BY <1>1, <3>1, NeutralPush, NeutralFrames, NeutralSeqs
  <2>4. QED
    BY <2>1, <2>2, <2>3
<1>4. QED
  BY <1>2, <1>3

-----------------------------------------------------------------------------
(* The loop of _flushReads.                                                *)
LEMMA ReadActions ==
  ASSUME StackInv, FlushReads \/ ReadMessage \/ ReadFails \/ ReadNothing
  PROVE  StackInv'
<1>1. StackType /\ UNCHANGED <<isFlushingWrites, hand>>
  BY DEF StackInv, FlushReads, ReadMessage, ReadFails, ReadNothing, outboxVars, loopVars
<1>2. /\ Writer(stack, isFlushingWrites, Holding)
      /\ Reader(stack, isFlushingReads)
      /\ stack \in Seq(Frames)
  BY StackInvMeans DEF StackType, StackInv
<1>3. CASE FlushReads /\ (paused \/ isFlushingReads)
  <2>1. Running("flushReads") /\ stack' = Callers /\ UNCHANGED isFlushingReads
    BY <1>3 DEF FlushReads, Pop
  <2>2. QED
    BY <1>1, <2>1, Top, NeutralTop, NeutralSeqs DEF WriteFrames
<1>4. CASE FlushReads /\ ~(paused \/ isFlushingReads)
  <2>1. Running("flushReads") /\ stack' = Append(Callers, "reads") /\ isFlushingReads' = TRUE
    BY <1>4 DEF FlushReads, Become
  <2>2. Shape(stack', stack, Len(stack) - 1, <<"reads">>)
    BY <1>1, <2>1, Top DEF Frames
  <2>3. StackType'
    BY <1>1, <2>1, <2>2 DEF StackType, Shape
  <2>4. Reader(stack', TRUE)
    <3>1. ~Has(stack, {"reads"}) /\ Above(stack, "onMessage", "reads")
      BY <1>2, <1>4, Zenon DEF Reader
    <3>2. QED
      BY <1>2, <2>2, <3>1, ReaderEntered
  <2>5. Writer(stack', isFlushingWrites, Holding)
    <3>1. <<"reads">> \in Seq(Frames)
      BY DEF Frames
    <3>2. \A i \in 1 .. Len(<<"reads">>) : <<"reads">>[i] \notin WriteFrames /\ <<"reads">>[i] # "onSent"
      BY DEF WriteFrames
    <3>3. \A i \in 1 .. Len(stack) : i > Len(stack) - 1 => stack[i] \notin WriteFrames
      BY <1>1, <2>1, Top DEF WriteFrames
    <3>4. QED
      BY <1>2, <2>2, <3>1, <3>2, <3>3, WriterKept
  <2>6. QED
    BY <1>1, <2>1, <2>3, <2>4, <2>5, StackInvMeans DEF Holding
<1>5. CASE ReadMessage
  <2>1. Running("reads") /\ stack' = Append(stack, "onMessage") /\ UNCHANGED isFlushingReads
    BY <1>5 DEF ReadMessage, Push, loopVars
  <2> DEFINE t == <<"onMessage">>
  <2>2. t \in Seq(Frames) /\ Len(t) = 1 /\ t[1] = "onMessage"
    BY DEF Frames, AppFrames
  <2>3. Shape(stack', stack, Len(stack), t)
    BY <1>2, <2>1, AppendShape DEF Frames, AppFrames
  <2> HIDE DEF t
  <2>4. StackType'
    BY <1>1, <2>1, <2>3 DEF StackType, Shape
  <2>5. /\ Len(stack) > 0 /\ stack[Len(stack)] = "reads"
        /\ \A i \in 1 .. Len(stack) : ~(i > Len(stack))
    <3>1. Len(stack) \in Nat \ {0} /\ stack[Len(stack)] = "reads"
      BY <1>1, <2>1, Top
    <3>2. QED
      BY <3>1
  <2>6. Reader(stack', isFlushingReads)
    <3>1. \A i \in 1 .. Len(t) : t[i] # "reads"
      BY <2>2
    <3>2. \A i \in 2 .. Len(t) : t[i] # "onMessage"
      BY <2>2
    <3>3. QED
      BY <1>2, <2>2, <2>3, <2>5, <3>1, <3>2, ReaderKept
  <2>7. Writer(stack', isFlushingWrites, Holding)
    <3>1. \A i \in 1 .. Len(t) : t[i] \notin WriteFrames /\ t[i] # "onSent"
      BY <2>2 DEF WriteFrames
    <3>2. QED
      BY <1>2, <2>2, <2>3, <2>5, <3>1, WriterKept
  <2>8. QED
    BY <1>1, <2>1, <2>4, <2>6, <2>7, StackInvMeans DEF Holding
<1>6. CASE ReadNothing
  <2>1. Running("reads") /\ stack' = Append(Callers, "flushWrites") /\ isFlushingReads' = FALSE
    BY <1>6 DEF ReadNothing, Become
  <2> DEFINE t == <<"flushWrites">>
  <2>2. t \in Seq(Frames) /\ Len(t) = 1 /\ t[1] = "flushWrites"
    BY DEF Frames, CallFrames
  <2>3. Shape(stack', stack, Len(stack) - 1, t)
    BY <1>1, <2>1, Top DEF Frames, CallFrames
  <2> HIDE DEF t
  <2>4. StackType'
    BY <1>1, <2>1, <2>3 DEF StackType, Shape
  <2>5. /\ Len(stack) - 1 + 1 <= Len(stack) /\ stack[Len(stack) - 1 + 1] = "reads"
        /\ \A i \in 1 .. Len(stack) : i > Len(stack) - 1 => stack[i] \notin WriteFrames
    BY <1>1, <2>1, Top DEF WriteFrames
  <2>6. Reader(stack', FALSE)
    <3>1. \A i \in 1 .. Len(t) : t[i] # "reads" /\ t[i] # "onMessage"
      BY <2>2
    <3>2. QED
      BY <1>2, <2>2, <2>3, <2>5, <3>1, ReaderLeft
  <2>7. Writer(stack', isFlushingWrites, Holding)
    <3>1. \A i \in 1 .. Len(t) : t[i] \notin WriteFrames /\ t[i] # "onSent"
      BY <2>2 DEF WriteFrames
    <3>2. QED
      BY <1>2, <2>2, <2>3, <2>5, <3>1, WriterKept
  <2>8. QED
    BY <1>1, <2>1, <2>4, <2>6, <2>7, StackInvMeans DEF Holding
<1>7. CASE ReadFails
  <2>1. PICK g \in {"onReadError", "exception"} : stack' = Append(stack, g)
    BY <1>7 DEF ReadFails, Push
  <2>2. UNCHANGED <<isFlushingReads, isFlushingWrites, hand>>
    BY <1>7 DEF ReadFails, outboxVars, loopVars
  <2>3. g \in Neutral
    BY NeutralFrames
  <2>4. stack' = stack \o <<g>>
    BY <1>2, <2>1
  <2>5. QED
    BY <2>2, <2>3, <2>4, NeutralPush, NeutralSeqs
<1>8. QED
  BY <1>3, <1>4, <1>5, <1>6, <1>7

-----------------------------------------------------------------------------
(* The loop of _flushWrites.                                               *)

(* Its frame is now g; on top of it may be a call, or a callback for what  *)
(* was sent.                                                               *)
WriteTop(g, t) ==
  \/ t = <<g>>
  \/ \E f \in Neutral : t = <<g, f>>
  \/ g = "writes" /\ t = <<g, "onSent">>

LEMMA WriteTopFacts ==
  ASSUME NEW g \in WriteFrames, NEW t, WriteTop(g, t)
  PROVE  /\ t \in Seq(Frames)
         /\ 1 <= Len(t) /\ t[1] = g
         /\ \A i \in 1 .. Len(t) : t[i] # "reads" /\ t[i] # "onMessage"
         /\ \A i \in 2 .. Len(t) :
              t[i] \notin WriteFrames /\ (t[i] = "onSent" => t[i - 1] = "writes")
<1>1. g \in Frames /\ "onSent" \in Frames /\ g \notin {"reads", "onMessage"}
  BY DEF WriteFrames, Frames, AppFrames
<1>2. CASE t = <<g>>
  BY <1>1, <1>2
<1>3. ASSUME NEW f \in Neutral \cup {"onSent"}, t = <<g, f>>, f = "onSent" => g = "writes"
      PROVE  /\ t \in Seq(Frames)
             /\ 1 <= Len(t) /\ t[1] = g
             /\ \A i \in 1 .. Len(t) : t[i] # "reads" /\ t[i] # "onMessage"
             /\ \A i \in 2 .. Len(t) :
                  t[i] \notin WriteFrames /\ (t[i] = "onSent" => t[i - 1] = "writes")
  <2>1. f \in Frames /\ f \notin WriteFrames /\ f \notin {"reads", "onMessage"}
    BY <1>1, <1>3, SomeWriteFrames DEF Neutral
  <2>2. t \in Seq(Frames) /\ Len(t) = 2 /\ t[1] = g /\ t[2] = f
    BY <1>1, <1>3, <2>1
  <2>3. QED
    BY <1>1, <1>3, <2>1, <2>2
<1>4. \A f \in Neutral : f # "onSent"
  BY DEF Neutral
<1>5. QED
  BY <1>2, <1>3, <1>4 DEF WriteTop

LEMMA WriterPutStep ==
  ASSUME StackInv, NEW g \in WriteFrames, NEW t, WriteTop(g, t), NEW k, Shape(stack', stack, k, t),
         ~Has(stack, WriteFrames) \/ (k + 1 <= Len(stack) /\ stack[k + 1] \in WriteFrames),
         \A i \in 1 .. Len(stack) : i > k => stack[i] # "reads",
         isFlushingWrites' = TRUE, UNCHANGED isFlushingReads,
         g \in {"sendv", "sendvFalse"} => Holding',
         Holding' => g \in {"sendv", "sendvFalse", "sendvThrew"}
  PROVE  StackInv'
<1>1. StackType /\ stack \in Seq(Frames)
  BY DEF StackInv, StackType
<1>2. /\ Writer(stack, isFlushingWrites, Holding)
      /\ Reader(stack, isFlushingReads)
  BY StackInvMeans
<1>3. StackType'
  BY <1>1 DEF StackType, Shape
<1>4. /\ t \in Seq(Frames)
      /\ 1 <= Len(t) /\ t[1] = g
      /\ \A i \in 1 .. Len(t) : t[i] # "reads" /\ t[i] # "onMessage"
      /\ \A i \in 2 .. Len(t) :
           t[i] \notin WriteFrames /\ (t[i] = "onSent" => t[i - 1] = "writes")
  BY WriteTopFacts
<1>5. Writer(stack', TRUE, Holding')
  <2> DEFINE h2 == Holding'
  <2>1. (g \in {"sendv", "sendvFalse"} => h2) /\ (h2 => g \in {"sendv", "sendvFalse", "sendvThrew"})
    OBVIOUS
  <2> HIDE DEF h2
  <2>2. Writer(stack', TRUE, h2)
    BY <1>1, <1>2, <1>4, <2>1, WriterPut
  <2>3. QED
    BY <2>2 DEF h2
<1>6. Reader(stack', isFlushingReads)
  <2>1. ~(1 <= Len(t) /\ t[1] = "onMessage") /\ \A i \in 2 .. Len(t) : t[i] # "onMessage"
    <3>1. Len(t) \in Nat
      BY <1>4
    <3>2. QED
      BY <1>4, <3>1
  <2>2. QED
    BY <1>1, <1>2, <1>4, <2>1, ReaderKept
<1>7. QED
  BY <1>3, <1>5, <1>6, StackInvMeans, Zenon

(* Its frame is gone.                                                      *)
LEMMA WriterLeftStep ==
  ASSUME StackInv, NEW k, NEW t \in Seq(Neutral), Shape(stack', stack, k, t),
         k + 1 <= Len(stack), stack[k + 1] \in WriteFrames,
         \A i \in 1 .. Len(stack) : i > k => stack[i] # "reads",
         isFlushingWrites' = FALSE, UNCHANGED isFlushingReads, ~Holding'
  PROVE  StackInv'
<1>1. StackType /\ stack \in Seq(Frames)
  BY DEF StackInv, StackType
<1>2. /\ Writer(stack, isFlushingWrites, Holding)
      /\ Reader(stack, isFlushingReads)
  BY StackInvMeans
<1>3. StackType'
  BY <1>1 DEF StackType, Shape
<1>4. t \in Seq(Frames) /\ \A i \in 1 .. Len(t) : t[i] \in Neutral
  BY DEF Neutral
<1>5. /\ \A i \in 1 .. Len(t) : t[i] \notin WriteFrames /\ t[i] # "onSent"
      /\ \A i \in 1 .. Len(t) : t[i] # "reads" /\ t[i] # "onMessage"
  BY <1>4 DEF Neutral
<1>6. Writer(stack', FALSE, FALSE)
  BY <1>1, <1>2, <1>4, <1>5, WriterLeft
<1>7. Reader(stack', isFlushingReads)
  <2>1. ~(1 <= Len(t) /\ t[1] = "onMessage") /\ \A i \in 2 .. Len(t) : t[i] # "onMessage"
    <3>1. Len(t) \in Nat
      BY <1>4
    <3>2. QED
      BY <1>5, <3>1
  <2>2. QED
    BY <1>1, <1>2, <1>4, <1>5, <2>1, ReaderKept
<1>8. Writer(stack', isFlushingWrites', Holding')
  <2>1. Holding' = FALSE
    BY Zenon DEF Holding
  <2>2. QED
    BY <1>6, <2>1, Zenon
<1>9. QED
  BY <1>3, <1>7, <1>8, StackInvMeans, Zenon

LEMMA TopWriter ==
  ASSUME StackInv, NEW f \in WriteFrames, Running(f)
  PROVE  /\ Len(stack) - 1 + 1 <= Len(stack) /\ stack[Len(stack) - 1 + 1] \in WriteFrames
         /\ \A i \in 1 .. Len(stack) : i > Len(stack) - 1 => stack[i] # "reads"
         /\ f \in {"sendv", "sendvFalse"} => Holding
         /\ Holding => f \in {"sendv", "sendvFalse", "sendvThrew"}
         /\ \A t \in Seq(Neutral) : t \in Seq(Frames)
         /\ \A g \in WriteFrames : <<g>> \in Seq(Frames)
<1>1. StackType /\ stack \in Seq(Frames)
  BY DEF StackInv, StackType
<1>2. Writer(stack, isFlushingWrites, Holding)
  BY StackInvMeans
<1>3. /\ Len(stack) \in Nat \ {0} /\ stack[Len(stack)] = f
      /\ Len(stack) - 1 + 1 = Len(stack)
  BY <1>1, Top
<1>4. Len(stack) \in 1 .. Len(stack)
  BY <1>3
<1>5. /\ f \in {"sendv", "sendvFalse"} => Holding
      /\ Holding => f \in {"sendv", "sendvFalse", "sendvThrew"}
  BY <1>1, <1>2, <1>3, <1>4, WriterFrame
<1>6. f # "reads"
  BY DEF WriteFrames
<1>7. \A i \in 1 .. Len(stack) : i > Len(stack) - 1 => stack[i] # "reads"
  BY <1>3, <1>6
<1>8. \A t \in Seq(Neutral) : t \in Seq(Frames)
  BY DEF Neutral
<1>9. \A g \in WriteFrames : <<g>> \in Seq(Frames)
  BY DEF Frames
<1>10. QED
  BY <1>3, <1>5, <1>7, <1>8, <1>9

(* The running frame of _flushWrites ends.                                 *)
LEMMA WriterReturns ==
  ASSUME StackInv, NEW f \in WriteFrames, Running(f), stack' = Callers,
         isFlushingWrites' = FALSE, UNCHANGED isFlushingReads, ~Holding'
  PROVE  StackInv'
<1>1. StackType
  BY DEF StackInv
<1>2. Shape(stack', stack, Len(stack) - 1, <<>>)
  BY <1>1, Top
<1>3. QED
  BY <1>2, TopWriter, WriterLeftStep, NeutralSeqs

(* It goes on as g.                                                        *)
LEMMA WriterGoesOn ==
  ASSUME StackInv, NEW f \in WriteFrames, Running(f), isFlushingWrites' = isFlushingWrites,
         NEW g \in WriteFrames, NEW t, WriteTop(g, t), stack' = Callers \o t,
         UNCHANGED isFlushingReads,
         g \in {"sendv", "sendvFalse"} => Holding',
         Holding' => g \in {"sendv", "sendvFalse", "sendvThrew"}
  PROVE  StackInv'
<1>1. StackType /\ stack \in Seq(Frames) /\ isFlushingWrites \in BOOLEAN
  BY DEF StackInv, StackType
<1>2. t \in Seq(Frames)
  BY WriteTopFacts
<1>3. Shape(stack', stack, Len(stack) - 1, t)
  BY <1>1, <1>2, Top
<1>4. isFlushingWrites' = TRUE
  <2>1. Writer(stack, isFlushingWrites, Holding)
    BY StackInvMeans
  <2>2. Len(stack) \in 1 .. Len(stack) /\ stack[Len(stack)] = f
    <3>1. Len(stack) \in Nat \ {0} /\ stack[Len(stack)] = f
      BY <1>1, Top
    <3>2. QED
      BY <3>1
  <2>3. Has(stack, WriteFrames)
    BY <2>2 DEF Has
  <2>4. isFlushingWrites
    BY <2>1, <2>3, Zenon DEF Writer
  <2>5. QED
    BY <1>1, <2>4, Zenon
<1>5. QED
  BY <1>3, <1>4, TopWriter, WriterPutStep

(* Become(g) in the form the lemmas want.                                  *)
LEMMA BecomeMeans ==
  ASSUME StackType, NEW f, Running(f), NEW g \in Frames
  PROVE  Become(g) <=> stack' = Callers \o <<g>>
<1>1. Callers \in Seq(Frames)
  BY Top DEF Shape
<1>2. Append(Callers, g) = Callers \o <<g>>
  BY <1>1
<1>3. QED
  BY <1>2 DEF Become

LEMMA WriteTops ==
  /\ \A g : WriteTop(g, <<g>>)
  /\ \A g : \A f \in Neutral : WriteTop(g, <<g, f>>)
  /\ WriteTop("writes", <<"writes", "onSent">>)
BY DEF WriteTop

LEMMA FlushWritesAction ==
  ASSUME StackInv, FlushWrites
  PROVE  StackInv'
<1>1. StackType /\ UNCHANGED <<isFlushingReads, hand>> /\ Running("flushWrites")
  BY DEF StackInv, FlushWrites, outboxVars
<1>2. CASE paused \/ isFlushingWrites
  <2>1. stack' = Callers /\ UNCHANGED isFlushingWrites
    BY <1>2 DEF FlushWrites, Pop
  <2>2. QED
    BY <1>1, <2>1, Top, NeutralTop, NeutralSeqs DEF WriteFrames
<1>3. CASE ~(paused \/ isFlushingWrites)
  <2>1. stack' = Append(Callers, "writes") /\ isFlushingWrites' = TRUE
    BY <1>3 DEF FlushWrites, Become
  <2>2. Shape(stack', stack, Len(stack) - 1, <<"writes">>)
    BY <1>1, <2>1, Top DEF Frames, WriteFrames
  <2>3. ~Has(stack, WriteFrames) /\ ~Holding
    <3>1. ~isFlushingWrites /\ Writer(stack, isFlushingWrites, Holding)
      BY <1>3, StackInvMeans, Zenon
    <3>2. ~Has(stack, WriteFrames)
      BY <3>1, Zenon DEF Writer
    <3>3. QED
      BY <3>1, <3>2, NoWriter, Zenon DEF Writer
  <2>4. ~Holding'
    BY <1>1, <2>3 DEF Holding
  <2>5. \A i \in 1 .. Len(stack) : i > Len(stack) - 1 => stack[i] # "reads"
    BY <1>1, Top
  <2>6. "writes" \in WriteFrames
    BY DEF WriteFrames
  <2>7. QED
    BY <1>1, <2>1, <2>2, <2>3, <2>4, <2>5, <2>6, WriteTops, WriterPutStep
<1>4. QED
  BY <1>2, <1>3

(* The loop ends.                                                          *)
LEMMA WriteEnds ==
  ASSUME StackInv, WriteNothing \/ SendvRefuses \/ SendvReturnsFalse \/ SendFailed
  PROVE  StackInv'
<1>1. stack' = Callers /\ isFlushingWrites' = FALSE /\ UNCHANGED isFlushingReads
  BY DEF WriteNothing, SendvRefuses, SendvReturnsFalse, SendFailed, Pop
<1>2. \E f \in WriteFrames : Running(f) /\ ~Holding'
  <2>1. CASE WriteNothing \/ SendvRefuses
    <3>1. Running("writes") /\ UNCHANGED hand
      BY <2>1 DEF WriteNothing, SendvRefuses, outboxVars
    <3>2. "writes" \in WriteFrames
      BY DEF WriteFrames
    <3>3. ~Holding
      BY <3>1, <3>2, TopWriter
    <3>4. QED
      BY <3>1, <3>2, <3>3 DEF Holding
  <2>2. CASE SendvReturnsFalse
    BY <2>2 DEF SendvReturnsFalse, Restore, Holding, WriteFrames
  <2>3. CASE SendFailed
    <3>1. Running("failing") /\ UNCHANGED hand
      BY <2>3 DEF SendFailed, outboxVars
    <3>2. "failing" \in WriteFrames
      BY DEF WriteFrames
    <3>3. ~Holding
      BY <3>1, <3>2, TopWriter
    <3>4. QED
      BY <3>1, <3>2, <3>3 DEF Holding
  <2>4. QED
    BY <2>1, <2>2, <2>3
<1>3. QED
  BY <1>1, <1>2, WriterReturns

LEMMA SendvActions ==
  ASSUME StackInv, SendvStarts \/ SendvAskFails \/ ZmqSend \/ ZmqSendFails \/ SendvCheckFails
  PROVE  StackInv'
<1>1. /\ StackType /\ UNCHANGED <<isFlushingReads, isFlushingWrites>>
      /\ {"writes", "sendv", "sendvFalse", "sent", "sendvThrew"} \subseteq WriteFrames
      /\ WriteFrames \subseteq Frames
      /\ "flushReads" \in Neutral
  BY NeutralFrames
     DEF StackInv, SendvStarts, SendvAskFails, ZmqSend, ZmqSendFails, SendvCheckFails, loopVars,
         WriteFrames, Frames
<1>2. CASE SendvStarts
  <2>1. Running("writes") /\ Holding'
    BY <1>2 DEF SendvStarts, Fetch, Holding
  <2>2. \/ stack' = Callers \o <<"sendv">>
        \/ stack' = Callers \o <<"sendvFalse", "flushReads">>
    BY <1>2 DEF SendvStarts
  <2>3. QED
    BY <1>1, <2>1, <2>2, WriterGoesOn, WriteTops
<1>3. CASE ZmqSend
  <2>1. Running("sendv") /\ ~Holding' /\ Become("sent")
    BY <1>3 DEF ZmqSend, Settle, Holding
  <2>2. stack' = Callers \o <<"sent">>
    BY <1>1, <2>1, BecomeMeans
  <2>3. QED
    BY <1>1, <2>1, <2>2, WriterGoesOn, WriteTops
<1>4. CASE ZmqSendFails
  <2>1. Running("sendv") /\ Become("sendvThrew")
    BY <1>4 DEF ZmqSendFails
  <2>2. stack' = Callers \o <<"sendvThrew">>
    BY <1>1, <2>1, BecomeMeans
  <2>3. QED
    BY <1>1, <2>1, <2>2, WriterGoesOn, WriteTops
<1>5. CASE SendvAskFails \/ SendvCheckFails
  <2>1. PICK f \in {"writes", "sent"} : Running(f) /\ Become("sendvThrew")
    BY <1>5 DEF SendvAskFails, SendvCheckFails
  <2>2. stack' = Callers \o <<"sendvThrew">>
    BY <1>1, <2>1, BecomeMeans
  <2>3. QED
    BY <1>1, <2>1, <2>2, WriterGoesOn, WriteTops
<1>6. QED
  BY <1>2, <1>3, <1>4, <1>5

LEMMA SentActions ==
  ASSUME StackInv, SendvChecksInput \/ SendvReturnsTrue \/ SendvThrew
  PROVE  StackInv'
<1>1. /\ StackType /\ UNCHANGED <<isFlushingReads, isFlushingWrites>>
      /\ {"writes", "sent", "sendvTrue", "failing", "sendvThrew"} \subseteq WriteFrames
      /\ {"flushReads", "onSendError", "exception"} \subseteq Neutral
  BY NeutralFrames
     DEF StackInv, SendvChecksInput, SendvReturnsTrue, SendvThrew, loopVars, WriteFrames
<1>2. Callers \in Seq(Frames)
  BY Top DEF Shape, StackInv, SendvChecksInput, SendvReturnsTrue, SendvThrew
<1>3. CASE SendvChecksInput
  <2>1. Running("sent") /\ UNCHANGED hand
    BY <1>3 DEF SendvChecksInput, outboxVars
  <2>2. ~Holding'
    BY <1>1, <2>1, TopWriter DEF Holding
  <2>3. \/ stack' = Callers \o <<"sendvTrue">> \o <<"flushReads">>
        \/ stack' = Callers \o <<"sendvTrue">> \o <<>>
    BY <1>3 DEF SendvChecksInput
  <2>4. /\ Callers \o <<"sendvTrue">> \o <<"flushReads">> = Callers \o <<"sendvTrue", "flushReads">>
        /\ Callers \o <<"sendvTrue">> \o <<>> = Callers \o <<"sendvTrue">>
    BY <1>2 DEF Frames
  <2>5. QED
    BY <1>1, <2>1, <2>2, <2>3, <2>4, WriterGoesOn, WriteTops
<1>4. CASE SendvReturnsTrue
  <2>1. Running("sendvTrue") /\ UNCHANGED hand
    BY <1>4 DEF SendvReturnsTrue, outboxVars
  <2>2. ~Holding'
    BY <1>1, <2>1, TopWriter DEF Holding, WriteFrames
  <2>3. \/ stack' = Callers \o <<"writes">> \o <<"onSent">>
        \/ stack' = Callers \o <<"writes">> \o <<>>
    BY <1>4 DEF SendvReturnsTrue
  <2>4. /\ Callers \o <<"writes">> \o <<"onSent">> = Callers \o <<"writes", "onSent">>
        /\ Callers \o <<"writes">> \o <<>> = Callers \o <<"writes">>
    BY <1>2 DEF Frames
  <2>5. QED
    BY <1>1, <2>1, <2>2, <2>3, <2>4, WriterGoesOn, WriteTops
<1>5. CASE SendvThrew
  <2>1. Running("sendvThrew") /\ ~Holding'
    BY <1>5 DEF SendvThrew, Discard, Holding, outboxVars
  <2>2. \/ stack' = Callers \o <<"failing", "onSendError">>
        \/ stack' = Callers \o <<"failing", "exception">>
    BY <1>5 DEF SendvThrew
  <2>3. QED
    BY <1>1, <2>1, <2>2, WriterGoesOn, WriteTops
<1>6. QED
  BY <1>3, <1>4, <1>5

-----------------------------------------------------------------------------
(* Exceptions: the two topmost frames are replaced.                        *)
LEMMA Second ==
  ASSUME StackType, NEW f, Running(f), Callers # <<>>
  PROVE  /\ Len(stack) - 1 \in 1 .. Len(stack)
         /\ Len(stack) - 2 + 1 = Len(stack) - 1 /\ Len(stack) - 2 + 1 <= Len(stack)
         /\ LastOf(Callers) = stack[Len(stack) - 1]
         /\ \A i \in 1 .. Len(stack) : i > Len(stack) - 2 => i = Len(stack) - 1 \/ stack[i] = f
         /\ \A g \in Frames :
              Shape(Append(SubSeq(stack, 1, Len(stack) - 2), g), stack, Len(stack) - 2, <<g>>)
         /\ \A t \in Seq(Frames) :
              Shape(SubSeq(stack, 1, Len(stack) - 2) \o t, stack, Len(stack) - 2, t)
<1> DEFINE n == Len(stack)
<1>1. n \in Nat \ {0} /\ stack[n] = f /\ stack \in Seq(Frames) /\ n = Len(stack)
  BY Top DEF StackType
<1>2. /\ Callers \in Seq(Frames) /\ Len(Callers) = n - 1
      /\ \A i \in 1 .. n - 1 : Callers[i] = stack[i]
  BY <1>1, CutFacts DEF Callers
<1> HIDE DEF n
<1>3. n - 1 >= 1
  BY <1>1, <1>2, EmptySeq
<1>4. n - 1 \in 1 .. n /\ n - 2 + 1 = n - 1 /\ n - 2 + 1 <= n /\ n - 2 \in 0 .. n
  BY <1>1, <1>3
<1>5. LastOf(Callers) = stack[n - 1]
  <2>1. n - 1 \in 1 .. n - 1
    BY <1>1, <1>3
  <2>2. QED
    BY <1>2, <2>1 DEF LastOf
<1>6. \A i \in 1 .. n : i > n - 2 => i = n - 1 \/ stack[i] = f
  <2>1. \A i \in 1 .. n : i > n - 2 => i = n - 1 \/ i = n
    BY <1>1
  <2>2. QED
    BY <1>1, <2>1
<1>7. QED
  BY <1>1, <1>4, <1>5, <1>6, CutAppendShape, CutShape

LEMMA ThrowAction ==
  ASSUME StackInv, Throw
  PROVE  StackInv'
<1>1. /\ StackType /\ UNCHANGED <<isFlushingReads, isFlushingWrites, hand>>
      /\ {"writes", "failing"} \subseteq WriteFrames
      /\ {"onSendError", "onReadError", "exception"} \subseteq Neutral
  BY NeutralFrames DEF StackInv, Throw, outboxVars, loopVars, WriteFrames
<1>2. CASE Running("onSent")
  <2>1. stack' = SubSeq(stack, 1, Len(stack) - 2) \o <<"failing", "onSendError">>
    BY <1>2 DEF Throw
  <2> DEFINE n == Len(stack)
  <2>2. n \in Nat \ {0} /\ stack[n] = "onSent" /\ stack \in Seq(Frames)
    BY <1>1, <1>2, Top DEF StackType
  <2>3. Writer(stack, isFlushingWrites, Holding)
    BY StackInvMeans
  <2>4. n > 1 /\ stack[n - 1] = "writes"
    BY <2>2, <2>3 DEF Writer, Above
  <2>5. Callers # <<>>
    <3>1. n - 1 \in 0 .. n
      BY <2>2
    <3>2. Len(Callers) = n - 1
      BY <2>2, <3>1, CutFacts DEF Callers
    <3>3. n - 1 # 0
      BY <2>2, <2>4
    <3>4. QED
      BY <3>2, <3>3, EmptySeq
  <2>6. /\ n - 1 \in 1 .. n /\ n - 2 + 1 = n - 1 /\ n - 2 + 1 <= n
        /\ \A i \in 1 .. n : i > n - 2 => i = n - 1 \/ stack[i] = "onSent"
        /\ \A t \in Seq(Frames) : Shape(SubSeq(stack, 1, n - 2) \o t, stack, n - 2, t)
    BY <1>1, <1>2, <2>5, Second
  <2>7. isFlushingWrites /\ ~Holding
    <3>1. stack[n - 1] \in WriteFrames
      BY <1>1, <2>4
    <3>2. /\ isFlushingWrites
          /\ Holding => stack[n - 1] \in {"sendv", "sendvFalse", "sendvThrew"}
      BY <2>2, <2>3, <2>6, <3>1, WriterFrame
    <3>3. QED
      BY <2>4, <3>2, Zenon
  <2>8. isFlushingWrites' = TRUE /\ ~Holding'
    BY <1>1, <2>7, Zenon DEF Holding, StackType
  <2>9. WriteTop("failing", <<"failing", "onSendError">>)
    BY <1>1, WriteTops
  <2>10. Shape(stack', stack, n - 2, <<"failing", "onSendError">>)
    BY <1>1, <2>1, <2>6, <2>9, WriteTopFacts
  <2>11. n - 2 + 1 <= n /\ stack[n - 2 + 1] \in WriteFrames
    BY <1>1, <2>4, <2>6
  <2>12. \A i \in 1 .. n : i > n - 2 => stack[i] # "reads"
    BY <2>4, <2>6
  <2>13. QED
    BY <1>1, <2>8, <2>9, <2>10, <2>11, <2>12, WriterPutStep
<1>3. CASE ~Running("onSent")
  <2>1. PICK f \in AppFrames : Running(f)
    BY DEF Throw, Idle, InApp, Running
  <2>2. PICK g \in {"onReadError", "exception"} : stack' = Append(Callers, g)
    BY <1>3 DEF Throw, Become
  <2>3. g \in Neutral /\ <<g>> \in Seq(Neutral)
    BY <1>1, NeutralSeqs
  <2>4. Shape(stack', stack, Len(stack) - 1, <<g>>)
    BY <1>1, <2>1, <2>2, <2>3, Top, NeutralFrames
  <2>5. QED
    BY <1>1, <2>1, <2>3, <2>4, NeutralTop DEF AppFrames, WriteFrames
<1>4. QED
  BY <1>2, <1>3

LEMMA PropagateAction ==
  ASSUME StackInv, Propagate
  PROVE  StackInv'
<1> DEFINE n == Len(stack)
           below == SubSeq(stack, 1, n - 2)
           f == IF Callers = <<>> THEN "pollout" ELSE LastOf(Callers)
<1>1. /\ StackType /\ Running("exception") /\ UNCHANGED <<isFlushingReads, hand>>
      /\ {"sendvTrue", "sendvFalse", "failing", "sendvThrew"} \subseteq WriteFrames
      /\ WriteFrames \subseteq Frames
      /\ {"onWriteError", "exception"} \subseteq Neutral
  BY NeutralFrames DEF StackInv, Propagate, outboxVars, WriteFrames, Frames
<1>2. \/ stack' = Callers /\ UNCHANGED isFlushingWrites
      \/ /\ f \in {"sendvTrue", "sendvFalse"}
         /\ stack' = Append(below, "sendvThrew")
         /\ UNCHANGED isFlushingWrites
      \/ /\ f \in {"flushReads", "flushWrites", "emitBind", "reads"}
         /\ stack' = Append(below, "exception")
         /\ UNCHANGED isFlushingWrites
      \/ /\ f = "failing"
         /\ isFlushingWrites' = FALSE
         /\ \E g \in {"onWriteError", "exception"} : stack' = Append(below, g)
  BY DEF Propagate
<1>3. /\ Writer(stack, isFlushingWrites, Holding)
      /\ Reader(stack, isFlushingReads)
      /\ stack \in Seq(Frames)
  BY StackInvMeans DEF StackInv, StackType
<1>4. CASE stack' = Callers /\ UNCHANGED isFlushingWrites
  BY <1>1, <1>4, Top, NeutralTop, NeutralSeqs DEF WriteFrames
<1>5. ASSUME f # "pollout"
      PROVE  /\ Callers # <<>> /\ f = stack[n - 1]
             /\ n - 1 \in 1 .. n /\ n - 2 + 1 = n - 1 /\ n - 2 + 1 <= n
             /\ \A i \in 1 .. n : i > n - 2 => stack[i] \in {f, "exception"}
             /\ \A g \in Frames : Shape(Append(below, g), stack, n - 2, <<g>>)
  <2>1. Callers # <<>>
    BY <1>5
  <2>2. /\ f = LastOf(Callers)
        /\ n - 1 \in 1 .. n /\ n - 2 + 1 = n - 1 /\ n - 2 + 1 <= n
        /\ LastOf(Callers) = stack[n - 1]
        /\ \A i \in 1 .. n : i > n - 2 => i = n - 1 \/ stack[i] = "exception"
        /\ \A g \in Frames : Shape(Append(below, g), stack, n - 2, <<g>>)
    BY <1>1, <2>1, Second
  <2>3. QED
    BY <2>1, <2>2
<1> HIDE DEF f, below
<1>6. CASE /\ f \in {"sendvTrue", "sendvFalse"}
           /\ stack' = Append(below, "sendvThrew")
           /\ UNCHANGED isFlushingWrites
  <2>1. isFlushingWrites
    BY <1>1, <1>3, <1>5, <1>6, WriterFrame
  <2>2. isFlushingWrites' = TRUE
    BY <1>1, <1>6, <2>1, Zenon DEF StackType
  <2>3. Shape(stack', stack, n - 2, <<"sendvThrew">>)
    BY <1>1, <1>5, <1>6
  <2>4. stack[n - 2 + 1] \in WriteFrames /\ \A i \in 1 .. n : i > n - 2 => stack[i] # "reads"
    BY <1>1, <1>5, <1>6
  <2>5. QED
    BY <1>1, <1>5, <1>6, <2>2, <2>3, <2>4, WriteTops, WriterPutStep
<1>7. CASE /\ f \in {"flushReads", "flushWrites", "emitBind", "reads"}
           /\ stack' = Append(below, "exception")
           /\ UNCHANGED isFlushingWrites
  <2> DEFINE t == <<"exception">>
  <2>1. Shape(stack', stack, n - 2, t)
    BY <1>1, <1>5, <1>7 DEF Frames
  <2>2. t \in Seq(Neutral) /\ t \in Seq(Frames) /\ Len(t) = 1 /\ t[1] = "exception"
    BY <1>1, NeutralSeqs DEF Frames
  <2> HIDE DEF t
  <2>3. CASE f # "reads"
    <3>1. \A i \in 1 .. n : i > n - 2 => stack[i] \notin WriteFrames \cup {"reads"}
      BY <1>5, <1>7, <2>3 DEF WriteFrames
    <3>2. QED
      BY <1>1, <1>7, <2>1, <2>2, <3>1, NeutralStep
  <2>4. CASE f = "reads"
    <3>1. StackType'
      BY <1>1, <1>7, <2>1 DEF StackType, Shape
    <3>2. \A i \in 1 .. Len(t) : t[i] \notin WriteFrames \cup {"reads", "onMessage", "onSent"}
      BY <2>2 DEF WriteFrames
    <3>3. Reader(stack', isFlushingReads)
      BY <1>3, <1>5, <2>1, <2>2, <2>4, <3>2, ReaderLeft
    <3>4. \A i \in 1 .. n : i > n - 2 => stack[i] \notin WriteFrames
      BY <1>5, <2>4 DEF WriteFrames
    <3>5. Writer(stack', isFlushingWrites, Holding)
      BY <1>3, <2>1, <2>2, <3>2, <3>4, WriterKept
    <3>6. QED
      BY <1>1, <1>7, <3>1, <3>3, <3>5, StackInvMeans DEF Holding
  <2>5. QED
    BY <2>3, <2>4
<1>8. CASE /\ f = "failing"
           /\ isFlushingWrites' = FALSE
           /\ \E g \in {"onWriteError", "exception"} : stack' = Append(below, g)
  <2>1. PICK g \in {"onWriteError", "exception"} : stack' = Append(below, g)
    BY <1>8
  <2>2. g \in Neutral /\ g \in Frames /\ <<g>> \in Seq(Neutral)
    BY <1>1, NeutralFrames, NeutralSeqs
  <2>3. Shape(stack', stack, n - 2, <<g>>)
    BY <1>5, <1>8, <2>1, <2>2
  <2>4. ~Holding'
    <3>1. ~Holding
      BY <1>1, <1>3, <1>5, <1>8, WriterFrame
    <3>2. QED
      BY <1>1, <3>1 DEF Holding
  <2>5. stack[n - 2 + 1] \in WriteFrames /\ \A i \in 1 .. n : i > n - 2 => stack[i] # "reads"
    BY <1>1, <1>5, <1>8
  <2>6. QED
    BY <1>1, <1>5, <1>8, <2>2, <2>3, <2>4, <2>5, WriterLeftStep
<1>9. QED
  BY <1>2, <1>4, <1>6, <1>7, <1>8

-----------------------------------------------------------------------------
LEMMA StackInvNext ==
  ASSUME StackInv, [Next]_vars
  PROVE  StackInv'
<1>1. CASE \/ Arrive \/ Drain \/ (\E ok \in BOOLEAN : WorkerRuns(ok))
           \/ Pause \/ Read \/ Close \/ (\E kind \in {"bind", "unbind"} : StartWork(kind))
  BY <1>1, StillActions
<1>2. CASE PollCallback \/ AfterWork
  BY <1>2, LoopActions
<1>3. CASE NotifySendReady \/ EmitBind \/ Return
  BY <1>3, CallActions
<1>4. CASE (\E more \in BOOLEAN : Send(more)) \/ SendNothing \/ Resume
  BY <1>4, AppActions
<1>5. CASE FlushReads \/ ReadMessage \/ ReadFails \/ ReadNothing
  BY <1>5, ReadActions
<1>6. CASE FlushWrites
  BY <1>6, FlushWritesAction
<1>7. CASE WriteNothing \/ SendvRefuses \/ SendvReturnsFalse \/ SendFailed
  BY <1>7, WriteEnds
<1>8. CASE SendvStarts \/ SendvAskFails \/ ZmqSend \/ ZmqSendFails \/ SendvCheckFails
  BY <1>8, SendvActions
<1>9. CASE SendvChecksInput \/ SendvReturnsTrue \/ SendvThrew
  BY <1>9, SentActions
<1>10. CASE Throw
  BY <1>10, ThrowAction
<1>11. CASE Propagate
  BY <1>11, PropagateAction
<1>12. CASE UNCHANGED vars
  BY <1>12, Still DEF vars, outboxVars, loopVars
<1>13. QED
  BY <1>1, <1>2, <1>3, <1>4, <1>5, <1>6, <1>7, <1>8, <1>9, <1>10, <1>11, <1>12
     DEF Next, Step, AppCall

(* The stack is well formed whatever the application calls from where, and *)
(* whatever throws.                                                        *)
THEOREM StackInvariant == Spec => []StackInv
<1>1. Init => StackInv
  BY StackInvInit
<1>2. StackInv /\ [Next]_vars => StackInv'
  BY StackInvNext
<1>3. QED
  BY <1>1, <1>2, PTL DEF Spec

(* At most one _flushWrites loop, and _isFlushingWrites says whether there *)
(* is one: see OneWriter.                                                  *)
THEOREM OneWriterAlways == Spec => []OneWriter
<1>1. StackInv => OneWriter
  BY DEF StackInv
<1>2. QED
  BY <1>1, StackInvariant, PTL

(* At most one _flushReads loop: see OneReader.                            *)
THEOREM OneReaderAlways == Spec => []OneReader
<1>1. StackInv => OneReader
  BY DEF StackInv
<1>2. QED
  BY <1>1, StackInvariant, PTL

-----------------------------------------------------------------------------
(* The loops use the queue as Outbox says.                                 *)
LEMMA QueueActions ==
  ASSUME [Next]_vars
  PROVE  \/ \E more \in BOOLEAN : (more => "sendmore" \in Ops) /\ AppendChunk(more)
         \/ Fetch \/ Restore \/ Settle \/ Discard \/ UNCHANGED outboxVars
<1>1. CASE \E more \in BOOLEAN : Send(more)
  BY <1>1 DEF Send
<1>2. CASE SendvStarts \/ SendvAskFails
  BY <1>2 DEF SendvStarts, SendvAskFails
<1>3. CASE ZmqSend
  BY <1>3 DEF ZmqSend
<1>4. CASE SendvReturnsFalse
  BY <1>4 DEF SendvReturnsFalse
<1>5. CASE SendvThrew
  BY <1>5 DEF SendvThrew
<1>6. CASE \/ Arrive \/ Drain \/ (\E ok \in BOOLEAN : WorkerRuns(ok)) \/ PollCallback \/ AfterWork
           \/ NotifySendReady \/ EmitBind \/ FlushReads \/ ReadMessage \/ ReadFails
           \/ ReadNothing
  BY <1>6 DEF Arrive, Drain, WorkerRuns, PollCallback, AfterWork, NotifySendReady, EmitBind,
              FlushReads, ReadMessage, ReadFails, ReadNothing
<1>7. CASE FlushWrites \/ WriteNothing \/ SendvRefuses \/ ZmqSendFails \/ SendvChecksInput
           \/ SendvCheckFails \/ SendvReturnsTrue \/ SendFailed \/ Propagate
  BY <1>7 DEF FlushWrites, WriteNothing, SendvRefuses, ZmqSendFails, SendvChecksInput,
              SendvCheckFails, SendvReturnsTrue, SendFailed, Propagate
<1>8. CASE SendNothing \/ Pause \/ Resume \/ Read \/ Close
           \/ (\E kind \in {"bind", "unbind"} : StartWork(kind)) \/ Return \/ Throw
  BY <1>8 DEF SendNothing, Pause, Resume, Read, Close, StartWork, Return, Throw
<1>9. CASE UNCHANGED vars
  BY <1>9 DEF vars
<1>10. QED
  BY <1>1, <1>2, <1>3, <1>4, <1>5, <1>6, <1>7, <1>8, <1>9 DEF Next, Step, AppCall

LEMMA QueueStep ==
  ASSUME [Next]_vars
  PROVE  [OutboxNext]_outboxVars
BY QueueActions DEF OutboxNext

LEMMA PumpQueue == Spec => OutboxSpec
<1>1. Init => OutboxInit
  BY DEF Init
<1>2. [Next]_vars => [OutboxNext]_outboxVars
  BY QueueStep
<1>3. QED
  BY <1>1, <1>2, PTL DEF Spec, OutboxSpec

(* What send() promises holds of the whole socket: complete messages reach *)
(* libzmq in the order of the calls, none skipped and none twice.          *)
THEOREM PumpOrder == Spec => []SettledInOrder
BY PumpQueue, OutboxOrder, PTL

-----------------------------------------------------------------------------
(* Which functions are running, wherever on the stack.                     *)
On(s) == {s[i] : i \in 1 .. Len(s)}

Calls == On(stack)

(* All but the running one, and all but the two topmost.                   *)
Waiting == On(Callers)
Deeper == On(SubSeq(stack, 1, Len(stack) - 2))

LEMMA OnFew ==
  /\ On(<<>>) = {}
  /\ \A f : On(<<f>>) = {f}
  /\ \A f, g : On(<<f, g>>) = {f, g}
  /\ \A f, g, h : On(<<f, g, h>>) = {f, g, h}
  /\ \A f, g, h, i : On(<<f, g, h, i>>) = {f, g, h, i}
BY DEF On

LEMMA OnShape ==
  ASSUME NEW s \in Seq(Frames), NEW u, NEW k, NEW t \in Seq(Frames), Shape(u, s, k, t)
  PROVE  On(u) = On(SubSeq(s, 1, k)) \cup On(t)
<1> DEFINE p == SubSeq(s, 1, k)
<1>1. k \in Nat /\ Len(t) \in Nat /\ Len(u) = k + Len(t) /\ k \in 0 .. Len(s)
  BY DEF Shape
<1>2. Len(p) = k /\ \A i \in 1 .. k : p[i] = s[i]
  BY <1>1, CutFacts
<1> HIDE DEF p
<1>3. ASSUME NEW x \in On(u) PROVE x \in On(p) \cup On(t)
  <2>1. PICK i \in 1 .. Len(u) : u[i] = x
    BY <1>3 DEF On
  <2>2. CASE i \in 1 .. k /\ u[i] = s[i]
    <3>1. p[i] = x /\ i \in 1 .. Len(p)
      BY <1>2, <2>1, <2>2
    <3>2. QED
      BY <3>1 DEF On
  <2>3. CASE i - k \in 1 .. Len(t) /\ u[i] = t[i - k]
    BY <2>1, <2>3 DEF On
  <2>4. QED
    BY <2>2, <2>3, SplitShape
<1>4. ASSUME NEW x \in On(p) PROVE x \in On(u)
  <2>1. PICK i \in 1 .. k : s[i] = x
    BY <1>2, <1>4 DEF On
  <2>2. i \in 1 .. Len(u) /\ u[i] = x
    BY <1>1, <2>1 DEF Shape
  <2>3. QED
    BY <2>2 DEF On
<1>5. ASSUME NEW x \in On(t) PROVE x \in On(u)
  <2>1. PICK i \in 1 .. Len(t) : t[i] = x
    BY <1>5 DEF On
  <2>2. k + i \in 1 .. Len(u) /\ u[k + i] = x
    BY <1>1, <2>1 DEF Shape
  <2>3. QED
    BY <2>2 DEF On
<1>6. On(u) = On(p) \cup On(t)
  BY <1>3, <1>4, <1>5
<1>7. QED
  BY <1>6 DEF p

LEMMA OnPushed ==
  ASSUME StackType, NEW t \in Seq(Frames)
  PROVE  /\ stack' = stack \o t => Calls' = Calls \cup On(t)
         /\ \A g \in Frames : stack' = Append(stack, g) => Calls' = Calls \cup {g}
<1>1. stack \in Seq(Frames)
  BY DEF StackType
<1>2. On(SubSeq(stack, 1, Len(stack))) = Calls
  <2>1. SubSeq(stack, 1, Len(stack)) = stack
    BY <1>1
  <2>2. QED
    BY <2>1 DEF Calls
<1>3. On(stack \o t) = Calls \cup On(t)
  BY <1>1, <1>2, PushShape, OnShape
<1>4. ASSUME NEW g \in Frames PROVE On(Append(stack, g)) = Calls \cup {g}
  <2> DEFINE u == Append(stack, g)  new == <<g>>
  <2>1. new \in Seq(Frames) /\ Shape(u, stack, Len(stack), new)
    BY <1>1, AppendShape
  <2> HIDE DEF u, new
  <2>2. On(u) = Calls \cup On(new)
    BY <1>1, <1>2, <2>1, OnShape
  <2>3. QED
    BY <2>2, OnFew DEF u, new
<1>5. QED
  BY <1>3, <1>4 DEF Calls

LEMMA OnTop ==
  ASSUME StackType, NEW f, Running(f)
  PROVE  /\ Calls = Waiting \cup {f}
         /\ Calls \subseteq Frames
         /\ stack' = Callers => Calls' = Waiting
         /\ \A g \in Frames : stack' = Append(Callers, g) => Calls' = Waiting \cup {g}
         /\ \A t \in Seq(Frames) : stack' = Callers \o t => Calls' = Waiting \cup On(t)
<1>1. /\ Len(stack) \in Nat \ {0}
      /\ stack[Len(stack)] = f /\ f \in Frames
      /\ stack \in Seq(Frames)
      /\ Shape(Callers, stack, Len(stack) - 1, <<>>)
      /\ \A g \in Frames : Shape(Append(Callers, g), stack, Len(stack) - 1, <<g>>)
      /\ \A t \in Seq(Frames) : Shape(Callers \o t, stack, Len(stack) - 1, t)
  BY Top DEF StackType
<1>2. /\ On(Callers) = Waiting \cup On(<<>>)
      /\ \A g \in Frames : On(Append(Callers, g)) = Waiting \cup On(<<g>>)
      /\ \A t \in Seq(Frames) : On(Callers \o t) = Waiting \cup On(t)
  <2>1. <<>> \in Seq(Frames) /\ \A g \in Frames : <<g>> \in Seq(Frames)
    OBVIOUS
  <2>2. \A t \in Seq(Frames) : \A u : Shape(u, stack, Len(stack) - 1, t) => On(u) = Waiting \cup On(t)
    BY <1>1, OnShape DEF Waiting, Callers
  <2>3. QED
    BY <1>1, <2>1, <2>2
<1>3. Calls = Waiting \cup {f}
  <2>1. stack = Append(Callers, f)
    <3>1. /\ Callers \in Seq(Frames) /\ Len(Callers) = Len(stack) - 1
          /\ \A i \in 1 .. Len(stack) - 1 : Callers[i] = stack[i]
      BY <1>1, Top, CutFacts DEF Callers, StackType
    <3>2. QED
      BY <1>1, <3>1
  <2>2. QED
    BY <1>1, <1>2, <2>1, OnFew DEF Calls
<1>4. Calls \subseteq Frames
  BY <1>1 DEF Calls, On
<1>5. QED
  BY <1>2, <1>3, <1>4, OnFew DEF Calls

LEMMA OnSecond ==
  ASSUME StackType, NEW f, Running(f), Callers # <<>>
  PROVE  /\ Waiting = Deeper \cup {LastOf(Callers)}
         /\ \A g \in Frames :
              stack' = Append(SubSeq(stack, 1, Len(stack) - 2), g) => Calls' = Deeper \cup {g}
         /\ \A t \in Seq(Frames) :
              stack' = SubSeq(stack, 1, Len(stack) - 2) \o t => Calls' = Deeper \cup On(t)
<1> DEFINE n == Len(stack)  below == SubSeq(stack, 1, n - 2)
<1>1. /\ stack \in Seq(Frames) /\ n \in Nat /\ n - 1 \in 1 .. n
      /\ LastOf(Callers) = stack[n - 1]
      /\ \A g \in Frames : Shape(Append(below, g), stack, n - 2, <<g>>)
      /\ \A t \in Seq(Frames) : Shape(below \o t, stack, n - 2, t)
  BY Second DEF StackType
<1>2. /\ \A g \in Frames : On(Append(below, g)) = Deeper \cup {g}
      /\ \A t \in Seq(Frames) : On(below \o t) = Deeper \cup On(t)
  <2>1. \A g \in Frames : <<g>> \in Seq(Frames)
    OBVIOUS
  <2>2. \A t \in Seq(Frames) : \A u : Shape(u, stack, n - 2, t) => On(u) = Deeper \cup On(t)
    BY <1>1, OnShape DEF Deeper
  <2>3. QED
    BY <1>1, <2>1, <2>2, OnFew
<1>3. Callers = Append(below, LastOf(Callers)) /\ LastOf(Callers) \in Frames
  <2>1. /\ Callers \in Seq(Frames) /\ Len(Callers) = n - 1
        /\ \A i \in 1 .. n - 1 : Callers[i] = stack[i]
    BY <1>1, CutFacts DEF Callers
  <2>2. /\ below \in Seq(Frames) /\ Len(below) = n - 2
        /\ \A i \in 1 .. n - 2 : below[i] = stack[i]
    <3>1. n - 2 \in 0 .. Len(stack)
      BY <1>1
    <3>2. QED
      BY <1>1, <3>1, CutFacts
  <2> HIDE DEF n, below
  <2>3. n - 1 \in 1 .. n - 1 /\ n - 1 = n - 2 + 1 /\ n - 2 \in Nat
    BY <1>1
  <2>4. stack[n - 1] \in Frames
    BY <2>1, <2>3
  <2>5. QED
    BY <1>1, <2>1, <2>2, <2>3, <2>4
<1>4. QED
  BY <1>2, <1>3 DEF Calls, Waiting

(* There is one frame of _flushWrites.                                     *)
LEMMA OnlyWriter ==
  ASSUME StackInv, NEW f, Running(f)
  PROVE  /\ f \in WriteFrames => Waiting \cap WriteFrames = {}
         /\ Callers # <<>> /\ LastOf(Callers) \in WriteFrames => Deeper \cap WriteFrames = {}
<1> DEFINE n == Len(stack)
<1>1. stack \in Seq(Frames) /\ StackType /\ Once(stack, WriteFrames)
  BY StackInvMeans DEF StackInv, StackType, Writer
<1>2. n \in Nat \ {0} /\ stack[n] = f
  BY <1>1, Top
<1>3. ASSUME NEW k \in 0 .. n - 1, stack[k + 1] \in WriteFrames
      PROVE  On(SubSeq(stack, 1, k)) \cap WriteFrames = {}
  <2>1. k + 1 <= Len(stack) /\ k \in Nat /\ k \in 0 .. Len(stack)
    BY <1>2
  <2>2. NoneBelow(stack, WriteFrames, k)
    BY <1>1, <1>3, <2>1, OnlyOne
  <2>3. Len(SubSeq(stack, 1, k)) = k /\ \A i \in 1 .. k : SubSeq(stack, 1, k)[i] = stack[i]
    BY <1>1, <2>1, CutFacts
  <2>4. QED
    BY <2>2, <2>3 DEF NoneBelow, On
<1>4. f \in WriteFrames => Waiting \cap WriteFrames = {}
  <2>1. n - 1 \in 0 .. n - 1 /\ n - 1 + 1 = n
    BY <1>2
  <2>2. QED
    BY <1>2, <1>3, <2>1 DEF Waiting, Callers
<1>5. ASSUME Callers # <<>>, LastOf(Callers) \in WriteFrames
      PROVE  Deeper \cap WriteFrames = {}
  <2>1. n - 1 \in 1 .. n /\ n - 2 + 1 = n - 1 /\ LastOf(Callers) = stack[n - 1]
    BY <1>1, <1>5, Second
  <2>2. n - 2 \in 0 .. n - 1
    BY <1>2, <2>1
  <2>3. QED
    BY <1>3, <1>5, <2>1, <2>2 DEF Deeper
<1>6. QED
  BY <1>4, <1>5

-----------------------------------------------------------------------------
(* What each action does to the running functions: those of old, on top,   *)
(* make way for those of new.                                              *)
Moves(old, new) == Calls = Waiting \cup old /\ Calls' = Waiting \cup new

DeepMoves(old, new) == Calls = Deeper \cup old /\ Calls' = Deeper \cup new

(* The same of the only frame of _flushWrites.                             *)
WriterMoves(old, new) == Moves(old, new) /\ Waiting \cap WriteFrames = {}

LEMMA SomeFrames ==
  /\ AppFrames \cup WriteFrames \cup CallFrames \cup {"reads", "exception"} = Frames
  /\ \A f \in Frames : <<f>> \in Seq(Frames)
  /\ \A f, g \in Frames : <<f, g>> \in Seq(Frames)
  /\ <<>> \in Seq(Frames)
BY DEF Frames

LEMMA BecomeMoves ==
  ASSUME StackInv, NEW f, Running(f), NEW g \in Frames, Become(g)
  PROVE  Moves({f}, {g})
BY OnTop DEF StackInv, Become, Moves

LEMMA PopMoves ==
  ASSUME StackInv, NEW f, Running(f), Pop
  PROVE  Moves({f}, {})
BY OnTop DEF StackInv, Pop, Moves

LEMMA PutMoves ==
  ASSUME StackInv, NEW f, Running(f), NEW t \in Seq(Frames), stack' = Callers \o t
  PROVE  Moves({f}, On(t))
BY OnTop DEF StackInv, Moves

(* Callbacks from the event loop find an empty stack.                      *)
LEMMA LoopMoves ==
  ASSUME StackInv
  PROVE  /\ Idle => Calls = {}
         /\ PollCallback =>
              /\ Calls = {}
              /\ pending /\ PollOut => "pollout" \in Calls'
              /\ PollIn => "flushReads" \in Calls'
              /\ Calls' \subseteq {"pollout", "flushReads"}
         /\ AfterWork =>
              /\ Calls = {}
              /\ Calls' \subseteq {"emitBind", "flushWrites", "flushReads"}
              /\ work = "failed" \/ {"flushWrites", "flushReads"} \subseteq Calls'
<1>1. Idle => Calls = {}
  BY OnFew DEF Idle, Calls
<1>2. ASSUME PollCallback
      PROVE  /\ pending /\ PollOut => "pollout" \in Calls'
             /\ PollIn => "flushReads" \in Calls'
             /\ Calls' \subseteq {"pollout", "flushReads"}
  <2> DEFINE a == IF pending /\ PollOut THEN <<"pollout">> ELSE <<>>
             b == IF PollIn THEN <<"flushReads">> ELSE <<>>
  <2>1. stack' = a \o b
    BY <1>2 DEF PollCallback
  <2>2. stack' = IF pending /\ PollOut
                   THEN IF PollIn THEN <<"pollout", "flushReads">> ELSE <<"pollout">>
                   ELSE IF PollIn THEN <<"flushReads">> ELSE <<>>
    BY <2>1
  <2>3. Calls' = IF pending /\ PollOut
                   THEN IF PollIn THEN {"pollout", "flushReads"} ELSE {"pollout"}
                   ELSE IF PollIn THEN {"flushReads"} ELSE {}
    BY <2>2, OnFew DEF Calls
  <2>4. QED
    BY <2>3
<1>3. ASSUME AfterWork
      PROVE  /\ Calls' \subseteq {"emitBind", "flushWrites", "flushReads"}
             /\ work = "failed" \/ {"flushWrites", "flushReads"} \subseteq Calls'
  <2>1. \/ stack' = <<"emitBind", "flushWrites", "flushReads">>
        \/ stack' = <<"emitBind", "flushWrites", "flushReads", "emitBind">>
        \/ stack' = <<"emitBind">> /\ work = "failed"
    BY <1>3 DEF AfterWork
  <2>2. QED
    BY <2>1, OnFew DEF Calls
<1>4. QED
  BY <1>1, <1>2, <1>3 DEF PollCallback, AfterWork

(* The frames of _flushReads and of calls to the loops.                    *)
LEMMA ReadMoves ==
  ASSUME StackInv
  PROVE  /\ NotifySendReady => Moves({"pollout"}, {"flushWrites"})
         /\ EmitBind => Moves({"emitBind"}, {"onBind"})
         /\ FlushReads =>
              Moves({"flushReads"}, IF paused \/ isFlushingReads THEN {} ELSE {"reads"})
         /\ ReadMessage => "reads" \in Calls /\ Calls' = Calls \cup {"onMessage"}
         /\ ReadFails =>
              /\ "reads" \in Calls
              /\ \E g \in {"onReadError", "exception"} : Calls' = Calls \cup {g}
         /\ ReadNothing => Moves({"reads"}, {"flushWrites"})
         /\ FlushWrites =>
              Moves({"flushWrites"}, IF paused \/ isFlushingWrites THEN {} ELSE {"writes"})
<1>1. {"flushWrites", "onBind", "reads", "onMessage", "onReadError", "exception", "writes"}
        \subseteq Frames
  BY DEF Frames, AppFrames, WriteFrames, CallFrames
<1>2. NotifySendReady => Moves({"pollout"}, {"flushWrites"})
  BY <1>1, BecomeMoves DEF NotifySendReady
<1>3. EmitBind => Moves({"emitBind"}, {"onBind"})
  BY <1>1, BecomeMoves DEF EmitBind
<1>4. FlushReads => Moves({"flushReads"}, IF paused \/ isFlushingReads THEN {} ELSE {"reads"})
  BY <1>1, BecomeMoves, PopMoves DEF FlushReads
<1>5. ReadMessage => "reads" \in Calls /\ Calls' = Calls \cup {"onMessage"}
  <2> SUFFICES ASSUME ReadMessage PROVE "reads" \in Calls /\ Calls' = Calls \cup {"onMessage"}
    OBVIOUS
  <2>1. StackType /\ Running("reads") /\ stack' = Append(stack, "onMessage")
    BY DEF ReadMessage, Push, StackInv
  <2>2. "reads" \in Calls
    BY <2>1, OnTop
  <2>3. Calls' = Calls \cup {"onMessage"}
    BY <1>1, <2>1, SomeFrames, OnPushed
  <2>4. QED
    BY <2>2, <2>3
<1>6. ReadNothing => Moves({"reads"}, {"flushWrites"})
  BY <1>1, BecomeMoves DEF ReadNothing
<1>7. FlushWrites =>
        Moves({"flushWrites"}, IF paused \/ isFlushingWrites THEN {} ELSE {"writes"})
  BY <1>1, BecomeMoves, PopMoves DEF FlushWrites
<1>8. ASSUME ReadFails
      PROVE  /\ "reads" \in Calls
             /\ \E g \in {"onReadError", "exception"} : Calls' = Calls \cup {g}
  <2>1. /\ StackType /\ Running("reads")
        /\ \E g \in {"onReadError", "exception"} : stack' = Append(stack, g)
    BY <1>8 DEF ReadFails, Push, StackInv
  <2>2. "reads" \in Calls
    BY <2>1, OnTop
  <2>3. PICK g \in {"onReadError", "exception"} : stack' = Append(stack, g)
    BY <2>1
  <2>4. Calls' = Calls \cup {g}
    BY <1>1, <2>1, <2>3, SomeFrames, OnPushed
  <2>5. QED
    BY <2>2, <2>4
<1>9. QED
  BY <1>2, <1>3, <1>4, <1>5, <1>6, <1>7, <1>8

(* The frame of _flushWrites and sendv.                                    *)
LEMMA WriteMoves ==
  ASSUME StackInv
  PROVE  /\ WriteNothing \/ SendvRefuses => WriterMoves({"writes"}, {})
         /\ SendvStarts =>
              WriterMoves({"writes"}, IF PollOut THEN {"sendv"} ELSE {"sendvFalse", "flushReads"})
         /\ SendvAskFails => WriterMoves({"writes"}, {"sendvThrew"})
         /\ ZmqSend => WriterMoves({"sendv"}, {"sent"})
         /\ ZmqSendFails => WriterMoves({"sendv"}, {"sendvThrew"})
         /\ SendvCheckFails => WriterMoves({"sent"}, {"sendvThrew"})
         /\ SendvChecksInput =>
              WriterMoves({"sent"}, {"sendvTrue"} \cup IF PollIn THEN {"flushReads"} ELSE {})
         /\ SendvReturnsTrue =>
              \/ WriterMoves({"sendvTrue"}, {"writes"})
              \/ WriterMoves({"sendvTrue"}, {"writes", "onSent"})
         /\ SendvReturnsFalse => WriterMoves({"sendvFalse"}, {})
         /\ SendvThrew =>
              \/ WriterMoves({"sendvThrew"}, {"failing", "onSendError"})
              \/ WriterMoves({"sendvThrew"}, {"failing", "exception"})
         /\ SendFailed => WriterMoves({"failing"}, {})
<1>1. /\ WriteFrames \subseteq Frames
      /\ {"flushReads", "onSent", "onSendError", "exception"} \subseteq Frames
      /\ {"writes", "sendv", "sent", "sendvTrue", "sendvFalse", "sendvThrew", "failing"} = WriteFrames
  BY DEF Frames, AppFrames, WriteFrames, CallFrames
<1>2. ASSUME NEW f \in WriteFrames, Running(f)
      PROVE  /\ Waiting \cap WriteFrames = {} /\ Callers \in Seq(Frames)
             /\ Pop => WriterMoves({f}, {})
             /\ \A g \in Frames : Become(g) => WriterMoves({f}, {g})
             /\ \A g \in Frames : stack' = Callers \o <<g>> => WriterMoves({f}, {g})
             /\ \A g, h \in Frames : stack' = Callers \o <<g, h>> => WriterMoves({f}, {g, h})
  <2>1. Waiting \cap WriteFrames = {}
    BY <1>2, OnlyWriter
  <2>2. \A t \in Seq(Frames) : stack' = Callers \o t => Moves({f}, On(t))
    BY <1>2, PutMoves
  <2>3. Callers \in Seq(Frames)
    BY <1>2, Top DEF Shape, StackInv
  <2>4. ASSUME NEW g \in Frames, stack' = Callers \o <<g>> PROVE Moves({f}, {g})
    BY <2>2, <2>4, SomeFrames, OnFew DEF Moves
  <2>5. ASSUME NEW g \in Frames, NEW h \in Frames, stack' = Callers \o <<g, h>>
        PROVE  Moves({f}, {g, h})
    <3>1. <<g, h>> \in Seq(Frames)
      BY SomeFrames
    <3>2. Moves({f}, On(<<g, h>>))
      BY <2>2, <2>5, <3>1
    <3>3. On(<<g, h>>) = {g, h}
      BY OnFew
    <3>4. QED
      BY <3>2, <3>3
  <2>6. QED
    BY <1>2, <2>1, <2>3, <2>4, <2>5, BecomeMoves, PopMoves DEF WriterMoves
<1>3. WriteNothing \/ SendvRefuses => WriterMoves({"writes"}, {})
  BY <1>1, <1>2 DEF WriteNothing, SendvRefuses
<1>4. SendvStarts =>
        WriterMoves({"writes"}, IF PollOut THEN {"sendv"} ELSE {"sendvFalse", "flushReads"})
  BY <1>1, <1>2 DEF SendvStarts
<1>5. ZmqSend => WriterMoves({"sendv"}, {"sent"})
  BY <1>1, <1>2 DEF ZmqSend
<1>6. /\ SendvAskFails => WriterMoves({"writes"}, {"sendvThrew"})
      /\ ZmqSendFails => WriterMoves({"sendv"}, {"sendvThrew"})
      /\ SendvCheckFails => WriterMoves({"sent"}, {"sendvThrew"})
  BY <1>1, <1>2 DEF SendvAskFails, ZmqSendFails, SendvCheckFails
<1>7. SendvChecksInput =>
        WriterMoves({"sent"}, {"sendvTrue"} \cup IF PollIn THEN {"flushReads"} ELSE {})
  <2> SUFFICES ASSUME SendvChecksInput
               PROVE  WriterMoves({"sent"}, {"sendvTrue"} \cup IF PollIn THEN {"flushReads"} ELSE {})
    OBVIOUS
  <2>1. Running("sent") /\ Callers \in Seq(Frames)
    BY <1>1, <1>2 DEF SendvChecksInput
  <2>2. IF PollIn THEN stack' = Callers \o <<"sendvTrue", "flushReads">>
                  ELSE stack' = Callers \o <<"sendvTrue">>
    <3>1. stack' = Callers \o <<"sendvTrue">> \o (IF PollIn THEN <<"flushReads">> ELSE <<>>)
      BY DEF SendvChecksInput
    <3>2. /\ Callers \o <<"sendvTrue">> \o <<"flushReads">> = Callers \o <<"sendvTrue", "flushReads">>
          /\ Callers \o <<"sendvTrue">> \o <<>> = Callers \o <<"sendvTrue">>
      BY <2>1 DEF Frames
    <3>3. QED
      BY <3>1, <3>2
  <2>3. IF PollIn THEN WriterMoves({"sent"}, {"sendvTrue", "flushReads"})
                  ELSE WriterMoves({"sent"}, {"sendvTrue"})
    BY <1>1, <1>2, <2>1, <2>2
  <2>4. QED
    BY <2>3 DEF WriterMoves, Moves
<1>8. SendvReturnsTrue =>
        \/ WriterMoves({"sendvTrue"}, {"writes"})
        \/ WriterMoves({"sendvTrue"}, {"writes", "onSent"})
  <2> SUFFICES ASSUME SendvReturnsTrue
               PROVE  \/ WriterMoves({"sendvTrue"}, {"writes"})
                      \/ WriterMoves({"sendvTrue"}, {"writes", "onSent"})
    OBVIOUS
  <2>1. Running("sendvTrue") /\ Callers \in Seq(Frames)
    BY <1>1, <1>2 DEF SendvReturnsTrue
  <2>2. \/ stack' = Callers \o <<"writes", "onSent">>
        \/ stack' = Callers \o <<"writes">>
    <3>1. \/ stack' = Callers \o <<"writes">> \o <<"onSent">>
          \/ stack' = Callers \o <<"writes">> \o <<>>
      BY DEF SendvReturnsTrue
    <3>2. /\ Callers \o <<"writes">> \o <<"onSent">> = Callers \o <<"writes", "onSent">>
          /\ Callers \o <<"writes">> \o <<>> = Callers \o <<"writes">>
      BY <2>1 DEF Frames
    <3>3. QED
      BY <3>1, <3>2
  <2>3. QED
    BY <1>1, <1>2, <2>1, <2>2
<1>9. SendvReturnsFalse => WriterMoves({"sendvFalse"}, {})
  BY <1>1, <1>2 DEF SendvReturnsFalse
<1>10. SendvThrew =>
         \/ WriterMoves({"sendvThrew"}, {"failing", "onSendError"})
         \/ WriterMoves({"sendvThrew"}, {"failing", "exception"})
  <2> SUFFICES ASSUME SendvThrew
               PROVE  \/ WriterMoves({"sendvThrew"}, {"failing", "onSendError"})
                      \/ WriterMoves({"sendvThrew"}, {"failing", "exception"})
    OBVIOUS
  <2>1. \/ stack' = Callers \o <<"failing", "onSendError">>
        \/ stack' = Callers \o <<"failing", "exception">>
    BY DEF SendvThrew
  <2>2. QED
    BY <1>1, <1>2, <2>1 DEF SendvThrew
<1>11. SendFailed => WriterMoves({"failing"}, {})
  BY <1>1, <1>2 DEF SendFailed
<1>12. QED
  BY <1>3, <1>4, <1>5, <1>6, <1>7, <1>8, <1>9, <1>10, <1>11

(* The application's calls, and the return of its functions.               *)
LEMMA AppMoves ==
  ASSUME StackInv
  PROVE  /\ \A more \in BOOLEAN : Send(more) =>
              Calls' = Calls \cup (IF CanSend(outgoing') THEN {"flushWrites"} ELSE {})
         /\ SendNothing =>
              Calls' = Calls \cup (IF CanSend(outgoing) THEN {"flushWrites"} ELSE {})
         /\ Resume => Calls' = Calls \cup {"flushWrites", "flushReads"}
         /\ Return => \E f \in AppFrames : Moves({f}, {})
         /\ UNCHANGED stack => Calls' = Calls
<1>1. {"flushWrites", "flushReads"} \subseteq Frames /\ StackType
  BY DEF Frames, CallFrames, StackInv
<1>2. UNCHANGED stack => Calls' = Calls
  BY DEF Calls
<1>3. ASSUME NEW more \in BOOLEAN, Send(more)
      PROVE  Calls' = Calls \cup (IF CanSend(outgoing') THEN {"flushWrites"} ELSE {})
  <2>1. IF CanSend(outgoing') THEN stack' = Append(stack, "flushWrites") ELSE stack' = stack
    BY <1>3 DEF Send, Push
  <2>2. stack' = Append(stack, "flushWrites") => Calls' = Calls \cup {"flushWrites"}
    BY <1>1, SomeFrames, OnPushed
  <2>3. QED
    BY <1>2, <2>1, <2>2
<1>4. Resume => Calls' = Calls \cup {"flushWrites", "flushReads"}
  <2>1. <<"flushWrites", "flushReads">> \in Seq(Frames)
    BY <1>1, SomeFrames
  <2>2. QED
    BY <1>1, <2>1, OnPushed, OnFew DEF Resume
<1>5. ASSUME Return
      PROVE  \E f \in AppFrames : Moves({f}, {})
  <2>1. PICK f \in AppFrames : Running(f)
    BY <1>5 DEF Return, Idle, InApp, Running
  <2>2. QED
    BY <1>5, <2>1, PopMoves DEF Return
<1>6. SendNothing => Calls' = Calls \cup (IF CanSend(outgoing) THEN {"flushWrites"} ELSE {})
  <2>1. stack' = Append(stack, "flushWrites") => Calls' = Calls \cup {"flushWrites"}
    BY <1>1, SomeFrames, OnPushed
  <2>2. QED
    BY <1>2, <2>1 DEF SendNothing, Push
<1>7. QED
  BY <1>2, <1>3, <1>4, <1>5, <1>6

(* Exceptions.                                                             *)
LEMMA ThrowMoves ==
  ASSUME StackInv, Throw
  PROVE  \/ /\ Running("onSent")
            /\ DeepMoves({"writes", "onSent"}, {"failing", "onSendError"})
            /\ Deeper \cap WriteFrames = {}
            /\ writeLapses' = writeLapses \cup {"threw"}
         \/ /\ ~Running("onSent")
            /\ \E f \in AppFrames, g \in {"onReadError", "exception"} : Moves({f}, {g})
            /\ UNCHANGED writeLapses
<1>1. StackType /\ stack \in Seq(Frames) /\ Writer(stack, isFlushingWrites, Holding)
  BY StackInvMeans DEF StackInv, StackType
<1>2. CASE Running("onSent")
  <2>1. /\ stack' = SubSeq(stack, 1, Len(stack) - 2) \o <<"failing", "onSendError">>
        /\ writeLapses' = writeLapses \cup {"threw"}
    BY <1>2 DEF Throw, WriteLapse
  <2> DEFINE n == Len(stack)
  <2>2. n \in Nat \ {0} /\ stack[n] = "onSent"
    BY <1>1, <1>2, Top
  <2>3. n > 1 /\ stack[n - 1] = "writes"
    BY <1>1, <2>2 DEF Writer, Above
  <2>4. Callers # <<>>
    <3>1. n - 1 \in 0 .. n /\ n - 1 # 0
      BY <2>2, <2>3
    <3>2. Len(Callers) = n - 1
      BY <1>1, <3>1, CutFacts DEF Callers
    <3>3. QED
      BY <3>1, <3>2, EmptySeq
  <2>5. LastOf(Callers) = "writes" /\ "writes" \in WriteFrames
    BY <1>1, <1>2, <2>3, <2>4, Second DEF WriteFrames
  <2>6. Deeper \cap WriteFrames = {} /\ Calls = Deeper \cup {"writes"} \cup {"onSent"}
    BY <1>1, <1>2, <2>4, <2>5, OnlyWriter, OnTop, OnSecond
  <2>7. <<"failing", "onSendError">> \in Seq(Frames)
    BY SomeFrames DEF WriteFrames, AppFrames
  <2>8. Calls' = Deeper \cup {"failing", "onSendError"}
    BY <1>1, <1>2, <2>1, <2>4, <2>7, OnSecond, OnFew
  <2>9. QED
    BY <1>2, <2>1, <2>6, <2>8 DEF DeepMoves
<1>3. CASE ~Running("onSent")
  <2>1. PICK f \in AppFrames : Running(f)
    BY DEF Throw, Idle, InApp, Running
  <2>2. PICK g \in {"onReadError", "exception"} : Become(g)
    BY <1>3 DEF Throw
  <2>3. g \in Frames /\ UNCHANGED writeLapses
    BY <1>3, SomeFrames DEF Throw, lapses, AppFrames
  <2>4. QED
    BY <1>3, <2>1, <2>2, <2>3, BecomeMoves
<1>4. QED
  BY <1>2, <1>3

LEMMA PropagateMoves ==
  ASSUME StackInv, Propagate
  PROVE  \/ /\ Moves({"exception"}, {})
            /\ UNCHANGED <<readLapses, writeLapses>>
         \/ /\ \E f \in {"sendvTrue", "sendvFalse"} : DeepMoves({f, "exception"}, {"sendvThrew"})
            /\ Deeper \cap WriteFrames = {}
            /\ writeLapses' = writeLapses \cup {"threw"} /\ UNCHANGED readLapses
         \/ /\ \E f \in {"flushReads", "flushWrites", "reads"} :
                 DeepMoves({f, "exception"}, {"exception"})
            /\ writeLapses' = writeLapses \cup {"threw"}
            /\ readLapses' = readLapses \cup {"threw"}
         \/ /\ DeepMoves({"emitBind", "exception"}, {"exception"})
            /\ UNCHANGED <<readLapses, writeLapses>>
         \/ /\ \E g \in {"onWriteError", "exception"} : DeepMoves({"failing", "exception"}, {g})
            /\ Deeper \cap WriteFrames = {}
            /\ UNCHANGED <<readLapses, writeLapses>>
<1> DEFINE below == SubSeq(stack, 1, Len(stack) - 2)
           f == IF Callers = <<>> THEN "pollout" ELSE LastOf(Callers)
<1>1. /\ StackType /\ Running("exception")
      /\ {"sendvTrue", "sendvFalse", "failing", "sendvThrew"} \subseteq WriteFrames
      /\ {"sendvThrew", "exception", "onWriteError"} \subseteq Frames
  BY SomeFrames DEF StackInv, Propagate, WriteFrames, AppFrames
<1>2. \/ stack' = Callers /\ UNCHANGED lapses
      \/ /\ f \in {"sendvTrue", "sendvFalse"}
         /\ stack' = Append(below, "sendvThrew")
         /\ WriteLapse("threw")
      \/ /\ f \in {"flushReads", "flushWrites", "emitBind", "reads"}
         /\ stack' = Append(below, "exception")
         /\ IF f = "emitBind" THEN UNCHANGED lapses ELSE Lapse("threw")
      \/ /\ f = "failing"
         /\ UNCHANGED lapses
         /\ \E g \in {"onWriteError", "exception"} : stack' = Append(below, g)
  BY DEF Propagate
<1>3. ASSUME f # "pollout"
      PROVE  /\ Calls = Deeper \cup {f, "exception"}
             /\ \A g \in Frames : stack' = Append(below, g) => Calls' = Deeper \cup {g}
             /\ f \in WriteFrames => Deeper \cap WriteFrames = {}
  <2>1. Callers # <<>> /\ f = LastOf(Callers)
    BY <1>3
  <2>2. Waiting = Deeper \cup {f} /\ Calls = Waiting \cup {"exception"}
    BY <1>1, <2>1, OnTop, OnSecond
  <2>3. \A g \in Frames : stack' = Append(below, g) => Calls' = Deeper \cup {g}
    BY <1>1, <2>1, OnSecond
  <2>4. f \in WriteFrames => Deeper \cap WriteFrames = {}
    BY <1>1, <2>1, OnlyWriter
  <2>5. QED
    BY <2>2, <2>3, <2>4
<1> HIDE DEF f, below
<1>4. CASE stack' = Callers /\ UNCHANGED lapses
  BY <1>1, <1>4, PopMoves DEF Pop, lapses
<1>5. CASE /\ f \in {"sendvTrue", "sendvFalse"}
           /\ stack' = Append(below, "sendvThrew")
           /\ WriteLapse("threw")
  BY <1>1, <1>3, <1>5 DEF DeepMoves, WriteLapse
<1>6. CASE /\ f \in {"flushReads", "flushWrites", "emitBind", "reads"}
           /\ stack' = Append(below, "exception")
           /\ IF f = "emitBind" THEN UNCHANGED lapses ELSE Lapse("threw")
  BY <1>1, <1>3, <1>6 DEF DeepMoves, Lapse, lapses
<1>7. CASE /\ f = "failing"
           /\ UNCHANGED lapses
           /\ \E g \in {"onWriteError", "exception"} : stack' = Append(below, g)
  BY <1>1, <1>3, <1>7 DEF DeepMoves, lapses
<1>8. QED
  BY <1>2, <1>4, <1>5, <1>6, <1>7

-----------------------------------------------------------------------------
(* Types.  libzmq is only given a message by sendv after it has seen       *)
(* POLLOUT, with nothing in between.                                       *)
SendvInv == "sendv" \in Calls => Running("sendv") /\ state = "ready" /\ PollOut

(* What every variable but the stack is.                                   *)
NumbersOK == inbox \in Nat /\ room \in Nat /\ room <= HWM /\ arrivals \in Nat /\ budget \in Nat

FlagsOK ==
  /\ fd \in BOOLEAN /\ armed \in BOOLEAN /\ pending \in BOOLEAN /\ paused \in BOOLEAN
  /\ isFlushingReads \in BOOLEAN /\ isFlushingWrites \in BOOLEAN

ModesOK ==
  /\ turn \in {"any", "reqSend", "reqRecv", "repSend", "repRecv"}
  /\ state \in {"ready", "busy", "closed"}
  /\ work \in {"none", "bind", "unbind", "bound", "unbound", "failed"}
  /\ state = "busy" <=> work # "none"

LapsesOK == readLapses \subseteq AllLapses /\ writeLapses \subseteq AllLapses

FieldsOK == NumbersOK /\ FlagsOK /\ ModesOK /\ LapsesOK

LEMMA TypeMeans ==
  /\ TypeOK <=> FieldsOK /\ stack \in Seq(Frames)
  /\ TypeOK' <=> FieldsOK' /\ (stack \in Seq(Frames))'
<1>1. HWM \in Nat
  BY PumpAssumption
<1>2. (room \in 0 .. HWM <=> room \in Nat /\ room <= HWM)
  BY <1>1
<1>3. (room' \in 0 .. HWM <=> room' \in Nat /\ room' <= HWM)
  BY <1>1
<1>4. readLapses \cup writeLapses \subseteq AllLapses <=> LapsesOK
  BY DEF LapsesOK
<1>5. readLapses' \cup writeLapses' \subseteq AllLapses <=> LapsesOK'
  BY DEF LapsesOK
<1>6. {fd, armed, pending, paused, isFlushingReads, isFlushingWrites} \subseteq BOOLEAN <=> FlagsOK
  BY DEF FlagsOK
<1>7. {fd', armed', pending', paused', isFlushingReads', isFlushingWrites'} \subseteq BOOLEAN
        <=> FlagsOK'
  BY DEF FlagsOK
<1>8. TypeOK <=> FieldsOK /\ stack \in Seq(Frames)
  BY <1>2, <1>4, <1>6 DEF TypeOK, FieldsOK, NumbersOK, ModesOK
<1>9. TypeOK' <=> FieldsOK' /\ (stack \in Seq(Frames))'
  BY <1>3, <1>5, <1>7 DEF TypeOK, FieldsOK, NumbersOK, ModesOK
<1>10. QED
  BY <1>8, <1>9

LEMMA TypeInit == Init => TypeOK /\ SendvInv
<1> SUFFICES ASSUME Init PROVE TypeOK /\ SendvInv
  OBVIOUS
<1>1. stack = <<>> /\ stack \in Seq(Frames) /\ Calls = {}
  BY SomeFrames, OnFew DEF Init, Calls
<1>2. FieldsOK
  <2>1. NumbersOK
    BY PumpAssumption DEF Init, NumbersOK
  <2>2. FlagsOK /\ LapsesOK
    BY DEF Init, FlagsOK, LapsesOK
  <2>3. ModesOK
    BY DEF Init, ModesOK
  <2>4. QED
    BY <2>1, <2>2, <2>3 DEF FieldsOK
<1>3. QED
  BY <1>1, <1>2, TypeMeans DEF SendvInv

LEMMA NumbersStep ==
  ASSUME StackInv, FieldsOK, SendvInv, [Next]_vars
  PROVE  NumbersOK'
<1>1. HWM \in Nat \ {0} /\ NumbersOK
  BY PumpAssumption DEF FieldsOK, NumbersOK
<1>2. CASE UNCHANGED <<inbox, room, arrivals, budget>>
  BY <1>1, <1>2 DEF NumbersOK
<1>3. CASE PollCallback \/ AfterWork \/ (\E ok \in BOOLEAN : WorkerRuns(ok)) \/ NotifySendReady
           \/ EmitBind \/ FlushReads \/ FlushWrites \/ ReadNothing
  BY <1>2, <1>3 DEF PollCallback, AfterWork, WorkerRuns, NotifySendReady, EmitBind, FlushReads,
                    FlushWrites, ReadNothing, zmqVars, appVars
<1>4. CASE WriteNothing \/ SendvRefuses \/ SendvStarts \/ SendvAskFails \/ ZmqSendFails
           \/ SendvChecksInput \/ SendvCheckFails \/ SendvReturnsTrue \/ SendvReturnsFalse
           \/ SendvThrew \/ SendFailed \/ Propagate
  BY <1>2, <1>4 DEF WriteNothing, SendvRefuses, SendvStarts, SendvAskFails, ZmqSendFails,
                    SendvChecksInput, SendvCheckFails, SendvReturnsTrue, SendvReturnsFalse,
                    SendvThrew, SendFailed, Propagate, zmqVars, appVars
<1>5. CASE (\E more \in BOOLEAN : Send(more)) \/ Close \/ Return \/ Throw \/ UNCHANGED vars
  BY <1>2, <1>5 DEF Send, Close, Return, Throw, vars, zmqVars, appVars
<1>6. CASE Arrive \/ Drain
  BY <1>1, <1>6 DEF NumbersOK, Arrive, Drain, appVars
<1>7. CASE ReadMessage \/ ReadFails \/ Read
  <2>1. UNCHANGED <<room, arrivals, budget>>
    BY <1>7 DEF ReadMessage, ReadFails, Read, appVars
  <2>2. UNCHANGED inbox \/ (PollIn /\ Receive)
    BY <1>7 DEF ReadMessage, ReadFails, Read
  <2>3. inbox' \in Nat
    BY <1>1, <2>2 DEF NumbersOK, PollIn, Receive
  <2>4. QED
    BY <1>1, <2>1, <2>3 DEF NumbersOK
<1>8. CASE ZmqSend
  <2>1. PollOut
    BY <1>8, WriteMoves DEF ZmqSend, SendvInv, WriterMoves, Moves
  <2>2. room' = room \/ (room > 0 /\ room' = room - 1)
    BY <1>8, <2>1 DEF ZmqSend, PollOut, HasRoom
  <2>3. UNCHANGED <<inbox, arrivals, budget>>
    BY <1>8 DEF ZmqSend, appVars
  <2>4. QED
    BY <1>1, <2>2, <2>3 DEF NumbersOK
<1>9. CASE SendNothing \/ Pause \/ Resume \/ \E kind \in {"bind", "unbind"} : StartWork(kind)
  <2>1. UNCHANGED <<inbox, room, arrivals>> /\ budget > 0 /\ budget' = budget - 1
    BY <1>9 DEF SendNothing, Pause, Resume, StartWork, Counted, zmqVars
  <2>2. QED
    BY <1>1, <2>1 DEF NumbersOK
<1>10. QED
  BY <1>3, <1>4, <1>5, <1>6, <1>7, <1>8, <1>9 DEF Next, Step, AppCall

LEMMA FlagsStep ==
  ASSUME FieldsOK, [Next]_vars
  PROVE  FlagsOK'
<1>1. /\ fd \in BOOLEAN /\ armed \in BOOLEAN /\ pending \in BOOLEAN /\ paused \in BOOLEAN
      /\ isFlushingReads \in BOOLEAN /\ isFlushingWrites \in BOOLEAN
  BY DEF FieldsOK, FlagsOK
<1>2. CanSend(outgoing) \in BOOLEAN /\ CanSend(outgoing)' \in BOOLEAN
  BY DEF CanSend
<1>3. ASSUME GetEvents PROVE fd' \in BOOLEAN /\ armed' \in BOOLEAN
  BY <1>1, <1>3 DEF GetEvents
<1>4. CASE Arrive \/ Drain \/ (\E ok \in BOOLEAN : WorkerRuns(ok)) \/ PollCallback \/ AfterWork
  BY <1>1, <1>3, <1>4 DEF FlagsOK, Arrive, Drain, WorkerRuns, PollCallback, AfterWork, zmqVars,
                          loopVars, appVars
<1>5. CASE NotifySendReady \/ EmitBind \/ FlushReads \/ FlushWrites \/ ReadMessage \/ ReadFails
           \/ ReadNothing
  BY <1>1, <1>3, <1>5 DEF FlagsOK, NotifySendReady, EmitBind, FlushReads, FlushWrites, ReadMessage,
                          ReadFails, ReadNothing, zmqVars, loopVars, appVars
<1>6. CASE WriteNothing \/ SendvRefuses \/ SendvStarts \/ SendvAskFails \/ ZmqSend \/ ZmqSendFails
           \/ SendvCheckFails
  BY <1>1, <1>3, <1>6 DEF FlagsOK, WriteNothing, SendvRefuses, SendvStarts, SendvAskFails, ZmqSend,
                          ZmqSendFails, SendvCheckFails, zmqVars, loopVars, appVars
<1>7. CASE SendvChecksInput \/ SendvReturnsTrue \/ SendvReturnsFalse \/ SendvThrew \/ SendFailed
           \/ Propagate
  BY <1>1, <1>2, <1>3, <1>7 DEF FlagsOK, SendvChecksInput, SendvReturnsTrue, SendvReturnsFalse,
                                SendvThrew, SendFailed, Propagate, zmqVars, loopVars, appVars
<1>8. CASE (\E more \in BOOLEAN : Send(more)) \/ SendNothing \/ Return \/ Throw \/ UNCHANGED vars
  BY <1>1, <1>2, <1>8 DEF FlagsOK, Send, SendNothing, Return, Throw, vars, zmqVars, loopVars, appVars
<1>9. CASE Pause \/ Resume \/ Read \/ Close \/ \E kind \in {"bind", "unbind"} : StartWork(kind)
  BY <1>1, <1>3, <1>9 DEF FlagsOK, Pause, Resume, Read, Close, StartWork, zmqVars, loopVars, appVars
<1>10. QED
  BY <1>4, <1>5, <1>6, <1>7, <1>8, <1>9 DEF Next, Step, AppCall

LEMMA ModesStep ==
  ASSUME FieldsOK, [Next]_vars
  PROVE  ModesOK'
<1>1. ModesOK
  BY DEF FieldsOK
<1>2. CASE UNCHANGED <<turn, state, work>>
  BY <1>1, <1>2 DEF ModesOK
<1>3. CASE Flip /\ UNCHANGED <<state, work>>
  BY <1>1, <1>3 DEF ModesOK, Flip
<1>4. CASE Arrive \/ Drain \/ PollCallback \/ NotifySendReady \/ EmitBind \/ FlushReads
           \/ FlushWrites \/ ReadNothing
  BY <1>2, <1>4 DEF Arrive, Drain, PollCallback, NotifySendReady, EmitBind, FlushReads, FlushWrites,
                    ReadNothing, zmqVars
<1>5. CASE WriteNothing \/ SendvRefuses \/ SendvStarts \/ SendvAskFails \/ ZmqSendFails
           \/ SendvChecksInput \/ SendvCheckFails \/ SendvReturnsTrue \/ SendvReturnsFalse
           \/ SendvThrew \/ SendFailed \/ Propagate
  BY <1>2, <1>5 DEF WriteNothing, SendvRefuses, SendvStarts, SendvAskFails, ZmqSendFails,
                    SendvChecksInput, SendvCheckFails, SendvReturnsTrue, SendvReturnsFalse,
                    SendvThrew, SendFailed, Propagate, zmqVars
<1>6. CASE (\E more \in BOOLEAN : Send(more)) \/ SendNothing \/ Return \/ Throw \/ Pause \/ Resume
           \/ UNCHANGED vars
  BY <1>2, <1>6 DEF Send, SendNothing, Return, Throw, Pause, Resume, vars, zmqVars
<1>7. CASE ReadMessage \/ ReadFails \/ ZmqSend \/ Read
  BY <1>2, <1>3, <1>7 DEF ReadMessage, ReadFails, ZmqSend, Read, Receive
<1>8. CASE (\E ok \in BOOLEAN : WorkerRuns(ok)) \/ AfterWork
  BY <1>1, <1>8 DEF ModesOK, WorkerRuns, AfterWork, zmqVars
<1>9. CASE Close \/ \E kind \in {"bind", "unbind"} : StartWork(kind)
  BY <1>1, <1>9 DEF ModesOK, Close, StartWork, zmqVars
<1>10. QED
  BY <1>4, <1>5, <1>6, <1>7, <1>8, <1>9 DEF Next, Step, AppCall

LEMMA LapsesStep ==
  ASSUME FieldsOK, [Next]_vars
  PROVE  LapsesOK'
<1>1. LapsesOK /\ AllLapses = {"stale", "unpended", "sendFailed", "workFailed", "threw"}
  BY DEF FieldsOK, AllLapses
<1>2. \A c \in AllLapses : Lapse(c) \/ WriteLapse(c) => LapsesOK'
  BY <1>1 DEF LapsesOK, Lapse, WriteLapse
<1>3. CASE UNCHANGED <<readLapses, writeLapses>>
  BY <1>1, <1>3 DEF LapsesOK
<1>4. CASE Arrive \/ Drain \/ PollCallback \/ NotifySendReady \/ EmitBind \/ FlushReads
           \/ FlushWrites \/ ReadMessage \/ ReadFails \/ \E ok \in BOOLEAN : WorkerRuns(ok)
  BY <1>3, <1>4 DEF Arrive, Drain, PollCallback, NotifySendReady, EmitBind, FlushReads, FlushWrites,
                    ReadMessage, ReadFails, WorkerRuns, lapses
<1>5. CASE SendvStarts \/ ZmqSend \/ SendvChecksInput \/ SendvReturnsTrue \/ SendvThrew \/ SendFailed
  BY <1>3, <1>5 DEF SendvStarts, ZmqSend, SendvChecksInput, SendvReturnsTrue, SendvThrew, SendFailed,
                    lapses
<1>6. CASE (\E more \in BOOLEAN : Send(more)) \/ SendNothing \/ Return \/ Pause \/ Resume \/ Read
           \/ Close \/ (\E kind \in {"bind", "unbind"} : StartWork(kind)) \/ UNCHANGED vars
  BY <1>3, <1>6 DEF Send, SendNothing, Return, Pause, Resume, Read, Close, StartWork, vars, lapses
<1>7. CASE AfterWork \/ SendvAskFails \/ ZmqSendFails \/ SendvCheckFails \/ Throw \/ Propagate
  BY <1>1, <1>2, <1>3, <1>7 DEF AfterWork, SendvAskFails, ZmqSendFails, SendvCheckFails, Throw,
                                Propagate, lapses
<1>8. CASE ReadNothing \/ WriteNothing \/ SendvRefuses \/ SendvReturnsFalse
  BY <1>1, <1>8 DEF LapsesOK, ReadNothing, WriteNothing, SendvRefuses, SendvReturnsFalse
<1>9. QED
  BY <1>4, <1>5, <1>6, <1>7, <1>8 DEF Next, Step, AppCall

LEMMA TypeStep ==
  ASSUME StackInv, FieldsOK, SendvInv, [Next]_vars
  PROVE  FieldsOK'
BY NumbersStep, FlagsStep, ModesStep, LapsesStep DEF FieldsOK

(* Nothing but libzmq, the peer and the worker thread moves while sendv    *)
(* has seen POLLOUT and not sent yet.                                      *)
LEMMA SendvStep ==
  ASSUME StackInv, FieldsOK, SendvInv, [Next]_vars
  PROVE  SendvInv'
<1>0. "sendv" \notin AppFrames /\ StackType
  BY DEF AppFrames, StackInv
<1>1. CASE UNCHANGED stack /\ "sendv" \notin Calls
  BY <1>1, AppMoves DEF SendvInv
<1>2. ASSUME InApp PROVE "sendv" \notin Calls
  <2>1. CASE Idle
    BY <2>1, LoopMoves
  <2>2. CASE ~Idle
    BY <1>0, <1>2, <2>2 DEF InApp, Idle, SendvInv, Running
  <2>3. QED
    BY <2>1, <2>2
<1>3. ASSUME NEW f, Running(f), f # "sendv" PROVE "sendv" \notin Calls
  BY <1>3 DEF SendvInv, Running
<1>4. CASE UNCHANGED <<stack, state, turn>> /\ (room' = room \/ (room < HWM /\ room' = room + 1))
  <2>1. Calls' = Calls
    BY <1>4, AppMoves
  <2>2. HWM \in Nat /\ room \in Nat
    BY PumpAssumption DEF FieldsOK, NumbersOK
  <2>3. QED
    BY <1>4, <2>1, <2>2 DEF SendvInv, Running, PollOut, HasRoom
<1>5. CASE Arrive \/ Drain \/ (\E ok \in BOOLEAN : WorkerRuns(ok)) \/ UNCHANGED vars
  BY <1>4, <1>5 DEF Arrive, Drain, WorkerRuns, vars, zmqVars
<1>6. CASE PollCallback \/ AfterWork
  BY <1>6, LoopMoves DEF SendvInv
<1>7. CASE NotifySendReady \/ EmitBind \/ FlushReads \/ ReadMessage \/ ReadFails \/ ReadNothing
           \/ FlushWrites
  <2>1. "sendv" \notin Calls
    BY <1>3, <1>7 DEF NotifySendReady, EmitBind, FlushReads, ReadMessage, ReadFails, ReadNothing,
                      FlushWrites
  <2>2. QED
    BY <1>7, <2>1, ReadMoves DEF SendvInv, Moves
<1>8. CASE SendvStarts
  <2>1. CASE PollOut
    <3>1. stack' = Callers \o <<"sendv">> /\ Callers \in Seq(Frames)
      BY <1>0, <1>8, <2>1, Top DEF SendvStarts, Shape
    <3>2. Running("sendv")'
      BY <3>1 DEF Running, LastOf
    <3>3. PollOut' /\ state' = "ready"
      BY <1>8, <2>1 DEF SendvStarts, PollOut, HasRoom
    <3>4. QED
      BY <3>2, <3>3 DEF SendvInv
  <2>2. CASE ~PollOut
    <3>1. "sendv" \notin Calls
      BY <1>3, <1>8 DEF SendvStarts
    <3>2. QED
      BY <1>8, <2>2, <3>1, WriteMoves DEF SendvInv, WriterMoves, Moves
  <2>3. QED
    BY <2>1, <2>2
<1>9. CASE WriteNothing \/ SendvRefuses \/ SendvAskFails \/ ZmqSend \/ ZmqSendFails
           \/ SendvChecksInput \/ SendvCheckFails \/ SendvReturnsTrue \/ SendvReturnsFalse
           \/ SendvThrew \/ SendFailed
  BY <1>9, WriteMoves DEF SendvInv, WriterMoves, Moves, WriteFrames
<1>10. CASE (\E more \in BOOLEAN : Send(more)) \/ SendNothing \/ Resume \/ Return
  <2>1. "sendv" \notin Calls
    BY <1>2, <1>10 DEF Send, SendNothing, Resume, Return
  <2>2. QED
    BY <1>10, <2>1, AppMoves DEF SendvInv, Moves
<1>11. CASE Throw
  <2>1. "sendv" \notin Calls
    BY <1>2, <1>11 DEF Throw
  <2>2. QED
    BY <1>11, <2>1, ThrowMoves DEF SendvInv, Moves, DeepMoves
<1>12. CASE Propagate
  <2>1. "sendv" \notin Calls
    BY <1>3, <1>12 DEF Propagate
  <2>2. QED
    BY <1>12, <2>1, PropagateMoves DEF SendvInv, Moves, DeepMoves
<1>13. CASE Pause \/ Read \/ Close \/ \E kind \in {"bind", "unbind"} : StartWork(kind)
  BY <1>1, <1>2, <1>13 DEF Pause, Read, Close, StartWork
<1>14. QED
  BY <1>5, <1>6, <1>7, <1>8, <1>9, <1>10, <1>11, <1>12, <1>13 DEF Next, Step, AppCall

TypeInv == StackInv /\ TypeOK /\ SendvInv

LEMMA TypeInvariant == Spec => []TypeInv
<1>1. Init => TypeInv
  BY StackInvInit, TypeInit DEF TypeInv
<1>2. TypeInv /\ [Next]_vars => TypeInv'
  <2> SUFFICES ASSUME TypeInv, [Next]_vars PROVE TypeInv'
    OBVIOUS
  <2>1. StackInv /\ FieldsOK /\ SendvInv
    BY TypeMeans DEF TypeInv
  <2>2. StackInv' /\ FieldsOK' /\ SendvInv'
    BY <2>1, StackInvNext, TypeStep, SendvStep
  <2>3. (stack \in Seq(Frames))'
    BY <2>2 DEF StackInv, StackType
  <2>4. QED
    BY <2>2, <2>3, TypeMeans DEF TypeInv
<1>3. QED
  BY <1>1, <1>2, PTL DEF Spec

(* Every variable has its type: in particular libzmq never accepts more    *)
(* than the high water mark, and the socket is busy exactly while the      *)
(* worker thread has it.                                                   *)
THEOREM PumpType == Spec => []TypeOK
<1>1. TypeInv => TypeOK
  BY DEF TypeInv
<1>2. QED
  BY <1>1, TypeInvariant, PTL

LEMMA PumpOutbox == Spec => []OutboxInv
BY PumpQueue, OutboxInvariant, PTL

(* No message is received and none is given to libzmq by a socket that is  *)
(* busy or closed, whatever frames were on the stack when it became so.    *)
THEOREM PumpStill == Spec => StillUnlessReady
<1> DEFINE Quiet == inbox' >= inbox /\ (settled' = settled \/ failed' # failed)
<1>1. TypeInv /\ OutboxInv /\ [Next]_vars => [state # "ready" => Quiet]_vars
  <2> SUFFICES ASSUME TypeInv, OutboxInv, Next, state # "ready" PROVE Quiet
    OBVIOUS
  <2>1. /\ StackInv /\ FieldsOK /\ SendvInv
        /\ inbox \in Nat
        /\ settled \in Seq(Batch) /\ failed \subseteq DOMAIN settled
    BY TypeMeans DEF TypeInv, FieldsOK, NumbersOK, OutboxInv, OutboxType
  <2>2. CASE inbox' \in {inbox, inbox + 1} /\ UNCHANGED settled
    BY <2>1, <2>2
  <2>3. CASE Arrive \/ Drain \/ (\E ok \in BOOLEAN : WorkerRuns(ok)) \/ PollCallback \/ AfterWork
    BY <2>2, <2>3 DEF Arrive, Drain, WorkerRuns, PollCallback, AfterWork, zmqVars, outboxVars
  <2>4. CASE NotifySendReady \/ EmitBind \/ FlushReads \/ ReadNothing \/ FlushWrites
    BY <2>2, <2>4 DEF NotifySendReady, EmitBind, FlushReads, ReadNothing, FlushWrites, zmqVars,
                      outboxVars
  <2>5. CASE WriteNothing \/ SendvRefuses \/ SendvStarts \/ SendvAskFails \/ ZmqSendFails
             \/ SendvChecksInput \/ SendvCheckFails \/ SendvReturnsTrue \/ SendvReturnsFalse
             \/ SendFailed \/ Propagate
    BY <2>2, <2>5 DEF WriteNothing, SendvRefuses, SendvStarts, SendvAskFails, ZmqSendFails,
                      SendvChecksInput, SendvCheckFails, SendvReturnsTrue, SendvReturnsFalse,
                      SendFailed, Propagate, Fetch, Restore, zmqVars, outboxVars
  <2>6. CASE (\E more \in BOOLEAN : Send(more)) \/ SendNothing \/ Return \/ Throw \/ Pause \/ Resume
    BY <2>2, <2>6 DEF Send, SendNothing, AppendChunk, Return, Throw, Pause, Resume, zmqVars, outboxVars
  <2>7. CASE \/ Close \/ (\E kind \in {"bind", "unbind"} : StartWork(kind)) \/ ReadMessage
             \/ ReadFails \/ Read
    BY <2>7 DEF Close, StartWork, ReadMessage, ReadFails, Read
  <2>8. CASE ZmqSend
    BY <2>1, <2>8, WriteMoves DEF ZmqSend, SendvInv, WriterMoves, Moves
  <2>9. CASE SendvThrew
    <3>1. CASE hand # <<>>
      <4>1. Len(settled) + 1 \notin failed
        BY <2>1
      <4>2. failed' = failed \cup {Len(settled) + 1} /\ UNCHANGED inbox
        BY <2>9, <3>1 DEF SendvThrew, Discard, zmqVars
      <4>3. QED
        BY <2>1, <4>1, <4>2
    <3>2. CASE hand = <<>>
      BY <2>2, <2>9, <3>2 DEF SendvThrew, zmqVars, outboxVars
    <3>3. QED
      BY <3>1, <3>2
  <2>10. QED
    BY <2>3, <2>4, <2>5, <2>6, <2>7, <2>8, <2>9 DEF Next, Step, AppCall
<1>2. QED
  BY <1>1, PumpOutbox, TypeInvariant, PTL DEF Spec, StillUnlessReady

-----------------------------------------------------------------------------
(* Callbacks are told that their batch was sent by _flushWrite, after sendv*)
(* has returned true: they run on top of the loop, and no other loop can   *)
(* send or drop a batch before they return.                                *)
SentFrames == {"sent", "sendvTrue", "onSent"}

SentInv == Calls \cap SentFrames # {} => settled # <<>> /\ Len(settled) \notin failed

LEMMA ToldByLoop ==
  ASSUME StackInv, "onSent" \in Calls
  PROVE  "writes" \in Calls
<1>1. stack \in Seq(Frames) /\ Above(stack, "onSent", "writes")
  BY StackInvMeans DEF StackInv, StackType, Writer
<1>2. PICK i \in 1 .. Len(stack) : stack[i] = "onSent"
  BY DEF Calls, On
<1>3. i > 1 /\ stack[i - 1] = "writes" /\ Len(stack) \in Nat
  BY <1>1, <1>2 DEF Above
<1>4. i - 1 \in 1 .. Len(stack)
  BY <1>2, <1>3
<1>5. QED
  BY <1>3, <1>4 DEF Calls, On

LEMMA SentStep ==
  ASSUME StackInv, SentInv, OutboxInv, [Next]_vars
  PROVE  SentInv' /\ ("onSent" \in Calls => UNCHANGED settled)
<1>1. /\ {"writes", "sendv", "sent", "sendvTrue", "sendvFalse", "sendvThrew", "failing"}
           = WriteFrames
      /\ "onSent" \notin WriteFrames
      /\ {"onBind", "onMessage", "onReadError", "onSendError", "onWriteError"}
           = AppFrames \ {"onSent"}
  BY DEF WriteFrames, AppFrames
<1>2. CASE /\ Calls \cap SentFrames = {} => Calls' \cap SentFrames = {}
           /\ UNCHANGED <<settled, failed>>
  BY <1>2 DEF SentInv
<1>3. CASE /\ Calls' \subseteq Calls \cup (Frames \ SentFrames)
           /\ UNCHANGED <<settled, failed>>
  BY <1>2, <1>3
<1>4. {"pollout", "flushReads", "flushWrites", "emitBind", "onBind", "onMessage", "onReadError",
       "onSendError", "onWriteError", "reads", "exception", "writes", "sendv", "sendvFalse",
       "sendvThrew", "failing"} \subseteq Frames \ SentFrames
  BY DEF Frames, AppFrames, WriteFrames, CallFrames, SentFrames
<1>5. CASE Arrive \/ Drain \/ (\E ok \in BOOLEAN : WorkerRuns(ok)) \/ Pause \/ Read \/ Close
           \/ (\E kind \in {"bind", "unbind"} : StartWork(kind)) \/ UNCHANGED vars
  <2>1. UNCHANGED <<stack, settled, failed>>
    BY <1>5 DEF Arrive, Drain, WorkerRuns, Pause, Read, Close, StartWork, vars, outboxVars
  <2>2. QED
    BY <1>3, <2>1, AppMoves
<1>6. CASE PollCallback \/ AfterWork
  <2>1. UNCHANGED <<settled, failed>> /\ Calls' \subseteq Frames \ SentFrames
    BY <1>4, <1>6, LoopMoves DEF PollCallback, AfterWork, outboxVars
  <2>2. QED
    BY <1>3, <2>1
<1>7. CASE NotifySendReady \/ EmitBind \/ FlushReads \/ ReadMessage \/ ReadFails \/ ReadNothing
           \/ FlushWrites
  <2>1. UNCHANGED <<settled, failed>>
    BY <1>7 DEF NotifySendReady, EmitBind, FlushReads, ReadMessage, ReadFails, ReadNothing,
                FlushWrites, outboxVars
  <2>2. Calls' \subseteq Calls \cup {"flushWrites", "onBind", "reads", "onMessage", "onReadError",
                                     "exception", "writes"}
    BY <1>7, ReadMoves DEF Moves
  <2>3. QED
    BY <1>3, <1>4, <2>1, <2>2
<1>8. CASE WriteNothing \/ SendvRefuses \/ SendvStarts \/ SendvAskFails \/ ZmqSendFails
           \/ SendvCheckFails \/ SendvReturnsFalse \/ SendFailed
  <2>1. UNCHANGED <<settled, failed>>
    BY <1>8 DEF WriteNothing, SendvRefuses, SendvStarts, SendvAskFails, ZmqSendFails,
                SendvCheckFails, SendvReturnsFalse, SendFailed, Fetch, Restore, outboxVars
  <2>2. Calls' \subseteq Calls \cup {"sendv", "sendvFalse", "flushReads", "sendvThrew"}
    BY <1>8, WriteMoves DEF WriterMoves, Moves
  <2>3. QED
    BY <1>3, <1>4, <2>1, <2>2
<1>9. CASE SendvChecksInput \/ SendvReturnsTrue
  <2>1. UNCHANGED <<settled, failed>>
    BY <1>9 DEF SendvChecksInput, SendvReturnsTrue, outboxVars
  <2>2. Calls \cap SentFrames # {}
    BY <1>9, WriteMoves DEF WriterMoves, Moves, SentFrames
  <2>3. QED
    BY <1>2, <2>1, <2>2
<1>10. ASSUME NEW f \in WriteFrames \ {"writes"}, NEW new, WriterMoves({f}, new)
       PROVE  "onSent" \notin Calls
  <2>1. "writes" \notin Calls
    BY <1>1, <1>10 DEF WriterMoves, Moves
  <2>2. QED
    BY <2>1, ToldByLoop
<1>11. settled \in Seq(Batch) /\ failed \subseteq DOMAIN settled /\ hand \in Seq(Batch) /\ Len(hand) <= 1
  BY DEF OutboxInv, OutboxType
<1>12. CASE ZmqSend
  <2>1. "onSent" \notin Calls
    BY <1>1, <1>10, <1>12, WriteMoves
  <2>2. hand # <<>> /\ settled' = settled \o hand /\ UNCHANGED failed
    BY <1>12 DEF ZmqSend, Settle
  <2>3. Len(hand) = 1
    BY <1>11, <2>2, AtMostOne
  <2>4. settled' \in Seq(Batch) /\ Len(settled') = Len(settled) + 1
    BY <1>11, <2>2, <2>3, ConcatProperties
  <2>5. Len(settled') \notin failed'
    BY <1>11, <2>2, <2>4
  <2>6. settled' # <<>>
    BY <1>11, <2>4
  <2>7. QED
    BY <2>1, <2>5, <2>6 DEF SentInv
<1>13. CASE SendvThrew
  <2>1. "onSent" \notin Calls
    BY <1>1, <1>10, <1>13, WriteMoves
  <2>2. Calls \cap SentFrames = {}
    BY <1>1, <1>13, <2>1, WriteMoves DEF WriterMoves, Moves, SentFrames
  <2>3. Calls' \subseteq Calls \cup {"failing", "onSendError", "exception"}
    BY <1>13, WriteMoves DEF WriterMoves, Moves
  <2>4. QED
    BY <1>4, <2>1, <2>2, <2>3 DEF SentInv
<1>14. CASE (\E more \in BOOLEAN : Send(more)) \/ SendNothing \/ Resume \/ Return
  <2>1. UNCHANGED <<settled, failed>>
    BY <1>14 DEF Send, SendNothing, Resume, Return, AppendChunk, outboxVars
  <2>2. Calls' \subseteq Calls \cup {"flushWrites", "flushReads"}
    BY <1>14, AppMoves DEF Moves
  <2>3. QED
    BY <1>3, <1>4, <2>1, <2>2
<1>15. CASE Throw \/ Propagate
  <2>1. UNCHANGED <<settled, failed>>
    BY <1>15 DEF Throw, Propagate, outboxVars
  <2>2. Calls' \subseteq Calls \cup {"failing", "onSendError", "onReadError", "exception",
                                     "sendvThrew", "onWriteError"}
    BY <1>15, ThrowMoves, PropagateMoves DEF Moves, DeepMoves
  <2>3. QED
    BY <1>3, <1>4, <2>1, <2>2
<1>16. QED
  BY <1>5, <1>6, <1>7, <1>8, <1>9, <1>12, <1>13, <1>14, <1>15 DEF Next, Step, AppCall

LEMMA SentInvariant == Spec => []SentInv
<1>1. Init => SentInv
  <2> SUFFICES ASSUME Init PROVE SentInv
    OBVIOUS
  <2>1. Len(stack) = 0
    BY DEF Init
  <2>2. QED
    BY <2>1 DEF SentInv, Calls, On
<1>2. StackInv /\ OutboxInv /\ SentInv /\ [Next]_vars => SentInv'
  BY SentStep
<1>3. QED
  BY <1>1, <1>2, StackInvariant, PumpOutbox, PTL DEF Spec

(* Callbacks are told that a batch was sent only while it is the last one  *)
(* that left the queue and libzmq has it; no other batch is sent or dropped*)
(* until they return, whatever they call.                                  *)
THEOREM PumpSentTold == Spec => SentToldTruly
<1> DEFINE Truly == settled' = settled /\ settled # <<>> /\ Len(settled) \notin failed
<1>1. StackInv /\ OutboxInv /\ SentInv /\ [Next]_vars => [Active({"onSent"}) # {} => Truly]_vars
  <2> SUFFICES ASSUME StackInv, OutboxInv, SentInv, [Next]_vars, Active({"onSent"}) # {}
               PROVE  Truly
    OBVIOUS
  <2>1. DOMAIN stack = 1 .. Len(stack)
    BY DEF StackInv, StackType
  <2>2. "onSent" \in Calls
    BY <2>1 DEF Active, Calls, On
  <2>3. QED
    BY <2>2, SentStep DEF SentInv, SentFrames
<1>2. QED
  BY <1>1, StackInvariant, PumpOutbox, SentInvariant, PTL DEF Spec, SentToldTruly

-----------------------------------------------------------------------------
(* Reading.  The socket is deaf when the event loop will not be told of a  *)
(* message that is there or comes next.  While it is, one of the functions *)
(* running will look for messages before the stack is empty.               *)
MayReceive == turn \in {"any", "reqRecv", "repRecv"}
Deaf == ~fd /\ MayReceive /\ (inbox > 0 \/ ~armed)

WillRead == Calls \cap {"reads", "flushReads", "sendv", "sent"} # {}
ReadHindered == readLapses \cap {"sendFailed", "workFailed", "threw"} # {}

FlagInv == isFlushingReads => "reads" \in Calls \/ "threw" \in readLapses
DeafInv == Deaf => state # "ready" \/ paused \/ ReadHindered \/ WillRead
ReadInv == FlagInv /\ DeafInv

LEMMA HearsAgain ==
  ASSUME FieldsOK, GetEvents, UNCHANGED <<turn, inbox>>, ~PollIn
  PROVE  ~Deaf'
<1>1. CASE MayReceive
  <2>1. ~(inbox > 0) /\ inbox \in Nat /\ turn \notin {"reqSend", "repSend"}
    BY <1>1 DEF MayReceive, PollIn, FieldsOK, NumbersOK
  <2>2. inbox = 0
    BY <2>1
  <2>3. armed' = TRUE
    BY <2>1, <2>2 DEF GetEvents
  <2>4. QED
    BY <2>1, <2>3 DEF Deaf
<1>2. CASE ~MayReceive
  BY <1>2 DEF Deaf, MayReceive
<1>3. QED
  BY <1>1, <1>2

(* The flag _isFlushingReads and the frame of its loop come and go         *)
(* together, unless an exception takes the frame away.                     *)
LEMMA FlagMoves ==
  ASSUME StackInv, FieldsOK, [Next]_vars
  PROVE  \/ isFlushingReads' = FALSE
         \/ /\ isFlushingReads \/ "reads" \in Calls'
            /\ "reads" \in Calls => "reads" \in Calls'
            /\ readLapses \subseteq readLapses'
         \/ Propagate
<1> DEFINE Together ==
      /\ isFlushingReads' \in {isFlushingReads, FALSE}
      /\ "reads" \in Calls => "reads" \in Calls'
      /\ readLapses \subseteq readLapses'
<1>1. CASE Together
  BY <1>1 DEF FieldsOK, FlagsOK
<1>2. CASE Arrive \/ Drain \/ (\E ok \in BOOLEAN : WorkerRuns(ok)) \/ Pause \/ Read \/ Close
           \/ (\E kind \in {"bind", "unbind"} : StartWork(kind)) \/ UNCHANGED vars
  <2>1. UNCHANGED <<stack, isFlushingReads, readLapses>>
    BY <1>2 DEF Arrive, Drain, WorkerRuns, Pause, Read, Close, StartWork, vars, loopVars, lapses
  <2>2. QED
    BY <1>1, <2>1, AppMoves
<1>3. CASE PollCallback \/ AfterWork
  <2>1. UNCHANGED isFlushingReads /\ readLapses \subseteq readLapses'
    BY <1>3 DEF PollCallback, AfterWork, loopVars, lapses, Lapse
  <2>2. QED
    BY <1>1, <1>3, <2>1, LoopMoves
<1>4. CASE NotifySendReady \/ EmitBind \/ ReadMessage \/ ReadFails \/ FlushWrites
  <2>1. UNCHANGED <<isFlushingReads, readLapses>>
    BY <1>4 DEF NotifySendReady, EmitBind, ReadMessage, ReadFails, FlushWrites, loopVars, lapses
  <2>2. QED
    BY <1>1, <1>4, <2>1, ReadMoves DEF Moves
<1>5. CASE FlushReads
  <2>1. UNCHANGED readLapses
    BY <1>5 DEF FlushReads, lapses
  <2>2. CASE paused \/ isFlushingReads
    BY <1>1, <1>5, <2>1, <2>2, ReadMoves DEF Moves, FlushReads
  <2>3. CASE ~(paused \/ isFlushingReads)
    BY <1>5, <2>3, ReadMoves DEF Moves, FlushReads, lapses
  <2>4. QED
    BY <2>2, <2>3
<1>6. CASE ReadNothing
  BY <1>6 DEF ReadNothing
<1>7. CASE WriteNothing \/ SendvRefuses \/ SendvStarts \/ SendvAskFails \/ ZmqSend \/ ZmqSendFails
           \/ SendvChecksInput \/ SendvCheckFails \/ SendvReturnsTrue \/ SendvReturnsFalse
           \/ SendvThrew \/ SendFailed
  <2>1. UNCHANGED isFlushingReads /\ readLapses \subseteq readLapses'
    BY <1>7 DEF WriteNothing, SendvRefuses, SendvStarts, SendvAskFails, ZmqSend, ZmqSendFails,
                SendvChecksInput, SendvCheckFails, SendvReturnsTrue, SendvReturnsFalse, SendvThrew,
                SendFailed, loopVars, lapses, Lapse
  <2>2. "reads" \in Calls => "reads" \in Calls'
    BY <1>7, WriteMoves DEF WriterMoves, Moves
  <2>3. QED
    BY <1>1, <2>1, <2>2
<1>8. CASE (\E more \in BOOLEAN : Send(more)) \/ SendNothing \/ Resume \/ Return
  <2>1. UNCHANGED <<isFlushingReads, readLapses>>
    BY <1>8 DEF Send, SendNothing, Resume, Return, loopVars, lapses
  <2>2. "reads" \in Calls => "reads" \in Calls'
    BY <1>8, AppMoves DEF Moves, AppFrames
  <2>3. QED
    BY <1>1, <2>1, <2>2
<1>9. CASE Throw
  <2>1. UNCHANGED <<isFlushingReads, readLapses>>
    BY <1>9 DEF Throw, loopVars, lapses, WriteLapse
  <2>2. "reads" \in Calls => "reads" \in Calls'
    BY <1>9, ThrowMoves DEF Moves, DeepMoves, AppFrames
  <2>3. QED
    BY <1>1, <2>1, <2>2
<1>10. QED
  BY <1>2, <1>3, <1>4, <1>5, <1>6, <1>7, <1>8, <1>9 DEF Next, Step, AppCall

LEMMA FlagStep ==
  ASSUME StackInv, FieldsOK, FlagInv, [Next]_vars
  PROVE  FlagInv'
<1>1. CASE Propagate
  <2>1. UNCHANGED isFlushingReads
    BY <1>1 DEF Propagate
  <2>2. \/ "threw" \in readLapses'
        \/ UNCHANGED readLapses /\ ("reads" \in Calls => "reads" \in Calls')
    BY <1>1, PropagateMoves DEF Moves, DeepMoves
  <2>3. QED
    BY <2>1, <2>2 DEF FlagInv
<1>2. CASE ~Propagate
  BY <1>2, FlagMoves DEF FlagInv
<1>3. QED
  BY <1>1, <1>2

LEMMA DeafStep ==
  ASSUME StackInv, FieldsOK, FlagInv, DeafInv, [Next]_vars
  PROVE  DeafInv'
<1> DEFINE Eager(S) == S \cap {"reads", "flushReads", "sendv", "sent"} # {}
<1>0. WillRead = Eager(Calls) /\ WillRead' = Eager(Calls')
  BY DEF WillRead
<1>1. CASE ~Deaf' \/ state' # "ready" \/ paused' \/ Eager(Calls')
  BY <1>0, <1>1 DEF DeafInv
<1>2. CASE readLapses' \cap {"sendFailed", "workFailed", "threw"} # {}
  BY <1>2 DEF DeafInv, ReadHindered
<1>3. CASE /\ Deaf' => Deaf
           /\ UNCHANGED <<state, paused>> /\ readLapses \subseteq readLapses'
           /\ Eager(Calls) => Eager(Calls')
  BY <1>0, <1>3 DEF DeafInv, ReadHindered
<1>4. CASE /\ UNCHANGED <<turn, inbox, armed, fd>>
           /\ UNCHANGED <<state, paused>> /\ readLapses \subseteq readLapses'
           /\ Eager(Calls) => Eager(Calls')
  BY <1>3, <1>4 DEF Deaf, MayReceive
<1>5. CASE Arrive
  <2>1. inbox \in Nat
    BY DEF FieldsOK, NumbersOK
  <2>2. Deaf' => Deaf
    BY <1>5, <2>1 DEF Arrive, Deaf, MayReceive
  <2>3. UNCHANGED <<state, paused, readLapses, stack>>
    BY <1>5 DEF Arrive, appVars, lapses
  <2>4. QED
    BY <1>3, <2>2, <2>3, AppMoves
<1>6. CASE Drain
  BY <1>1, <1>6 DEF Drain, Deaf
<1>7. CASE \E ok \in BOOLEAN : WorkerRuns(ok)
  <2>1. state = "busy" /\ state' = state
    BY <1>7 DEF WorkerRuns, FieldsOK, ModesOK
  <2>2. QED
    BY <1>1, <2>1
<1>8. CASE PollCallback
  <2>1. CASE PollIn
    BY <1>1, <1>8, <2>1, LoopMoves
  <2>2. CASE ~PollIn
    BY <1>1, <1>8, <2>2, HearsAgain DEF PollCallback
  <2>3. QED
    BY <2>1, <2>2
<1>9. CASE AfterWork
  <2>1. CASE work = "failed"
    BY <1>2, <1>9, <2>1 DEF AfterWork, Lapse
  <2>2. CASE work # "failed"
    BY <1>1, <1>9, <2>2, LoopMoves
  <2>3. QED
    BY <2>1, <2>2
<1>10. CASE NotifySendReady \/ EmitBind \/ FlushWrites
  <2>1. UNCHANGED <<turn, inbox, armed, fd, state, paused, readLapses>>
    BY <1>10 DEF NotifySendReady, EmitBind, FlushWrites, zmqVars, appVars, lapses
  <2>2. Eager(Calls) => Eager(Calls')
    BY <1>10, ReadMoves DEF Moves
  <2>3. QED
    BY <1>4, <2>1, <2>2
<1>11. CASE FlushReads
  <2>1. UNCHANGED <<paused, readLapses, isFlushingReads>> \/ isFlushingReads' # isFlushingReads
    BY <1>11 DEF FlushReads, appVars, lapses
  <2>2. CASE paused
    BY <1>1, <1>11, <2>2 DEF FlushReads, appVars
  <2>3. CASE ~paused /\ isFlushingReads /\ "threw" \in readLapses
    BY <1>2, <1>11, <2>3 DEF FlushReads, lapses
  <2>4. CASE ~paused /\ isFlushingReads /\ "reads" \in Calls
    BY <1>1, <1>11, <2>4, ReadMoves DEF Moves
  <2>5. CASE ~paused /\ ~isFlushingReads
    BY <1>1, <1>11, <2>5, ReadMoves DEF Moves
  <2>6. QED
    BY <2>2, <2>3, <2>4, <2>5 DEF FlagInv
<1>12. CASE ReadMessage \/ ReadFails
  BY <1>1, <1>12, ReadMoves
<1>13. CASE ReadNothing
  <2>1. CASE state = "ready"
    BY <1>1, <1>13, <2>1, HearsAgain DEF ReadNothing
  <2>2. CASE state # "ready"
    BY <1>1, <1>13, <2>2 DEF ReadNothing
  <2>3. QED
    BY <2>1, <2>2
<1>14. CASE WriteNothing \/ SendvReturnsTrue \/ SendvReturnsFalse \/ SendvThrew \/ SendFailed
  <2>1. UNCHANGED <<turn, inbox, armed, fd, state, paused, readLapses>>
    BY <1>14 DEF WriteNothing, SendvReturnsTrue, SendvReturnsFalse, SendvThrew, SendFailed, zmqVars,
                 appVars, lapses
  <2>2. Eager(Calls) => Eager(Calls')
    BY <1>14, WriteMoves DEF WriterMoves, Moves
  <2>3. QED
    BY <1>4, <2>1, <2>2
<1>15. CASE SendvRefuses
  <2>1. CASE state = "ready"
    BY <1>1, <1>15, <2>1, HearsAgain DEF SendvRefuses
  <2>2. CASE state # "ready"
    BY <1>1, <1>15, <2>2 DEF SendvRefuses
  <2>3. QED
    BY <2>1, <2>2
<1>16. CASE SendvStarts \/ ZmqSend
  BY <1>1, <1>16, WriteMoves DEF WriterMoves, Moves
<1>17. CASE SendvAskFails \/ ZmqSendFails \/ SendvCheckFails
  BY <1>2, <1>17 DEF SendvAskFails, ZmqSendFails, SendvCheckFails, Lapse
<1>18. CASE SendvChecksInput
  <2>1. CASE PollIn
    BY <1>1, <1>18, <2>1, WriteMoves DEF WriterMoves, Moves
  <2>2. CASE ~PollIn
    BY <1>1, <1>18, <2>2, HearsAgain DEF SendvChecksInput
  <2>3. QED
    BY <2>1, <2>2
<1>19. CASE (\E more \in BOOLEAN : Send(more)) \/ SendNothing \/ Return
  <2>1. UNCHANGED <<turn, inbox, armed, fd, state, paused, readLapses>>
    BY <1>19 DEF Send, SendNothing, Return, zmqVars, appVars, lapses
  <2>2. Eager(Calls) => Eager(Calls')
    BY <1>19, AppMoves DEF Moves, AppFrames
  <2>3. QED
    BY <1>4, <2>1, <2>2
<1>20. CASE Pause \/ Read
  BY <1>1, <1>20 DEF Pause, Read, appVars
<1>21. CASE Resume
  BY <1>1, <1>21, AppMoves
<1>22. CASE Close \/ \E kind \in {"bind", "unbind"} : StartWork(kind)
  BY <1>1, <1>22 DEF Close, StartWork
<1>23. CASE Throw
  <2>1. UNCHANGED <<turn, inbox, armed, fd, state, paused, readLapses>>
    BY <1>23 DEF Throw, zmqVars, appVars, lapses, WriteLapse
  <2>2. Eager(Calls) => Eager(Calls')
    BY <1>23, ThrowMoves DEF Moves, DeepMoves, AppFrames
  <2>3. QED
    BY <1>4, <2>1, <2>2
<1>24. CASE Propagate
  <2>1. UNCHANGED <<turn, inbox, armed, fd, state, paused>>
    BY <1>24 DEF Propagate, zmqVars, appVars
  <2>2. \/ "threw" \in readLapses'
        \/ UNCHANGED readLapses /\ (Eager(Calls) => Eager(Calls'))
    BY <1>24, PropagateMoves DEF Moves, DeepMoves
  <2>3. QED
    BY <1>2, <1>4, <2>1, <2>2
<1>25. CASE UNCHANGED vars
  BY <1>4, <1>25, AppMoves DEF vars, zmqVars, appVars, lapses
<1>26. QED
  BY <1>5, <1>6, <1>7, <1>8, <1>9, <1>10, <1>11, <1>12, <1>13, <1>14, <1>15, <1>16, <1>17, <1>18,
     <1>19, <1>20, <1>21, <1>22, <1>23, <1>24, <1>25
     DEF Next, Step, AppCall

LEMMA ReadInvariant == Spec => []ReadInv
<1>1. Init => ReadInv
  BY DEF Init, ReadInv, FlagInv, DeafInv, Deaf
<1>2. TypeInv /\ ReadInv /\ [Next]_vars => ReadInv'
  BY TypeMeans, FlagStep, DeafStep DEF TypeInv, ReadInv
<1>3. QED
  BY <1>1, <1>2, TypeInvariant, PTL DEF Spec

(* Messages that the socket may read are only forgotten after sendv has    *)
(* thrown, a bind or unbind has failed, or an exception has left a flush,  *)
(* whatever the application does and in whatever order: otherwise the event*)
(* loop will be told of them.                                              *)
THEOREM PumpLostReadExplained == Spec => []LostReadExplained
<1>1. TypeInv /\ ReadInv => LostReadExplained
  <2> SUFFICES ASSUME TypeInv, ReadInv, MayRead, ~fd PROVE ReadHindered
    BY DEF LostReadExplained, ReadHindered
  <2>1. Deaf
    BY DEF MayRead, PollIn, Deaf, MayReceive
  <2>2. ~WillRead
    BY LoopMoves DEF TypeInv, MayRead, WillRead
  <2>3. QED
    BY <2>1, <2>2 DEF ReadInv, DeafInv, MayRead
<1>2. QED
  BY <1>1, TypeInvariant, ReadInvariant, PTL

-----------------------------------------------------------------------------
(* Where listeners and callbacks do not throw and readv does not fail, the *)
(* loop of _flushReads is only ever left by its own end: no exception gets *)
(* to it, because what is right above it is the 'message' listener.        *)
OnlyListened(s) == \A i \in 1 .. Len(s) - 1 : s[i] = "reads" => s[i + 1] = "onMessage"

ReaderInv ==
  /\ OnlyListened(stack)
  /\ isFlushingReads => "reads" \in Calls

LEMMA ListenedKept ==
  ASSUME NEW s \in Seq(Frames), NEW u, NEW k, NEW t \in Seq(Frames), Shape(u, s, k, t),
         OnlyListened(s),
         k < Len(s) => s[k + 1] # "onMessage",
         k = Len(s) /\ k > 0 => s[k] # "reads" \/ t = <<"onMessage">>,
         \A i \in 1 .. Len(t) - 1 : t[i] # "reads"
  PROVE  OnlyListened(u)
<1>1. k \in Nat /\ Len(s) \in Nat /\ Len(t) \in Nat /\ k <= Len(s) /\ Len(u) = k + Len(t)
  BY DEF Shape
<1>2. ASSUME NEW i \in 1 .. Len(u) - 1, u[i] = "reads"
      PROVE  u[i + 1] = "onMessage"
  <2>1. CASE i + 1 <= k
    <3>1. i \in 1 .. k /\ i + 1 \in 1 .. k /\ i \in 1 .. Len(s) - 1
      BY <1>1, <2>1
    <3>2. u[i] = s[i] /\ u[i + 1] = s[i + 1]
      BY <3>1 DEF Shape
    <3>3. QED
      BY <1>2, <3>1, <3>2 DEF OnlyListened
  <2>2. CASE i = k
    <3>1. k \in 1 .. k /\ 1 \in 1 .. Len(t) /\ k > 0
      BY <1>1, <1>2, <2>2
    <3>2. u[k] = s[k] /\ u[k + 1] = t[1]
      BY <3>1 DEF Shape
    <3>3. CASE k < Len(s)
      <4>1. k \in 1 .. Len(s) - 1
        BY <1>1, <3>1, <3>3
      <4>2. QED
        BY <1>2, <2>2, <3>2, <3>3, <4>1 DEF OnlyListened
    <3>4. CASE k = Len(s)
      BY <1>2, <2>2, <3>1, <3>2, <3>4
    <3>5. QED
      BY <1>1, <3>3, <3>4
  <2>3. CASE i > k
    <3> DEFINE j == i - k
    <3>1. j \in 1 .. Len(t) /\ j \in 1 .. Len(t) - 1 /\ k + j = i
      BY <1>1, <2>3
    <3>2. u[k + j] = t[j]
      BY <3>1 DEF Shape
    <3>3. t[j] # "reads"
      BY <3>1
    <3>4. QED
      BY <1>2, <3>1, <3>2, <3>3
  <2>4. QED
    BY <1>1, <2>1, <2>2, <2>3
<1>3. QED
  BY <1>2 DEF OnlyListened

(* The step ends or replaces the running frame, which is no listener.      *)
LEMMA ListenedTop ==
  ASSUME StackInv, OnlyListened(stack), NEW f, Running(f), f # "onMessage"
  PROVE  /\ Pop => OnlyListened(stack')
         /\ \A g \in Frames : Become(g) => OnlyListened(stack')
         /\ \A g \in Frames : stack' = Callers \o <<g>> => OnlyListened(stack')
         /\ \A g \in Frames \ {"reads"}, h \in Frames :
              stack' = Callers \o <<g, h>> => OnlyListened(stack')
<1> DEFINE n == Len(stack)
<1>1. /\ n \in Nat \ {0} /\ stack[n] = f /\ n - 1 + 1 = n
      /\ Shape(Callers, stack, n - 1, <<>>)
      /\ \A g \in Frames : Shape(Append(Callers, g), stack, n - 1, <<g>>)
      /\ \A t \in Seq(Frames) : Shape(Callers \o t, stack, n - 1, t)
  BY Top DEF StackInv
<1>2. ASSUME NEW t \in Seq(Frames), Shape(stack', stack, n - 1, t),
             \A i \in 1 .. Len(t) - 1 : t[i] # "reads"
      PROVE  OnlyListened(stack')
  <2>1. stack \in Seq(Frames) /\ n = Len(stack)
    BY DEF StackInv, StackType
  <2> HIDE DEF n
  <2>2. n - 1 # n
    BY <1>1
  <2>3. QED
    BY <1>1, <1>2, <2>1, <2>2, ListenedKept
<1>3. Pop => OnlyListened(stack')
  <2> DEFINE t == <<>>
  <2>1. t \in Seq(Frames) /\ Len(t) = 0
    BY SomeFrames
  <2>2. Pop => Shape(stack', stack, n - 1, t)
    BY <1>1 DEF Pop
  <2> HIDE DEF t
  <2>3. \A i \in 1 .. Len(t) - 1 : t[i] # "reads"
    BY <2>1
  <2>4. QED
    BY <1>2, <2>1, <2>2, <2>3
<1>4. ASSUME NEW g \in Frames, Shape(stack', stack, n - 1, <<g>>)
      PROVE  OnlyListened(stack')
  <2> DEFINE t == <<g>>
  <2>1. t \in Seq(Frames) /\ Len(t) = 1 /\ Shape(stack', stack, n - 1, t)
    BY <1>4, SomeFrames
  <2> HIDE DEF t
  <2>2. \A i \in 1 .. Len(t) - 1 : t[i] # "reads"
    BY <2>1
  <2>3. QED
    BY <1>2, <2>1, <2>2
<1>5. \A g \in Frames : Become(g) => OnlyListened(stack')
  BY <1>1, <1>4 DEF Become
<1>6. \A g \in Frames : stack' = Callers \o <<g>> => OnlyListened(stack')
  BY <1>1, <1>4, SomeFrames
<1>7. ASSUME NEW g \in Frames \ {"reads"}, NEW h \in Frames, stack' = Callers \o <<g, h>>
      PROVE  OnlyListened(stack')
  <2> DEFINE t == <<g, h>>
  <2>1. t \in Seq(Frames) /\ Len(t) = 2 /\ t[1] = g
    BY SomeFrames
  <2>2. Shape(stack', stack, n - 1, t)
    BY <1>1, <1>7, <2>1
  <2> HIDE DEF t
  <2>3. \A i \in 1 .. Len(t) - 1 : t[i] # "reads"
    BY <2>1
  <2>4. QED
    BY <1>2, <2>1, <2>2, <2>3
<1>8. QED
  BY <1>3, <1>5, <1>6, <1>7

(* The step only puts frames on top.                                       *)
LEMMA ListenedPush ==
  ASSUME StackInv, OnlyListened(stack), NEW t \in Seq(Frames), stack' = stack \o t,
         Running("reads") => t = <<"onMessage">>,
         \A i \in 1 .. Len(t) - 1 : t[i] # "reads"
  PROVE  OnlyListened(stack')
<1> DEFINE n == Len(stack)
<1>1. stack \in Seq(Frames) /\ n \in Nat /\ Shape(stack', stack, n, t)
  BY PushShape DEF StackInv, StackType
<1>2. n > 0 => stack[n] # "reads" \/ t = <<"onMessage">>
  BY <1>1 DEF Running, LastOf
<1>3. QED
  BY <1>1, <1>2, ListenedKept

(* Frames only leave.                                                      *)
LEMMA ListenedCut ==
  ASSUME NEW s \in Seq(Frames), NEW u, NEW k, Shape(u, s, k, <<>>), OnlyListened(s)
  PROVE  OnlyListened(u)
<1> DEFINE t == <<>>
<1>1. Len(t) = 0 /\ Shape(u, s, k, t)
  OBVIOUS
<1> HIDE DEF t
<1>2. /\ k \in Nat /\ Len(s) \in Nat /\ k <= Len(s) /\ Len(u) = k
      /\ \A i \in 1 .. k : u[i] = s[i]
  BY <1>1 DEF Shape
<1>3. ASSUME NEW i \in 1 .. Len(u) - 1
      PROVE  i \in 1 .. k /\ i + 1 \in 1 .. k /\ i \in 1 .. Len(s) - 1
  BY <1>2
<1>4. QED
  BY <1>2, <1>3 DEF OnlyListened

LEMMA ListenedStep ==
  ASSUME ~MayThrow, StackInv, OnlyListened(stack), [Next]_vars, [~ReadFails]_vars
  PROVE  OnlyListened(stack')
<1>1. StackType /\ stack \in Seq(Frames)
  BY DEF StackInv, StackType
<1>2. /\ WriteFrames \cup CallFrames \cup {"reads", "exception"} \subseteq Frames \ {"onMessage"}
      /\ {"onMessage", "onBind", "onSent", "onSendError", "onWriteError"} \subseteq Frames \ {"reads"}
      /\ "reads" \notin WriteFrames \cup CallFrames
      /\ {"pollout", "flushReads", "flushWrites", "emitBind"} \subseteq CallFrames
      /\ {"writes", "sendv", "sent", "sendvTrue", "sendvFalse", "sendvThrew", "failing"}
           \subseteq WriteFrames
  BY DEF Frames, AppFrames, WriteFrames, CallFrames
<1>3. ASSUME NEW f, Running(f)
      PROVE  Pop => OnlyListened(stack')
  BY <1>1, <1>3, Top, ListenedCut DEF Pop
<1>4. CASE Arrive \/ Drain \/ (\E ok \in BOOLEAN : WorkerRuns(ok)) \/ Pause \/ Read \/ Close
           \/ (\E kind \in {"bind", "unbind"} : StartWork(kind)) \/ UNCHANGED vars
  BY <1>4 DEF Arrive, Drain, WorkerRuns, Pause, Read, Close, StartWork, vars
<1>5. CASE PollCallback \/ AfterWork
  <2>1. "reads" \notin Calls'
    BY <1>5, LoopMoves
  <2>2. \A i \in 1 .. Len(stack') - 1 : i \in 1 .. Len(stack')
    <3>1. Len(stack') \in Nat
      BY StackInvNext DEF StackInv, StackType
    <3>2. QED
      BY <3>1
  <2>3. QED
    BY <2>1, <2>2 DEF OnlyListened, Calls, On
<1>6. CASE NotifySendReady \/ EmitBind \/ FlushReads \/ FlushWrites \/ ReadNothing
  BY <1>2, <1>6, ListenedTop DEF NotifySendReady, EmitBind, FlushReads, FlushWrites, ReadNothing
<1>7. CASE WriteNothing \/ SendvRefuses \/ SendvReturnsFalse \/ SendFailed \/ ZmqSend
           \/ SendvAskFails \/ ZmqSendFails \/ SendvCheckFails
  BY <1>2, <1>7, ListenedTop
     DEF WriteNothing, SendvRefuses, SendvReturnsFalse, SendFailed, ZmqSend, SendvAskFails,
         ZmqSendFails, SendvCheckFails
<1>8. CASE SendvStarts \/ SendvThrew
  BY <1>2, <1>8, ListenedTop DEF SendvStarts, SendvThrew
<1>9. CASE SendvChecksInput \/ SendvReturnsTrue
  <2>1. Callers \in Seq(Frames)
    BY <1>1, <1>9, Top DEF SendvChecksInput, SendvReturnsTrue, Shape
  <2>2. /\ Callers \o <<"sendvTrue">> \o <<"flushReads">> = Callers \o <<"sendvTrue", "flushReads">>
        /\ Callers \o <<"sendvTrue">> \o <<>> = Callers \o <<"sendvTrue">>
        /\ Callers \o <<"writes">> \o <<"onSent">> = Callers \o <<"writes", "onSent">>
        /\ Callers \o <<"writes">> \o <<>> = Callers \o <<"writes">>
    BY <2>1 DEF Frames
  <2>3. CASE SendvChecksInput
    <3>1. \/ stack' = Callers \o <<"sendvTrue">> \o <<"flushReads">>
          \/ stack' = Callers \o <<"sendvTrue">> \o <<>>
      BY <2>3 DEF SendvChecksInput
    <3>2. \/ stack' = Callers \o <<"sendvTrue", "flushReads">>
          \/ stack' = Callers \o <<"sendvTrue">>
      BY <2>2, <3>1
    <3>3. QED
      BY <1>2, <2>3, <3>2, ListenedTop DEF SendvChecksInput
  <2>4. CASE SendvReturnsTrue
    <3>1. \/ stack' = Callers \o <<"writes">> \o <<"onSent">>
          \/ stack' = Callers \o <<"writes">> \o <<>>
      BY <2>4 DEF SendvReturnsTrue
    <3>2. \/ stack' = Callers \o <<"writes", "onSent">>
          \/ stack' = Callers \o <<"writes">>
      BY <2>2, <3>1
    <3>3. QED
      BY <1>2, <2>4, <3>2, ListenedTop DEF SendvReturnsTrue
  <2>5. QED
    BY <1>9, <2>3, <2>4
<1>10. CASE ReadMessage \/ (\E more \in BOOLEAN : Send(more)) \/ SendNothing \/ Resume
  <2>1. (\E more \in BOOLEAN : Send(more)) \/ SendNothing \/ Resume => ~Running("reads")
    BY DEF Send, SendNothing, Resume, InApp, Running, Idle, AppFrames
  <2>2. ASSUME NEW g \in Frames, stack' = Append(stack, g), Running("reads") => g = "onMessage"
        PROVE  OnlyListened(stack')
    <3> DEFINE t == <<g>>
    <3>1. t \in Seq(Frames) /\ Len(t) = 1 /\ stack' = stack \o t
      BY <1>1, <2>2
    <3>2. Running("reads") => t = <<"onMessage">>
      BY <2>2
    <3> HIDE DEF t
    <3>3. \A i \in 1 .. Len(t) - 1 : t[i] # "reads"
      BY <3>1
    <3>4. QED
      BY <3>1, <3>2, <3>3, ListenedPush
  <2>3. CASE ReadMessage
    BY <1>2, <2>2, <2>3 DEF ReadMessage, Push
  <2>4. CASE (\E more \in BOOLEAN : Send(more)) \/ SendNothing
    BY <1>2, <2>1, <2>2, <2>4 DEF Send, SendNothing, Push
  <2>5. CASE Resume
    <3> DEFINE t == <<"flushWrites", "flushReads">>
    <3>1. t \in Seq(Frames) /\ Len(t) = 2 /\ t[1] # "reads" /\ stack' = stack \o t
      BY <1>2, <2>5, SomeFrames DEF Resume
    <3>2. ~Running("reads")
      BY <2>1, <2>5
    <3> HIDE DEF t
    <3>3. \A i \in 1 .. Len(t) - 1 : t[i] # "reads"
      BY <3>1
    <3>4. QED
      BY <3>1, <3>2, <3>3, ListenedPush
  <2>6. QED
    BY <1>10, <2>3, <2>4, <2>5
<1>11. CASE Return
  <2>1. PICK f \in AppFrames : Running(f)
    BY <1>11 DEF Return, Idle, InApp, Running
  <2>2. QED
    BY <1>3, <1>11, <2>1 DEF Return
<1>12. CASE Propagate
  <2> DEFINE below == SubSeq(stack, 1, Len(stack) - 2)
  <2>1. Running("exception")
    BY <1>12 DEF Propagate
  <2>2. \/ stack' = Callers
        \/ /\ Callers # <<>> /\ LastOf(Callers) # "onMessage"
           /\ \E g \in {"sendvThrew", "exception", "onWriteError"} : stack' = Append(below, g)
    BY <1>12 DEF Propagate
  <2>3. CASE stack' = Callers
    BY <1>3, <2>1, <2>3 DEF Pop
  <2>4. ASSUME Callers # <<>>, LastOf(Callers) # "onMessage",
               NEW g \in {"sendvThrew", "exception", "onWriteError"}, stack' = Append(below, g)
        PROVE  OnlyListened(stack')
    <3> DEFINE n == Len(stack)  t == <<g>>
    <3>1. /\ n \in Nat /\ n - 1 \in 1 .. n /\ n - 2 + 1 = n - 1 /\ n = Len(stack)
          /\ stack[n - 1] # "onMessage"
      BY <1>1, <2>1, <2>4, Second, Top
    <3>2. Shape(stack', stack, n - 2, t)
      BY <1>1, <1>2, <2>1, <2>4, Second
    <3>3. t \in Seq(Frames) /\ Len(t) = 1
      BY <1>2, SomeFrames
    <3> HIDE DEF n, t
    <3>4. n - 2 # n
      <4>1. \A m \in Nat : m - 2 # m
        OBVIOUS
      <4>2. QED
        BY <3>1, <4>1
    <3>5. \A i \in 1 .. Len(t) - 1 : t[i] # "reads"
      BY <3>3
    <3>6. QED
      BY <1>1, <3>1, <3>2, <3>3, <3>4, <3>5, ListenedKept
  <2>5. QED
    BY <2>2, <2>3, <2>4
<1>13. CASE Throw
  BY <1>13 DEF Throw
<1>14. QED
  BY <1>4, <1>5, <1>6, <1>7, <1>8, <1>9, <1>10, <1>11, <1>12, <1>13 DEF Next, Step, AppCall

LEMMA ReaderStep ==
  ASSUME ~MayThrow, StackInv, FieldsOK, ReaderInv, [Next]_vars, [~ReadFails]_vars
  PROVE  ReaderInv'
<1>1. OnlyListened(stack') /\ (isFlushingReads => "reads" \in Calls)
  BY ListenedStep DEF ReaderInv
<1>2. CASE Propagate
  <2> DEFINE below == SubSeq(stack, 1, Len(stack) - 2)
  <2>1. StackType /\ Running("exception") /\ UNCHANGED isFlushingReads
    BY <1>2 DEF Propagate, StackInv
  <2>2. Calls = Waiting \cup {"exception"}
    BY <2>1, OnTop
  <2>3. \/ stack' = Callers
        \/ /\ Callers # <<>>
           /\ \E g \in {"sendvThrew", "exception", "onWriteError"} : stack' = Append(below, g)
    BY <1>2 DEF Propagate
  <2>4. CASE stack' = Callers
    BY <1>1, <2>1, <2>2, <2>4, OnTop DEF ReaderInv
  <2>5. ASSUME Callers # <<>>, NEW g \in {"sendvThrew", "exception", "onWriteError"},
               stack' = Append(below, g)
        PROVE  ReaderInv'
    <3>1. LastOf(Callers) # "reads"
      <4> DEFINE n == Len(stack)
      <4>1. /\ n \in Nat /\ n - 1 \in 1 .. n /\ stack[n] = "exception"
            /\ LastOf(Callers) = stack[n - 1]
        BY <2>1, <2>5, Second, Top
      <4>2. n - 1 \in 1 .. n - 1 /\ n - 1 + 1 = n
        BY <4>1
      <4>3. stack[n - 1] = "reads" => stack[n - 1 + 1] = "onMessage"
        BY <4>2 DEF ReaderInv, OnlyListened
      <4>4. QED
        BY <4>1, <4>2, <4>3
    <3>2. g \in Frames
      BY <2>5 DEF Frames, AppFrames, WriteFrames
    <3>3. Calls = Deeper \cup {LastOf(Callers), "exception"} /\ Calls' = Deeper \cup {g}
      BY <2>1, <2>2, <2>5, <3>2, OnSecond
    <3>4. QED
      BY <1>1, <2>1, <3>1, <3>3 DEF ReaderInv
  <2>6. QED
    BY <2>3, <2>4, <2>5
<1>3. CASE ~Propagate
  BY <1>1, <1>3, FlagMoves DEF ReaderInv
<1>4. QED
  BY <1>2, <1>3

(* As long as no listener or callback of the application throws and readv  *)
(* does not fail (which throws if nobody listens for 'error'), reading is  *)
(* never blocked by its own flag, whatever else libzmq refuses and whatever*)
(* is called: _isFlushingReads is set only while a loop of _flushReads is  *)
(* there to reset it.                                                      *)
THEOREM PumpReaderNotBlocked ==
  ASSUME ~MayThrow
  PROVE  Spec /\ [][~ReadFails]_vars => []ReaderNotBlocked
<1>1. Init => ReaderInv
  <2> SUFFICES ASSUME Init PROVE ReaderInv
    OBVIOUS
  <2>1. Len(stack) = 0 /\ isFlushingReads = FALSE
    BY DEF Init
  <2>2. QED
    BY <2>1 DEF ReaderInv, OnlyListened
<1>2. TypeInv /\ ReaderInv /\ [Next]_vars /\ [~ReadFails]_vars => ReaderInv'
  BY TypeMeans, ReaderStep DEF TypeInv
<1>3. TypeInv /\ ReaderInv => ReaderNotBlocked
  <2> SUFFICES ASSUME TypeInv, "reads" \in Calls PROVE Active({"reads"}) # {}
    BY DEF ReaderInv, ReaderNotBlocked
  <2>1. DOMAIN stack = 1 .. Len(stack)
    BY DEF TypeInv, StackInv, StackType
  <2>2. QED
    BY <2>1 DEF Active, Calls, On
<1>4. QED
  BY <1>1, <1>2, <1>3, TypeInvariant, PTL DEF Spec

-----------------------------------------------------------------------------
(* Writing.  A complete message that libzmq would take is tried by one of  *)
(* the functions running, or the event loop will be told, or there is a    *)
(* lapse to explain it.                                                    *)
WillWrite ==
  Calls \cap {"pollout", "flushWrites", "reads", "writes", "sendv", "sent", "sendvTrue", "sendvFalse"}
    # {}

PendingInv == CanSend(outgoing) /\ ~pending => writeLapses # {}
FailingInv == Calls \cap {"sendvThrew", "failing"} # {} => writeLapses # {}
StuckInv ==
  CanSend(outgoing) /\ PollOut /\ ~fd
    => state # "ready" \/ paused \/ writeLapses # {} \/ WillWrite
WriteInv == PendingInv /\ FailingInv /\ StuckInv

LEMMA PendingStep ==
  ASSUME StackInv, PendingInv, [Next]_vars
  PROVE  PendingInv'
<1>1. CASE UNCHANGED <<outgoing, pending>> /\ writeLapses \subseteq writeLapses'
  BY <1>1 DEF PendingInv, CanSend
<1>2. CASE Arrive \/ Drain \/ (\E ok \in BOOLEAN : WorkerRuns(ok)) \/ PollCallback \/ AfterWork
           \/ NotifySendReady \/ EmitBind \/ FlushReads \/ ReadMessage \/ ReadFails \/ ReadNothing
           \/ FlushWrites
  BY <1>1, <1>2 DEF Arrive, Drain, WorkerRuns, PollCallback, AfterWork, NotifySendReady, EmitBind,
                    FlushReads, ReadMessage, ReadFails, ReadNothing, FlushWrites, outboxVars, lapses,
                    Lapse
<1>3. CASE ZmqSendFails \/ SendvChecksInput \/ SendvCheckFails \/ SendFailed \/ Propagate
  BY <1>1, <1>3 DEF ZmqSendFails, SendvChecksInput, SendvCheckFails, SendFailed, Propagate, outboxVars,
                    lapses, Lapse, WriteLapse
<1>4. CASE ZmqSend
  BY <1>1, <1>4 DEF ZmqSend, Settle, lapses
<1>5. CASE Pause \/ Resume \/ Read \/ Close \/ (\E kind \in {"bind", "unbind"} : StartWork(kind))
           \/ Return \/ UNCHANGED vars
  BY <1>1, <1>5 DEF Pause, Resume, Read, Close, StartWork, Return, vars, outboxVars, lapses
<1>6. CASE WriteNothing
  BY <1>6 DEF WriteNothing, PendingInv, CanSend, outboxVars
<1>7. CASE SendvRefuses
  <2>1. UNCHANGED <<outgoing, pending>>
    BY <1>7 DEF SendvRefuses, outboxVars
  <2>2. CASE state = "ready" /\ pending
    BY <2>1, <2>2 DEF PendingInv
  <2>3. CASE ~(state = "ready" /\ pending)
    BY <1>1, <1>7, <2>1, <2>3 DEF SendvRefuses
  <2>4. QED
    BY <2>2, <2>3
<1>8. CASE SendvStarts \/ SendvAskFails
  BY <1>8 DEF SendvStarts, SendvAskFails, Fetch, PendingInv, lapses, Lapse
<1>9. CASE SendvReturnsFalse
  BY <1>9 DEF SendvReturnsFalse, PendingInv
<1>10. CASE SendvReturnsTrue \/ Throw
  <2>1. pending' = CanSend(outgoing') \/ UNCHANGED <<outgoing, pending, writeLapses>>
    BY <1>10 DEF SendvReturnsTrue, Throw, outboxVars, lapses
  <2>2. QED
    BY <1>1, <2>1 DEF PendingInv
<1>11. CASE SendvThrew
  <2>1. UNCHANGED outgoing /\ pending' = CanSend(outgoing)
    BY <1>11 DEF SendvThrew, Discard, outboxVars
  <2>2. QED
    BY <2>1 DEF PendingInv
<1>12. CASE (\E more \in BOOLEAN : Send(more)) \/ SendNothing
  BY <1>12 DEF Send, SendNothing, PendingInv, CanSend, outboxVars
<1>13. QED
  BY <1>2, <1>3, <1>4, <1>5, <1>6, <1>7, <1>8, <1>9, <1>10, <1>11, <1>12 DEF Next, Step, AppCall

LEMMA FailingStep ==
  ASSUME StackInv, FailingInv, [Next]_vars
  PROVE  FailingInv'
<1>1. CASE writeLapses' # {} \/ Calls' \cap {"sendvThrew", "failing"} = {}
  BY <1>1 DEF FailingInv
<1>2. CASE writeLapses \subseteq writeLapses' /\ Calls' \subseteq Calls \cup (Frames \ {"sendvThrew", "failing"})
  BY <1>2 DEF FailingInv
<1>3. /\ {"pollout", "flushReads", "flushWrites", "emitBind", "onBind", "onMessage", "reads", "writes",
          "onReadError", "exception", "onWriteError"} \subseteq Frames \ {"sendvThrew", "failing"}
      /\ {"sendvThrew", "failing"} \subseteq WriteFrames
  BY DEF Frames, AppFrames, WriteFrames, CallFrames
<1>4. CASE Arrive \/ Drain \/ (\E ok \in BOOLEAN : WorkerRuns(ok)) \/ Pause \/ Read \/ Close
           \/ (\E kind \in {"bind", "unbind"} : StartWork(kind)) \/ UNCHANGED vars
  <2>1. UNCHANGED <<stack, writeLapses>>
    BY <1>4 DEF Arrive, Drain, WorkerRuns, Pause, Read, Close, StartWork, vars, lapses
  <2>2. QED
    BY <1>2, <2>1, AppMoves
<1>5. CASE PollCallback \/ AfterWork
  BY <1>1, <1>5, LoopMoves
<1>6. CASE NotifySendReady \/ EmitBind \/ FlushReads \/ ReadMessage \/ ReadFails \/ ReadNothing
           \/ FlushWrites
  <2>1. UNCHANGED writeLapses
    BY <1>6 DEF NotifySendReady, EmitBind, FlushReads, ReadMessage, ReadFails, ReadNothing,
                FlushWrites, lapses
  <2>2. Calls' \subseteq Calls \cup {"flushWrites", "onBind", "reads", "onMessage", "onReadError",
                                     "exception", "writes"}
    BY <1>6, ReadMoves DEF Moves
  <2>3. QED
    BY <1>2, <1>3, <2>1, <2>2
<1>7. CASE WriteNothing \/ SendvRefuses \/ SendvStarts \/ ZmqSend \/ SendvChecksInput
           \/ SendvReturnsTrue \/ SendvReturnsFalse \/ SendFailed
  BY <1>1, <1>3, <1>7, WriteMoves DEF WriterMoves, Moves
<1>8. CASE SendvAskFails \/ ZmqSendFails \/ SendvCheckFails
  BY <1>1, <1>8 DEF SendvAskFails, ZmqSendFails, SendvCheckFails, Lapse
<1>9. CASE SendvThrew
  <2>1. "sendvThrew" \in Calls /\ UNCHANGED writeLapses
    BY <1>9, WriteMoves DEF WriterMoves, Moves, SendvThrew, lapses
  <2>2. QED
    BY <1>1, <2>1 DEF FailingInv
<1>10. CASE (\E more \in BOOLEAN : Send(more)) \/ SendNothing \/ Resume \/ Return
  <2>1. UNCHANGED writeLapses
    BY <1>10 DEF Send, SendNothing, Resume, Return, lapses
  <2>2. Calls' \subseteq Calls \cup {"flushWrites", "flushReads"}
    BY <1>10, AppMoves DEF Moves
  <2>3. QED
    BY <1>2, <1>3, <2>1, <2>2
<1>11. CASE Throw
  <2>1. \/ writeLapses' # {}
        \/ UNCHANGED writeLapses /\ Calls' \subseteq Calls \cup {"onReadError", "exception"}
    BY <1>11, ThrowMoves DEF Moves
  <2>2. QED
    BY <1>1, <1>2, <1>3, <2>1
<1>12. CASE Propagate
  <2>1. \/ writeLapses' # {}
        \/ UNCHANGED writeLapses /\ Calls' \subseteq Calls \cup {"onWriteError", "exception"}
    BY <1>12, PropagateMoves DEF Moves, DeepMoves
  <2>2. QED
    BY <1>1, <1>2, <1>3, <2>1
<1>13. QED
  BY <1>4, <1>5, <1>6, <1>7, <1>8, <1>9, <1>10, <1>11, <1>12 DEF Next, Step, AppCall

LEMMA StuckStep ==
  ASSUME StackInv, FieldsOK, PendingInv, FailingInv, StuckInv, [Next]_vars
  PROVE  StuckInv'
<1> DEFINE Eager(S) ==
      S \cap {"pollout", "flushWrites", "reads", "writes", "sendv", "sent", "sendvTrue", "sendvFalse"}
        # {}
<1>0. WillWrite = Eager(Calls) /\ WillWrite' = Eager(Calls')
  BY DEF WillWrite
<1>1. CASE state' # "ready" \/ paused' \/ fd' \/ Eager(Calls') \/ writeLapses' # {}
  BY <1>0, <1>1 DEF StuckInv
<1>2. CASE /\ UNCHANGED <<outgoing, room, turn, state, paused>>
           /\ fd => fd'
           /\ writeLapses \subseteq writeLapses'
           /\ Eager(Calls) => Eager(Calls')
  BY <1>0, <1>2 DEF StuckInv, PollOut, HasRoom, CanSend
<1>3. CASE Arrive
  <2>1. UNCHANGED <<outgoing, room, turn, state, paused, writeLapses, stack>> /\ (fd => fd')
    BY <1>3 DEF Arrive, outboxVars, appVars, lapses
  <2>2. QED
    BY <1>2, <2>1, AppMoves
<1>4. CASE Drain
  BY <1>1, <1>4 DEF Drain
<1>5. CASE (\E ok \in BOOLEAN : WorkerRuns(ok))
  <2>1. state = "busy" /\ state' = state
    BY <1>5 DEF WorkerRuns, FieldsOK, ModesOK
  <2>2. QED
    BY <1>1, <2>1
<1>6. CASE PollCallback
  <2>1. UNCHANGED <<outgoing, room, turn, writeLapses>>
    BY <1>6 DEF PollCallback, outboxVars, lapses
  <2>2. CASE pending /\ PollOut
    BY <1>1, <1>6, <2>2, LoopMoves
  <2>3. CASE ~PollOut
    BY <2>1, <2>3 DEF StuckInv, PollOut, HasRoom
  <2>4. CASE ~pending
    BY <2>1, <2>4 DEF StuckInv, PendingInv, CanSend
  <2>5. QED
    BY <2>2, <2>3, <2>4
<1>7. CASE AfterWork
  <2>1. CASE work = "failed"
    BY <1>1, <1>7, <2>1 DEF AfterWork, Lapse
  <2>2. CASE work # "failed"
    BY <1>1, <1>7, <2>2, LoopMoves
  <2>3. QED
    BY <2>1, <2>2
<1>8. CASE NotifySendReady \/ ReadMessage \/ ReadFails \/ ReadNothing
  BY <1>1, <1>8, ReadMoves DEF Moves
<1>9. CASE EmitBind \/ FlushReads
  <2>1. UNCHANGED <<outgoing, room, turn, state, paused, writeLapses, fd>>
    BY <1>9 DEF EmitBind, FlushReads, zmqVars, outboxVars, appVars, lapses
  <2>2. Eager(Calls) => Eager(Calls')
    BY <1>9, ReadMoves DEF Moves
  <2>3. QED
    BY <1>2, <2>1, <2>2
<1>10. CASE FlushWrites
  <2>1. CASE paused
    BY <1>1, <1>10, <2>1 DEF FlushWrites, appVars
  <2>2. CASE ~paused /\ isFlushingWrites
    <3>1. Moves({"flushWrites"}, {}) /\ UNCHANGED writeLapses
      BY <1>10, <2>2, ReadMoves DEF FlushWrites, lapses
    <3>2. Calls \cap WriteFrames # {}
      <4>1. Writer(stack, isFlushingWrites, Holding)
        BY StackInvMeans
      <4>2. Has(stack, WriteFrames)
        BY <2>2, <4>1, Zenon DEF Writer
      <4>3. QED
        BY <4>2 DEF Has, Calls, On
    <3>3. PICK f \in WriteFrames : f \in Calls
      BY <3>2
    <3>4. f \in Calls'
      BY <3>1, <3>3 DEF Moves, WriteFrames
    <3>5. CASE f \in {"sendvThrew", "failing"}
      BY <1>1, <3>1, <3>3, <3>5 DEF FailingInv
    <3>6. CASE f \notin {"sendvThrew", "failing"}
      BY <1>1, <3>4, <3>6 DEF WriteFrames
    <3>7. QED
      BY <3>5, <3>6
  <2>3. CASE ~(paused \/ isFlushingWrites)
    BY <1>1, <1>10, <2>3, ReadMoves DEF Moves
  <2>4. QED
    BY <2>1, <2>2, <2>3
<1>11. CASE WriteNothing
  BY <1>11 DEF WriteNothing, StuckInv, CanSend, outboxVars
<1>12. CASE SendvRefuses
  <2>1. CASE state = "ready"
    <3>1. ~PollOut /\ UNCHANGED <<room, turn>>
      BY <1>12, <2>1 DEF SendvRefuses
    <3>2. QED
      BY <3>1 DEF StuckInv, PollOut, HasRoom
  <2>2. CASE state # "ready"
    BY <1>1, <1>12, <2>2 DEF SendvRefuses
  <2>3. QED
    BY <2>1, <2>2
<1>13. CASE SendvStarts \/ ZmqSend \/ SendvChecksInput \/ SendvReturnsTrue
  BY <1>1, <1>13, WriteMoves DEF WriterMoves, Moves
<1>14. CASE SendvAskFails \/ ZmqSendFails \/ SendvCheckFails
  BY <1>1, <1>14 DEF SendvAskFails, ZmqSendFails, SendvCheckFails, Lapse
<1>15. CASE SendvReturnsFalse
  <2>1. UNCHANGED <<room, turn>>
    BY <1>15 DEF SendvReturnsFalse, zmqVars
  <2>2. CASE PollOut
    BY <1>1, <1>15, <2>2 DEF SendvReturnsFalse
  <2>3. CASE ~PollOut
    BY <2>1, <2>3 DEF StuckInv, PollOut, HasRoom
  <2>4. QED
    BY <2>2, <2>3
<1>16. CASE SendvThrew \/ SendFailed
  <2>1. Calls \cap {"sendvThrew", "failing"} # {} /\ UNCHANGED writeLapses
    BY <1>16, WriteMoves DEF WriterMoves, Moves, SendvThrew, SendFailed, lapses
  <2>2. QED
    BY <1>1, <2>1 DEF FailingInv
<1>17. CASE (\E more \in BOOLEAN : Send(more)) \/ SendNothing
  <2>1. CASE CanSend(outgoing')
    BY <1>1, <1>17, <2>1, AppMoves DEF SendNothing, CanSend, outboxVars
  <2>2. CASE ~CanSend(outgoing')
    BY <2>2 DEF StuckInv
  <2>3. QED
    BY <2>1, <2>2
<1>18. CASE Pause \/ Read
  BY <1>1, <1>18 DEF Pause, Read, appVars
<1>19. CASE Resume
  BY <1>1, <1>19, AppMoves
<1>20. CASE Close \/ \E kind \in {"bind", "unbind"} : StartWork(kind)
  BY <1>1, <1>20 DEF Close, StartWork
<1>21. CASE Return
  <2>1. UNCHANGED <<outgoing, room, turn, state, paused, writeLapses, fd>>
    BY <1>21 DEF Return, zmqVars, outboxVars, appVars, lapses
  <2>2. Eager(Calls) => Eager(Calls')
    BY <1>21, AppMoves DEF Moves, AppFrames
  <2>3. QED
    BY <1>2, <2>1, <2>2
<1>22. CASE Throw
  <2>1. UNCHANGED <<outgoing, room, turn, state, paused, fd>>
    BY <1>22 DEF Throw, zmqVars, outboxVars, appVars
  <2>2. \/ writeLapses' # {}
        \/ UNCHANGED writeLapses /\ (Eager(Calls) => Eager(Calls'))
    BY <1>22, ThrowMoves DEF Moves, AppFrames
  <2>3. QED
    BY <1>1, <1>2, <2>1, <2>2
<1>23. CASE Propagate
  <2>1. UNCHANGED <<outgoing, room, turn, state, paused, fd>>
    BY <1>23 DEF Propagate, zmqVars, outboxVars, appVars
  <2>2. \/ writeLapses' # {}
        \/ UNCHANGED writeLapses /\ (Eager(Calls) => Eager(Calls'))
    BY <1>23, PropagateMoves DEF Moves, DeepMoves
  <2>3. QED
    BY <1>1, <1>2, <2>1, <2>2
<1>24. CASE UNCHANGED vars
  BY <1>2, <1>24, AppMoves DEF vars, zmqVars, outboxVars, appVars, lapses
<1>25. QED
  BY <1>3, <1>4, <1>5, <1>6, <1>7, <1>8, <1>9, <1>10, <1>11, <1>12, <1>13, <1>14, <1>15, <1>16, <1>17,
     <1>18, <1>19, <1>20, <1>21, <1>22, <1>23, <1>24
     DEF Next, Step, AppCall

LEMMA WriteInvariant == Spec => []WriteInv
<1>1. Init => WriteInv
  <2> SUFFICES ASSUME Init PROVE WriteInv
    OBVIOUS
  <2>1. outgoing = <<>> /\ Calls = {}
    BY OnFew DEF Init, OutboxInit, Calls
  <2>2. QED
    BY <2>1 DEF WriteInv, PendingInv, FailingInv, StuckInv, CanSend
<1>2. TypeInv /\ WriteInv /\ [Next]_vars => WriteInv'
  BY TypeMeans, PendingStep, FailingStep, StuckStep DEF TypeInv, WriteInv
<1>3. QED
  BY <1>1, <1>2, TypeInvariant, PTL DEF Spec

(* A complete message that libzmq would take only stays in the queue       *)
(* unnoticed after one of the lapses that the code allows, whatever the    *)
(* application does: otherwise the event loop will be told, and will try.  *)
THEOREM PumpStuckWriteExplained == Spec => []StuckWriteExplained
<1>1. TypeInv /\ WriteInv => StuckWriteExplained
  <2> SUFFICES ASSUME TypeInv, WriteInv, MayWrite, ~(fd /\ pending) PROVE writeLapses # {}
    BY DEF StuckWriteExplained
  <2>1. ~WillWrite
    BY LoopMoves DEF TypeInv, MayWrite, WillWrite
  <2>2. QED
    BY <2>1 DEF WriteInv, PendingInv, StuckInv, MayWrite
<1>2. QED
  BY <1>1, TypeInvariant, WriteInvariant, PTL

-----------------------------------------------------------------------------
(* An application that sends no parts and no empty array: every batch is   *)
(* complete from the start, and pending_ is set whenever one is queued or  *)
(* comes back.                                                             *)
AllClosed ==
  /\ \A i \in 1 .. Len(outgoing) : outgoing[i].isClosed
  /\ hand # <<>> => hand[1].isClosed

ComesBack == outgoing # <<>> \/ "sendvFalse" \in Calls
KeptInv == AllClosed /\ (ComesBack => pending)

LEMMA ClosedCanSend ==
  ASSUME NEW q \in Seq(Batch), \A i \in 1 .. Len(q) : q[i].isClosed
  PROVE  CanSend(q) <=> q # <<>>
<1>1. q # <<>> => 1 \in 1 .. Len(q) /\ Head(q) = q[1]
  OBVIOUS
<1>2. QED
  BY <1>1 DEF CanSend

(* send without ZMQ_SNDMORE, and what the loop does with the queue.        *)
LEMMA ClosedStep ==
  ASSUME OutboxType, AllClosed,
         AppendChunk(FALSE) \/ Fetch \/ Restore \/ Settle \/ Discard \/ UNCHANGED outboxVars
  PROVE  AllClosed'
<1>1. outgoing \in Seq(Batch) /\ hand \in Seq(Batch) /\ Len(hand) <= 1 /\ Len(outgoing) \in Nat
  BY DEF OutboxType
<1>2. hand # <<>> => Len(hand) = 1
  BY <1>1, EmptySeq, OneNat
<1>3. CASE AppendChunk(FALSE)
  <2> DEFINE b == NewBatch(Len(calls'), FALSE)
  <2>1. b.isClosed /\ UNCHANGED hand
    BY <1>3 DEF NewBatch, AppendChunk
  <2>2. outgoing = <<>> \/ LastOf(outgoing).isClosed
    <3>1. outgoing # <<>> => Len(outgoing) \in 1 .. Len(outgoing)
      BY <1>1, EmptySeq
    <3>2. QED
      BY <3>1 DEF AllClosed, LastOf
  <2>3. outgoing' = Append(outgoing, b)
    BY <1>3, <2>2 DEF AppendChunk, Appended
  <2> HIDE DEF b
  <2>4. /\ Len(outgoing') = Len(outgoing) + 1 /\ outgoing'[Len(outgoing) + 1] = b
        /\ \A i \in 1 .. Len(outgoing) : outgoing'[i] = outgoing[i]
    BY <1>1, <2>3
  <2>5. \A i \in 1 .. Len(outgoing') : i \in 1 .. Len(outgoing) \/ i = Len(outgoing) + 1
    BY <1>1, <2>4
  <2>6. QED
    BY <2>1, <2>4, <2>5 DEF AllClosed
<1>4. CASE Fetch
  <2>1. outgoing # <<>> /\ hand' = <<Head(outgoing)>> /\ outgoing' = Tail(outgoing)
    BY <1>4 DEF Fetch, CanSend
  <2>2. hand'[1] = outgoing[1] /\ 1 \in 1 .. Len(outgoing)
    BY <1>1, <2>1
  <2>3. /\ Len(outgoing') = Len(outgoing) - 1
        /\ \A i \in 1 .. Len(outgoing) - 1 : outgoing'[i] = outgoing[i + 1]
    BY <1>1, <2>1
  <2>4. \A i \in 1 .. Len(outgoing) - 1 : i + 1 \in 1 .. Len(outgoing)
    BY <1>1
  <2>5. QED
    BY <2>2, <2>3, <2>4 DEF AllClosed
<1>5. CASE Restore
  <2>1. hand # <<>> /\ hand' = <<>> /\ outgoing' = hand \o outgoing
    BY <1>5 DEF Restore
  <2>2. Len(hand) = 1 /\ hand[1].isClosed
    BY <1>2, <2>1 DEF AllClosed
  <2>3. /\ Len(outgoing') = 1 + Len(outgoing) /\ outgoing'[1] = hand[1]
        /\ \A i \in 1 .. Len(outgoing) : outgoing'[1 + i] = outgoing[i]
    <3>1. /\ Len(outgoing') = Len(hand) + Len(outgoing)
          /\ \A i \in 1 .. Len(hand) : outgoing'[i] = hand[i]
          /\ \A i \in 1 .. Len(outgoing) : outgoing'[Len(hand) + i] = outgoing[i]
      <4>1. \A i \in 1 .. Len(outgoing) : Len(hand) + i > Len(hand) /\ Len(hand) + i - Len(hand) = i
        BY <1>1
      <4>2. QED
        BY <1>1, <2>1, <4>1, ConcatProperties
    <3>2. QED
      BY <2>2, <3>1
  <2>4. ASSUME NEW i \in 1 .. Len(outgoing') PROVE i = 1 \/ (i - 1 \in 1 .. Len(outgoing) /\ i = 1 + (i - 1))
    BY <1>1, <2>3
  <2>5. QED
    BY <2>1, <2>2, <2>3, <2>4 DEF AllClosed
<1>6. CASE Settle \/ Discard
  BY <1>6 DEF Settle, Discard, AllClosed
<1>7. CASE UNCHANGED outboxVars
  BY <1>7 DEF outboxVars, AllClosed
<1>8. QED
  BY <1>3, <1>4, <1>5, <1>6, <1>7

LEMMA KeptStep ==
  ASSUME "sendmore" \notin Ops, "sendnone" \notin Ops, StackInv, FlagsOK, OutboxType, OutboxType',
         KeptInv, [Next]_vars
  PROVE  KeptInv'
<1>1. AllClosed'
  <2>1. ASSUME NEW more \in BOOLEAN, more => "sendmore" \in Ops, AppendChunk(more)
        PROVE  AppendChunk(FALSE)
    <3>1. more = FALSE
      BY <2>1
    <3>2. QED
      BY <2>1, <3>1
  <2>2. AppendChunk(FALSE) \/ Fetch \/ Restore \/ Settle \/ Discard \/ UNCHANGED outboxVars
    BY <2>1, QueueActions
  <2>3. QED
    BY <2>2, ClosedStep DEF KeptInv
<1>2. (CanSend(outgoing) <=> outgoing # <<>>) /\ (CanSend(outgoing') <=> outgoing' # <<>>)
  <2>1. outgoing \in Seq(Batch) /\ outgoing' \in Seq(Batch)
    BY DEF OutboxType
  <2>2. QED
    BY <1>1, <2>1, ClosedCanSend DEF KeptInv, AllClosed
<1>3. ComesBack => pending
  BY DEF KeptInv
<1>4. /\ WriteFrames \subseteq Frames /\ "sendvFalse" \in WriteFrames
      /\ \A f \in {"pollout", "flushReads", "flushWrites", "emitBind", "onBind", "onMessage", "reads",
                   "writes", "onReadError", "exception", "onWriteError", "onSent", "onSendError",
                   "sendv", "sent", "sendvTrue", "sendvThrew", "failing"} : f # "sendvFalse"
  BY DEF Frames, WriteFrames
<1>5. CASE /\ UNCHANGED <<outgoing, pending>>
           /\ "sendvFalse" \in Calls' => "sendvFalse" \in Calls
  BY <1>1, <1>3, <1>5 DEF KeptInv, ComesBack
<1>6. CASE pending' = CanSend(outgoing') /\ "sendvFalse" \notin Calls'
  BY <1>1, <1>2, <1>6 DEF KeptInv, ComesBack
<1>7. CASE pending' = TRUE
  BY <1>1, <1>7 DEF KeptInv
<1>8. CASE Arrive \/ Drain \/ (\E ok \in BOOLEAN : WorkerRuns(ok)) \/ Pause \/ Read \/ Close
           \/ (\E kind \in {"bind", "unbind"} : StartWork(kind)) \/ UNCHANGED vars
  <2>1. UNCHANGED <<stack, outgoing, pending>>
    BY <1>8 DEF Arrive, Drain, WorkerRuns, Pause, Read, Close, StartWork, vars, outboxVars
  <2>2. QED
    BY <1>5, <2>1, AppMoves
<1>9. CASE PollCallback \/ AfterWork
  <2>1. UNCHANGED <<outgoing, pending>>
    BY <1>9 DEF PollCallback, AfterWork, outboxVars
  <2>2. "sendvFalse" \notin Calls'
    BY <1>4, <1>9, LoopMoves
  <2>3. QED
    BY <1>5, <2>1, <2>2
<1>10. CASE NotifySendReady \/ EmitBind \/ FlushReads \/ ReadMessage \/ ReadFails \/ ReadNothing
            \/ FlushWrites
  <2>1. UNCHANGED <<outgoing, pending>>
    BY <1>10 DEF NotifySendReady, EmitBind, FlushReads, ReadMessage, ReadFails, ReadNothing,
                 FlushWrites, outboxVars
  <2>2. Calls' \subseteq Calls \cup {"flushWrites", "onBind", "reads", "onMessage", "onReadError",
                                     "exception", "writes"}
    BY <1>10, ReadMoves DEF Moves
  <2>3. QED
    BY <1>4, <1>5, <2>1, <2>2
<1>11. CASE WriteNothing
  <2>1. outgoing' = outgoing /\ ~CanSend(outgoing) /\ pending' = FALSE
    BY <1>11 DEF WriteNothing, outboxVars
  <2>2. "sendvFalse" \notin Calls'
    BY <1>4, <1>11, WriteMoves DEF WriterMoves, Moves
  <2>3. QED
    BY <1>1, <1>2, <2>1, <2>2 DEF KeptInv, ComesBack
<1>12. CASE SendvRefuses \/ ZmqSend \/ ZmqSendFails \/ SendvChecksInput \/ SendvCheckFails
            \/ SendFailed
  <2>1. UNCHANGED <<outgoing, pending>>
    BY <1>12 DEF SendvRefuses, ZmqSend, ZmqSendFails, SendvChecksInput, SendvCheckFails, SendFailed,
                 Settle, outboxVars
  <2>2. Calls' \subseteq Calls \cup {"sent", "sendvThrew", "sendvTrue", "flushReads"}
    BY <1>12, WriteMoves DEF WriterMoves, Moves
  <2>3. QED
    BY <1>4, <1>5, <2>1, <2>2
<1>13. CASE SendvStarts \/ SendvAskFails
  <2>1. outgoing # <<>> /\ pending' = pending
    BY <1>13 DEF SendvStarts, SendvAskFails, Fetch, CanSend
  <2>2. pending = TRUE
    BY <1>3, <2>1 DEF ComesBack, FlagsOK
  <2>3. QED
    BY <1>7, <2>1, <2>2
<1>14. CASE SendvReturnsFalse
  <2>1. "sendvFalse" \in Calls /\ pending' = pending
    BY <1>14, WriteMoves DEF WriterMoves, Moves, SendvReturnsFalse
  <2>2. QED
    BY <1>1, <1>3, <2>1 DEF KeptInv, ComesBack
<1>15. CASE SendvReturnsTrue \/ SendvThrew
  <2>1. outgoing' = outgoing /\ pending' = CanSend(outgoing)
    BY <1>15 DEF SendvReturnsTrue, SendvThrew, Discard, outboxVars
  <2>2. "sendvFalse" \notin Calls'
    BY <1>4, <1>15, WriteMoves DEF WriterMoves, Moves
  <2>3. QED
    BY <1>6, <2>1, <2>2
<1>16. CASE \E more \in BOOLEAN : Send(more)
  <2>1. pending' = CanSend(outgoing') /\ outgoing' # <<>>
    <3>1. PICK more \in BOOLEAN : Send(more)
      BY <1>16
    <3>2. outgoing' = Appended(outgoing, Len(calls'), more) /\ pending' = CanSend(outgoing')
      BY <3>1 DEF Send, AppendChunk
    <3>3. outgoing \in Seq(Batch) /\ Len(calls') \in Nat
      BY DEF OutboxType
    <3>4. QED
      BY <3>2, <3>3, AppendedType
  <2>2. QED
    BY <1>1, <1>2, <2>1 DEF KeptInv
<1>17. CASE Resume \/ Return
  <2>1. UNCHANGED <<outgoing, pending>>
    BY <1>17 DEF Resume, Return, outboxVars
  <2>2. Calls' \subseteq Calls \cup {"flushWrites", "flushReads"}
    BY <1>17, AppMoves DEF Moves
  <2>3. QED
    BY <1>4, <1>5, <2>1, <2>2
<1>18. CASE Throw
  <2>1. UNCHANGED outgoing /\ (UNCHANGED pending \/ pending' = CanSend(outgoing))
    BY <1>18 DEF Throw, outboxVars
  <2>2. CASE Running("onSent")
    <3>1. pending' = CanSend(outgoing) /\ UNCHANGED outgoing
      BY <1>18, <2>2 DEF Throw, outboxVars
    <3>2. "sendvFalse" \notin Calls'
      BY <1>4, <1>18, <2>2, ThrowMoves DEF DeepMoves
    <3>3. QED
      BY <1>6, <3>1, <3>2
  <2>3. CASE ~Running("onSent")
    <3>1. UNCHANGED <<outgoing, pending>>
      BY <1>18, <2>3 DEF Throw, outboxVars
    <3>2. "sendvFalse" \in Calls' => "sendvFalse" \in Calls
      BY <1>4, <1>18, ThrowMoves DEF Moves, DeepMoves
    <3>3. QED
      BY <1>5, <3>1, <3>2
  <2>4. QED
    BY <2>2, <2>3
<1>19. CASE Propagate
  <2>1. UNCHANGED <<outgoing, pending>>
    BY <1>19 DEF Propagate, outboxVars
  <2>2. "sendvFalse" \in Calls' => "sendvFalse" \in Calls
    BY <1>4, <1>19, PropagateMoves DEF Moves, DeepMoves
  <2>3. QED
    BY <1>5, <2>1, <2>2
<1>20. ~SendNothing
  BY DEF SendNothing
<1>21. QED
  BY <1>8, <1>9, <1>10, <1>11, <1>12, <1>13, <1>14, <1>15, <1>16, <1>17, <1>18, <1>19, <1>20
     DEF Next, Step, AppCall

LEMMA KeptInvariant ==
  ASSUME "sendmore" \notin Ops, "sendnone" \notin Ops
  PROVE  Spec => []KeptInv
<1>1. Init => KeptInv
  <2> SUFFICES ASSUME Init PROVE KeptInv
    OBVIOUS
  <2>1. outgoing = <<>> /\ hand = <<>> /\ Len(outgoing) = 0 /\ Calls = {}
    BY OnFew DEF Init, OutboxInit, Calls
  <2>2. QED
    BY <2>1 DEF KeptInv, AllClosed, ComesBack
<1>2. TypeInv /\ OutboxInv /\ OutboxInv' /\ KeptInv /\ [Next]_vars => KeptInv'
  BY KeptStep, TypeMeans DEF TypeInv, FieldsOK, OutboxInv
<1>3. QED
  BY <1>1, <1>2, TypeInvariant, PumpOutbox, PTL DEF Spec

(* An application that sends neither parts of messages nor empty arrays    *)
(* never meets the finding about pending_: whatever fails and throws and   *)
(* however the loops are nested, while a complete message waits the poll   *)
(* callback looks for POLLOUT.                                             *)
THEOREM PumpPendingKept ==
  ASSUME "sendmore" \notin Ops, "sendnone" \notin Ops
  PROVE  Spec => []PendingKept
<1>1. KeptInv => PendingKept
  BY DEF KeptInv, ComesBack, PendingKept, CanSend
<1>2. QED
  BY <1>1, KeptInvariant, PTL

-----------------------------------------------------------------------------
(* Without exceptions and failures nothing hinders the reading loop.       *)
QuietInv ==
  /\ readLapses = {}
  /\ Calls \cap {"exception", "sendvThrew"} = {}
  /\ work # "failed"

LEMMA QuietStep ==
  ASSUME ~MayThrow, ~MayFail, StackInv, QuietInv, [Next]_vars
  PROVE  QuietInv'
<1>1. CASE /\ readLapses' \in {readLapses, {}} /\ work' = work
           /\ Calls' \subseteq Calls \cup (Frames \ {"exception", "sendvThrew"})
  BY <1>1 DEF QuietInv
<1>2. /\ {"pollout", "flushReads", "flushWrites", "emitBind", "onBind", "onMessage", "onSent", "reads",
          "writes", "sendv", "sent", "sendvTrue", "sendvFalse"} \subseteq Frames \ {"exception", "sendvThrew"}
  BY DEF Frames, AppFrames, WriteFrames, CallFrames
<1>3. CASE Arrive \/ Drain \/ Pause \/ Read \/ Close \/ UNCHANGED vars
  <2>1. UNCHANGED <<stack, readLapses, work>>
    BY <1>3 DEF Arrive, Drain, Pause, Read, Close, vars, lapses
  <2>2. QED
    BY <1>1, <2>1, AppMoves
<1>4. CASE (\E ok \in BOOLEAN : WorkerRuns(ok)) \/ \E kind \in {"bind", "unbind"} : StartWork(kind)
  <2>1. UNCHANGED <<stack, readLapses>> /\ work' # "failed"
    BY <1>4 DEF WorkerRuns, StartWork, lapses
  <2>2. QED
    BY <2>1, AppMoves DEF QuietInv
<1>5. CASE PollCallback \/ AfterWork
  <2>1. UNCHANGED readLapses /\ work' # "failed"
    BY <1>5 DEF PollCallback, AfterWork, lapses, QuietInv
  <2>2. Calls' \cap {"exception", "sendvThrew"} = {}
    BY <1>5, LoopMoves
  <2>3. QED
    BY <2>1, <2>2 DEF QuietInv
<1>6. CASE NotifySendReady \/ EmitBind \/ FlushReads \/ ReadMessage \/ ReadNothing \/ FlushWrites
  <2>1. readLapses' \in {readLapses, {}} /\ UNCHANGED work
    BY <1>6 DEF NotifySendReady, EmitBind, FlushReads, ReadMessage, ReadNothing, FlushWrites, lapses
  <2>2. Calls' \subseteq Calls \cup {"flushWrites", "onBind", "reads", "onMessage", "writes"}
    BY <1>6, ReadMoves DEF Moves
  <2>3. QED
    BY <1>1, <1>2, <2>1, <2>2
<1>7. CASE WriteNothing \/ SendvRefuses \/ SendvStarts \/ ZmqSend \/ SendvChecksInput
           \/ SendvReturnsTrue \/ SendvReturnsFalse \/ SendFailed
  <2>1. UNCHANGED <<readLapses, work>>
    BY <1>7 DEF WriteNothing, SendvRefuses, SendvStarts, ZmqSend, SendvChecksInput,
                SendvReturnsTrue, SendvReturnsFalse, SendFailed, lapses
  <2>2. Calls' \subseteq Calls \cup {"sendv", "sendvFalse", "flushReads", "sent", "sendvTrue", "writes",
                                     "onSent"}
    BY <1>7, WriteMoves DEF WriterMoves, Moves
  <2>3. QED
    BY <1>1, <1>2, <2>1, <2>2
<1>8. CASE ReadFails \/ SendvAskFails \/ ZmqSendFails \/ SendvCheckFails \/ Throw
  BY <1>8 DEF ReadFails, SendvAskFails, ZmqSendFails, SendvCheckFails, Throw
<1>9. CASE SendvThrew \/ Propagate
  <2>1. Calls \cap {"exception", "sendvThrew"} # {}
    BY <1>9, OnTop DEF SendvThrew, Propagate, StackInv
  <2>2. QED
    BY <2>1 DEF QuietInv
<1>10. CASE (\E more \in BOOLEAN : Send(more)) \/ SendNothing \/ Resume \/ Return
  <2>1. UNCHANGED <<readLapses, work>>
    BY <1>10 DEF Send, SendNothing, Resume, Return, lapses
  <2>2. Calls' \subseteq Calls \cup {"flushWrites", "flushReads"}
    BY <1>10, AppMoves DEF Moves
  <2>3. QED
    BY <1>1, <1>2, <2>1, <2>2
<1>11. QED
  BY <1>3, <1>4, <1>5, <1>6, <1>7, <1>8, <1>9, <1>10 DEF Next, Step, AppCall

LEMMA QuietInvariant ==
  ASSUME ~MayThrow, ~MayFail
  PROVE  Spec => []QuietInv
<1>1. Init => QuietInv
  BY OnFew DEF Init, QuietInv, Calls
<1>2. StackInv /\ QuietInv /\ [Next]_vars => QuietInv'
  BY QuietStep
<1>3. QED
  BY <1>1, <1>2, StackInvariant, PTL DEF Spec

(* Where nothing fails and nothing throws, messages that the socket may    *)
(* read are never forgotten, in whatever order they arrive, the loops call *)
(* each other and the application calls methods from its listeners.        *)
THEOREM PumpNoLostRead ==
  ASSUME ~MayThrow, ~MayFail
  PROVE  Spec => []NoLostRead
<1>1. QuietInv /\ LostReadExplained => NoLostRead
  BY DEF QuietInv, LostReadExplained, NoLostRead
<1>2. QED
  BY <1>1, QuietInvariant, PumpLostReadExplained, PTL

-----------------------------------------------------------------------------
(* Without exceptions and failures only sendv returning false can leave a  *)
(* complete message behind.                                                *)
LEMMA QuietWrites ==
  ASSUME ~MayThrow, ~MayFail, StackInv, QuietInv, [Next]_vars
  PROVE  writeLapses' \in {writeLapses, {}} \/ SendvReturnsFalse
<1>1. CASE Arrive \/ Drain \/ (\E ok \in BOOLEAN : WorkerRuns(ok)) \/ PollCallback
           \/ NotifySendReady \/ EmitBind \/ FlushReads \/ ReadMessage \/ ReadNothing \/ FlushWrites
  BY <1>1 DEF Arrive, Drain, WorkerRuns, PollCallback, NotifySendReady, EmitBind, FlushReads,
              ReadMessage, ReadNothing, FlushWrites, lapses
<1>2. CASE AfterWork
  BY <1>2 DEF AfterWork, QuietInv, lapses
<1>3. CASE WriteNothing \/ SendvRefuses \/ SendvStarts \/ ZmqSend \/ SendvChecksInput
           \/ SendvReturnsTrue \/ SendvThrew \/ SendFailed
  BY <1>3 DEF WriteNothing, SendvRefuses, SendvStarts, ZmqSend, SendvChecksInput, SendvReturnsTrue,
              SendvThrew, SendFailed, lapses
<1>4. CASE (\E more \in BOOLEAN : Send(more)) \/ SendNothing \/ Pause \/ Resume \/ Read \/ Close
           \/ (\E kind \in {"bind", "unbind"} : StartWork(kind)) \/ Return \/ UNCHANGED vars
  BY <1>4 DEF Send, SendNothing, Pause, Resume, Read, Close, StartWork, Return, vars, lapses
<1>5. ~(ReadFails \/ SendvAskFails \/ ZmqSendFails \/ SendvCheckFails \/ Throw)
  BY DEF ReadFails, SendvAskFails, ZmqSendFails, SendvCheckFails, Throw
<1>6. ~Propagate
  BY OnTop DEF Propagate, StackInv, QuietInv
<1>7. QED
  BY <1>1, <1>2, <1>3, <1>4, <1>5, <1>6 DEF Next, Step, AppCall

(* What is behind the finding about requests, stated of every socket.      *)
StuckOnlyStale == MayWrite /\ ~(fd /\ pending) => "stale" \in writeLapses

(* Where nothing fails, nothing throws and neither parts of messages nor   *)
(* empty arrays are sent, there is one way left to strand a complete       *)
(* message on a writable socket: sendv returned false although what it     *)
(* called had made the socket writable, as in the finding about requests.  *)
THEOREM PumpStuckOnlyStale ==
  ASSUME ~MayThrow, ~MayFail, "sendmore" \notin Ops, "sendnone" \notin Ops
  PROVE  Spec => []StuckOnlyStale
<1> DEFINE StaleInv == writeLapses \subseteq {"stale"}
<1>1. Init => StaleInv
  BY DEF Init
<1>2. StackInv /\ QuietInv /\ KeptInv /\ StaleInv /\ [Next]_vars => StaleInv'
  <2> SUFFICES ASSUME StackInv, QuietInv, KeptInv, StaleInv, [Next]_vars PROVE StaleInv'
    OBVIOUS
  <2>1. CASE SendvReturnsFalse
    <3>1. "sendvFalse" \in Calls
      BY <2>1, WriteMoves DEF WriterMoves, Moves
    <3>2. pending
      BY <3>1 DEF KeptInv, ComesBack
    <3>3. QED
      BY <2>1, <3>2 DEF SendvReturnsFalse
  <2>2. CASE writeLapses' \in {writeLapses, {}}
    BY <2>2
  <2>3. QED
    BY <2>1, <2>2, QuietWrites
<1>3. StaleInv /\ StuckWriteExplained => StuckOnlyStale
  BY DEF StuckWriteExplained, StuckOnlyStale
<1>4. QED
  BY <1>1, <1>2, <1>3, StackInvariant, QuietInvariant, KeptInvariant, PumpStuckWriteExplained, PTL
     DEF Spec

(* A socket to which nothing is sent, such as one of type push or pub.     *)
SendsOnly == inbox = 0 /\ "sendvFalse" \notin Calls /\ writeLapses = {}

LEMMA SendsOnlyStep ==
  ASSUME ~MayThrow, ~MayFail, MaxArrivals = 0, StackInv, FieldsOK, QuietInv, SendsOnly, [Next]_vars
  PROVE  SendsOnly'
<1>1. ~PollIn /\ inbox = 0 /\ arrivals \in Nat
  BY DEF PollIn, SendsOnly, FieldsOK, NumbersOK
<1>2. ~SendvReturnsFalse
  BY WriteMoves DEF WriterMoves, Moves, SendsOnly
<1>3. writeLapses' = {}
  BY <1>2, QuietWrites DEF SendsOnly
<1>4. CASE inbox' = inbox /\ "sendvFalse" \notin Calls'
  BY <1>3, <1>4 DEF SendsOnly
<1>5. \A f \in {"pollout", "flushReads", "flushWrites", "emitBind", "onBind", "onMessage", "reads",
                "writes", "onSent", "onSendError", "exception", "sendv", "sent", "sendvTrue",
                "sendvThrew", "failing"} : f # "sendvFalse"
  OBVIOUS
<1>6. ~Arrive /\ ~ReadMessage
  BY <1>1 DEF Arrive, ReadMessage
<1>7. CASE Drain \/ (\E ok \in BOOLEAN : WorkerRuns(ok)) \/ Pause \/ Read \/ Close
           \/ (\E kind \in {"bind", "unbind"} : StartWork(kind)) \/ UNCHANGED vars
  <2>1. UNCHANGED <<stack, inbox>>
    BY <1>1, <1>7 DEF Drain, WorkerRuns, Pause, Read, Close, StartWork, vars, zmqVars
  <2>2. QED
    BY <1>4, <2>1, AppMoves DEF SendsOnly
<1>8. CASE PollCallback \/ AfterWork
  <2>1. UNCHANGED inbox
    BY <1>8 DEF PollCallback, AfterWork, zmqVars
  <2>2. QED
    BY <1>4, <1>5, <1>8, <2>1, LoopMoves
<1>9. CASE NotifySendReady \/ EmitBind \/ FlushReads \/ ReadNothing \/ FlushWrites
  <2>1. UNCHANGED inbox
    BY <1>9 DEF NotifySendReady, EmitBind, FlushReads, ReadNothing, FlushWrites, zmqVars
  <2>2. Calls' \subseteq Calls \cup {"flushWrites", "onBind", "reads", "writes"}
    BY <1>9, ReadMoves DEF Moves
  <2>3. QED
    BY <1>4, <1>5, <2>1, <2>2 DEF SendsOnly
<1>10. CASE SendvStarts
  <2>1. UNCHANGED inbox /\ PollOut
    BY <1>1, <1>10 DEF SendvStarts
  <2>2. Calls' \subseteq Calls \cup {"sendv"}
    BY <1>10, <2>1, WriteMoves DEF WriterMoves, Moves
  <2>3. QED
    BY <1>4, <1>5, <2>1, <2>2 DEF SendsOnly
<1>11. CASE WriteNothing \/ SendvRefuses \/ ZmqSend \/ SendvChecksInput
            \/ SendvReturnsTrue \/ SendvThrew \/ SendFailed
  <2>1. UNCHANGED inbox
    BY <1>11 DEF WriteNothing, SendvRefuses, ZmqSend, SendvChecksInput, SendvReturnsTrue, SendvThrew,
                 SendFailed, zmqVars
  <2>2. Calls' \subseteq Calls \cup {"sent", "sendvTrue", "flushReads", "writes", "onSent", "failing",
                                     "onSendError", "exception"}
    BY <1>11, WriteMoves DEF WriterMoves, Moves
  <2>3. QED
    BY <1>4, <1>5, <2>1, <2>2 DEF SendsOnly
<1>12. CASE (\E more \in BOOLEAN : Send(more)) \/ SendNothing \/ Resume \/ Return
  <2>1. UNCHANGED inbox
    BY <1>12 DEF Send, SendNothing, Resume, Return, zmqVars
  <2>2. Calls' \subseteq Calls \cup {"flushWrites", "flushReads"}
    BY <1>12, AppMoves DEF Moves
  <2>3. QED
    BY <1>4, <1>5, <2>1, <2>2 DEF SendsOnly
<1>13. ~(ReadFails \/ SendvAskFails \/ ZmqSendFails \/ SendvCheckFails \/ Throw)
  BY DEF ReadFails, SendvAskFails, ZmqSendFails, SendvCheckFails, Throw
<1>14. ~Propagate
  BY OnTop DEF Propagate, StackInv, QuietInv
<1>15. QED
  BY <1>2, <1>6, <1>7, <1>8, <1>9, <1>10, <1>11, <1>12, <1>13, <1>14 DEF Next, Step, AppCall

(* A socket that only sends keeps the promise that requests break: where   *)
(* nothing fails and nothing throws, a complete message that libzmq would  *)
(* take is never forgotten, with parts or without, however callbacks and   *)
(* the poll callback nest the calls.                                       *)
THEOREM PumpNoStuckWrite ==
  ASSUME ~MayThrow, ~MayFail, MaxArrivals = 0
  PROVE  Spec => []NoStuckWrite
<1>1. Init => SendsOnly
  BY OnFew DEF Init, SendsOnly, Calls
<1>2. TypeInv /\ QuietInv /\ SendsOnly /\ [Next]_vars => SendsOnly'
  BY SendsOnlyStep, TypeMeans DEF TypeInv
<1>3. SendsOnly /\ StuckWriteExplained => NoStuckWrite
  BY DEF SendsOnly, StuckWriteExplained, NoStuckWrite
<1>4. QED
  BY <1>1, <1>2, <1>3, TypeInvariant, QuietInvariant, PumpStuckWriteExplained, PTL DEF Spec
=============================================================================
