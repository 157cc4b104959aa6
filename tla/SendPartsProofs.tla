--------------------------- MODULE SendPartsProofs ---------------------------
(***************************************************************************)
(* Theorems about SendParts, for any size and number of batches and any    *)
(* capacity of the pipe: see PartsInv for the invariant, and Promise for   *)
(* the queue of which sendv sends the batches.                             *)
(***************************************************************************)
EXTENDS SendParts, SequenceTheorems, TLAPS

(* The two halves of TypeOK.                                               *)
Flags == dropping \in BOOLEAN /\ vanished \in BOOLEAN /\ asksAlways \in BOOLEAN
Ranges ==
  /\ room \in {NoPipe} \cup 0 .. HWM
  /\ sizes \in Seq(1 .. MaxParts)
  /\ batch \in 1 .. Len(sizes) + 1
  /\ part \in 0 .. MaxParts /\ (part > 0 => Current /\ part < sizes[batch])
  /\ pc \in {"idle", "asked", "between"}
  /\ torn \cup away \subseteq 1 .. Len(sizes)
  /\ open \in Message /\ sent \in Seq(Message)

(* Where sendv is in the batch tells where it is in the code, and libzmq   *)
(* has the parts before, behind what failed batches have left, unless it   *)
(* drops the message; while it has an open message its pipe has room.      *)
OpenShape ==
  /\ pc = "idle" => part = 0
  /\ pc = "between" => part > 0
  /\ pc # "idle" => Current
  /\ part > 0 => Midway
  /\ dropping => open = <<>>
  /\ ~dropping => EndsWith(open, part, batch)
  /\ open # <<>> => room > 0

(* What was sent is of batches that are done with.                         *)
SentBefore ==
  \A k \in DOMAIN sent : \A i \in DOMAIN sent[k] : sent[k][i][1] < batch

(* POLLOUT stays true as long as the pipe is there.                        *)
AskedIsWritable == pc = "asked" /\ ~vanished => Writable

PartsInv == Flags /\ Ranges /\ OpenShape /\ WholeOrMerged /\ SentBefore /\ AskedIsWritable

(* A message stays what it is when more batches have failed.               *)
LEMMA EndsWithMore ==
  ASSUME NEW m, NEW n, NEW b, EndsWith(m, n, b), torn \subseteq torn'
  PROVE  EndsWith(m, n, b)'
BY DEF EndsWith

(* What a message holds besides parts of failed batches is of batch b.     *)
LEMMA EndsBefore ==
  ASSUME NEW m \in Message, NEW n \in Nat, NEW b \in Nat, EndsWith(m, n, b)
  PROVE  \A i \in DOMAIN m : /\ m[i][1] < b + 1
                             /\ m[i][1] \in torn \/ (m[i][1] = b /\ n > 0)
<1> TAKE i \in DOMAIN m
<1>1. Len(m) \in Nat /\ DOMAIN m = 1 .. Len(m) /\ m[i] \in Part
  BY DEF Message
<1>2. m[i][1] \in Nat
  BY <1>1 DEF Part
<1>3. CASE i \in 1 .. Len(m) - n
  <2>1. m[i][1] < b /\ m[i][1] \in torn
    BY <1>3 DEF EndsWith
  <2> QED
    BY <2>1, <1>2
<1>4. CASE i > Len(m) - n
  <2> DEFINE j == i - (Len(m) - n)
  <2>1. j \in 1 .. n /\ Len(m) - n + j = i
    BY <1>1, <1>4
  <2> HIDE DEF j
  <2>2. m[Len(m) - n + j] = <<b, j>>
    BY <2>1 DEF EndsWith
  <2> QED
    BY <2>1, <2>2
<1> QED
  BY <1>1, <1>3, <1>4

(* A message that ends with n parts of a batch ends with n + 1 of them when*)
(* the next one is appended.                                               *)
LEMMA EndsWithNext ==
  ASSUME NEW m \in Message, NEW n \in Nat, NEW b \in Nat, EndsWith(m, n, b)
  PROVE  /\ Append(m, <<b, n + 1>>) \in Message
         /\ EndsWith(Append(m, <<b, n + 1>>), n + 1, b)
<1> DEFINE a == Append(m, <<b, n + 1>>)
<1>0. <<b, n + 1>> \in Part
  BY DEF Part
<1>1. /\ a \in Message /\ Len(a) = Len(m) + 1
      /\ a[Len(m) + 1] = <<b, n + 1>>
      /\ \A i \in 1 .. Len(m) : a[i] = m[i]
  BY <1>0 DEF Message
<1>2. Len(m) \in Nat /\ Len(a) - (n + 1) = Len(m) - n
  BY <1>1 DEF Message
<1> HIDE DEF a
<1>3. \A i \in 1 .. n + 1 : a[Len(m) - n + i] = <<b, i>>
  <2> TAKE i \in 1 .. n + 1
  <2>1. CASE i = n + 1
    BY <2>1, <1>1, <1>2
  <2>2. CASE i \in 1 .. n
    <3>1. Len(m) - n + i \in 1 .. Len(m)
      BY <2>2, <1>2 DEF EndsWith
    <3>2. m[Len(m) - n + i] = <<b, i>>
      BY <2>2 DEF EndsWith
    <3> QED
      BY <3>1, <3>2, <1>1
  <2>3. i = n + 1 \/ i \in 1 .. n
    OBVIOUS
  <2> QED
    BY <2>1, <2>2, <2>3
<1>4. \A i \in 1 .. Len(m) - n : a[i] = m[i]
  BY <1>1, <1>2
<1>5. EndsWith(a, n + 1, b)
  BY <1>1, <1>2, <1>3, <1>4 DEF EndsWith
<1> QED
  BY <1>1, <1>5 DEF a

(* The invariant holds in the beginning.                                   *)
LEMMA PartsInit == Init => PartsInv
<1> SUFFICES ASSUME Init PROVE PartsInv
  OBVIOUS
<1> USE SendPartsAssumption
<1>1. Flags /\ Ranges
  <2>1. sizes \in Seq(1 .. MaxParts) /\ open \in Message /\ sent \in Seq(Message)
    BY DEF Init, Message
  <2>2. Len(sizes) = 0
    BY DEF Init
  <2>3. ~(part > 0) /\ part \in 0 .. MaxParts /\ room \in 0 .. HWM
    BY DEF Init
  <2>4. dropping \in BOOLEAN /\ vanished \in BOOLEAN /\ asksAlways \in BOOLEAN
    BY DEF Init
  <2>5. batch \in 1 .. Len(sizes) + 1 /\ torn \cup away \subseteq 1 .. Len(sizes)
    BY <2>2 DEF Init
  <2>6. pc \in {"idle", "asked", "between"}
    BY DEF Init
  <2> QED
    BY <2>1, <2>2, <2>3, <2>4, <2>5, <2>6 DEF Flags, Ranges
<1>2. OpenShape
  BY DEF Init, OpenShape, EndsWith, Midway, Current
<1>3. WholeOrMerged /\ SentBefore /\ AskedIsWritable
  BY DEF Init, WholeOrMerged, SentBefore, AskedIsWritable
<1> QED
  BY <1>1, <1>2, <1>3 DEF PartsInv

(* A step that changes nothing of what was sent, and no batch.             *)
LEMMA SentFrame ==
  ASSUME WholeOrMerged, SentBefore, UNCHANGED <<sent, sizes, batch, torn>>
  PROVE  WholeOrMerged' /\ SentBefore'
BY DEF WholeOrMerged, SentBefore, EndsWith

(* What was sent before is still what it was when the next batch begins.   *)
LEMMA SentNext ==
  ASSUME WholeOrMerged, SentBefore, sent \in Seq(Message), batch \in Nat,
         torn \subseteq torn', NEW k \in DOMAIN sent
  PROVE  /\ \E b \in 1 .. batch : EndsWith(sent[k], sizes[b], b)
         /\ \A i \in DOMAIN sent[k] : sent[k][i][1] < batch + 1
<1>1. PICK b \in 1 .. batch - 1 : EndsWith(sent[k], sizes[b], b)
  BY DEF WholeOrMerged
<1>2. b \in 1 .. batch
  BY <1>1
<1>3. ASSUME NEW i \in DOMAIN sent[k] PROVE sent[k][i][1] < batch + 1
  <2>1. sent[k] \in Message
    OBVIOUS
  <2>2. sent[k][i] \in Part
    BY <2>1 DEF Message
  <2>3. sent[k][i][1] \in Nat /\ sent[k][i][1] < batch
    BY <2>2 DEF Part, SentBefore
  <2> QED
    BY <2>3
<1> QED
  BY <1>1, <1>2, <1>3

(* The same of the state after the step.                                   *)
LEMMA SentNextWhole ==
  ASSUME WholeOrMerged, SentBefore, sent \in Seq(Message), batch \in Nat,
         torn \subseteq torn', UNCHANGED <<sent, sizes>>, batch' = batch + 1
  PROVE  WholeOrMerged' /\ SentBefore'
<1>1. ASSUME NEW k \in DOMAIN sent PROVE \E b \in 1 .. batch : EndsWith(sent[k], sizes[b], b)'
  <2>1. PICK b \in 1 .. batch : EndsWith(sent[k], sizes[b], b)
    BY SentNext
  <2>2. EndsWith(sent[k], sizes[b], b)'
    BY <2>1 DEF EndsWith
  <2> QED
    BY <2>2
<1>2. batch' - 1 = batch
  OBVIOUS
<1>3. WholeOrMerged'
  BY <1>1, <1>2 DEF WholeOrMerged
<1>4. SentBefore'
  BY SentNext DEF SentBefore
<1> QED
  BY <1>3, <1>4

(* A step that changes nothing of the open message, and no batch.          *)
LEMMA OpenFrame ==
  ASSUME UNCHANGED <<open, part, batch, torn>>
  PROVE  EndsWith(open, part, batch)' <=> EndsWith(open, part, batch)
BY DEF EndsWith

(* Flags stay flags.                                                       *)
LEMMA FlagsStep == Flags /\ [Next]_vars => Flags'
<1> SUFFICES ASSUME Flags, [Next]_vars PROVE Flags'
  OBVIOUS
<1>a. asksAlways' = asksAlways
  BY DEF Next, vars
<1>1. CASE Drain
  BY <1>1, <1>a DEF Drain, Flags
<1>2. CASE Connect
  BY <1>2, <1>a DEF Connect, Flags
<1>3. CASE Disconnect
  BY <1>3, <1>a DEF Disconnect, Midway, Flags
<1>4. CASE Ask
  BY <1>4, <1>a DEF Ask, pipeVars, Flags
<1>5. CASE SendMore
  BY <1>5, <1>a DEF SendMore, Flags
<1>6. CASE SendLast
  BY <1>6, <1>a DEF SendLast, Flags
<1>7. CASE Throw
  BY <1>7, <1>a DEF Throw, pipeVars, Flags
<1>8. ASSUME NEW n \in 1 .. MaxParts, Send(n) PROVE Flags'
  BY <1>8, <1>a DEF Send, pipeVars, Flags
<1>9. CASE UNCHANGED vars
  BY <1>9 DEF vars, pipeVars, Flags
<1> QED
  BY <1>1, <1>2, <1>3, <1>4, <1>5, <1>6, <1>7, <1>8, <1>9 DEF Next, Network, Sendv

(* Every step keeps it.                                                    *)
LEMMA PartsStep == PartsInv /\ [Next]_vars => PartsInv'
<1> SUFFICES ASSUME PartsInv, [Next]_vars PROVE PartsInv'
  OBVIOUS
<1>i. Ranges
  BY DEF PartsInv
<1>o. OpenShape
  BY DEF PartsInv
<1>w. WholeOrMerged
  BY DEF PartsInv
<1>b. SentBefore
  BY DEF PartsInv
<1>k. AskedIsWritable
  BY DEF PartsInv
<1>f. Flags'
  BY FlagsStep DEF PartsInv
<1>q. Ranges' /\ OpenShape' /\ WholeOrMerged' /\ SentBefore' /\ AskedIsWritable' => PartsInv'
  BY <1>f DEF PartsInv
<1> HIDE DEF PartsInv
<1> USE DEF NoPipe, Current, Midway, Writable, MaySend, IsLast, pipeVars
<1>t. /\ room \in {NoPipe} \cup 0 .. HWM /\ HWM \in Nat /\ part \in Nat /\ batch \in Nat \ {0}
      /\ open \in Message /\ sent \in Seq(Message)
      /\ sizes \in Seq(1 .. MaxParts) /\ Len(sizes) \in Nat
  BY <1>i, SendPartsAssumption DEF Ranges
<1>s. sizes \in Seq(1 .. MaxParts)
  BY <1>t
<1>1. CASE Drain
  <2>1. Ranges'
    BY <1>1, <1>t, <1>i, SendPartsAssumption DEF Drain, Ranges
  <2>2. OpenShape'
    BY <1>1, <1>t, <1>o, OpenFrame DEF Drain, OpenShape
  <2>3. WholeOrMerged' /\ SentBefore'
    BY <1>1, <1>w, <1>b, SentFrame DEF Drain
  <2>4. AskedIsWritable'
    BY <1>1, <1>t, <1>k DEF Drain, AskedIsWritable
  <2> QED
    BY <2>1, <2>2, <2>3, <2>4, <1>q
<1>2. CASE Connect
  <2>1. Ranges'
    BY <1>2, <1>t, <1>i, SendPartsAssumption DEF Connect, Ranges
  <2>2. OpenShape'
    BY <1>2, <1>t, <1>o DEF Connect, OpenShape, EndsWith
  <2>3. WholeOrMerged' /\ SentBefore'
    BY <1>2, <1>w, <1>b, SentFrame DEF Connect
  <2>4. AskedIsWritable'
    BY <1>2, <1>t, <1>k DEF Connect, AskedIsWritable
  <2> QED
    BY <2>1, <2>2, <2>3, <2>4, <1>q
<1>3. CASE Disconnect
  <2>1. Ranges'
    <3>1. room' = NoPipe /\ open' = <<>> /\ UNCHANGED <<sent, sizes, batch, part, pc, torn, away>>
      BY <1>3 DEF Disconnect
    <3>2. open' \in Message
      BY <3>1 DEF Message
    <3> QED
      BY <3>1, <3>2, <1>i DEF Ranges
  <2>2. OpenShape'
    <3>1. ~dropping' => ~dropping /\ open' = open
      BY <1>3 DEF Disconnect
    <3>2. ~dropping' => EndsWith(open, part, batch)'
      BY <3>1, <1>3, <1>o, OpenFrame DEF Disconnect, OpenShape
    <3>3. open' = <<>> /\ part' = part /\ pc' = pc /\ Current' = Current /\ dropping' = Midway
      BY <1>3 DEF Disconnect
    <3>4. part > 0 => dropping'
      BY <3>3, <1>o DEF OpenShape
    <3> QED
      BY <3>2, <3>3, <3>4, <1>o DEF OpenShape
  <2>3. WholeOrMerged' /\ SentBefore'
    BY <1>3, <1>w, <1>b, SentFrame DEF Disconnect
  <2>4. AskedIsWritable'
    BY <1>3, <1>k DEF Disconnect, AskedIsWritable
  <2> QED
    BY <2>1, <2>2, <2>3, <2>4, <1>q
<1>4. CASE Ask
  <2>1. Ranges'
    BY <1>4, <1>t, <1>i, SendPartsAssumption DEF Ask, MayAsk, Ranges
  <2>2. OpenShape'
    <3>1. ~Writable => part = 0
      BY <1>o, <1>t DEF OpenShape
    <3>2. /\ UNCHANGED <<room, open, dropping, sizes, batch, torn>> /\ Current /\ pc' # "between"
          /\ part' = part \/ (part' = 0 /\ part = 0)
          /\ pc' = "idle" => part' = 0
      <4>1. CASE Writable
        BY <4>1, <1>4 DEF Ask, MayAsk
      <4>2. CASE ~Writable
        BY <4>2, <3>1, <1>4 DEF Ask, MayAsk
      <4> QED
        BY <4>1, <4>2
    <3>3. EndsWith(open, part, batch)' <=> EndsWith(open, part, batch)
      BY <3>2, OpenFrame
    <3> QED
      BY <3>2, <3>3, <1>o DEF OpenShape
  <2>3. WholeOrMerged' /\ SentBefore'
    BY <1>4, <1>w, <1>b, SentFrame DEF Ask
  <2>4. AskedIsWritable'
    BY <1>4, <1>k DEF Ask, AskedIsWritable
  <2> QED
    BY <2>1, <2>2, <2>3, <2>4, <1>q
<1>5. CASE SendMore
  <2>1. /\ Current /\ sizes[batch] \in 1 .. MaxParts /\ MaxParts \in Nat
        /\ part + 1 < sizes[batch]
    BY <1>5, <1>t, <1>i, SendPartsAssumption, <1>o DEF SendMore, Ranges, OpenShape
  <2>2. ~dropping => /\ open' \in Message /\ open' # <<>>
                     /\ EndsWith(open', part + 1, batch)
    <3>1. SUFFICES ASSUME ~dropping
                   PROVE  /\ open' \in Message /\ open' # <<>>
                          /\ EndsWith(open', part + 1, batch)
      OBVIOUS
    <3>2. open' = Append(open, <<batch, part + 1>>) /\ EndsWith(open, part, batch)
      BY <3>1, <1>5, <1>o DEF SendMore, OpenShape
    <3>3. open' # <<>>
      BY <3>2, <1>t
    <3> QED
      BY <3>2, <3>3, EndsWithNext, <1>t
  <2>3. Ranges'
    <3>1. open' \in Message
      <4>1. CASE dropping
        BY <4>1, <1>5 DEF SendMore, Message
      <4> QED
        BY <4>1, <2>2
    <3>2. /\ UNCHANGED <<room, sizes, sent, batch, torn, away>>
          /\ part' = part + 1 /\ pc' = "between"
      BY <1>5 DEF SendMore
    <3> QED
      BY <3>1, <3>2, <2>1, <1>t, <1>i, SendPartsAssumption DEF Ranges
  <2>4. OpenShape'
    <3>1. torn' = torn /\ batch' = batch /\ part' = part + 1 /\ dropping' = dropping
      BY <1>5 DEF SendMore
    <3>2. ~dropping' => EndsWith(open, part, batch)'
      BY <3>1, <2>2 DEF EndsWith
    <3>3. open' # <<>> => room' > 0
      BY <1>5, <1>t, <1>o DEF SendMore, OpenShape
    <3> QED
      BY <2>1, <2>2, <3>1, <3>2, <3>3, <1>5, <1>t, <1>o DEF SendMore, OpenShape
  <2>5. WholeOrMerged' /\ SentBefore'
    BY <1>5, <1>w, <1>b, SentFrame DEF SendMore
  <2>6. AskedIsWritable'
    BY <1>5, <1>k DEF SendMore, AskedIsWritable
  <2> QED
    BY <2>3, <2>4, <2>5, <2>6, <1>q
<1>6. CASE SendLast
  <2>1. Current /\ part + 1 = sizes[batch] /\ sizes[batch] \in 1 .. MaxParts
    <3>1. Current /\ part + 1 = sizes[batch]
      BY <1>6, <1>o DEF SendLast, OpenShape
    <3>2. batch \in 1 .. Len(sizes)
      BY <3>1, <1>t
    <3>3. sizes[batch] \in 1 .. MaxParts
      BY <3>2, <1>s, ElementOfSeq, Zenon
    <3> QED
      BY <3>1, <3>3
  <2>u. /\ batch' = batch + 1 /\ part' = 0 /\ pc' = "idle" /\ sizes' = sizes /\ torn' = torn
        /\ open' = <<>>
    BY <1>6 DEF SendLast, Done
  <2> DEFINE m == Append(open, <<batch, part + 1>>)
  <2>e. open' \in Message /\ part' \in 0 .. MaxParts
    BY <2>u, SendPartsAssumption DEF Message
  <2>2. ASSUME dropping PROVE Ranges' /\ WholeOrMerged' /\ SentBefore'
    <3>1. sent' = sent /\ room' = room /\ away' = away \cup {batch}
      BY <1>6, <2>2 DEF SendLast
    <3>2. batch \in 1 .. Len(sizes) /\ batch' \in 1 .. Len(sizes) + 1
      BY <2>1, <2>u, <1>t
    <3>3. Ranges'
      BY <3>1, <3>2, <2>u, <2>e, <1>i DEF Ranges
    <3>4. WholeOrMerged' /\ SentBefore'
      BY <3>1, <2>u, <1>t, <1>w, <1>b, SentNextWhole
    <3> QED
      BY <3>3, <3>4
  <2>3. ASSUME ~dropping PROVE Ranges' /\ WholeOrMerged' /\ SentBefore'
    <3>1. m \in Message /\ EndsWith(m, sizes[batch], batch)
      BY EndsWithNext, <2>1, <2>3, <1>t, <1>o DEF OpenShape
    <3> HIDE DEF m
    <3>2. sent' = Append(sent, m) /\ room' = room - 1 /\ away' = away
      BY <1>6, <2>3 DEF SendLast, m
    <3>3. sent' \in Seq(Message) /\ Len(sent') = Len(sent) + 1
      BY <3>1, <3>2, <1>t
    <3>4. ASSUME NEW k \in DOMAIN sent'
          PROVE  (k \in DOMAIN sent /\ sent'[k] = sent[k]) \/ sent'[k] = m
      BY <3>1, <3>2, <1>t
    <3>5. room > 0
      BY <1>6, <2>3, <1>o DEF SendLast, OpenShape
    <3>6. Ranges'
      <4>1. batch' \in 1 .. Len(sizes) + 1 /\ room' \in {NoPipe} \cup 0 .. HWM
        BY <3>2, <3>5, <2>1, <2>u, <1>t
      <4> QED
        BY <4>1, <3>2, <3>3, <2>u, <2>e, <1>i DEF Ranges
    <3>7. \A i \in DOMAIN m : m[i][1] < batch + 1
      BY <3>1, <2>1, <1>t, EndsBefore
    <3>8. SentBefore'
      BY <3>4, <3>7, <2>u, <1>t, <1>w, <1>b, SentNext DEF SentBefore
    <3>9. ASSUME NEW k \in DOMAIN sent'
          PROVE  \E b \in 1 .. batch : EndsWith(sent[k], sizes[b], b)'
      <4>1. PICK b \in 1 .. batch : EndsWith(sent'[k], sizes[b], b)
        <5>1. CASE k \in DOMAIN sent /\ sent'[k] = sent[k]
          BY <5>1, <1>t, <1>w, <1>b, <2>u, SentNext
        <5>2. CASE sent'[k] = m
          <6>1. batch \in 1 .. batch
            BY <1>t
          <6> QED
            BY <6>1, <5>2, <3>1
        <5> QED
          BY <5>1, <5>2, <3>4
      <4>2. EndsWith(sent[k], sizes[b], b)'
        BY <4>1, <2>u DEF EndsWith
      <4> QED
        BY <4>2
    <3>10. WholeOrMerged'
      <4>1. batch' - 1 = batch
        BY <2>u, <1>t
      <4> QED
        BY <3>9, <4>1 DEF WholeOrMerged
    <3> QED
      BY <3>6, <3>8, <3>10
  <2>5. OpenShape'
    <3>1. EndsWith(open, part, batch)'
      BY <2>u, <1>t DEF EndsWith
    <3> QED
      BY <3>1, <2>u DEF OpenShape
  <2>8. AskedIsWritable'
    BY <2>u DEF AskedIsWritable
  <2> QED
    BY <2>2, <2>3, <2>5, <2>8, <1>q
<1>7. CASE Throw
  <2>1. /\ Current /\ batch' = batch + 1 /\ part' = 0 /\ pc' = "idle" /\ torn \subseteq torn'
        /\ part > 0 => batch \in torn'
        /\ torn' \subseteq torn \cup {batch}
        /\ UNCHANGED <<room, open, dropping, sent, sizes, vanished, away>>
    BY <1>7, <1>o DEF Throw, Done, OpenShape
  <2>2. Ranges'
    BY <2>1, <1>t, <1>i, SendPartsAssumption DEF Ranges
  <2>3. OpenShape'
    <3>1. ASSUME ~dropping PROVE EndsWith(open, part, batch)'
      <4>1. \A i \in DOMAIN open : open[i][1] < batch + 1 /\ open[i][1] \in torn'
        <5>1. EndsWith(open, part, batch)
          BY <3>1, <1>o DEF OpenShape
        <5> QED
          BY <5>1, <2>1, <1>t, EndsBefore
      <4>2. Len(open) \in Nat /\ Len(open) - 0 = Len(open) /\ DOMAIN open = 1 .. Len(open)
        BY <1>t DEF Message
      <4> QED
        BY <4>1, <4>2, <2>1 DEF EndsWith
    <3> QED
      BY <3>1, <2>1, <1>o DEF OpenShape
  <2>4. WholeOrMerged' /\ SentBefore'
    BY <2>1, <1>t, <1>w, <1>b, SentNextWhole
  <2>6. AskedIsWritable'
    BY <2>1 DEF AskedIsWritable
  <2> QED
    BY <2>2, <2>3, <2>4, <2>6, <1>q
<1>8. ASSUME NEW n \in 1 .. MaxParts, Send(n) PROVE PartsInv'
  <2>1. /\ sizes' \in Seq(1 .. MaxParts) /\ Len(sizes') = Len(sizes) + 1
        /\ \A b \in 1 .. Len(sizes) : sizes'[b] = sizes[b]
    BY <1>8, <1>t DEF Send
  <2>u. UNCHANGED <<room, open, dropping, sent, batch, part, pc, vanished, torn, away>>
    BY <1>8 DEF Send
  <2>2. Ranges'
    <3>1. part > 0 => Current' /\ part < sizes'[batch]
      BY <2>1, <2>u, <1>t, <1>i DEF Ranges
    <3>2. batch \in 1 .. Len(sizes') + 1 /\ torn \cup away \subseteq 1 .. Len(sizes')
      BY <2>1, <1>t, <1>i DEF Ranges
    <3> QED
      BY <3>1, <3>2, <2>1, <2>u, <1>i DEF Ranges
  <2>3. OpenShape'
    <3>1. EndsWith(open, part, batch)' <=> EndsWith(open, part, batch)
      BY <2>u, OpenFrame
    <3>2. Current => Current'
      BY <2>1, <2>u, <1>t
    <3> QED
      BY <3>1, <3>2, <2>u, <1>o DEF OpenShape
  <2>4. WholeOrMerged'
    <3>1. ASSUME NEW k \in DOMAIN sent
          PROVE  \E b \in 1 .. batch - 1 : EndsWith(sent[k], sizes[b], b)'
      <4>1. PICK b \in 1 .. batch - 1 : EndsWith(sent[k], sizes[b], b)
        BY <1>w DEF WholeOrMerged
      <4>2. b \in 1 .. Len(sizes)
        BY <1>t, <1>i DEF Ranges
      <4>3. sizes'[b] = sizes[b]
        BY <4>2, <2>1
      <4>4. EndsWith(sent[k], sizes[b], b)'
        BY <4>1, <4>3, <2>u DEF EndsWith
      <4> QED
        BY <4>4
    <3> QED
      BY <3>1, <2>u DEF WholeOrMerged
  <2>5. SentBefore' /\ AskedIsWritable'
    BY <2>u, <1>b, <1>k DEF SentBefore, AskedIsWritable
  <2> QED
    BY <2>2, <2>3, <2>4, <2>5, <1>q
<1>9. CASE UNCHANGED vars
  <2>1. /\ UNCHANGED <<room, open, dropping, sent, sizes, batch, part, pc, vanished, torn, away>>
    BY <1>9 DEF vars
  <2>2. Ranges'
    BY <2>1, <1>i DEF Ranges
  <2>3. EndsWith(open, part, batch)' <=> EndsWith(open, part, batch)
    BY <2>1, OpenFrame
  <2>4. OpenShape'
    BY <2>1, <2>3, <1>o DEF OpenShape
  <2>5. WholeOrMerged' /\ SentBefore'
    BY <2>1, <1>w, <1>b, SentFrame
  <2>6. AskedIsWritable'
    BY <2>1, <1>k DEF AskedIsWritable
  <2> QED
    BY <2>2, <2>4, <2>5, <2>6, <1>q
<1> QED
  BY <1>1, <1>2, <1>3, <1>4, <1>5, <1>6, <1>7, <1>8, <1>9 DEF Next, Network, Sendv

(* What is implied by the invariant.                                       *)
LEMMA PartsImplies ==
  PartsInv => TypeOK /\ WholeOrMerged /\ NothingSentOfRestored /\ WaitsAfterLossOnly
<1> SUFFICES ASSUME PartsInv
             PROVE  TypeOK /\ WholeOrMerged /\ NothingSentOfRestored /\ WaitsAfterLossOnly
  OBVIOUS
<1>1. TypeOK /\ WholeOrMerged
  BY DEF PartsInv, Flags, Ranges, TypeOK
<1>2. NothingSentOfRestored
  <2>1. ASSUME pc = "idle" PROVE \A i \in DOMAIN open : open[i][1] < batch
    <3>1. CASE dropping
      BY <3>1 DEF PartsInv, OpenShape
    <3>2. CASE ~dropping
      <4>1. EndsWith(open, 0, batch) /\ open \in Message
        BY <2>1, <3>2 DEF PartsInv, OpenShape, Ranges
      <4>2. Len(open) - 0 = Len(open) /\ DOMAIN open = 1 .. Len(open)
        BY <4>1
      <4> QED
        BY <4>1, <4>2 DEF EndsWith
    <3> QED
      BY <3>1, <3>2
  <2> QED
    BY <2>1 DEF PartsInv, SentBefore, NothingSentOfRestored
<1>3. WaitsAfterLossOnly
  BY DEF PartsInv, AskedIsWritable, OpenShape, WaitsAfterLossOnly, MaySend, Writable
<1> QED
  BY <1>1, <1>2, <1>3

(* Types of sendv's and libzmq's state (binding.cc, Sendv), for all bounds.*)
THEOREM PartsType == Spec => []TypeOK
<1>1. Init => PartsInv
  BY PartsInit
<1>2. PartsInv /\ [Next]_vars => PartsInv'
  BY PartsStep
<1>3. PartsInv => TypeOK
  BY PartsImplies
<1> QED
  BY <1>1, <1>2, <1>3, PTL DEF Spec

(* What libzmq takes for one message is one whole batch, behind nothing but*)
(* the beginnings of batches that sendv failed to send to their end.       *)
THEOREM PartsWhole == Spec => []WholeOrMerged
<1>1. Init => PartsInv
  BY PartsInit
<1>2. PartsInv /\ [Next]_vars => PartsInv'
  BY PartsStep
<1>3. PartsInv => WholeOrMerged
  BY PartsImplies
<1> QED
  BY <1>1, <1>2, <1>3, PTL DEF Spec

(* A batch that sendv fails to send to its end is the only way to a message*)
(* that is not one batch: as long as none has, sendv sends batches as      *)
(* units, however often it returns false and whatever the network does.    *)
THEOREM PartsAsOneUnit == Spec => [](torn = {} => SentAsOneUnit)
<1>1. PartsInv /\ torn = {} => SentAsOneUnit
  <2> SUFFICES ASSUME PartsInv, torn = {}, NEW k \in DOMAIN sent
               PROVE  \E b \in 1 .. batch - 1 : sent[k] = [i \in 1 .. sizes[b] |-> <<b, i>>]
    BY DEF SentAsOneUnit
  <2>1. PICK b \in 1 .. batch - 1 : EndsWith(sent[k], sizes[b], b)
    BY DEF PartsInv, WholeOrMerged
  <2>2. sent[k] \in Message /\ Len(sent[k]) \in Nat
    BY DEF PartsInv, Ranges, Message
  <2>3. sizes[b] \in Nat
    BY <2>1, SendPartsAssumption DEF PartsInv, Ranges
  <2>4. Len(sent[k]) - sizes[b] = 0
    BY <2>1, <2>2, <2>3 DEF EndsWith
  <2>5. Len(sent[k]) = sizes[b]
    BY <2>2, <2>3, <2>4
  <2>6. \A i \in 1 .. sizes[b] : sent[k][i] = <<b, i>>
    BY <2>1, <2>3, <2>5 DEF EndsWith
  <2>7. sent[k] = [i \in 1 .. sizes[b] |-> sent[k][i]]
    BY <2>2, <2>5 DEF Message
  <2>8. sent[k] = [i \in 1 .. sizes[b] |-> <<b, i>>]
    BY <2>6, <2>7
  <2> QED
    BY <2>8
<1>2. Spec => []PartsInv
  BY PartsInit, PartsStep, PTL DEF Spec
<1> QED
  BY <1>1, <1>2, PTL

(* When sendv returns false and the batch is restored, libzmq has no part  *)
(* of it: a second attempt repeats nothing.                                *)
THEOREM RestoredUnsent == Spec => []NothingSentOfRestored
<1>1. Init => PartsInv
  BY PartsInit
<1>2. PartsInv /\ [Next]_vars => PartsInv'
  BY PartsStep
<1>3. PartsInv => NothingSentOfRestored
  BY PartsImplies
<1> QED
  BY <1>1, <1>2, <1>3, PTL DEF Spec

(* zmq_msg_send makes the event loop wait only when the pipe has gone after*)
(* POLLOUT was seen.                                                       *)
THEOREM WaitsExplained == Spec => []WaitsAfterLossOnly
<1>1. Init => PartsInv
  BY PartsInit
<1>2. PartsInv /\ [Next]_vars => PartsInv'
  BY PartsStep
<1>3. PartsInv => WaitsAfterLossOnly
  BY PartsImplies
<1> QED
  BY <1>1, <1>2, <1>3, PTL DEF Spec

-----------------------------------------------------------------------------
(* sendv and the queue.  What Outbox calls a chunk is a batch here, which  *)
(* is complete, and in hand while sendv is at work on it.  Failed are the  *)
(* batches that are done with although libzmq neither has taken their last *)
(* part for the end of a message nor dropped it with a pipe.               *)
Whole(b) == [parts |-> <<b>>, isClosed |-> TRUE]
Wholes(b, n) == [i \in 1 .. n |-> Whole(b + i - 1)]

Ending(m) == m[Len(m)][1]
Waiting == IF pc = "idle" THEN batch ELSE batch + 1
Queued == Wholes(Waiting, Len(sizes) + 1 - Waiting)
Held == IF pc = "idle" THEN <<>> ELSE <<Whole(batch)>>
Finished == Wholes(1, batch - 1)
Untaken == {b \in 1 .. batch - 1 : b \notin away /\ \A k \in DOMAIN sent : Ending(sent[k]) # b}
WholeCalls == [b \in 1 .. Len(sizes) |-> FALSE]

Promise == INSTANCE Outbox WITH
  outgoing <- Queued, hand <- Held, settled <- Finished, failed <- Untaken, calls <- WholeCalls

(* The messages that libzmq takes are in the order of the calls of send,   *)
(* and no batch ends two of them.                                          *)
SentInOrder == \A j, k \in DOMAIN sent : j < k => Ending(sent[j]) < Ending(sent[k])

AwayBefore == away \subseteq 1 .. batch - 1
OrderInv == PartsInv /\ AwayBefore /\ SentInOrder

(* The sequences of batches.                                               *)
LEMMA WholesFacts ==
  ASSUME NEW b \in Nat, NEW n \in Nat
  PROVE  /\ Wholes(b, n) \in Seq({Whole(c) : c \in Nat}) /\ Len(Wholes(b, n)) = n
         /\ \A i \in 1 .. n : Wholes(b, n)[i] = Whole(b + i - 1)
         /\ n = 0 => Wholes(b, n) = <<>>
         /\ n > 0 => Wholes(b, n) # <<>>
<1> DEFINE W(c) == Whole(c)  S == {W(c) : c \in Nat}
<1> HIDE DEF W
<1>1. \A i \in 1 .. n : b + i - 1 \in Nat
  OBVIOUS
<1>2. [i \in 1 .. n |-> W(b + i - 1)] \in [1 .. n -> S]
  BY <1>1
<1>3. [i \in 1 .. n |-> W(b + i - 1)] \in Seq(S)
  BY <1>2
<1>4. Wholes(b, n) \in Seq(S) /\ Len(Wholes(b, n)) = n
  BY <1>3 DEF Wholes, W
<1>5. \A i \in 1 .. n : Wholes(b, n)[i] = Whole(b + i - 1)
  BY DEF Wholes
<1>6. (n = 0 => Wholes(b, n) = <<>>) /\ (n > 0 => Wholes(b, n) # <<>>)
  BY <1>4
<1>7. QED
  BY <1>4, <1>5, <1>6 DEF W

LEMMA WholesMore ==
  ASSUME NEW b \in Nat, NEW n \in Nat
  PROVE  /\ Append(Wholes(b, n), Whole(b + n)) = Wholes(b, n + 1)
         /\ Wholes(b, n) \o <<Whole(b + n)>> = Wholes(b, n + 1)
         /\ <<Whole(b)>> \o Wholes(b + 1, n) = Wholes(b, n + 1)
         /\ Head(Wholes(b, n + 1)) = Whole(b)
         /\ Tail(Wholes(b, n + 1)) = Wholes(b + 1, n)
<1> DEFINE S == {Whole(c) : c \in Nat}  q == Wholes(b, n)  r == Wholes(b + 1, n)  s == Wholes(b, n + 1)
<1>1. /\ q \in Seq(S) /\ Len(q) = n /\ \A i \in 1 .. n : q[i] = Whole(b + i - 1)
      /\ r \in Seq(S) /\ Len(r) = n /\ \A i \in 1 .. n : r[i] = Whole(b + 1 + i - 1)
      /\ s \in Seq(S) /\ Len(s) = n + 1 /\ \A i \in 1 .. n + 1 : s[i] = Whole(b + i - 1)
  <2>1. n + 1 \in Nat /\ b + 1 \in Nat
    OBVIOUS
  <2>2. QED
    BY <2>1, WholesFacts
<1>2. Whole(b) \in S /\ Whole(b + n) \in S
  OBVIOUS
<1> HIDE DEF S, q, r, s
<1>3. s[n + 1] = Whole(b + n) /\ s[1] = Whole(b) /\ \A i \in 1 .. n : s[i + 1] = r[i]
  <2>1. \A i \in 1 .. n : i + 1 \in 1 .. n + 1 /\ b + (i + 1) - 1 = b + 1 + i - 1
    OBVIOUS
  <2>2. n + 1 \in 1 .. n + 1 /\ 1 \in 1 .. n + 1 /\ b + (n + 1) - 1 = b + n /\ b + 1 - 1 = b
    OBVIOUS
  <2>3. \A i \in 1 .. n : s[i + 1] = Whole(b + (i + 1) - 1) /\ r[i] = Whole(b + 1 + i - 1)
    BY <1>1, <2>1
  <2>4. QED
    BY <1>1, <2>1, <2>2, <2>3
<1>4. \A i \in 1 .. n : s[i] = q[i]
  BY <1>1
<1>5. Append(q, Whole(b + n)) = s
  BY <1>1, <1>2, <1>3, <1>4
<1>6. q \o <<Whole(b + n)>> = s
  BY <1>1, <1>2, <1>3, <1>4
<1>7. <<Whole(b)>> \o r = s
  <2>1. /\ <<Whole(b)>> \o r \in Seq(S) /\ Len(<<Whole(b)>> \o r) = n + 1
        /\ (<<Whole(b)>> \o r)[1] = Whole(b)
        /\ \A i \in 1 .. n : (<<Whole(b)>> \o r)[i + 1] = r[i]
    BY <1>1, <1>2
  <2>2. ASSUME NEW i \in 1 .. n + 1
        PROVE  (<<Whole(b)>> \o r)[i] = s[i]
    <3>1. CASE i = 1
      BY <1>3, <2>1, <3>1
    <3>2. CASE i # 1
      <4>1. i - 1 \in 1 .. n /\ i - 1 + 1 = i
        BY <3>2
      <4>2. QED
        BY <1>3, <2>1, <4>1
    <3>3. QED
      BY <3>1, <3>2
  <2>3. QED
    BY <1>1, <2>1, <2>2, SeqEqual
<1>8. Head(s) = Whole(b) /\ Tail(s) = r
  <2>1. Head(s) = Whole(b)
    BY <1>1, <1>3
  <2>2. /\ Tail(s) \in Seq(S) /\ Len(Tail(s)) = n
        /\ \A i \in 1 .. n : Tail(s)[i] = s[i + 1]
    BY <1>1
  <2>3. Tail(s) = r
    BY <1>1, <1>3, <2>2, SeqEqual
  <2>4. QED
    BY <2>1, <2>3
<1>9. QED
  BY <1>5, <1>6, <1>7, <1>8 DEF q, r, s

(* A message that was sent ends with a batch that is done with.            *)
LEMMA EndingFacts ==
  ASSUME PartsInv, NEW k \in DOMAIN sent
  PROVE  Ending(sent[k]) \in 1 .. batch - 1
<1>1. PICK b \in 1 .. batch - 1 : EndsWith(sent[k], sizes[b], b)
  BY DEF PartsInv, WholeOrMerged
<1>2. b \in 1 .. Len(sizes) /\ sizes \in Seq(1 .. MaxParts) /\ sent \in Seq(Message) /\ batch \in Nat
  BY DEF PartsInv, Ranges
<1>3. sizes[b] \in Nat \ {0} /\ sent[k] \in Message
  BY <1>2, SendPartsAssumption
<1>4. Len(sent[k]) \in Nat
  BY <1>3 DEF Message
<1> DEFINE n == sizes[b]  m == sent[k]
<1> HIDE DEF n, m
<1>5. n \in 1 .. n /\ Len(m) - n + n = Len(m)
  BY <1>3, <1>4 DEF n, m
<1>6. m[Len(m)] = <<b, n>>
  BY <1>1, <1>5 DEF EndsWith, n, m
<1>7. QED
  BY <1>6 DEF Ending, m

(* What a step does to the messages that libzmq has taken.                 *)
LEMMA SentChange ==
  ASSUME PartsInv, SendLast
  PROVE  \/ sent' = sent /\ away' = away \cup {batch}
         \/ \E m \in Message : /\ sent' = Append(sent, m) /\ away' = away /\ Ending(m) = batch
<1>1. CASE dropping
  BY <1>1 DEF SendLast
<1>2. CASE ~dropping
  <2> DEFINE m == Append(open, <<batch, part + 1>>)
  <2>1. open \in Message /\ batch \in Nat /\ part \in Nat
    BY SendPartsAssumption DEF PartsInv, Ranges
  <2>2. <<batch, part + 1>> \in Part
    BY <2>1 DEF Part
  <2>3. m \in Message /\ Ending(m) = batch
    BY <2>1, <2>2 DEF Message, Ending
  <2>4. sent' = Append(sent, m) /\ away' = away
    BY <1>2 DEF SendLast
  <2> HIDE DEF m
  <2>5. QED
    BY <2>3, <2>4
<1>3. QED
  BY <1>1, <1>2

(* Which steps are for the queue, and what the others leave alone.         *)
LEMMA Quiet ==
  ASSUME PartsInv, [Next]_vars
  PROVE  \/ UNCHANGED <<sent, sizes, batch, away, pc>>
         \/ Ask
         \/ SendMore
         \/ SendLast
         \/ Throw
         \/ \E n \in 1 .. MaxParts : Send(n)
BY DEF Next, Network, Sendv, Drain, Connect, Disconnect, vars, pipeVars

LEMMA TypeFacts ==
  ASSUME PartsInv
  PROVE  /\ sizes \in Seq(1 .. MaxParts) /\ Len(sizes) \in Nat /\ batch \in 1 .. Len(sizes) + 1 /\ batch \in Nat
         /\ sent \in Seq(Message) /\ pc \in {"idle", "asked", "between"}
         /\ pc # "idle" => batch <= Len(sizes)
BY DEF PartsInv, Ranges, OpenShape, Current

LEMMA OrderStep == OrderInv /\ [Next]_vars => OrderInv'
<1> SUFFICES ASSUME OrderInv, [Next]_vars PROVE OrderInv'
  OBVIOUS
<1>0. PartsInv /\ PartsInv' /\ AwayBefore /\ SentInOrder
  BY PartsStep DEF OrderInv
<1>t. batch \in Nat \ {0} /\ sent \in Seq(Message)
  BY <1>0, TypeFacts
<1>1. CASE UNCHANGED <<sent, away>> /\ (batch' = batch \/ batch' = batch + 1)
  BY <1>0, <1>1, <1>t DEF OrderInv, AwayBefore, SentInOrder, Ending
<1>2. CASE SendLast
  <2>1. batch' = batch + 1
    BY <1>2 DEF SendLast, Done
  <2>2. CASE sent' = sent /\ away' = away \cup {batch}
    BY <1>0, <1>t, <2>1, <2>2 DEF OrderInv, AwayBefore, SentInOrder, Ending
  <2>3. ASSUME NEW m \in Message, sent' = Append(sent, m), away' = away, Ending(m) = batch
        PROVE  AwayBefore' /\ SentInOrder'
    <3>1. AwayBefore'
      BY <1>0, <1>t, <2>1, <2>3 DEF AwayBefore
    <3>2. ASSUME NEW k \in DOMAIN sent'
          PROVE  \/ k \in DOMAIN sent /\ sent'[k] = sent[k] /\ k <= Len(sent)
                 \/ k = Len(sent) + 1 /\ sent'[k] = m
      BY <1>t, <2>3
    <3>3. ASSUME NEW j \in DOMAIN sent', NEW k \in DOMAIN sent', j < k
          PROVE  Ending(sent'[j]) < Ending(sent'[k])
      <4>1. j \in DOMAIN sent /\ sent'[j] = sent[j]
        BY <1>t, <2>3, <3>2, <3>3
      <4>2. Ending(sent[j]) \in 1 .. batch - 1
        BY <1>0, <4>1, EndingFacts
      <4>3. CASE k \in DOMAIN sent /\ sent'[k] = sent[k]
        BY <1>0, <3>3, <4>1, <4>3 DEF SentInOrder
      <4>4. CASE sent'[k] = m
        BY <1>t, <2>3, <4>1, <4>2, <4>4
      <4>5. QED
        BY <3>2, <4>3, <4>4
    <3>4. SentInOrder'
      BY <3>3 DEF SentInOrder, Ending
    <3>5. QED
      BY <3>1, <3>4
  <2>4. QED
    BY <1>0, <1>2, <2>2, <2>3, SentChange DEF OrderInv
<1>3. CASE Ask
  BY <1>1, <1>3 DEF Ask, pipeVars
<1>4. CASE SendMore
  BY <1>1, <1>4 DEF SendMore
<1>5. CASE Throw
  BY <1>1, <1>5 DEF Throw, Done, pipeVars
<1>6. CASE \E n \in 1 .. MaxParts : Send(n)
  BY <1>1, <1>6 DEF Send, pipeVars
<1>7. QED
  BY <1>0, <1>1, <1>2, <1>3, <1>4, <1>5, <1>6, Quiet

LEMMA OrderInvariant == Spec => []OrderInv
<1>1. Init => OrderInv
  BY PartsInit DEF Init, OrderInv, AwayBefore, SentInOrder
<1>2. QED
  BY <1>1, OrderStep, PTL DEF Spec

(* The messages that sendv sends are in the order in which the batches were*)
(* queued, each at most once, however often sendv returned false and       *)
(* whatever failed in between.                                             *)
THEOREM PartsInOrder == Spec => []SentInOrder
<1>1. OrderInv => SentInOrder
  BY DEF OrderInv
<1>2. QED
  BY <1>1, OrderInvariant, PTL

(* The steps of sendv are those of Outbox.                                 *)
LEMMA ProjectInit == Init => Promise!OutboxInit
<1> SUFFICES ASSUME Init PROVE Promise!OutboxInit
  OBVIOUS
<1>1. pc = "idle" /\ Len(sizes) = 0 /\ batch = 1
  BY DEF Init
<1>2. Queued = <<>> /\ Held = <<>> /\ Finished = <<>>
  <2>1. Len(sizes) + 1 - Waiting = 0 /\ batch - 1 = 0 /\ Waiting = 1
    BY <1>1 DEF Waiting
  <2>2. Wholes(1, 0) = <<>>
    BY WholesFacts
  <2>3. QED
    BY <1>1, <2>1, <2>2 DEF Queued, Held, Finished
<1>3. Untaken = {}
  BY <1>1 DEF Untaken
<1>4. WholeCalls = <<>>
  BY <1>1 DEF WholeCalls
<1>5. QED
  BY <1>2, <1>3, <1>4 DEF Promise!OutboxInit

(* The queue before a step, as runs of batches.                            *)
LEMMA QueueShape ==
  ASSUME PartsInv
  PROVE  /\ pc = "idle" => /\ Queued = Wholes(batch, Len(sizes) + 1 - batch)
                           /\ Held = <<>>
         /\ pc # "idle" => /\ Queued = Wholes(batch + 1, Len(sizes) - batch)
                           /\ Held = <<Whole(batch)>>
<1>1. Len(sizes) \in Nat /\ batch \in Nat
  BY TypeFacts
<1>2. Len(sizes) + 1 - (batch + 1) = Len(sizes) - batch
  BY <1>1
<1>3. QED
  BY <1>2 DEF Queued, Held, Waiting

(* What is failed does not change unless a batch is done with.             *)
LEMMA SameUntaken ==
  ASSUME UNCHANGED <<sent, batch, away>>
  PROVE  Untaken' = Untaken /\ Finished' = Finished
BY DEF Untaken, Finished, Ending, Wholes, Whole

LEMMA SameCalls ==
  ASSUME sizes' = sizes
  PROVE  WholeCalls' = WholeCalls
BY DEF WholeCalls

(* Steps that leave the queue alone.                                       *)
LEMMA StutterStep ==
  ASSUME UNCHANGED <<sent, sizes, batch, away>>, pc = "idle" <=> pc' = "idle"
  PROVE  UNCHANGED Promise!outboxVars
<1>1. Untaken' = Untaken /\ Finished' = Finished /\ WholeCalls' = WholeCalls
  BY SameUntaken, SameCalls
<1>2. Queued' = Queued /\ Held' = Held
  BY DEF Queued, Held, Waiting, Wholes, Whole
<1>3. QED
  BY <1>1, <1>2 DEF Promise!outboxVars

(* sendv sees POLLOUT, or does not and the batch goes back.                *)
LEMMA AskStep ==
  ASSUME PartsInv, PartsInv', Ask
  PROVE  Promise!Fetch \/ Promise!Restore \/ UNCHANGED Promise!outboxVars
<1>1. UNCHANGED <<sent, sizes, batch, away>> /\ pc \in {"idle", "between"} /\ pc' \in {"asked", "idle"}
      /\ batch <= Len(sizes)
  BY DEF Ask, MayAsk, Current, pipeVars
<1>2. Untaken' = Untaken /\ Finished' = Finished /\ WholeCalls' = WholeCalls
  BY <1>1, SameUntaken, SameCalls
<1> DEFINE n == Len(sizes) - batch
<1>3. batch \in Nat /\ n \in Nat /\ Len(sizes) + 1 - batch = n + 1
  BY <1>1, TypeFacts
<1>4. /\ <<Whole(batch)>> \o Wholes(batch + 1, n) = Wholes(batch, n + 1)
      /\ Head(Wholes(batch, n + 1)) = Whole(batch)
      /\ Tail(Wholes(batch, n + 1)) = Wholes(batch + 1, n)
      /\ Wholes(batch, n + 1) # <<>>
  <2>1. n + 1 \in Nat /\ n + 1 > 0
    BY <1>3
  <2>2. Wholes(batch, n + 1) # <<>>
    BY <1>3, <2>1, WholesFacts
  <2> HIDE DEF n
  <2>3. QED
    BY <1>3, <2>2, WholesMore
<1>5. /\ pc' = "idle" => Queued' = Wholes(batch, n + 1) /\ Held' = <<>>
      /\ pc' # "idle" => Queued' = Wholes(batch + 1, n) /\ Held' = <<Whole(batch)>>
  <2>1. Len(sizes') + 1 - batch = n + 1 /\ Len(sizes') + 1 - (batch + 1) = n
    BY <1>1, <1>3
  <2>2. /\ pc' = "idle" => Waiting' = batch /\ Held' = <<>>
        /\ pc' # "idle" => Waiting' = batch + 1 /\ Held' = <<Whole(batch)>>
    BY <1>1 DEF Waiting, Held, Whole
  <2>3. Queued' = Wholes(Waiting', Len(sizes') + 1 - Waiting')
    BY DEF Queued, Wholes, Whole
  <2>4. QED
    BY <2>1, <2>2, <2>3
<1>6. /\ pc = "idle" => Queued = Wholes(batch, n + 1) /\ Held = <<>>
      /\ pc # "idle" => Queued = Wholes(batch + 1, n) /\ Held = <<Whole(batch)>>
  BY <1>3, QueueShape
<1> HIDE DEF n
<1>7. CASE pc = "idle" /\ pc' # "idle"
  <2>1. Promise!CanSend(Queued)
    BY <1>4, <1>6, <1>7 DEF Promise!CanSend, Whole
  <2>2. Promise!Fetch
    BY <1>2, <1>4, <1>5, <1>6, <1>7, <2>1 DEF Promise!Fetch
  <2>3. QED
    BY <2>2
<1>8. CASE pc # "idle" /\ pc' = "idle"
  <2>1. Held # <<>>
    BY <1>6, <1>8
  <2>2. Promise!Restore
    BY <1>2, <1>4, <1>5, <1>6, <1>8, <2>1 DEF Promise!Restore
  <2>3. QED
    BY <2>2
<1>9. CASE pc = "idle" <=> pc' = "idle"
  BY <1>1, <1>9, StutterStep
<1>10. QED
  BY <1>7, <1>8, <1>9

(* A batch is done with.                                                   *)
LEMMA DoneQueue ==
  ASSUME PartsInv, Done, pc # "idle", sizes' = sizes
  PROVE  /\ Held = <<Whole(batch)>> /\ Held' = <<>>
         /\ Queued' = Queued /\ WholeCalls' = WholeCalls
         /\ Finished' = Finished \o Held /\ Len(Finished) = batch - 1
<1>1. batch \in Nat \ {0} /\ Len(sizes) \in Nat /\ batch <= Len(sizes) /\ batch' = batch + 1 /\ pc' = "idle"
  BY TypeFacts DEF Done
<1>2. Held = <<Whole(batch)>> /\ Queued = Wholes(batch + 1, Len(sizes) - batch)
  BY QueueShape
<1>3. Held' = <<>> /\ WholeCalls' = WholeCalls
  BY <1>1, SameCalls DEF Held
<1>4. Queued' = Wholes(batch + 1, Len(sizes) - batch)
  <2>1. Len(sizes) + 1 - (batch + 1) = Len(sizes) - batch
    BY <1>1
  <2>2. QED
    BY <1>1, <2>1 DEF Queued, Waiting, Wholes, Whole
<1>5. Finished' = Finished \o Held /\ Len(Finished) = batch - 1
  <2> DEFINE n == batch - 1
  <2>1. n \in Nat /\ 1 \in Nat /\ 1 + n = batch /\ n + 1 = batch /\ batch' - 1 = n + 1
    BY <1>1
  <2>2. Finished' = Wholes(1, n + 1)
    BY <2>1 DEF Finished, Wholes, Whole
  <2>3. Finished = Wholes(1, n)
    BY DEF Finished
  <2> HIDE DEF n
  <2>4. Wholes(1, n) \o <<Whole(1 + n)>> = Wholes(1, n + 1) /\ Len(Wholes(1, n)) = n
    BY <2>1, WholesFacts, WholesMore
  <2>5. Finished' = Finished \o Held
    BY <1>2, <2>1, <2>2, <2>3, <2>4
  <2>6. QED
    BY <2>3, <2>4, <2>5 DEF n
<1>6. QED
  BY <1>2, <1>3, <1>4, <1>5

(* libzmq has taken the last part, or dropped it with its pipe.            *)
LEMMA SettleStep ==
  ASSUME OrderInv, SendLast
  PROVE  Promise!Settle
<1>1. PartsInv /\ AwayBefore /\ batch \in Nat \ {0} /\ sent \in Seq(Message)
  BY TypeFacts DEF OrderInv
<1>2. pc # "idle" /\ Done /\ sizes' = sizes /\ batch' = batch + 1
  BY DEF SendLast, MaySend, Done
<1>3. Untaken' = Untaken
  <2> DEFINE Taken(b) == b \in away \/ \E k \in DOMAIN sent : Ending(sent[k]) = b
             TakenNext(b) == b \in away' \/ \E k \in DOMAIN sent' : Ending(sent'[k]) = b
  <2>1. /\ Untaken = {b \in 1 .. batch - 1 : ~Taken(b)}
        /\ Untaken' = {b \in 1 .. batch : ~TakenNext(b)}
    <3>1. batch' - 1 = batch
      BY <1>1, <1>2
    <3>2. QED
      BY <3>1 DEF Untaken, Ending
  <2>2. TakenNext(batch) /\ \A b \in 1 .. batch - 1 : TakenNext(b) <=> Taken(b)
    <3>1. CASE sent' = sent /\ away' = away \cup {batch}
      BY <1>1, <3>1
    <3>2. ASSUME NEW m \in Message, sent' = Append(sent, m), away' = away, Ending(m) = batch
          PROVE  TakenNext(batch) /\ \A b \in 1 .. batch - 1 : TakenNext(b) <=> Taken(b)
      <4>1. /\ DOMAIN sent' = DOMAIN sent \cup {Len(sent) + 1}
            /\ sent'[Len(sent) + 1] = m
            /\ \A k \in DOMAIN sent : sent'[k] = sent[k]
        BY <1>1, <3>2
      <4>2. \A b \in 1 .. batch - 1 : b # batch
        BY <1>1
      <4> HIDE DEF Ending
      <4>3. QED
        BY <3>2, <4>1, <4>2
    <3>3. QED
      BY <1>1, <3>1, <3>2, SentChange
  <2> HIDE DEF Taken, TakenNext
  <2>3. 1 .. batch = (1 .. batch - 1) \cup {batch}
    BY <1>1
  <2>4. QED
    BY <2>1, <2>2, <2>3
<1>4. Held # <<>>
  <2>1. Held = <<Whole(batch)>>
    BY <1>1, <1>2, QueueShape
  <2>2. QED
    BY <2>1
<1>5. QED
  BY <1>1, <1>2, <1>3, <1>4, DoneQueue DEF Promise!Settle

(* sendv has thrown.                                                       *)
LEMMA DiscardStep ==
  ASSUME OrderInv, Throw
  PROVE  Promise!Discard
<1>1. PartsInv /\ AwayBefore /\ batch \in Nat \ {0} /\ sent \in Seq(Message)
  BY TypeFacts DEF OrderInv
<1>2. /\ pc # "idle" /\ Done /\ sizes' = sizes /\ batch' = batch + 1
      /\ sent' = sent /\ away' = away
  BY DEF Throw, MaySend, Done, pipeVars
<1>3. Untaken' = Untaken \cup {batch}
  <2> DEFINE Free(b) == b \notin away /\ \A k \in DOMAIN sent : Ending(sent[k]) # b
  <2>1. Untaken = {b \in 1 .. batch - 1 : Free(b)} /\ Untaken' = {b \in 1 .. batch : Free(b)}
    <3>1. batch' - 1 = batch
      BY <1>1, <1>2
    <3>2. QED
      BY <1>2, <3>1 DEF Untaken, Ending
  <2>2. Free(batch)
    <3>1. batch \notin away
      BY <1>1 DEF AwayBefore
    <3>2. \A k \in DOMAIN sent : Ending(sent[k]) \in 1 .. batch - 1
      BY <1>1, EndingFacts
    <3>3. batch \notin 1 .. batch - 1
      BY <1>1
    <3>4. QED
      BY <3>1, <3>2, <3>3
  <2> HIDE DEF Free
  <2>3. 1 .. batch = (1 .. batch - 1) \cup {batch}
    BY <1>1
  <2>4. QED
    BY <2>1, <2>2, <2>3
<1>4. Held # <<>> /\ Len(Finished) + 1 = batch
  <2>1. Held = <<Whole(batch)>> /\ Len(Finished) = batch - 1
    BY <1>1, <1>2, DoneQueue
  <2>2. QED
    BY <1>1, <2>1
<1>5. QED
  BY <1>1, <1>2, <1>3, <1>4, DoneQueue DEF Promise!Discard

(* send() appends a complete batch.                                        *)
LEMMA SendStep ==
  ASSUME PartsInv, NEW n \in 1 .. MaxParts, Send(n)
  PROVE  Promise!AppendChunk(FALSE)
<1>1. /\ UNCHANGED <<sent, batch, away, pc>> /\ sizes' = Append(sizes, n)
      /\ sizes \in Seq(1 .. MaxParts) /\ Len(sizes) \in Nat /\ batch \in 1 .. Len(sizes) + 1
      /\ pc # "idle" => batch <= Len(sizes)
  BY TypeFacts DEF Send, pipeVars
<1>2. Len(sizes') = Len(sizes) + 1
  BY <1>1
<1>3. WholeCalls' = Append(WholeCalls, FALSE) /\ Len(WholeCalls') = Len(sizes) + 1
  <2> DEFINE l == Len(sizes)  f == [b \in 1 .. l |-> FALSE]  g == [b \in 1 .. l + 1 |-> FALSE]
  <2>1. WholeCalls = f /\ WholeCalls' = g
    BY <1>2 DEF WholeCalls
  <2>2. f \in Seq(BOOLEAN) /\ Len(f) = l /\ g \in Seq(BOOLEAN) /\ Len(g) = l + 1
    BY <1>1
  <2>3. \A b \in 1 .. l + 1 : g[b] = FALSE /\ (b \in 1 .. l => f[b] = FALSE)
    OBVIOUS
  <2> HIDE DEF f, g
  <2>4. /\ \A i \in 1 .. Len(f) : Append(f, FALSE)[i] = f[i]
        /\ Append(f, FALSE)[Len(f) + 1] = FALSE
    <3>1. f \in Seq(BOOLEAN) /\ FALSE \in BOOLEAN
      BY <2>2, Zenon
    <3>2. QED
      BY <3>1, AppendProperties
  <2>5. Append(f, FALSE) = g
    <3>1. Append(f, FALSE) \in Seq(BOOLEAN) /\ Len(Append(f, FALSE)) = l + 1
      BY <1>1, <2>2
    <3>2. ASSUME NEW i \in 1 .. l + 1
          PROVE  Append(f, FALSE)[i] = g[i]
      <4>1. CASE i = l + 1
        <5>1. Append(f, FALSE)[i] = FALSE
          BY <2>2, <2>4, <4>1, Zenon
        <5>2. QED
          BY <2>3, <5>1, Zenon
      <4>2. CASE i # l + 1
        <5>1. i \in 1 .. l
          BY <1>1, <4>2
        <5>2. Append(f, FALSE)[i] = f[i]
          BY <2>2, <2>4, <5>1, Zenon
        <5>3. QED
          BY <2>3, <5>1, <5>2, Zenon
      <4>3. QED
        BY <4>1, <4>2
    <3>3. QED
      BY <2>2, <3>1, <3>2, SeqEqual
  <2>6. QED
    BY <2>1, <2>2, <2>5
<1>4. Untaken' = Untaken /\ Finished' = Finished /\ Held' = Held
  BY <1>1, SameUntaken DEF Held, Whole
<1>5. Queued' = Promise!Appended(Queued, Len(sizes) + 1, FALSE)
  <2> DEFINE w == Waiting  l == Len(sizes) + 1 - Waiting
  <2>1. w \in Nat /\ l \in Nat /\ w + l = Len(sizes) + 1
    BY <1>1 DEF Waiting
  <2>2. Queued = Wholes(w, l)
    BY DEF Queued
  <2>3. Queued' = Wholes(w, l + 1)
    <3>1. Len(sizes') + 1 - Waiting = l + 1
      BY <1>2, <1>1, <2>1
    <3>2. Waiting' = Waiting
      BY <1>1 DEF Waiting
    <3>3. QED
      BY <3>1, <3>2 DEF Queued, Wholes, Whole
  <2> HIDE DEF w, l
  <2>4. Append(Wholes(w, l), Whole(w + l)) = Wholes(w, l + 1)
    BY <2>1, WholesMore
  <2>5. Promise!NewBatch(Len(sizes) + 1, FALSE) = Whole(w + l)
    BY <2>1 DEF Promise!NewBatch, Whole
  <2>6. Wholes(w, l) = <<>> \/ Promise!LastOf(Wholes(w, l)).isClosed
    <3>1. CASE l = 0
      BY <2>1, <3>1, WholesFacts
    <3>2. CASE l > 0
      <4>1. l \in 1 .. l /\ Len(Wholes(w, l)) = l
        <5>1. l \in 1 .. l
          BY <2>1, <3>2
        <5>2. Len(Wholes(w, l)) = l
          BY <2>1, WholesFacts
        <5>3. QED
          BY <5>1, <5>2
      <4>2. Wholes(w, l)[l] = Whole(w + l - 1)
        BY <2>1, <4>1, WholesFacts
      <4>3. QED
        BY <4>1, <4>2 DEF Promise!LastOf, Whole
    <3>3. QED
      BY <2>1, <3>1, <3>2
  <2>7. QED
    BY <2>2, <2>3, <2>4, <2>5, <2>6 DEF Promise!Appended
<1>6. QED
  BY <1>3, <1>4, <1>5 DEF Promise!AppendChunk

LEMMA ProjectStep ==
  ASSUME OrderInv, OrderInv', [Next]_vars
  PROVE  [Promise!OutboxNext]_(Promise!outboxVars)
<1>0. PartsInv /\ PartsInv'
  BY DEF OrderInv
<1>1. CASE UNCHANGED <<sent, sizes, batch, away, pc>>
  BY <1>1, StutterStep
<1>2. CASE Ask
  BY <1>0, <1>2, AskStep DEF Promise!OutboxNext
<1>3. CASE SendMore
  <2>1. UNCHANGED <<sent, sizes, batch, away>> /\ pc # "idle" /\ pc' # "idle"
    BY <1>3 DEF SendMore, MaySend
  <2>2. QED
    BY <2>1, StutterStep
<1>4. CASE SendLast
  BY <1>4, SettleStep DEF Promise!OutboxNext
<1>5. CASE Throw
  BY <1>5, DiscardStep DEF Promise!OutboxNext
<1>6. CASE \E n \in 1 .. MaxParts : Send(n)
  <2>1. Promise!AppendChunk(FALSE) /\ FALSE \in BOOLEAN
    BY <1>0, <1>6, SendStep
  <2>2. QED
    BY <2>1 DEF Promise!OutboxNext
<1>7. QED
  BY <1>0, <1>1, <1>2, <1>3, <1>4, <1>5, <1>6, Quiet

(* sendv uses the queue as Outbox allows, part by part: it settles a batch *)
(* exactly when libzmq has taken its last part, restores only what it has  *)
(* fetched, and gives up only what it failed to send.  So the single step  *)
(* that SocketPump makes of a sendv hides nothing of the queue.            *)
THEOREM PartsKeepQueue == Spec => Promise!OutboxSpec
<1>1. Init => Promise!OutboxInit
  BY ProjectInit
<1>2. OrderInv /\ OrderInv' /\ [Next]_vars => [Promise!OutboxNext]_(Promise!outboxVars)
  BY ProjectStep
<1>3. Spec => []OrderInv
  BY OrderInvariant
<1>4. QED
  BY <1>1, <1>2, <1>3, PTL DEF Spec, Promise!OutboxSpec

=============================================================================
