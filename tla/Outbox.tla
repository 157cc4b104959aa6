------------------------------- MODULE Outbox -------------------------------
(***************************************************************************)
(* What the outgoing queue of a socket (OutBatch and BatchList in          *)
(* lib/index.js) promises to the code that uses it.                        *)
(*                                                                         *)
(* Every call of Socket.send appends one chunk: a frame, or the frames of  *)
(* an array, which the code always puts into one batch.  Chunks are        *)
(* numbered 1, 2, ... in the order of the calls.  A batch is one multipart *)
(* message, still under construction (isClosed is FALSE: the last flags    *)
(* had ZMQ_SNDMORE) or complete.                                           *)
(***************************************************************************)
EXTENDS Naturals, Sequences

VARIABLES
  outgoing,  \* the queue: batches from first to last
  hand,      \* the batch _flushWrite has fetched and not settled: <<>> or <<b>>
  settled,   \* history: the batches that left the queue for good, in that order
  failed,    \* history: the positions in settled that libzmq refused
  calls      \* history: for each chunk, did its last flags have ZMQ_SNDMORE?

outboxVars == <<outgoing, hand, settled, failed, calls>>

Batch == [parts : Seq(Nat), isClosed : BOOLEAN]

LastOf(s) == s[Len(s)]

(* BatchList.canSend: is the first batch complete?                         *)
CanSend(q) == q # <<>> /\ Head(q).isClosed

NewBatch(c, more) == [parts |-> <<c>>, isClosed |-> ~more]

(* OutBatch.append: more stands for the ZMQ_SNDMORE flag of the last frame.*)
Extended(b, c, more) == [parts |-> Append(b.parts, c), isClosed |-> ~more]

(* Mistake: a frame that starts a new message joins the complete one.      *)
AppendedToComplete(q, c, more) ==
  IF q = <<>>
    THEN Append(q, NewBatch(c, more))
    ELSE [q EXCEPT ![Len(q)] = Extended(LastOf(q), c, more)]

(* BatchList.append: the queue after appending chunk c.                    *)
Appended(q, c, more) ==
  IF q = <<>> \/ LastOf(q).isClosed
    THEN Append(q, NewBatch(c, more))
    ELSE [q EXCEPT ![Len(q)] = Extended(LastOf(q), c, more)]

OutboxInit ==
  /\ outgoing = <<>>
  /\ hand = <<>>
  /\ settled = <<>>
  /\ failed = {}
  /\ calls = <<>>

(* send appends a chunk; send([]), which appends none, changes no queue    *)
(* (SendNothing of SocketPump).                                            *)
AppendChunk(more) ==
  /\ calls' = Append(calls, more)
  /\ outgoing' = Appended(outgoing, Len(calls'), more)
  /\ UNCHANGED <<hand, settled, failed>>

(* BatchList.fetch, only ever called by the one active _flushWrites loop.  *)
Fetch ==
  /\ hand = <<>>
  /\ CanSend(outgoing)
  /\ hand' = <<Head(outgoing)>>
  /\ outgoing' = Tail(outgoing)
  /\ UNCHANGED <<settled, failed, calls>>

(* BatchList.restore: sendv could not send, the batch goes back in front.  *)
Restore ==
  /\ hand # <<>>
  /\ outgoing' = hand \o outgoing
  /\ hand' = <<>>
  /\ UNCHANGED <<settled, failed, calls>>

(* sendv has handed every part to libzmq.                                  *)
Settle ==
  /\ hand # <<>>
  /\ settled' = settled \o hand
  /\ hand' = <<>>
  /\ UNCHANGED <<outgoing, failed, calls>>

(* sendv has thrown: the batch is reported as failed and never retried.    *)
Discard ==
  /\ hand # <<>>
  /\ settled' = settled \o hand
  /\ failed' = failed \cup {Len(settled) + 1}
  /\ hand' = <<>>
  /\ UNCHANGED <<outgoing, calls>>

OutboxNext ==
  \/ \E more \in BOOLEAN : AppendChunk(more)
  \/ Fetch
  \/ Restore
  \/ Settle
  \/ Discard

OutboxSpec == OutboxInit /\ [][OutboxNext]_outboxVars

-----------------------------------------------------------------------------
First(b) == b.parts[1]
Final(b) == LastOf(b.parts)

(* Batch b is made of consecutive calls of send, at least one, and ends    *)
(* with the first of them that was made without ZMQ_SNDMORE.               *)
Message(b, cs) ==
  /\ b.parts # <<>>
  /\ \A k \in DOMAIN b.parts : b.parts[k] \in DOMAIN cs
  /\ \A k \in 1 .. Len(b.parts) - 1 :
       /\ b.parts[k + 1] = b.parts[k] + 1
       /\ cs[b.parts[k]]
  /\ cs[Final(b)] = ~b.isClosed

(* The batches of s cover the calls of send from the first one on.         *)
Contiguous(s) ==
  /\ s # <<>> => First(s[1]) = 1
  /\ \A i \in 1 .. Len(s) - 1 : First(s[i + 1]) = Final(s[i]) + 1

(* The promise of send(): complete messages only leave the queue, each     *)
(* made of consecutive send() calls, cut where a call had no ZMQ_SNDMORE   *)
(* and nowhere else, in the order of the calls, none skipped and none      *)
(* twice - however often a batch is fetched and put back, and whatever is  *)
(* appended to the queue while it is in hand.                              *)
SettledInOrder ==
  /\ \A i \in DOMAIN settled : settled[i].isClosed /\ Message(settled[i], calls)
  /\ Contiguous(settled)

-----------------------------------------------------------------------------
(* All batches there have ever been, in the order they were begun.  Only   *)
(* AppendChunk changes it: this makes the inductive invariant short.       *)
Flow == settled \o hand \o outgoing

(* The value of every variable.                                            *)
OutboxType ==
  /\ outgoing \in Seq(Batch)
  /\ hand \in Seq(Batch)
  /\ Len(hand) <= 1
  /\ settled \in Seq(Batch)
  /\ failed \subseteq DOMAIN settled
  /\ calls \in Seq(BOOLEAN)

(* The batches of f are the messages of the calls cs, the last one possibly*)
(* incomplete.                                                             *)
Messages(f, cs) ==
  /\ \A i \in DOMAIN f : Message(f[i], cs)
  /\ \A i \in 1 .. Len(f) - 1 : f[i].isClosed
  /\ Contiguous(f)
  /\ IF f = <<>> THEN cs = <<>> ELSE Final(LastOf(f)) = Len(cs)

(* The inductive form of SettledInOrder: fetch never takes a batch that is *)
(* still open.                                                             *)
OutboxInv ==
  /\ OutboxType
  /\ Messages(Flow, calls)
  /\ outgoing = <<>> /\ Flow # <<>> => LastOf(Flow).isClosed
=============================================================================
