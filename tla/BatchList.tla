------------------------------ MODULE BatchList ------------------------------
(***************************************************************************)
(* The linked list behind a socket's outgoing queue (BatchList and OutBatch*)
(* in lib/index.js).  It implements Outbox.                                *)
(*                                                                         *)
(* The delicate part is a batch that _flushWrite holds between fetch and   *)
(* restore: it is in the list no more, but it may still be lastBatch, so   *)
(* what is appended meanwhile is linked to it.                             *)
(***************************************************************************)
EXTENDS Naturals, Sequences

VARIABLES
  batches,           \* every OutBatch created: content and isClosed
  next,              \* and its next: a position in batches or null
  firstBatch,        \* positions in batches, or null
  lastBatch,
  length,
  inHand,            \* the batch in _flushWrite, or null
  settled, failed,   \* history, as in Outbox
  calls

listVars == <<batches, next, firstBatch, lastBatch, length>>
vars == <<listVars, inHand, settled, failed, calls>>

null == 0

(* What the list holds, if next goes from each batch to the one created    *)
(* after it (Linked, below).                                               *)
Queue == IF firstBatch = null THEN <<>> ELSE SubSeq(batches, firstBatch, Len(batches))
Held == IF inHand = null THEN <<>> ELSE <<batches[inHand]>>

Abstract == INSTANCE Outbox WITH outgoing <- Queue, hand <- Held

Init ==
  /\ batches = <<>> /\ next = <<>>
  /\ firstBatch = null /\ lastBatch = null /\ length = 0
  /\ inHand = null
  /\ settled = <<>> /\ failed = {} /\ calls = <<>>

-----------------------------------------------------------------------------
(* OutBatch.append to batch b of bs: chunk c, whose last flags have        *)
(* ZMQ_SNDMORE or not.                                                     *)
Filled(bs, b, c, more) ==
  [bs EXCEPT ![b] = [parts |-> Append(@.parts, c), isClosed |-> @.isClosed \/ ~more]]

(* Does append need a new batch?                                           *)
Full == lastBatch = null \/ batches[lastBatch].isClosed

(* Mistake: the new batch is linked only if there is a first one.          *)
AppendUnlinked(more) ==
  /\ calls' = Append(calls, more)
  /\ LET c == Len(calls')
         b == IF Full THEN Len(batches) + 1 ELSE lastBatch
     IN /\ batches' = IF Full
                        THEN Filled(Append(batches, [parts |-> <<>>, isClosed |-> FALSE]), b, c, more)
                        ELSE Filled(batches, b, c, more)
        /\ next' = IF ~Full THEN next
                   ELSE IF firstBatch = null THEN Append(next, null)
                   ELSE Append([next EXCEPT ![lastBatch] = b], null)
        /\ lastBatch' = b
        /\ firstBatch' = IF Full /\ firstBatch = null THEN b ELSE firstBatch
        /\ length' = IF Full THEN length + 1 ELSE length
  /\ UNCHANGED <<inHand, settled, failed>>

append(more) ==
  /\ calls' = Append(calls, more)
  /\ LET c == Len(calls')
         b == IF Full THEN Len(batches) + 1 ELSE lastBatch
     IN /\ batches' = IF Full
                        THEN Filled(Append(batches, [parts |-> <<>>, isClosed |-> FALSE]), b, c, more)
                        ELSE Filled(batches, b, c, more)
        /\ next' = IF ~Full THEN next
                   ELSE IF lastBatch = null THEN Append(next, null)
                   ELSE Append([next EXCEPT ![lastBatch] = b], null)
        /\ lastBatch' = b
        /\ firstBatch' = IF Full /\ firstBatch = null THEN b ELSE firstBatch
        /\ length' = IF Full THEN length + 1 ELSE length
  /\ UNCHANGED <<inHand, settled, failed>>

(* Mistake: a batch that is still open is taken.                           *)
FetchOpen ==
  /\ inHand = null
  /\ firstBatch # null
  /\ inHand' = firstBatch
  /\ firstBatch' = next[firstBatch]
  /\ length' = length - 1
  /\ UNCHANGED <<batches, next, lastBatch, settled, failed, calls>>

fetch ==
  /\ inHand = null
  /\ firstBatch # null /\ batches[firstBatch].isClosed
  /\ inHand' = firstBatch
  /\ firstBatch' = next[firstBatch]
  /\ length' = length - 1
  /\ UNCHANGED <<batches, next, lastBatch, settled, failed, calls>>

restore ==
  /\ inHand # null
  /\ firstBatch' = inHand
  /\ length' = length + 1
  /\ inHand' = null
  /\ UNCHANGED <<batches, next, lastBatch, settled, failed, calls>>

(* _flushWrite is done with a batch: sendv has sent it or has thrown.      *)
finish(sent) ==
  /\ inHand # null
  /\ settled' = Append(settled, batches[inHand])
  /\ failed' = IF sent THEN failed ELSE failed \cup {Len(settled')}
  /\ inHand' = null
  /\ UNCHANGED <<listVars, calls>>

Next ==
  \/ \E more \in BOOLEAN : append(more)
  \/ fetch \/ restore
  \/ \E sent \in BOOLEAN : finish(sent)

Spec == Init /\ [][Next]_vars

-----------------------------------------------------------------------------
(* next goes through the batches in the order of their creation, also      *)
(* through those that have left the list, and the last one ends it.        *)
Linked ==
  /\ lastBatch = Len(batches) /\ Len(next) = Len(batches)
  /\ \A b \in DOMAIN next : next[b] = IF b < lastBatch THEN b + 1 ELSE null

(* A batch in hand is the one before the first in the list, so that restore*)
(* brings back the list as it was, with what was appended since; a batch is*)
(* never out of the list while it is still open, or a later part would be  *)
(* appended to what is gone.                                               *)
ListInv ==
  /\ batches \in Seq(Abstract!Batch) /\ next \in Seq(Nat)
  /\ firstBatch \in 0 .. Len(batches) /\ inHand \in 0 .. Len(batches)
  /\ Linked
  /\ inHand # null => next[inHand] = firstBatch /\ batches[inHand].isClosed
  /\ firstBatch = null /\ lastBatch # null => batches[lastBatch].isClosed

(* The list is the queue that SocketPump relies on.                        *)
ImplementsOutbox == Abstract!OutboxSpec
=============================================================================
