------------------------------ MODULE SendParts ------------------------------
(***************************************************************************)
(* How sendv (binding.cc) gives the parts of a batch to libzmq one by one, *)
(* while the pipe to the peer may go and come, memory may run out, and a   *)
(* part may be refused.  SocketPump takes a call of sendv for one step.    *)
(*                                                                         *)
(* The parts of batch b are <<b, 1>>, <<b, 2>> ...                         *)
(***************************************************************************)
EXTENDS Integers, Sequences

CONSTANTS
  MaxParts,          \* bound: parts of a batch
  MaxBatches,        \* bound: batches
  HWM                \* messages the pipe to the peer takes

ASSUME SendPartsAssumption ==
  /\ MaxParts \in Nat \ {0} /\ MaxBatches \in Nat /\ HWM \in Nat \ {0}

VARIABLES
  (* libzmq *)
  room,              \* messages that the pipe to the peer accepts, or NoPipe
  open,              \* the parts it has of a message that is not complete
  dropping,          \* their pipe is gone: it drops the rest of the message
  sent,              \* the complete messages it has taken
  (* lib/index.js and sendv *)
  asksAlways,        \* built for libzmq 2 or 3: it asks for POLLOUT before each part
  sizes,             \* the batches, as numbers of parts
  batch,             \* the one that is first in the queue
  part,              \* the parts of it that sendv has sent
  pc,                \* "idle", "asked" (POLLOUT was seen) or "between" two parts
  (* history *)
  vanished,          \* has the pipe gone since POLLOUT was seen?
  torn,              \* batches that failed when libzmq had some of their parts
  away               \* batches that libzmq dropped with their pipe

pipeVars == <<room, open, dropping, sent>>
vars == <<pipeVars, asksAlways, sizes, batch, part, pc, vanished, torn, away>>

-----------------------------------------------------------------------------
(* libzmq: in the middle of a message a socket is always writable.         *)
NoPipe == -1
Midway == open # <<>> \/ dropping
Writable == Midway \/ room > 0

Drain ==
  /\ room \in 0 .. HWM - 1
  /\ room' = room + 1
  /\ UNCHANGED <<open, dropping, sent, sizes, batch, part, pc, vanished, torn, away>>

(* The peer goes away, and with it what it has of an open message.         *)
Disconnect ==
  /\ room # NoPipe
  /\ room' = NoPipe
  /\ open' = <<>> /\ dropping' = Midway
  /\ vanished' = TRUE
  /\ UNCHANGED <<sent, sizes, batch, part, pc, torn, away>>

Connect ==
  /\ room = NoPipe
  /\ room' = HWM
  /\ UNCHANGED <<open, dropping, sent, sizes, batch, part, pc, vanished, torn, away>>

-----------------------------------------------------------------------------
Current == batch <= Len(sizes)
IsLast == part + 1 = sizes[batch]

(* send of lib/index.js: another batch is complete.                        *)
Send(n) ==
  /\ Len(sizes) < MaxBatches
  /\ sizes' = Append(sizes, n)
  /\ UNCHANGED <<pipeVars, batch, part, pc, vanished, torn, away>>

MayAsk == Current /\ (pc = "idle" \/ (pc = "between" /\ asksAlways))

(* Mistake: sendv does not look at the answer.                             *)
Unasked ==
  /\ MayAsk
  /\ pc' = "asked"
  /\ vanished' = FALSE
  /\ UNCHANGED <<pipeVars, sizes, batch, part, torn, away>>

(* sendv asks whether the socket is writable.  If it is not it returns     *)
(* false, wherever it is in the batch, and the whole batch is restored.    *)
Ask ==
  /\ MayAsk
  /\ IF Writable THEN pc' = "asked" /\ UNCHANGED part
                 ELSE pc' = "idle" /\ part' = 0
  /\ vanished' = FALSE
  /\ UNCHANGED <<pipeVars, sizes, batch, torn, away>>

MaySend == pc = "asked" \/ (pc = "between" /\ ~asksAlways)

(* Mistake: the next call of sendv goes on with the parts of the last one. *)
DoneKeepsPart == batch' = batch + 1 /\ UNCHANGED part /\ pc' = "idle"

(* The batch is done with; _flushWrite calls its callbacks.                *)
Done == batch' = batch + 1 /\ part' = 0 /\ pc' = "idle"

(* zmq_msg_send for a part with ZMQ_SNDMORE, and for the last one.  It     *)
(* waits until there is a pipe, called again whenever a signal ends it.    *)
SendMore ==
  /\ MaySend /\ ~IsLast /\ Writable
  /\ open' = IF dropping THEN <<>> ELSE Append(open, <<batch, part + 1>>)
  /\ part' = part + 1 /\ pc' = "between"
  /\ UNCHANGED <<room, dropping, sent, sizes, batch, vanished, torn, away>>

SendLast ==
  /\ MaySend /\ IsLast /\ Writable
  /\ IF dropping
       THEN away' = away \cup {batch} /\ UNCHANGED <<sent, room>>
       ELSE /\ sent' = Append(sent, Append(open, <<batch, part + 1>>))
            /\ room' = room - 1
            /\ UNCHANGED away
  /\ open' = <<>> /\ dropping' = FALSE
  /\ Done
  /\ UNCHANGED <<sizes, vanished, torn>>

(* Mistake: the batch is kept to be sent once more.                        *)
ThrowKeeping ==
  /\ MaySend
  /\ torn' = IF part > 0 THEN torn \cup {batch} ELSE torn
  /\ part' = 0 /\ pc' = "idle"
  /\ UNCHANGED <<pipeVars, sizes, batch, vanished, away>>

(* There is no memory for a copy of the part, or zmq_msg_send refuses it:  *)
(* sendv throws, and _flushWrite drops the batch.  What libzmq has of it   *)
(* stays there.                                                            *)
Throw ==
  /\ MaySend
  /\ torn' = IF part > 0 THEN torn \cup {batch} ELSE torn
  /\ Done
  /\ UNCHANGED <<pipeVars, sizes, vanished, away>>

-----------------------------------------------------------------------------
Init ==
  /\ room = HWM /\ open = <<>> /\ dropping = FALSE /\ sent = <<>>
  /\ asksAlways \in BOOLEAN
  /\ sizes = <<>> /\ batch = 1 /\ part = 0 /\ pc = "idle"
  /\ vanished = FALSE /\ torn = {} /\ away = {}

Sendv == Ask \/ SendMore \/ SendLast \/ Throw
Network == Drain \/ Connect \/ Disconnect

Next ==
  /\ Network \/ Sendv \/ \E n \in 1 .. MaxParts : Send(n)
  /\ UNCHANGED asksAlways

Spec == Init /\ [][Next]_vars

-----------------------------------------------------------------------------
(* Part i of batch b, and the parts of one message.                        *)
Part == Nat \X Nat
Message == Seq(Part)

(* The value of every variable.                                            *)
TypeOK ==
  /\ dropping \in BOOLEAN /\ vanished \in BOOLEAN /\ asksAlways \in BOOLEAN
  /\ room \in {NoPipe} \cup 0 .. HWM
  /\ sizes \in Seq(1 .. MaxParts)
  /\ batch \in 1 .. Len(sizes) + 1
  /\ part \in 0 .. MaxParts /\ (part > 0 => Current /\ part < sizes[batch])
  /\ pc \in {"idle", "asked", "between"}
  /\ torn \cup away \subseteq 1 .. Len(sizes)
  /\ open \in Message /\ sent \in Seq(Message)

(* The last n parts of message m are the first n of batch b, and those     *)
(* before them are of batches that failed midway earlier.                  *)
EndsWith(m, n, b) ==
  LET before == Len(m) - n
  IN /\ before >= 0
     /\ \A i \in 1 .. n : m[before + i] = <<b, i>>
     /\ \A i \in 1 .. before : m[i][1] < b /\ m[i][1] \in torn

(* "message parts with their flags that need to be sent as one unit"       *)
(* (lib/index.js:184): each message that libzmq takes is one batch, whole. *)
(* sendv does not keep this when it throws in the middle of a batch: what  *)
(* libzmq has of it becomes the beginning of the next message.             *)
SentAsOneUnit ==
  \A k \in DOMAIN sent : \E b \in 1 .. batch - 1 :
    sent[k] = [i \in 1 .. sizes[b] |-> <<b, i>>]

(* What remains true: a message is a whole batch, and in front of it there *)
(* are only beginnings of batches that failed midway before it, for which  *)
(* the callbacks were told an error.                                       *)
WholeOrMerged ==
  \A k \in DOMAIN sent : \E b \in 1 .. batch - 1 : EndsWith(sent[k], sizes[b], b)

(* A batch that waits in the queue, or was put back into it because the    *)
(* socket was not writable, has no part in libzmq: sending it later cannot *)
(* repeat one.                                                             *)
NothingSentOfRestored ==
  pc = "idle" =>
    /\ \A i \in DOMAIN open : open[i][1] < batch
    /\ \A k \in DOMAIN sent : \A i \in DOMAIN sent[k] : sent[k][i][1] < batch

(* The event loop waits in zmq_msg_send only if the pipe has gone since    *)
(* sendv saw POLLOUT.                                                      *)
WaitsAfterLossOnly == MaySend /\ ~Writable => vanished

=============================================================================
