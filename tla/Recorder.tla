------------------------------ MODULE Recorder ------------------------------
(***************************************************************************)
(* The voice server's recorder (src/mumble/src/murmur/Server.cpp): the     *)
(* threads that handle audio packets push a message for each of them to    *)
(* recordingQueue, and the recording thread takes the messages and appends *)
(* a record to the file of the packet's user.                              *)
(*                                                                         *)
(* The queue is a std::queue that no lock protects, and a message holds a  *)
(* pointer to the thread's buffer, not the bytes.  So a push is two steps  *)
(* (the slot, the count), the bytes are read when they are written, in two *)
(* steps (a packet may arrive between them), and the buffer holds by then  *)
(* whatever its thread has put there.                                      *)
(***************************************************************************)
EXTENDS Naturals, Sequences

CONSTANTS
    User,         \* the users who speak
    Thread,       \* the threads that handle packets: network, tunnel, fakes
    Heap,         \* those of them whose buffer is freed after each packet
    None,         \* no packet, no message
    MaxPackets    \* bound: packets handled

(* A packet is known by its number; len and user stand for it in a message. *)
Packet == [user : User, n : 1 .. MaxPackets]

(* AudioMsg: data is a pointer to the buffer of a thread. *)
Message == [packet : Packet, data : Thread]

ASSUME RecorderAssumption ==
    /\ MaxPackets \in Nat
    /\ Heap \subseteq Thread
    /\ None \notin Packet \cup Message

VARIABLES
    handled,      \* the packets handled so far, in the order they arrived
    buffer,       \* the packet in each thread's buffer; None: bytes of no packet
    handler,      \* what each thread is doing, to which packet and slot
    slot,         \* the slots of the queue; it keeps those it has popped
    head, tail,   \* the slots from head up to tail are in the queue
    recorder,     \* what the recording thread is doing
    msg,          \* the message it has copied from the front of the queue
    begun,        \* the packet whose bytes it has begun to write
    written,      \* the records of all files, in the order they were written
    recording     \* bRecording

vars == <<handled, buffer, handler, slot, head, tail, recorder, msg, begun,
          written, recording>>
producers == <<handled, buffer, handler>>
consumer == <<recorder, msg, begun, written>>

-----------------------------------------------------------------------------
(* A record: the packet its file and length come from, and the packets its
   first and its last bytes come from. *)
Record == [of : Packet, first : Packet \cup {None}, rest : Packet \cup {None}]

Slot == 0 .. MaxPackets

Handler == [at : {"poll", "fill", "count"}, packet : Packet \cup {None}, slot : Slot]

TypeOK ==
    /\ handled \in Seq(Packet) /\ Len(handled) <= MaxPackets
    /\ buffer \in [Thread -> Packet \cup {None}]
    /\ handler \in [Thread -> Handler]
    /\ slot \in [Slot -> Message \cup {None}]
    /\ head \in Slot /\ tail \in Slot
    /\ recorder \in {"loop", "front", "half"}
    /\ msg \in Message \cup {None}
    /\ begun \in Packet \cup {None}
    /\ written \in Seq(Record)
    /\ recording \in BOOLEAN

Init ==
    /\ handled = <<>>
    /\ buffer = [t \in Thread |-> None]
    /\ handler = [t \in Thread |-> [at |-> "poll", packet |-> None, slot |-> 0]]
    /\ slot = [i \in Slot |-> None]
    /\ head = 0 /\ tail = 0
    /\ recorder = "loop"
    /\ msg = None
    /\ begun = None
    /\ written = <<>>
    /\ recording = TRUE

-----------------------------------------------------------------------------
(* The threads that handle packets: Server::run, which reads each into the one
   buffer on its stack, and Server::message, with an array that is freed after
   the packet. *)

ReceivedLate(t, p) ==                 \* mutant: decrypted after it is recorded
    [buffer EXCEPT ![t] = IF handled = <<>> THEN None ELSE handled[Len(handled)]]
Received(t, p) == [buffer EXCEPT ![t] = p]

Receive(t, u) ==
    LET p == [user |-> u, n |-> Len(handled) + 1]
    IN  /\ handler[t].at = "poll"
        /\ Len(handled) < MaxPackets
        /\ handled' = Append(handled, p)
        /\ buffer' = Received(t, p)
        /\ handler' = [handler EXCEPT ![t].at = "fill", ![t].packet = p]
        /\ UNCHANGED <<slot, head, tail, consumer, recording>>

(* A datagram that checkDecrypt refuses, or that is a ping, is decrypted into
   the same buffer, and is not handled. *)
Discard(t) ==
    /\ t \notin Heap
    /\ handler[t].at = "poll"
    /\ buffer' = [buffer EXCEPT ![t] = None]
    /\ UNCHANGED <<handled, handler, slot, head, tail, consumer, recording>>

(* recordAudio, push: the message is copied to the slot past the last one, *)
Fill(t) ==
    /\ handler[t].at = "fill"
    /\ slot' = [slot EXCEPT ![tail] = [packet |-> handler[t].packet, data |-> t]]
    /\ handler' = [handler EXCEPT ![t].at = "count", ![t].slot = tail]
    /\ UNCHANGED <<handled, buffer, head, tail, consumer, recording>>

(* and counted, with the end as the thread has seen it or as it now is; then
   the packet is sent on, and its array freed. *)
Counted(t) == {handler[t].slot + 1, tail + 1}

Count(t) ==
    /\ handler[t].at = "count"
    /\ tail' \in Counted(t)
    /\ handler' = [handler EXCEPT ![t].at = "poll"]
    /\ buffer' = IF t \in Heap THEN [buffer EXCEPT ![t] = None] ELSE buffer
    /\ UNCHANGED <<handled, slot, head, consumer, recording>>

-----------------------------------------------------------------------------
(* The recording thread: recordLoop. *)

EmptyButOne == tail - head <= 1                    \* mutant: the last one is left
Empty == head = tail

Take ==
    /\ recorder = "loop" /\ recording /\ ~Empty
    /\ msg' = slot[head]
    /\ recorder' = "front"
    /\ UNCHANGED <<producers, slot, head, tail, begun, written, recording>>

(* The file is opened, the header written, and the bytes begun (a slot that
   was never filled holds no user and no pointer: the server crashes); *)
Begin ==
    /\ recorder = "front" /\ msg # None
    /\ begun' = buffer[msg.data]
    /\ recorder' = "half"
    /\ UNCHANGED <<producers, slot, head, tail, msg, written, recording>>

(* the bytes are written to the end, and the message is popped. *)
NotPopped == head                                  \* mutant: pop forgotten
Popped == head + 1

Finish ==
    /\ recorder = "half"
    /\ written' = Append(written, [of |-> msg.packet, first |-> begun,
                                   rest |-> buffer[msg.data]])
    /\ head' = Popped
    /\ recorder' = "loop"
    /\ UNCHANGED <<producers, slot, tail, msg, begun, recording>>

(* stopRecording: the loop ends with its turn, and what is queued is lost. *)
Stop ==
    /\ recording
    /\ recording' = FALSE
    /\ UNCHANGED <<producers, slot, head, tail, consumer>>

-----------------------------------------------------------------------------
Next ==
    \/ \E t \in Thread : \/ \E u \in User : Receive(t, u)
                         \/ Discard(t) \/ Fill(t) \/ Count(t)
    \/ Take \/ Begin \/ Finish
    \/ Stop

Spec == Init /\ [][Next]_vars

(* Threads run; nobody need speak.  The recording thread sees what the others
   have pushed, though nothing in the code obliges a compiler to let it. *)
Fairness ==
    /\ \A t \in Thread : WF_vars(Fill(t)) /\ WF_vars(Count(t))
    /\ WF_vars(Take) /\ WF_vars(Begin) /\ WF_vars(Finish)

FairSpec == Spec /\ Fairness

-----------------------------------------------------------------------------
(* Properties. *)

(* The records are those of the packets, one each and in their order: none is
   lost, repeated or put into another user's file, and the queue never counts
   below nothing.  It holds for one thread that pushes. *)
RecordsInOrder ==
    /\ head <= tail
    /\ Len(written) <= Len(handled)
    /\ \A i \in 1 .. Len(written) : written[i].of = handled[i]

(* No byte of a record is of an older packet than the record's, and its last
   bytes are of no older packet than its first.  They may be of a later packet
   of the network thread, as its buffer moves on, or of no packet at all: of a
   datagram that was refused or, with a tunnel or a fake, of a freed array.  It
   holds for one thread that pushes. *)
BytesNotOlder ==
    \A i \in 1 .. Len(written) :
        LET r == written[i] IN
        /\ r.first # None => r.first.n >= r.of.n
        /\ r.rest # None => r.rest.n >= r.of.n
        /\ r.first # None /\ r.rest # None => r.rest.n >= r.first.n

(* Every packet that is handled gets its record, unless the recording is
   stopped: what is queued then is lost. *)
HandledIsRecorded ==
    \A n \in 1 .. MaxPackets :
        Len(handled) >= n ~> Len(written) >= n \/ ~recording

(* What the comments say: the message is processed by the recording thread,
   the data is written to the file.  It is not always this packet's data. *)
RecordedAsSent ==
    \A i \in 1 .. Len(written) :
        written[i].first = written[i].of /\ written[i].rest = written[i].of

-----------------------------------------------------------------------------
(* The inductive invariant of a server with one thread that pushes. *)

OneProducer == Heap = {} /\ \E t \in Thread : Thread = {t}

(* The packet of a thread that has not counted it yet is the last one handled. *)
Pending(t) == IF handler[t].at = "poll" THEN 0 ELSE 1

ThreadInOrder(t) ==
    /\ tail + Pending(t) = Len(handled)
    /\ handler[t].at # "poll" => handler[t].packet = handled[Len(handled)]
    /\ handler[t].at = "count" =>
          /\ handler[t].slot = tail
          /\ slot[tail] = [packet |-> handled[tail + 1], data |-> t]
    /\ buffer[t] # None => Len(handled) > 0 /\ buffer[t] = handled[Len(handled)]

QueueInOrder ==
    /\ \A i \in 1 .. Len(handled) : handled[i].n = i
    /\ \A i \in 0 .. tail - 1 :
          slot[i] \in Message /\ slot[i].packet = handled[i + 1]

RecorderInOrder ==
    /\ head = Len(written)
    /\ head <= tail
    /\ recorder # "loop" => head < tail /\ msg = slot[head]
    /\ recorder = "half" /\ begun # None =>
          begun.n >= msg.packet.n /\ begun.n <= Len(handled)
    /\ \A i \in 1 .. Len(written) : written[i].of = handled[i]
    /\ BytesNotOlder

(* The thread is at most one message behind, the queue holds the packets in
   order, and the recording thread follows it. *)
OneThreadInv == /\ TypeOK
                /\ \A t \in Thread : ThreadInOrder(t)
                /\ QueueInOrder
                /\ RecorderInOrder
=============================================================================
