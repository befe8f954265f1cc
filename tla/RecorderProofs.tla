--------------------------- MODULE RecorderProofs ---------------------------
(***************************************************************************)
(* Theorems about Recorder when one thread handles the packets, for any    *)
(* users and any number of packets.                                        *)
(***************************************************************************)
EXTENDS Recorder, TLAPS

LEMMA OneThreadInit == Init => OneThreadInv
  BY RecorderAssumption
     DEF Init, OneThreadInv, ThreadInOrder, QueueInOrder, RecorderInOrder, TypeOK,
         Handler, Slot, Pending, BytesNotOlder

(* A packet is handled: the thread has it in its buffer, and will push it. *)
LEMMA ReceiveStep ==
    ASSUME OneProducer, OneThreadInv, NEW t \in Thread, NEW u \in User, Receive(t, u)
    PROVE  OneThreadInv'
  <1> DEFINE p == [user |-> u, n |-> Len(handled) + 1]
  <1>1. /\ handler[t].at = "poll" /\ Len(handled) < MaxPackets
        /\ handled' = Append(handled, p)
        /\ buffer' = [buffer EXCEPT ![t] = p]
        /\ handler' = [handler EXCEPT ![t].at = "fill", ![t].packet = p]
        /\ UNCHANGED <<slot, head, tail, recorder, msg, begun, written, recording>>
    BY DEF Receive, Received, consumer
  <1>t. TypeOK /\ QueueInOrder /\ RecorderInOrder /\ ThreadInOrder(t) /\ Thread = {t}
    BY DEF OneThreadInv, OneProducer
  <1>2. p \in Packet /\ p.n = Len(handled) + 1
    BY <1>1, <1>t, RecorderAssumption DEF Packet, TypeOK
  <1> HIDE DEF p
  <1>3. /\ handled' \in Seq(Packet) /\ Len(handled') = Len(handled) + 1
        /\ handled'[Len(handled) + 1] = p
        /\ \A i \in 1 .. Len(handled) : handled'[i] = handled[i]
    BY <1>1, <1>2, <1>t DEF TypeOK
  <1>4. /\ handler'[t].at = "fill" /\ handler'[t].packet = p
        /\ handler' \in [Thread -> Handler]
    BY <1>1, <1>2, <1>t DEF TypeOK, Handler
  <1>5. TypeOK'
    <2>1. Len(handled') <= MaxPackets
      BY <1>1, <1>3, <1>t, RecorderAssumption DEF TypeOK
    <2>2. buffer' \in [Thread -> Packet \cup {None}]
      BY <1>1, <1>2, <1>t DEF TypeOK
    <2>3. QED BY <1>1, <1>3, <1>4, <1>t, <2>1, <2>2 DEF TypeOK
  <1>6. tail = Len(handled)
    BY <1>1, <1>t DEF ThreadInOrder, Pending, TypeOK, Slot
  <1>7. ThreadInOrder(t)'
    BY <1>1, <1>3, <1>4, <1>6, <1>t DEF ThreadInOrder, Pending, TypeOK
  <1>8. QueueInOrder'
    BY <1>1, <1>2, <1>3, <1>6, <1>t DEF QueueInOrder, TypeOK, Slot
  <1>9. RecorderInOrder'
    BY <1>1, <1>3, <1>6, <1>t DEF RecorderInOrder, BytesNotOlder, TypeOK, Slot, Packet
  <1>10. QED BY <1>5, <1>7, <1>8, <1>9, <1>t DEF OneThreadInv

(* The buffer is overwritten with bytes of no packet. *)
LEMMA DiscardStep ==
    ASSUME OneProducer, OneThreadInv, NEW t \in Thread, Discard(t)
    PROVE  OneThreadInv'
  <1>1. /\ buffer' = [buffer EXCEPT ![t] = None]
        /\ UNCHANGED <<handled, handler, slot, head, tail, recorder, msg, begun, written, recording>>
    BY DEF Discard, consumer
  <1>t. TypeOK /\ QueueInOrder /\ RecorderInOrder /\ ThreadInOrder(t) /\ Thread = {t}
    BY DEF OneThreadInv, OneProducer
  <1>2. TypeOK'
    BY <1>1, <1>t DEF TypeOK
  <1>3. ThreadInOrder(t)'
    BY <1>1, <1>t DEF ThreadInOrder, Pending, TypeOK
  <1>4. QueueInOrder' /\ RecorderInOrder'
    BY <1>1, <1>t DEF QueueInOrder, RecorderInOrder, BytesNotOlder
  <1> QED  BY <1>2, <1>3, <1>4, <1>t DEF OneThreadInv

(* The slot is filled past the end, where nobody reads yet. *)
LEMMA FillStep ==
    ASSUME OneProducer, OneThreadInv, NEW t \in Thread, Fill(t)
    PROVE  OneThreadInv'
  <1> DEFINE m == [packet |-> handler[t].packet, data |-> t]
  <1>1. /\ handler[t].at = "fill"
        /\ slot' = [slot EXCEPT ![tail] = m]
        /\ handler' = [handler EXCEPT ![t].at = "count", ![t].slot = tail]
        /\ UNCHANGED <<handled, buffer, head, tail, recorder, msg, begun, written, recording>>
    BY DEF Fill, consumer
  <1>t. TypeOK /\ QueueInOrder /\ RecorderInOrder /\ ThreadInOrder(t) /\ Thread = {t}
    BY DEF OneThreadInv, OneProducer
  <1>2. /\ tail + 1 = Len(handled) /\ tail \in Slot /\ tail \in Nat
        /\ handler[t].packet = handled[tail + 1] /\ handled[tail + 1] \in Packet
    BY <1>1, <1>t DEF ThreadInOrder, Pending, TypeOK, Slot
  <1>3. m \in Message /\ m = [packet |-> handled[tail + 1], data |-> t]
    BY <1>2 DEF Message
  <1> HIDE DEF m
  <1>4. /\ handler' \in [Thread -> Handler] /\ handler'[t].at = "count"
        /\ handler'[t].slot = tail /\ handler'[t].packet = handler[t].packet
    BY <1>1, <1>2, <1>t DEF TypeOK, Handler
  <1>5. /\ slot' \in [Slot -> Message \cup {None}]
        /\ slot'[tail] = m /\ \A i \in 0 .. tail - 1 : slot'[i] = slot[i]
    BY <1>1, <1>2, <1>3, <1>t DEF TypeOK, Slot
  <1>6. TypeOK'
    BY <1>1, <1>4, <1>5, <1>t DEF TypeOK
  <1>7. ThreadInOrder(t)'
    BY <1>1, <1>2, <1>3, <1>4, <1>5, <1>t DEF ThreadInOrder, Pending
  <1>8. QueueInOrder'
    BY <1>1, <1>5, <1>t DEF QueueInOrder
  <1>9. RecorderInOrder'
    <2>1. recorder # "loop" => slot'[head] = slot[head]
      BY <1>5, <1>t DEF RecorderInOrder, TypeOK, Slot
    <2>2. QED BY <1>1, <1>t, <2>1 DEF RecorderInOrder, BytesNotOlder
  <1>10. QED BY <1>6, <1>7, <1>8, <1>9, <1>t DEF OneThreadInv

(* The message is counted: both outcomes are the next slot. *)
LEMMA CountStep ==
    ASSUME OneProducer, OneThreadInv, NEW t \in Thread, Count(t)
    PROVE  OneThreadInv'
  <1>t. TypeOK /\ QueueInOrder /\ RecorderInOrder /\ ThreadInOrder(t) /\ Thread = {t}
    BY DEF OneThreadInv, OneProducer
  <1>1. /\ handler[t].at = "count" /\ tail' = tail + 1
        /\ handler' = [handler EXCEPT ![t].at = "poll"]
        /\ UNCHANGED <<handled, buffer, slot, head, recorder, msg, begun, written, recording>>
    BY <1>t DEF Count, Counted, ThreadInOrder, OneProducer, consumer
  <1>2. /\ tail + 1 = Len(handled) /\ tail \in Nat
        /\ slot[tail] = [packet |-> handled[tail + 1], data |-> t]
        /\ handled[tail + 1] \in Packet
    BY <1>1, <1>t DEF ThreadInOrder, Pending, TypeOK, Slot
  <1>3. handler' \in [Thread -> Handler] /\ handler'[t].at = "poll"
    BY <1>1, <1>t DEF TypeOK, Handler
  <1>4. TypeOK'
    BY <1>1, <1>2, <1>3, <1>t, RecorderAssumption DEF TypeOK, Slot
  <1>5. ThreadInOrder(t)'
    BY <1>1, <1>2, <1>3, <1>t DEF ThreadInOrder, Pending
  <1>6. QueueInOrder'
    BY <1>1, <1>2, <1>t DEF QueueInOrder, Message
  <1>7. RecorderInOrder'
    BY <1>1, <1>2, <1>t DEF RecorderInOrder, BytesNotOlder, TypeOK, Slot
  <1>8. QED BY <1>4, <1>5, <1>6, <1>7, <1>t DEF OneThreadInv
-----------------------------------------------------------------------------
(* The recording thread. *)

(* What is in the queue while the recording thread has a message of it. *)
LEMMA FrontOfQueue ==
    ASSUME OneProducer, OneThreadInv, recorder # "loop"
    PROVE  /\ msg \in Message /\ msg.packet \in Packet
           /\ head + 1 \in 1 .. Len(handled)
           /\ msg.packet = handled[head + 1] /\ msg.packet.n = head + 1
           /\ buffer[msg.data] \in Packet \cup {None}
           /\ buffer[msg.data] # None => buffer[msg.data].n = Len(handled)
  <1>t. TypeOK /\ QueueInOrder /\ RecorderInOrder
    BY DEF OneThreadInv
  <1>1. PICK t \in Thread : Thread = {t} /\ ThreadInOrder(t)
    BY DEF OneProducer, OneThreadInv
  <1>2. head \in Nat /\ tail \in Nat /\ head < tail /\ tail <= Len(handled) /\ Len(handled) \in Nat
    BY <1>t, <1>1 DEF TypeOK, Slot, ThreadInOrder, Pending, RecorderInOrder
  <1>3. msg \in Message /\ msg.packet = handled[head + 1]
    BY <1>t, <1>2 DEF RecorderInOrder, QueueInOrder
  <1>4. msg.data = t /\ msg.packet \in Packet
    BY <1>1, <1>3 DEF Message
  <1>5. head + 1 \in 1 .. Len(handled) /\ Len(handled) \in 1 .. Len(handled)
    BY <1>2
  <1>6. buffer[t] # None => buffer[t] = handled[Len(handled)]
    BY <1>1 DEF ThreadInOrder
  <1>7. /\ buffer[t] \in Packet \cup {None}
        /\ buffer[t] # None => buffer[t].n = Len(handled)
    BY <1>5, <1>6, <1>t DEF TypeOK, QueueInOrder
  <1>8. QED BY <1>3, <1>4, <1>5, <1>7, <1>t DEF QueueInOrder

LEMMA TakeStep == ASSUME OneThreadInv, Take PROVE OneThreadInv'
  <1>1. /\ recorder = "loop" /\ head # tail /\ msg' = slot[head] /\ recorder' = "front"
        /\ UNCHANGED <<handled, buffer, handler, slot, head, tail, begun, written, recording>>
    BY DEF Take, Empty, producers
  <1>t. TypeOK /\ QueueInOrder /\ RecorderInOrder
    BY DEF OneThreadInv
  <1>2. head < tail /\ slot[head] \in Message
    BY <1>1, <1>t DEF TypeOK, Slot, RecorderInOrder, QueueInOrder
  <1>3. TypeOK' /\ QueueInOrder'
    BY <1>1, <1>2, <1>t DEF TypeOK, QueueInOrder
  <1>4. RecorderInOrder'
    BY <1>1, <1>2, <1>t DEF RecorderInOrder, BytesNotOlder
  <1>5. \A t \in Thread : ThreadInOrder(t)'
    BY <1>1 DEF OneThreadInv, ThreadInOrder, Pending
  <1>6. QED BY <1>3, <1>4, <1>5 DEF OneThreadInv

LEMMA BeginStep == ASSUME OneProducer, OneThreadInv, Begin PROVE OneThreadInv'
  <1>1. /\ recorder = "front" /\ begun' = buffer[msg.data] /\ recorder' = "half"
        /\ UNCHANGED <<handled, buffer, handler, slot, head, tail, msg, written, recording>>
    BY DEF Begin, producers
  <1>t. TypeOK /\ QueueInOrder /\ RecorderInOrder
    BY DEF OneThreadInv
  <1>2. /\ buffer[msg.data] \in Packet \cup {None}
        /\ buffer[msg.data] # None => buffer[msg.data].n = Len(handled)
        /\ msg.packet.n <= Len(handled)
    BY <1>1, FrontOfQueue, <1>t DEF TypeOK
  <1>3. TypeOK' /\ QueueInOrder'
    BY <1>1, <1>2, <1>t DEF TypeOK, QueueInOrder
  <1>4. RecorderInOrder'
    BY <1>1, <1>2, <1>t DEF RecorderInOrder, BytesNotOlder, TypeOK
  <1>5. \A t \in Thread : ThreadInOrder(t)'
    BY <1>1 DEF OneThreadInv, ThreadInOrder, Pending
  <1>6. QED BY <1>3, <1>4, <1>5 DEF OneThreadInv

(* The record is the next packet's, and its bytes are not older. *)
LEMMA FinishStep == ASSUME OneProducer, OneThreadInv, Finish PROVE OneThreadInv'
  <1> DEFINE r == [of |-> msg.packet, first |-> begun, rest |-> buffer[msg.data]]
  <1>1. /\ recorder = "half" /\ written' = Append(written, r)
        /\ head' = head + 1 /\ recorder' = "loop"
        /\ UNCHANGED <<handled, buffer, handler, slot, tail, msg, begun, recording>>
    BY DEF Finish, Popped, producers
  <1>t. TypeOK /\ QueueInOrder /\ RecorderInOrder
    BY DEF OneThreadInv
  <1>2. /\ r.of = handled[head + 1] /\ r.of \in Packet /\ r \in Record
        /\ r.first # None => r.first.n >= r.of.n
        /\ r.rest # None => r.rest.n >= r.of.n
        /\ r.first # None /\ r.rest # None => r.rest.n >= r.first.n
    <2>1. /\ r.of = handled[head + 1] /\ r.of \in Packet
          /\ r.first = begun /\ r.rest = buffer[msg.data] /\ r.of = msg.packet
      BY <1>1, FrontOfQueue
    <2>2. r \in Record
      BY <1>1, FrontOfQueue, <1>t, <2>1 DEF TypeOK, Record
    <2>3. r.first # None => r.first.n >= r.of.n /\ r.first.n <= Len(handled)
      BY <1>1, <1>t, <2>1 DEF RecorderInOrder
    <2>4. r.rest # None => r.rest.n = Len(handled)
      BY <1>1, FrontOfQueue, <2>1
    <2>5. r.of.n \in Nat /\ r.of.n <= Len(handled) /\ Len(handled) \in Nat
      BY <1>1, FrontOfQueue, <1>t, <2>1 DEF TypeOK
    <2> HIDE DEF r
    <2> QED  BY <2>1, <2>2, <2>3, <2>4, <2>5
  <1> HIDE DEF r
  <1>3. /\ written' \in Seq(Record) /\ Len(written') = Len(written) + 1
        /\ written'[Len(written) + 1] = r
        /\ \A i \in 1 .. Len(written) : written'[i] = written[i]
    BY <1>1, <1>2, <1>t DEF TypeOK
  <1>4. head \in Nat /\ tail \in Nat /\ head < tail /\ head = Len(written)
    BY <1>1, <1>t DEF RecorderInOrder, TypeOK, Slot
  <1>5. TypeOK' /\ QueueInOrder'
    <2>1. head' \in Slot
      BY <1>1, <1>4, <1>t, RecorderAssumption DEF TypeOK, Slot
    <2>2. QED BY <1>1, <1>3, <1>t, <2>1 DEF TypeOK, QueueInOrder
  <1>6. BytesNotOlder'
    BY <1>2, <1>3, <1>4, <1>t DEF RecorderInOrder, BytesNotOlder
  <1>7. \A i \in 1 .. Len(written') : written'[i].of = handled'[i]
    BY <1>1, <1>2, <1>3, <1>4, <1>t DEF RecorderInOrder
  <1>8. RecorderInOrder'
    BY <1>1, <1>3, <1>4, <1>6, <1>7 DEF RecorderInOrder
  <1>9. \A t \in Thread : ThreadInOrder(t)'
    BY <1>1 DEF OneThreadInv, ThreadInOrder, Pending
  <1>10. QED BY <1>5, <1>8, <1>9 DEF OneThreadInv

LEMMA StopStep == ASSUME OneThreadInv, Stop \/ UNCHANGED vars PROVE OneThreadInv'
  <1>1. /\ recording' \in BOOLEAN
        /\ UNCHANGED <<handled, buffer, handler, slot, head, tail, recorder, msg, begun, written>>
    BY DEF Stop, vars, producers, consumer, OneThreadInv, TypeOK
  <1>2. TypeOK'
    BY <1>1 DEF OneThreadInv, TypeOK
  <1>3. QueueInOrder' /\ RecorderInOrder'
    BY <1>1 DEF OneThreadInv, QueueInOrder, RecorderInOrder, BytesNotOlder
  <1>4. \A t \in Thread : ThreadInOrder(t)'
    BY <1>1 DEF OneThreadInv, ThreadInOrder, Pending
  <1>5. QED BY <1>2, <1>3, <1>4 DEF OneThreadInv

LEMMA OneThreadNext == OneProducer /\ OneThreadInv /\ [Next]_vars => OneThreadInv'
  BY ReceiveStep, DiscardStep, FillStep, CountStep, TakeStep, BeginStep, FinishStep, StopStep DEF Next

(* With one thread that pushes, the invariant holds in every reachable state. *)
THEOREM RecorderInductive == ASSUME OneProducer PROVE Spec => []OneThreadInv
  BY OneThreadInit, OneThreadNext, PTL DEF Spec

(* With one thread that pushes, the variables keep their types: no message is
   put past the last slot, and every record is a packet's. *)
THEOREM RecorderTyped == ASSUME OneProducer PROVE Spec => []TypeOK
  <1>1. OneThreadInv => TypeOK
    BY DEF OneThreadInv
  <1>2. QED BY <1>1, RecorderInductive, PTL

(* With one thread that pushes, the recording has one record for each packet,
   in the order of the packets, although no lock protects the queue. *)
THEOREM RecordsAreInOrder == ASSUME OneProducer PROVE Spec => []RecordsInOrder
  <1>1. ASSUME OneThreadInv PROVE RecordsInOrder
    <2>1. PICK t \in Thread : ThreadInOrder(t)
      BY <1>1 DEF OneProducer, OneThreadInv
    <2>2. head <= tail /\ head = Len(written) /\ tail <= Len(handled)
      BY <1>1, <2>1 DEF OneThreadInv, RecorderInOrder, ThreadInOrder, Pending, TypeOK, Slot
    <2>3. QED BY <1>1, <2>2 DEF OneThreadInv, RecorderInOrder, RecordsInOrder, TypeOK, Slot
  <1>2. QED BY <1>1, RecorderInductive, PTL

(* With one thread that pushes, no byte of a record is of a packet older than
   the record's: each is the packet's, a later one's, or of no packet. *)
THEOREM BytesAreNotOlder == ASSUME OneProducer PROVE Spec => []BytesNotOlder
  <1>1. OneThreadInv => BytesNotOlder
    BY DEF OneThreadInv, RecorderInOrder
  <1>2. QED BY <1>1, RecorderInductive, PTL
=============================================================================
