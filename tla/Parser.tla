------------------------------- MODULE Parser -------------------------------
(***************************************************************************)
(* The parser of recordings (src/mams-parser/main.ts): it reads the        *)
(* records of a file one after the other, finds the Opus data in each      *)
(* packet, and writes what it decodes to a stream.  A packet is a sequence *)
(* of bytes as Mumble's clients write it (src/mumble/src/                  *)
(* PacketDataStream.h), with a variable-length sequence number and length. *)
(*                                                                         *)
(* Node runs the parser's loop and the stream's events on one thread: an   *)
(* event is handled only while the loop waits for a read.                  *)
(***************************************************************************)
EXTENDS Naturals, Sequences

CONSTANTS
    SeqNumber,    \* sequence numbers of packets
    Length,       \* lengths of Opus data
    Null,         \* no data, no packet
    HighWater,    \* chunks the stream holds when it asks the writer to wait
    MaxPackets    \* bound: packets in the file

(* A sequence number fits an int, a length the 13 bits below the terminator. *)
ASSUME ParserAssumption ==
    /\ \A n \in SeqNumber : n \in Nat /\ n <= 2147483647
    /\ \A n \in Length : n \in Nat /\ n <= 8191
    /\ Null \notin Seq(Nat)
    /\ HighWater \in Nat \ {0}
    /\ MaxPackets \in Nat

-----------------------------------------------------------------------------
(* Variable-length integers.  Bits are taken by division and remainder. *)

(* operator<<, of a number that is not negative and below 2^31. *)
Encode(i) ==
    IF i < 128 THEN <<i>>
    ELSE IF i < 16384 THEN <<128 + i \div 256, i % 256>>
    ELSE IF i < 2097152
         THEN <<192 + i \div 65536, (i \div 256) % 256, i % 256>>
    ELSE IF i < 268435456
         THEN <<224 + i \div 16777216, (i \div 65536) % 256, (i \div 256) % 256, i % 256>>
    ELSE <<240, i \div 16777216, (i \div 65536) % 256, (i \div 256) % 256, i % 256>>

(* A byte of a buffer; past its end it is undefined, which counts as 0. *)
ByteAt(buffer, k) == IF k \in DOMAIN buffer THEN buffer[k] ELSE 0

(* readVarInt: the width of a number in bytes, by its first byte.  The forms
   Encode never writes (64 bits, negative numbers) are left out. *)
WidthShort(head) ==                   \* mutant: 28 bits taken for 21
    IF head < 128 THEN 1 ELSE IF head < 192 THEN 2 ELSE IF head < 240 THEN 3 ELSE 5
Width(head) ==
    IF head < 128 THEN 1
    ELSE IF head < 192 THEN 2
    ELSE IF head < 224 THEN 3
    ELSE IF head < 240 THEN 4
    ELSE IF head < 244 THEN 5
    ELSE 0

(* readVarInt: the number at a position, and its width.  In the long forms &
   binds weaker than <<, so that their first byte adds nothing. *)
ReadVarInt(buffer, k) ==
    LET Byte(n) == ByteAt(buffer, k + n)
        width == Width(ByteAt(buffer, k))
    IN  [width |-> width,
         value |-> CASE width = 1 -> ByteAt(buffer, k)
                     [] width = 2 -> (256 * (ByteAt(buffer, k) % 64)) + Byte(1)
                     [] width = 3 -> (256 * Byte(1)) + Byte(2)
                     [] width = 4 -> (65536 * Byte(1)) + (256 * Byte(2)) + Byte(3)
                     [] width = 5 -> (16777216 * Byte(1)) + (65536 * Byte(2))
                                        + (256 * Byte(3)) + Byte(4)
                     [] OTHER -> 0]

-----------------------------------------------------------------------------
(* Packets. *)

(* last: the terminator bit, set in the last packet of an utterance. *)
Packet == [seq : SeqNumber, len : Length, last : BOOLEAN]

(* Some data of that length: any bytes will do. *)
Data(len) == [k \in 1 .. len |-> k % 251]

(* What the client sends: the type, the sequence number, the length and the
   terminator, the data. *)
Header(p) == IF p.last THEN p.len + 8192 ELSE p.len

Chunk(p) == <<128>> \o Encode(p.seq) \o Encode(Header(p)) \o Data(p.len)

(* extractOpusData.  A length beyond the buffer is taken for a terminator. *)
ExtractOpusData(buffer) ==
    LET at == 2 + ReadVarInt(buffer, 2).width
        length == ReadVarInt(buffer, at).value
        from == at + ReadVarInt(buffer, at).width
    IN  IF length > Len(buffer) THEN Null
        ELSE [k \in 1 .. length |-> ByteAt(buffer, from + k - 1)]

-----------------------------------------------------------------------------
VARIABLES
    pc,           \* where main is: "loop", "header", "body", "end"
    packet,       \* the packet of the record it has read last
    data,         \* what it has extracted from that packet
    nread,        \* records read so far
    buffered,     \* chunks in the stream's buffer
    outNeedsDrain

vars == <<pc, packet, data, nread, buffered, outNeedsDrain>>

TypeOK ==
    /\ pc \in {"loop", "header", "body", "end"}
    /\ packet \in Packet \cup {Null}
    /\ data = Null \/ data = Data(Len(data))
    /\ nread \in 0 .. MaxPackets
    /\ buffered \in 0 .. HighWater
    /\ outNeedsDrain \in BOOLEAN

Init ==
    /\ pc = "loop"
    /\ packet = Null
    /\ data = Null
    /\ nread = 0
    /\ buffered = 0
    /\ outNeedsDrain = FALSE

(* The head of the loop.  While the stream needs to drain the loop goes round
   without a wait: no step of it changes anything. *)
Loop ==
    /\ pc = "loop" /\ ~outNeedsDrain
    /\ pc' = "header"
    /\ UNCHANGED <<packet, data, nread, buffered, outNeedsDrain>>

(* The header of the next record is read, *)
ReadHeader(p) ==
    /\ pc = "header" /\ nread < MaxPackets
    /\ packet' = p
    /\ nread' = nread + 1
    /\ pc' = "body"
    /\ UNCHANGED <<data, buffered, outNeedsDrain>>

(* or the file ends. *)
EndOfFile ==
    /\ pc = "header"
    /\ pc' = "end"
    /\ UNCHANGED <<packet, data, nread, buffered, outNeedsDrain>>

(* write answers false. *)
FullLate(n) == n > HighWater          \* mutant: asked to wait one chunk late
Full(n) == n >= HighWater

(* The packet is read, its data extracted, decoded and written. *)
ReadBody ==
    /\ pc = "body"
    /\ \E chunk \in {Chunk(packet)} : data' = ExtractOpusData(chunk)
    /\ IF data' = Null
       THEN UNCHANGED <<buffered, outNeedsDrain>>
       ELSE /\ buffered' = buffered + 1
            /\ outNeedsDrain' = Full(buffered')
    /\ pc' = "loop"
    /\ UNCHANGED <<packet, nread>>

(* Events are handled while main waits for a read, or has returned: a chunk is
   on disk, and "drain" fires with the last one. *)
WaitingInMain == pc \in {"header", "body"}  \* mutant: the process ends with main
Waiting == pc \in {"header", "body", "end"}

Flush ==
    /\ Waiting
    /\ buffered > 0
    /\ buffered' = buffered - 1
    /\ outNeedsDrain' = (outNeedsDrain /\ buffered' > 0)
    /\ UNCHANGED <<pc, packet, data, nread>>

Next == Loop \/ (\E p \in Packet : ReadHeader(p)) \/ EndOfFile \/ ReadBody \/ Flush

Spec == Init /\ [][Next]_vars

(* Reads and writes of files come to an end, and so does the file. *)
Fairness ==
    /\ WF_vars(Loop)
    /\ WF_vars((\E p \in Packet : ReadHeader(p)) \/ EndOfFile)
    /\ WF_vars(ReadBody)
    /\ WF_vars(Flush)

FairSpec == Spec /\ Fairness

-----------------------------------------------------------------------------
(* Properties. *)

(* The data of every packet is found, whatever its sequence number, although
   readVarInt gets long numbers wrong: it gets their width right.  Only the
   last packet of an utterance is left out. *)
DataFound ==
    pc = "loop" /\ packet # Null =>
        data = IF packet.last THEN Null ELSE Data(packet.len)

(* Once the stream is full it stays full: the loop that waits for "drain" never
   lets the event be handled. *)
DrainNeverSeen == [][outNeedsDrain => outNeedsDrain']_vars

(* Unless the stream is ever full, the file is parsed to its end and everything
   decoded is written. *)
EndsUnlessFull == <>(outNeedsDrain \/ (pc = "end" /\ buffered = 0))

(* What the comment says: processing pauses while the stream is draining, and
   so it goes on.  It does not. *)
ParserEnds == <>(pc = "end")

(* Why both hold: the stream needs to drain only while main stands at the head
   of its loop, it does so whenever it is full, and a record is at hand once
   its header has been read. *)
ParserInv ==
    /\ TypeOK
    /\ pc = "body" => packet \in Packet
    /\ outNeedsDrain => pc = "loop"
    /\ buffered = HighWater => outNeedsDrain
    /\ DataFound
=============================================================================
