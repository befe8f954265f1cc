---------------------------- MODULE ParserProofs ----------------------------
(***************************************************************************)
(* Theorems about Parser, for any sequence numbers below 2^31, lengths of  *)
(* Opus data below 2^13, stream and file.                                  *)
(***************************************************************************)
EXTENDS Parser, SequenceTheorems, TLAPS

(* What fits an int, and what fits two bytes. *)
Fits(i) == i \in Nat /\ i <= 2147483647
FitsTwo(i) == i < 16384

(* Quotients and remainders that are bytes. *)
LEMMA Bytes ==
    ASSUME NEW i \in Nat, i <= 2147483647
    PROVE  /\ i % 256 \in Nat /\ i % 256 <= 255
           /\ (i \div 256) % 256 \in Nat /\ (i \div 256) % 256 <= 255
           /\ (i \div 65536) % 256 \in Nat /\ (i \div 65536) % 256 <= 255
           /\ i \div 256 \in Nat /\ i = (256 * (i \div 256)) + (i % 256)
           /\ i \div 65536 \in Nat /\ i \div 16777216 \in Nat
           /\ i \div 16777216 <= 127
           /\ i < 16384 => i \div 256 <= 63
           /\ i < 2097152 => i \div 65536 <= 31
           /\ i < 268435456 => i \div 16777216 <= 15
  <1>1. /\ i % 256 \in Nat /\ i % 256 <= 255
        /\ i \div 256 \in Nat /\ i = (256 * (i \div 256)) + (i % 256)
    BY SMT
  <1>2. (i \div 256) % 256 \in Nat /\ (i \div 256) % 256 <= 255
    BY SMT
  <1>3. (i \div 65536) % 256 \in Nat /\ (i \div 65536) % 256 <= 255
    BY SMT
  <1>4. i \div 65536 \in Nat /\ i \div 16777216 \in Nat /\ i \div 16777216 <= 127
    BY SMT
  <1>5. i < 16384 => i \div 256 <= 63
    BY SMT
  <1>6. i < 2097152 => i \div 65536 <= 31
    BY SMT
  <1>7. i < 268435456 => i \div 16777216 <= 15
    BY SMT
  <1>8. QED BY <1>1, <1>2, <1>3, <1>4, <1>5, <1>6, <1>7, SMT

(* An encoded number is one to five bytes, and its first byte tells how many. *)
LEMMA EncodeBytes ==
    ASSUME NEW i \in Nat, i <= 2147483647
    PROVE  /\ Encode(i) \in Seq(Nat)
           /\ i < 128 => Encode(i) = <<i>>
           /\ 128 <= i /\ i < 16384 => Encode(i) = <<128 + (i \div 256), i % 256>>
           /\ 16384 <= i /\ i < 2097152 =>
                 Len(Encode(i)) = 3 /\ 192 <= Encode(i)[1] /\ Encode(i)[1] <= 223
           /\ 2097152 <= i /\ i < 268435456 =>
                 Len(Encode(i)) = 4 /\ 224 <= Encode(i)[1] /\ Encode(i)[1] <= 239
           /\ 268435456 <= i => Len(Encode(i)) = 5 /\ Encode(i)[1] = 240
  <1>1. CASE i < 128
    <2>1. Encode(i) = <<i>>
      BY <1>1, SMT DEF Encode
    <2>2. QED BY <1>1, <2>1, SMT
  <1>2. CASE 128 <= i /\ i < 16384
    <2>1. Encode(i) = <<128 + (i \div 256), i % 256>>
      BY <1>2, SMT DEF Encode
    <2>2. 128 + (i \div 256) \in Nat /\ i % 256 \in Nat
      BY Bytes, SMT
    <2>3. <<128 + (i \div 256), i % 256>> \in Seq(Nat)
      BY <2>2, SMT
    <2>4. QED BY <1>2, <2>1, <2>3, SMT
  <1>3. CASE 16384 <= i /\ i < 2097152
    <2> DEFINE a == 192 + (i \div 65536)
               b == (i \div 256) % 256
               c == i % 256
    <2>1. Encode(i) = <<a, b, c>>
      BY <1>3, SMT DEF Encode
    <2>2. a \in Nat /\ 192 <= a /\ a <= 223 /\ b \in Nat /\ c \in Nat
      BY <1>3, Bytes, SMT
    <2> HIDE DEF a, b, c
    <2>3. Encode(i) \in Seq(Nat) /\ Len(Encode(i)) = 3 /\ Encode(i)[1] = a
      BY <2>1, <2>2, SMT
    <2>4. QED BY <1>3, <2>2, <2>3, SMT
  <1>4. CASE 2097152 <= i /\ i < 268435456
    <2> DEFINE a == 224 + (i \div 16777216)
               b == (i \div 65536) % 256
               c == (i \div 256) % 256
               d == i % 256
    <2>1. Encode(i) = <<a, b, c, d>>
      BY <1>4, SMT DEF Encode
    <2>2. a \in Nat /\ 224 <= a /\ a <= 239 /\ b \in Nat /\ c \in Nat /\ d \in Nat
      BY <1>4, Bytes, SMT
    <2> HIDE DEF a, b, c, d
    <2>3. Encode(i) \in Seq(Nat) /\ Len(Encode(i)) = 4 /\ Encode(i)[1] = a
      BY <2>1, <2>2, SMT
    <2>4. QED BY <1>4, <2>2, <2>3, SMT
  <1>5. CASE 268435456 <= i
    <2> DEFINE a == i \div 16777216
               b == (i \div 65536) % 256
               c == (i \div 256) % 256
               d == i % 256
    <2>1. Encode(i) = <<240, a, b, c, d>>
      BY <1>5, SMT DEF Encode
    <2>2. a \in Nat /\ b \in Nat /\ c \in Nat /\ d \in Nat
      BY Bytes, SMT
    <2> HIDE DEF a, b, c, d
    <2>3. Encode(i) \in Seq(Nat) /\ Len(Encode(i)) = 5 /\ Encode(i)[1] = 240
      BY <2>1, <2>2, SMT
    <2>4. QED BY <1>5, <2>3, SMT
  <1>6. QED BY <1>1, <1>2, <1>3, <1>4, <1>5, SMT

(* readVarInt finds the width of every number, and the value of those of at
   most 14 bits: all that the parser needs. *)
LEMMA ReadEncoded ==
    ASSUME NEW i \in Nat, i <= 2147483647, NEW buffer, NEW k \in Nat,
           \A j \in 1 .. Len(Encode(i)) : ByteAt(buffer, k + (j - 1)) = Encode(i)[j]
    PROVE  /\ ReadVarInt(buffer, k).width = Len(Encode(i))
           /\ i < 16384 => ReadVarInt(buffer, k).value = i
  <1> DEFINE head == ByteAt(buffer, k)
  <1>1. Len(Encode(i)) \in Nat /\ Len(Encode(i)) >= 1
    BY EncodeBytes, SMT
  <1>2. head = Encode(i)[1]
    <2>1. 1 \in 1 .. Len(Encode(i)) /\ k + (1 - 1) = k
      BY <1>1, SMT
    <2>2. QED BY <2>1
  <1>3. CASE i < 128
    <2>1. head = i /\ Len(Encode(i)) = 1
      BY <1>2, <1>3, EncodeBytes, SMT
    <2>2. ReadVarInt(buffer, k) = [value |-> head, width |-> 1]
      BY <1>3, <2>1, SMT DEF ReadVarInt, Width
    <2>3. QED BY <2>1, <2>2, SMT
  <1>4. CASE 128 <= i /\ i < 16384
    <2>1. i \div 256 \in Nat /\ i \div 256 <= 63 /\ i % 256 \in Nat
          /\ i = (256 * (i \div 256)) + (i % 256)
      BY <1>4, Bytes, SMT
    <2>2. Encode(i) = <<128 + (i \div 256), i % 256>>
      BY <1>4, EncodeBytes, SMT
    <2>3. Len(Encode(i)) = 2 /\ head = 128 + (i \div 256)
      BY <1>2, <2>2, SMT
    <2>4. ByteAt(buffer, k + 1) = i % 256
      <3>1. 2 \in 1 .. Len(Encode(i)) /\ k + (2 - 1) = k + 1 /\ Encode(i)[2] = i % 256
        BY <2>2, SMT
      <3>2. QED BY <3>1
    <2>5. head % 64 = i \div 256
      BY <2>1, <2>3, SMT
    <2>6. Width(head) = 2
      BY <2>1, <2>3, SMT DEF Width
    <2>7. ReadVarInt(buffer, k).width = 2
      BY <2>6, SMT DEF ReadVarInt
    <2>8. ReadVarInt(buffer, k).value = (256 * (head % 64)) + ByteAt(buffer, k + 1)
      BY <2>6, SMT DEF ReadVarInt
    <2>9. QED BY <2>1, <2>2, <2>3, <2>4, <2>5, <2>7, <2>8, SMT
  <1>5. CASE 16384 <= i /\ i < 2097152
    <2>1. Len(Encode(i)) = 3 /\ 192 <= head /\ head <= 223 /\ head \in Nat
      BY <1>1, <1>2, <1>5, EncodeBytes, SMT
    <2>2. ReadVarInt(buffer, k).width = 3
      BY <2>1, SMT DEF ReadVarInt, Width
    <2>3. QED BY <1>5, <2>1, <2>2, SMT
  <1>6. CASE 2097152 <= i /\ i < 268435456
    <2>1. Len(Encode(i)) = 4 /\ 224 <= head /\ head <= 239 /\ head \in Nat
      BY <1>1, <1>2, <1>6, EncodeBytes, SMT
    <2>2. ReadVarInt(buffer, k).width = 4
      BY <2>1, SMT DEF ReadVarInt, Width
    <2>3. QED BY <1>6, <2>1, <2>2, SMT
  <1>7. CASE 268435456 <= i
    <2>1. Len(Encode(i)) = 5 /\ head = 240
      BY <1>2, <1>7, EncodeBytes, SMT
    <2>2. ReadVarInt(buffer, k).width = 5
      BY <2>1, SMT DEF ReadVarInt, Width
    <2>3. QED BY <1>7, <2>1, <2>2, SMT
  <1>8. QED BY <1>3, <1>4, <1>5, <1>6, <1>7, SMT

(* The bytes of a part of a concatenation, at their positions in the whole. *)
LEMMA PartBytes ==
    ASSUME NEW a \in Seq(Nat), NEW b \in Seq(Nat), NEW c \in Seq(Nat)
    PROVE  \A j \in 1 .. Len(b) : ByteAt(a \o b \o c, Len(a) + j) = b[j]
  <1> SUFFICES ASSUME NEW j \in 1 .. Len(b)
               PROVE  ByteAt(a \o b \o c, Len(a) + j) = b[j]
    OBVIOUS
  <1>1. /\ a \o b \in Seq(Nat) /\ Len(a \o b) = Len(a) + Len(b)
        /\ (a \o b)[Len(a) + j] = b[j]
        /\ Len(a) + j \in 1 .. Len(a \o b)
    BY SMT
  <1>2. /\ Len(a \o b \o c) = Len(a \o b) + Len(c)
        /\ (a \o b \o c)[Len(a) + j] = (a \o b)[Len(a) + j]
        /\ Len(a) + j \in DOMAIN (a \o b \o c)
    BY <1>1, SMT
  <1>3. QED BY <1>1, <1>2, SMT DEF ByteAt

(* The same, with the bounds kept out of sight. *)
LEMMA ReadFits ==
    ASSUME NEW i, Fits(i), NEW buffer, NEW k \in Nat,
           \A j \in 1 .. Len(Encode(i)) : ByteAt(buffer, k + (j - 1)) = Encode(i)[j]
    PROVE  /\ ReadVarInt(buffer, k).width = Len(Encode(i))
           /\ FitsTwo(i) => ReadVarInt(buffer, k).value = i
  <1>1. i \in Nat /\ i <= 2147483647
    BY SMT DEF Fits
  <1>2. /\ ReadVarInt(buffer, k).width = Len(Encode(i))
        /\ i < 16384 => ReadVarInt(buffer, k).value = i
    BY <1>1, ReadEncoded, SMT
  <1>3. QED BY <1>2, SMT DEF FitsTwo

(* A part of a concatenation is read as it was encoded. *)
LEMMA ReadPart ==
    ASSUME NEW a \in Seq(Nat), NEW i, Fits(i), NEW c \in Seq(Nat)
    PROVE  /\ ReadVarInt(a \o Encode(i) \o c, Len(a) + 1).width = Len(Encode(i))
           /\ FitsTwo(i) => ReadVarInt(a \o Encode(i) \o c, Len(a) + 1).value = i
  <1> DEFINE buffer == a \o Encode(i) \o c
             k == Len(a) + 1
  <1>1. Encode(i) \in Seq(Nat)
    BY EncodeBytes, SMT DEF Fits
  <1>2. ASSUME NEW j \in 1 .. Len(Encode(i))
        PROVE  ByteAt(buffer, k + (j - 1)) = Encode(i)[j]
    <2>1. ByteAt(buffer, Len(a) + j) = Encode(i)[j]
      BY <1>1, PartBytes
    <2>2. k + (j - 1) = Len(a) + j
      BY <1>1, SMT
    <2>3. QED BY <2>1, <2>2
  <1>3. k \in Nat
    BY SMT
  <1> HIDE DEF buffer, k
  <1>4. /\ ReadVarInt(buffer, k).width = Len(Encode(i))
        /\ FitsTwo(i) => ReadVarInt(buffer, k).value = i
    BY <1>2, <1>3, ReadFits
  <1>5. QED BY <1>4 DEF buffer, k

(* How long the encodings are. *)
LEMMA EncodeLength ==
    ASSUME NEW i, Fits(i)
    PROVE  /\ Encode(i) \in Seq(Nat) /\ Len(Encode(i)) \in Nat /\ Len(Encode(i)) <= 5
           /\ FitsTwo(i) => Len(Encode(i)) <= 2
  <1>1. i \in Nat /\ i <= 2147483647
    BY SMT DEF Fits
  <1>2. Encode(i) \in Seq(Nat)
    BY <1>1, EncodeBytes, SMT
  <1>3. CASE i < 128
    <2>1. Encode(i) = <<i>>
      BY <1>1, <1>3, EncodeBytes, SMT
    <2>2. QED BY <1>2, <2>1, SMT
  <1>4. CASE 128 <= i /\ i < 16384
    <2>1. Encode(i) = <<128 + (i \div 256), i % 256>>
      BY <1>1, <1>4, EncodeBytes, SMT
    <2>2. QED BY <1>2, <2>1, SMT
  <1>5. CASE 16384 <= i
    <2>1. Len(Encode(i)) \in {3, 4, 5}
      BY <1>1, <1>5, EncodeBytes, SMT
    <2>2. ~FitsTwo(i)
      BY <1>1, <1>5, SMT DEF FitsTwo
    <2>3. \A n \in {3, 4, 5} : n \in Nat /\ n <= 5
      BY SMT
    <2>4. QED BY <1>2, <2>1, <2>2, <2>3
  <1>6. QED BY <1>1, <1>3, <1>4, <1>5, SMT

(* Four parts put together: types and lengths. *)
LEMMA FourParts ==
    ASSUME NEW a \in Seq(Nat), NEW b \in Seq(Nat), NEW c \in Seq(Nat), NEW d \in Seq(Nat)
    PROVE  /\ c \o d \in Seq(Nat) /\ a \o b \in Seq(Nat)
           /\ a \o b \o c \in Seq(Nat) /\ a \o b \o c \o d \in Seq(Nat)
           /\ Len(a \o b) = Len(a) + Len(b)
           /\ Len(a \o b \o c) = (Len(a) + Len(b)) + Len(c)
           /\ Len(a \o b \o c \o d) = ((Len(a) + Len(b)) + Len(c)) + Len(d)
  <1>1. a \o b \in Seq(Nat) /\ Len(a \o b) = Len(a) + Len(b) /\ c \o d \in Seq(Nat)
    BY ConcatProperties
  <1>2. /\ a \o b \o c \in Seq(Nat)
        /\ Len(a \o b \o c) = (Len(a) + Len(b)) + Len(c)
    BY <1>1, ConcatProperties
  <1>3. /\ a \o b \o c \o d \in Seq(Nat)
        /\ Len(a \o b \o c \o d) = ((Len(a) + Len(b)) + Len(c)) + Len(d)
    BY <1>2, ConcatProperties
  <1>4. QED BY <1>1, <1>2, <1>3

(* The Opus data of every packet is found; a packet with a terminator has a
   length beyond its end. *)
LEMMA ChunkExtracted ==
    ASSUME NEW p \in Packet
    PROVE  ExtractOpusData(Chunk(p)) = IF p.last THEN Null ELSE Data(p.len)
  <1> DEFINE type == <<128>>
             seq == Encode(p.seq)
             hdr == Encode(Header(p))
             dat == Data(p.len)
             buffer == Chunk(p)
             at == 2 + Len(seq)
             from == at + Len(hdr)
  <1>1. /\ p.seq \in Nat /\ p.seq <= 2147483647
        /\ p.len \in Nat /\ p.len <= 8191 /\ p.last \in BOOLEAN
    BY ParserAssumption, SMT DEF Packet
  <1>2. Fits(p.seq) /\ Fits(Header(p)) /\ FitsTwo(Header(p))
    BY <1>1, SMT DEF Header, Fits, FitsTwo
  <1>3. /\ Header(p) \in Nat
        /\ p.last => Header(p) = p.len + 8192
        /\ ~p.last => Header(p) = p.len
    BY <1>1, SMT DEF Header
  <1>4. /\ seq \in Seq(Nat) /\ Len(seq) \in Nat /\ Len(seq) <= 5
        /\ hdr \in Seq(Nat) /\ Len(hdr) \in Nat /\ Len(hdr) <= 2
    BY <1>2, EncodeLength
  <1>5. p.len \in Nat
    BY <1>1, SMT
  <1>6. /\ dat \in Seq(Nat) /\ Len(dat) = p.len
        /\ dat = [k \in 1 .. p.len |-> k % 251]
    BY <1>5, SMT DEF Data
  <1>7. type \in Seq(Nat) /\ Len(type) = 1
    BY SMT
  <1>8. buffer = type \o seq \o hdr \o dat
    BY DEF Chunk
  <1> HIDE DEF type, seq, hdr, dat, buffer
  <1>9. /\ buffer = type \o seq \o (hdr \o dat)
        /\ buffer = (type \o seq \o hdr) \o dat \o << >>
        /\ hdr \o dat \in Seq(Nat) /\ type \o seq \in Seq(Nat)
        /\ type \o seq \o hdr \in Seq(Nat)
        /\ Len(type \o seq) = Len(type) + Len(seq)
        /\ Len(type \o seq \o hdr) = (Len(type) + Len(seq)) + Len(hdr)
        /\ Len(buffer) = ((Len(type) + Len(seq)) + Len(hdr)) + Len(dat)
    <2>1. type \in Seq(Nat) /\ seq \in Seq(Nat) /\ hdr \in Seq(Nat) /\ dat \in Seq(Nat)
      BY <1>4, <1>6, <1>7
    <2>2. /\ hdr \o dat \in Seq(Nat) /\ type \o seq \in Seq(Nat)
          /\ type \o seq \o hdr \in Seq(Nat) /\ type \o seq \o hdr \o dat \in Seq(Nat)
      BY <2>1, FourParts
    <2>3. /\ Len(type \o seq) = Len(type) + Len(seq)
          /\ Len(type \o seq \o hdr) = (Len(type) + Len(seq)) + Len(hdr)
          /\ Len(type \o seq \o hdr \o dat)
                = ((Len(type) + Len(seq)) + Len(hdr)) + Len(dat)
      BY <2>1, FourParts
    <2>4. type \o seq \o hdr \o dat = type \o seq \o (hdr \o dat)
      <3> DEFINE front == type \o seq
      <3>1. front \in Seq(Nat) /\ hdr \in Seq(Nat) /\ dat \in Seq(Nat)
        BY <2>1, <2>2
      <3> HIDE DEF front
      <3>2. (front \o hdr) \o dat = front \o (hdr \o dat)
        BY <3>1, SMT
      <3>3. QED BY <3>2 DEF front
    <2>5. type \o seq \o hdr \o dat = (type \o seq \o hdr) \o dat \o << >>
      BY <2>2, ConcatEmptySeq
    <2>6. QED BY <1>8, <2>2, <2>3, <2>4, <2>5
  <1>10. /\ Len(type) + 1 = 2
         /\ Len(type \o seq) + 1 = at
         /\ Len(buffer) = 1 + Len(seq) + Len(hdr) + p.len
         /\ \A k \in Nat : from + k - 1 = Len(type \o seq \o hdr) + k
    <2>1. /\ Len(type) = 1 /\ Len(dat) = p.len
          /\ Len(seq) \in Nat /\ Len(hdr) \in Nat
      BY <1>4, <1>6, <1>7
    <2>2. Len(type) + 1 = 2 /\ Len(type \o seq) + 1 = at
      BY <1>9, <2>1, SMT
    <2>3. Len(buffer) = 1 + Len(seq) + Len(hdr) + p.len
      BY <1>5, <1>9, <2>1, SMT
    <2>4. \A k \in Nat : from + k - 1 = Len(type \o seq \o hdr) + k
      BY <1>9, <2>1, SMT
    <2>5. QED BY <2>2, <2>3, <2>4
  <1>11. ReadVarInt(buffer, 2).width = Len(seq)
    <2>1. ReadVarInt(type \o Encode(p.seq) \o (hdr \o dat), Len(type) + 1).width
              = Len(Encode(p.seq))
      BY <1>2, <1>7, <1>9, ReadPart
    <2>2. QED BY <1>9, <1>10, <2>1 DEF seq
  <1>12. /\ ReadVarInt(buffer, at).width = Len(hdr)
         /\ ReadVarInt(buffer, at).value = Header(p)
    <2> DEFINE front == type \o seq
    <2>1. front \in Seq(Nat)
      BY <1>9
    <2> HIDE DEF front
    <2>2. /\ ReadVarInt(front \o Encode(Header(p)) \o dat, Len(front) + 1).width
                = Len(Encode(Header(p)))
          /\ ReadVarInt(front \o Encode(Header(p)) \o dat, Len(front) + 1).value = Header(p)
      BY <1>2, <1>6, <2>1, ReadPart
    <2>3. QED BY <1>8, <1>10, <2>2 DEF hdr, front
  <1>13. ExtractOpusData(buffer) =
            IF Header(p) > Len(buffer) THEN Null
            ELSE [k \in 1 .. Header(p) |-> ByteAt(buffer, from + k - 1)]
    BY <1>11, <1>12 DEF ExtractOpusData
  <1>14. CASE p.last
    <2>1. Header(p) > Len(buffer)
      BY <1>1, <1>3, <1>4, <1>10, <1>14, SMT
    <2>2. QED BY <1>13, <1>14, <2>1 DEF buffer
  <1>15. CASE ~p.last
    <2>1. ~(Header(p) > Len(buffer)) /\ Header(p) = p.len
      BY <1>3, <1>4, <1>5, <1>10, <1>15, SMT
    <2>2. ASSUME NEW k \in 1 .. p.len
          PROVE  ByteAt(buffer, from + k - 1) = k % 251
      <3> DEFINE front == type \o seq \o hdr
      <3>1. front \in Seq(Nat) /\ << >> \in Seq(Nat) /\ k \in 1 .. Len(dat) /\ k \in Nat
        BY <1>5, <1>6, <1>9, SMT
      <3>2. buffer = front \o dat \o << >> /\ from + k - 1 = Len(front) + k
        BY <1>9, <1>10, <3>1
      <3> HIDE DEF front
      <3>3. ByteAt(front \o dat \o << >>, Len(front) + k) = dat[k]
        <4>1. dat \in Seq(Nat)
          BY <1>6
        <4> DEFINE none == << >>
        <4>2. none \in Seq(Nat)
          BY <3>1
        <4> HIDE DEF none
        <4>3. \A j \in 1 .. Len(dat) : ByteAt(front \o dat \o none, Len(front) + j) = dat[j]
          BY <3>1, <4>1, <4>2, PartBytes
        <4>4. QED BY <3>1, <4>3 DEF none
      <3>4. dat[k] = k % 251
        BY <1>6
      <3>5. QED BY <3>2, <3>3, <3>4
    <2>3. ExtractOpusData(buffer) = [k \in 1 .. p.len |-> k % 251]
      BY <1>13, <2>1, <2>2
    <2>4. QED BY <1>6, <1>15, <2>3 DEF buffer, dat
  <1>16. QED BY <1>14, <1>15

-----------------------------------------------------------------------------

(* The stream's limit and the file's. *)
LEMMA Limits == HighWater \in Nat \ {0} /\ MaxPackets \in Nat
  BY ParserAssumption, SMT

LEMMA ParserInvInit == Init => ParserInv
  <1> SUFFICES ASSUME Init PROVE ParserInv
    OBVIOUS
  <1>1. buffered \in 0 .. HighWater /\ buffered # HighWater /\ nread \in 0 .. MaxPackets
    BY Limits DEF Init
  <1>2. QED BY <1>1 DEF Init, ParserInv, TypeOK, DataFound

LEMMA ParserInvNext == ParserInv /\ [Next]_vars => ParserInv'
  <1> SUFFICES ASSUME ParserInv, [Next]_vars
               PROVE  ParserInv'
    OBVIOUS
  <1>t. TypeOK
    BY DEF ParserInv
  <1>1. CASE Loop
    BY <1>1 DEF ParserInv, TypeOK, DataFound, Loop
  <1>2. ASSUME NEW p \in Packet, ReadHeader(p)
        PROVE  ParserInv'
    <2>1. nread' \in 0 .. MaxPackets
      BY <1>t, <1>2, Limits DEF ReadHeader, TypeOK
    <2>2. QED BY <1>2, <2>1 DEF ParserInv, TypeOK, DataFound, ReadHeader
  <1>3. CASE EndOfFile
    BY <1>3 DEF ParserInv, TypeOK, DataFound, EndOfFile
  <1>4. CASE ReadBody
    <2>1. packet \in Packet /\ packet' = packet /\ pc' = "loop" /\ nread' = nread
      BY <1>4 DEF ParserInv, ReadBody
    <2>2. data' = ExtractOpusData(Chunk(packet))
      BY <1>4 DEF ReadBody
    <2>3. data' = IF packet.last THEN Null ELSE Data(packet.len)
      BY <2>1, <2>2, ChunkExtracted
    <2>4. data' = Null \/ data' = Data(Len(data'))
      <3>1. packet.len \in Nat
        BY <2>1, ParserAssumption, SMT DEF Packet
      <3>2. Len(Data(packet.len)) = packet.len
        BY <3>1 DEF Data
      <3>3. QED BY <2>3, <3>2
    <2>5. buffered \in Nat /\ buffered < HighWater /\ ~outNeedsDrain
      BY <1>4, <1>t, Limits DEF ParserInv, TypeOK, ReadBody
    <2>6. /\ buffered' \in 0 .. HighWater /\ outNeedsDrain' \in BOOLEAN
          /\ buffered' = HighWater => outNeedsDrain'
      <3>1. IF data' = Null THEN UNCHANGED <<buffered, outNeedsDrain>>
            ELSE buffered' = buffered + 1 /\ outNeedsDrain' = Full(buffered')
        BY <1>4 DEF ReadBody
      <3>2. CASE data' = Null
        <4>1. buffered' = buffered /\ outNeedsDrain' = outNeedsDrain
          BY <3>1, <3>2
        <4>2. buffered' \in 0 .. HighWater /\ buffered' # HighWater
          BY <2>5, <4>1, Limits
        <4>3. QED BY <1>t, <4>1, <4>2 DEF TypeOK
      <3>3. CASE data' # Null
        <4>1. buffered' = buffered + 1 /\ outNeedsDrain' = (buffered' >= HighWater)
          BY <3>1, <3>3 DEF Full
        <4>2. buffered' \in 0 .. HighWater
          BY <2>5, <4>1, Limits
        <4>3. buffered' = HighWater => buffered' >= HighWater
          BY Limits
        <4> DEFINE full == buffered' >= HighWater
        <4>4. full \in BOOLEAN
          OBVIOUS
        <4> HIDE DEF full
        <4>5. outNeedsDrain' = full /\ (buffered' = HighWater => full)
          BY <4>1, <4>3 DEF full
        <4>6. QED BY <4>2, <4>4, <4>5
      <3>4. QED BY <3>2, <3>3
    <2>7. QED BY <1>t, <2>1, <2>3, <2>4, <2>6 DEF ParserInv, TypeOK, DataFound
  <1>5. CASE Flush
    <2>1. ~outNeedsDrain /\ ~outNeedsDrain'
      BY <1>5 DEF ParserInv, Flush, Waiting
    <2>2. buffered' \in 0 .. HighWater /\ buffered' # HighWater
      BY <1>t, <1>5, Limits DEF Flush, TypeOK
    <2>3. QED BY <1>t, <1>5, <2>1, <2>2 DEF ParserInv, TypeOK, DataFound, Flush
  <1>6. CASE UNCHANGED vars
    BY <1>6 DEF ParserInv, TypeOK, DataFound, vars
  <1>7. QED BY <1>1, <1>2, <1>3, <1>4, <1>5, <1>6 DEF Next

(* The invariant holds in every reachable state. *)
THEOREM ParserInductive == Spec => []ParserInv
  BY ParserInvInit, ParserInvNext, PTL DEF Spec

(* The variables keep their types: the stream never holds more chunks than its
   limit, because the loop waits once it is full. *)
THEOREM ParserTyped == Spec => []TypeOK
  <1>1. ParserInv => TypeOK
    BY DEF ParserInv
  <1>2. QED BY <1>1, ParserInductive, PTL

(* extractOpusData finds the data of every packet a client can send: readVarInt
   gets numbers beyond 14 bits wrong, but never their width. *)
THEOREM EveryPacketFound == Spec => []DataFound
  <1>1. ParserInv => DataFound
    BY DEF ParserInv
  <1>2. QED BY <1>1, ParserInductive, PTL

(* A stream that is full stays full: main is at the head of its loop then, and
   no event is handled there. *)
THEOREM FullStaysFull == Spec => DrainNeverSeen
  <1>1. ParserInv /\ [Next]_vars => [outNeedsDrain => outNeedsDrain']_vars
    <2> SUFFICES ASSUME ParserInv, Next, outNeedsDrain
                 PROVE  outNeedsDrain'
      OBVIOUS
    <2>1. pc = "loop"
      BY DEF ParserInv
    <2>2. QED BY <2>1 DEF Next, Loop, ReadHeader, EndOfFile, ReadBody, Flush, Waiting
  <1>2. QED BY <1>1, ParserInductive, PTL DEF Spec, DrainNeverSeen
=============================================================================
