-------------------------- MODULE WireFormatProofs --------------------------
(***************************************************************************)
(* Proofs about WireFormat, for every payload, every sequence number of 32 *)
(* bits and every limit; and, from them, of the properties of the samples  *)
(* that MCStressTool tries the codec on, for every MaxPacketSize and       *)
(* ReadLimit.                                                              *)
(***************************************************************************)
EXTENDS MCStressTool, SequenceTheorems, TLAPS

USE WireAssumption

(* The numbers of 32 bits. *)
IsUint32(n) == n \in Nat /\ n < 4294967296

(* A number of 32 bits comes back from its four bytes. *)
LEMMA Uint32Back ==
    ASSUME NEW n, IsUint32(n)
    PROVE  /\ PutUint32(n) \in Seq(Byte) /\ Len(PutUint32(n)) = 4
           /\ Uint32(PutUint32(n), 1) = n
<1>1. /\ (n \div 16777216) % 256 \in Byte /\ (n \div 65536) % 256 \in Byte
      /\ (n \div 256) % 256 \in Byte /\ n % 256 \in Byte
  BY SMT DEF IsUint32, Byte
<1>2. ((((n \div 16777216) % 256) * 256 + ((n \div 65536) % 256)) * 256
           + ((n \div 256) % 256)) * 256 + (n % 256) = n
  BY SMT DEF IsUint32
<1> QED  BY <1>1, <1>2, SMT DEF PutUint32, Uint32

(* x is s and then t, which have m and n bytes. *)
Joined(x, m, n, s, t) ==
    /\ x \in Seq(Byte) /\ Len(x) = m + n
    /\ \A i \in 1..m : x[i] = s[i]
    /\ \A i \in 1..n : x[m + i] = t[i]

(* Where the two parts of a byte string are. *)
LEMMA Parts ==
    ASSUME NEW m \in Nat, NEW n \in Nat, NEW s \in Seq(Byte), NEW t \in Seq(Byte),
           Len(s) = m, Len(t) = n
    PROVE  Joined(s \o t, m, n, s, t)
<1> DEFINE x == s \o t
<1>1. /\ x \in Seq(Byte) /\ Len(x) = m + n
      /\ \A i \in 1..m + n : x[i] = IF i <= m THEN s[i] ELSE t[i - m]
  BY ConcatProperties
<1> HIDE DEF x
<1>2. ASSUME NEW i \in 1..m PROVE x[i] = s[i]
  BY <1>1
<1>3. ASSUME NEW i \in 1..n PROVE x[m + i] = t[i]
  <2>1. m + i \in 1..m + n /\ ~ (m + i <= m) /\ (m + i) - m = i
    OBVIOUS
  <2> QED  BY <1>1, <2>1
<1>4. Joined(x, m, n, s, t)
  BY <1>1, <1>2, <1>3 DEF Joined
<1> QED  BY <1>4 DEF x

(* A part of a byte string, by its bytes. *)
LEMMA Slice ==
    ASSUME NEW x \in Seq(Byte), NEW s \in Seq(Byte), NEW m \in Nat, NEW n \in Nat,
           Len(s) = n, m + n <= Len(x),
           \A i \in 1..n : x[m + i] = s[i]
    PROVE  SubSeq(x, m + 1, m + n) = s
<1> DEFINE y == SubSeq(x, m + 1, m + n)
<1>1. \A i \in (m + 1)..(m + n) : x[i] \in Byte
  OBVIOUS
<1>2. /\ y \in Seq(Byte)
      /\ Len(y) = IF m + 1 <= m + n THEN (m + n) - (m + 1) + 1 ELSE 0
      /\ \A i \in 1..((m + n) - (m + 1) + 1) : y[i] = x[m + 1 + i - 1]
  <2>1. m + 1 \in Int /\ m + n \in Int
    OBVIOUS
  <2> QED  BY <1>1, <2>1, SubSeqProperties
<1> HIDE DEF y
<1>3. Len(y) = n
  BY <1>2
<1>4. ASSUME NEW i \in 1..n PROVE y[i] = s[i]
  <2>1. i \in 1..((m + n) - (m + 1) + 1) /\ m + 1 + i - 1 = m + i
    OBVIOUS
  <2> QED  BY <1>2, <2>1
<1>5. y = s
  BY <1>2, <1>3, <1>4, SeqEqual
<1> QED  BY <1>5 DEF y

(* h is a, b, c and d, of four bytes each. *)
FourWords(h, a, b, c, d) ==
    /\ h \in Seq(Byte) /\ Len(h) = 16
    /\ \A i \in 1..4 : h[i] = a[i] /\ h[4 + i] = b[i] /\ h[8 + i] = c[i] /\ h[12 + i] = d[i]

(* Where the parts of a frame are: its first sixteen bytes are the header. *)
LEMMA Header ==
    ASSUME NEW a \in Seq(Byte), NEW b \in Seq(Byte), NEW c \in Seq(Byte), NEW d \in Seq(Byte),
           Len(a) = 4, Len(b) = 4, Len(c) = 4, Len(d) = 4
    PROVE  FourWords(a \o b \o c \o d, a, b, c, d)
<1> DEFINE e == a \o b
           f == e \o c
           h == f \o d
<1>0. 4 \in Nat /\ 8 \in Nat /\ 12 \in Nat
  OBVIOUS
<1>1. Joined(e, 4, 4, a, b)
  BY <1>0, Parts
<1> HIDE DEF e
<1>2. e \in Seq(Byte) /\ Len(e) = 8
  BY <1>1 DEF Joined
<1>3. Joined(f, 8, 4, e, c)
  BY <1>0, <1>2, Parts
<1> HIDE DEF f
<1>4. f \in Seq(Byte) /\ Len(f) = 12
  BY <1>3 DEF Joined
<1>5. Joined(h, 12, 4, f, d)
  BY <1>0, <1>4, Parts
<1> HIDE DEF h
<1>6. h \in Seq(Byte) /\ Len(h) = 16
  BY <1>5 DEF Joined
<1>7. ASSUME NEW i \in 1..4
      PROVE  h[i] = a[i] /\ h[4 + i] = b[i] /\ h[8 + i] = c[i] /\ h[12 + i] = d[i]
  <2>1. /\ i \in 1..8 /\ 4 + i \in 1..8
        /\ i \in 1..12 /\ 4 + i \in 1..12 /\ 8 + i \in 1..12
    OBVIOUS
  <2>2. e[i] = a[i] /\ e[4 + i] = b[i]
    BY <1>1 DEF Joined
  <2>3. f[i] = e[i] /\ f[4 + i] = e[4 + i] /\ f[8 + i] = c[i]
    BY <1>3, <2>1 DEF Joined
  <2>4. h[i] = f[i] /\ h[4 + i] = f[4 + i] /\ h[8 + i] = f[8 + i] /\ h[12 + i] = d[i]
    BY <1>5, <2>1 DEF Joined
  <2> QED  BY <2>2, <2>3, <2>4
<1>8. FourWords(h, a, b, c, d)
  BY <1>6, <1>7 DEF FourWords
<1> QED  BY <1>8 DEF h, f, e

(* A packet that the protocol can carry. *)
Legal(route, flags, seq, payload) ==
    /\ route \in Byte /\ flags \in Byte /\ IsUint32(seq)
    /\ payload \in Seq(Byte) /\ IsUint32(Len(payload))

(* h is the header of the packet. *)
HeaderOf(h, route, flags, seq, payload) ==
    /\ Len(h) = 16
    /\ SubSeq(h, 1, 4) = PutUint32(MagicNumber)
    /\ h[5] = route /\ h[6] = flags
    /\ Uint32(h, 9) = Len(payload) /\ Uint32(h, 13) = seq

(* What DecodeHeader finds in a frame, and how the frame is made up. *)
LEMMA FrameParts ==
    ASSUME NEW route, NEW flags, NEW seq, NEW payload, Legal(route, flags, seq, payload)
    PROVE  LET frame == Encode(PacketOf(route, flags, seq, payload)) IN
           \E h \in Seq(Byte) :
               frame = h \o payload /\ HeaderOf(h, route, flags, seq, payload)
<1> DEFINE a == PutUint32(MagicNumber)
           b == <<route, flags, 0, 0>>
           c == PutUint32(Len(payload))
           d == PutUint32(seq)
           h == a \o b \o c \o d
<1>1. /\ route \in Byte /\ flags \in Byte /\ IsUint32(seq)
      /\ payload \in Seq(Byte) /\ IsUint32(Len(payload))
  BY DEF Legal
<1>2. IsUint32(MagicNumber)
  BY SMT DEF MagicNumber, IsUint32
<1>3. a \in Seq(Byte) /\ Len(a) = 4
  BY <1>2, Uint32Back
<1>4. c \in Seq(Byte) /\ Len(c) = 4 /\ Uint32(c, 1) = Len(payload)
  BY <1>1, Uint32Back
<1>5. d \in Seq(Byte) /\ Len(d) = 4 /\ Uint32(d, 1) = seq
  BY <1>1, Uint32Back
<1>6. b \in Seq(Byte) /\ Len(b) = 4 /\ b[1] = route /\ b[2] = flags
  BY <1>1 DEF Byte
<1>7. Encode(PacketOf(route, flags, seq, payload)) = h \o payload
  BY DEF Encode, PacketOf
<1> HIDE DEF a, b, c, d
<1>8. FourWords(h, a, b, c, d)
  BY <1>3, <1>4, <1>5, <1>6, Header
<1> HIDE DEF h
<1>14. /\ h \in Seq(Byte) /\ Len(h) = 16
       /\ \A i \in 1..4 : h[i] = a[i] /\ h[4 + i] = b[i] /\ h[8 + i] = c[i] /\ h[12 + i] = d[i]
  BY <1>8 DEF FourWords
<1>9. SubSeq(h, 1, 4) = a
  <2>1. /\ 0 \in Nat /\ 4 \in Nat /\ 0 + 4 <= Len(h)
        /\ \A i \in 1..4 : h[0 + i] = a[i]
    BY <1>14
  <2>2. SubSeq(h, 0 + 1, 0 + 4) = a
    BY <1>3, <1>14, <2>1, Slice
  <2> QED  BY <2>2
<1>10. h[5] = route /\ h[6] = flags
  <2>1. h[1 + 4] = b[1] /\ h[2 + 4] = b[2]
    BY <1>14
  <2> QED  BY <1>6, <2>1
<1>11. Uint32(h, 9) = Uint32(c, 1)
  <2>1. h[1 + 8] = c[1] /\ h[2 + 8] = c[2] /\ h[3 + 8] = c[3] /\ h[4 + 8] = c[4]
    BY <1>14
  <2> QED  BY <2>1 DEF Uint32
<1>12. Uint32(h, 13) = Uint32(d, 1)
  <2>1. h[1 + 12] = d[1] /\ h[2 + 12] = d[2] /\ h[3 + 12] = d[3] /\ h[4 + 12] = d[4]
    BY <1>14
  <2> QED  BY <2>1 DEF Uint32
<1>13. /\ Encode(PacketOf(route, flags, seq, payload)) = h \o payload
       /\ h \in Seq(Byte) /\ HeaderOf(h, route, flags, seq, payload)
  BY <1>4, <1>5, <1>7, <1>14, <1>9, <1>10, <1>11, <1>12 DEF a, HeaderOf
<1> QED  BY <1>13

(* Bytes that begin with a header. *)
LEMMA HeaderFirst ==
    ASSUME NEW h \in Seq(Byte), Len(h) = 16, NEW t \in Seq(Byte)
    PROVE  /\ h \o t \in Seq(Byte) /\ Len(h \o t) = 16 + Len(t)
           /\ SubSeq(h \o t, 1, 4) = SubSeq(h, 1, 4)
           /\ (h \o t)[5] = h[5] /\ (h \o t)[6] = h[6]
           /\ Uint32(h \o t, 9) = Uint32(h, 9) /\ Uint32(h \o t, 13) = Uint32(h, 13)
<1> DEFINE x == h \o t
<1>1. 16 \in Nat /\ Len(t) \in Nat
  OBVIOUS
<1>2. Joined(x, 16, Len(t), h, t)
  BY <1>1, Parts
<1> HIDE DEF x
<1>3. x \in Seq(Byte) /\ Len(x) = 16 + Len(t) /\ \A i \in 1..16 : x[i] = h[i]
  BY <1>2 DEF Joined
<1>4. SubSeq(x, 1, 4) = SubSeq(h, 1, 4)
  <2> DEFINE s == SubSeq(h, 1, 4)
  <2>1. s \in Seq(Byte) /\ Len(s) = 4 /\ \A i \in 1..4 : s[i] = h[i]
    <3>1. ASSUME NEW i \in 1..4 PROVE h[i] \in Byte
      <4>1. i \in 1..Len(h)
        OBVIOUS
      <4> QED  BY <4>1, ElementOfSeq
    <3>2. /\ s \in Seq(Byte) /\ Len(s) = IF 1 <= 4 THEN 4 - 1 + 1 ELSE 0
          /\ \A i \in 1..(4 - 1 + 1) : s[i] = h[1 + i - 1]
      <4>1. 1 \in Int /\ 4 \in Int
        OBVIOUS
      <4> QED  BY <3>1, <4>1, SubSeqProperties
    <3> HIDE DEF s
    <3>3. ASSUME NEW i \in 1..4 PROVE s[i] = h[i]
      <4>1. i \in 1..(4 - 1 + 1) /\ 1 + i - 1 = i
        OBVIOUS
      <4> QED  BY <3>2, <4>1
    <3> QED  BY <3>2, <3>3
  <2> HIDE DEF s
  <2>2. /\ 0 \in Nat /\ 4 \in Nat /\ 0 + 4 <= Len(x)
        /\ \A i \in 1..4 : x[0 + i] = s[i]
    BY <1>1, <1>3, <2>1
  <2>3. SubSeq(x, 0 + 1, 0 + 4) = s
    BY <1>3, <2>1, <2>2, Slice
  <2> QED  BY <2>3 DEF s
<1>5. /\ x[5] = h[5] /\ x[6] = h[6]
      /\ x[9] = h[9] /\ x[9 + 1] = h[9 + 1] /\ x[9 + 2] = h[9 + 2] /\ x[9 + 3] = h[9 + 3]
      /\ x[13] = h[13] /\ x[13 + 1] = h[13 + 1] /\ x[13 + 2] = h[13 + 2] /\ x[13 + 3] = h[13 + 3]
  BY <1>3
<1>6. Uint32(x, 9) = Uint32(h, 9) /\ Uint32(x, 13) = Uint32(h, 13)
  BY <1>5 DEF Uint32
<1> QED  BY <1>3, <1>4, <1>5, <1>6 DEF x

(* The bytes after the header. *)
LEMMA PayloadAfter ==
    ASSUME NEW m \in Nat, NEW h \in Seq(Byte), Len(h) = m,
           NEW n \in Nat, NEW payload \in Seq(Byte), Len(payload) = n,
           NEW rest \in Seq(Byte)
    PROVE  SubSeq(h \o (payload \o rest), m + 1, m + n) = payload
<1> DEFINE t == payload \o rest
           x == h \o t
<1>1. Len(rest) \in Nat
  OBVIOUS
<1>2. Joined(t, n, Len(rest), payload, rest)
  BY <1>1, Parts
<1> HIDE DEF t
<1>3. /\ t \in Seq(Byte) /\ Len(t) = n + Len(rest) /\ Len(t) \in Nat
      /\ \A i \in 1..n : t[i] = payload[i]
  BY <1>1, <1>2 DEF Joined
<1>4. Joined(x, m, Len(t), h, t)
  BY <1>1, <1>3, Parts
<1> HIDE DEF x
<1>5. x \in Seq(Byte) /\ Len(x) = m + Len(t) /\ \A i \in 1..Len(t) : x[m + i] = t[i]
  BY <1>4 DEF Joined
<1>6. m + n <= Len(x)
  BY <1>1, <1>3, <1>5
<1>7. ASSUME NEW i \in 1..n PROVE x[m + i] = payload[i]
  <2>1. i \in 1..Len(t)
    BY <1>1, <1>3
  <2> QED  BY <1>3, <1>5, <2>1
<1>8. SubSeq(x, m + 1, m + n) = payload
  BY <1>5, <1>6, <1>7, Slice
<1> QED  BY <1>8 DEF x, t

-----------------------------------------------------------------------------
(* The theorems *)

(* Decode gives back every packet that Encode wrote and that is not longer *)
(* than the limit, whatever follows it in the buffer; and so does the C#   *)
(* client with one frame that fits into its own buffer.                    *)
THEOREM PacketComesBack ==
    ASSUME NEW route, NEW flags, NEW seq, NEW payload, Legal(route, flags, seq, payload),
           Len(payload) <= MaxPacketSize, NEW rest \in Seq(Byte)
    PROVE  LET p == PacketOf(route, flags, seq, payload) IN
           /\ Decode(Encode(p) \o rest) = p
           /\ HeaderSize + Len(payload) <= ReceiveBuffer => CsReceive(Encode(p)) = p
<1> DEFINE p == PacketOf(route, flags, seq, payload)
<1>0. payload \in Seq(Byte) /\ Len(payload) \in Nat
  BY DEF Legal
<1>a. PICK h \in Seq(Byte) : Encode(p) = h \o payload /\ HeaderOf(h, route, flags, seq, payload)
  BY FrameParts
<1> HIDE DEF p
<1>1. /\ Encode(p) = h \o payload /\ Len(h) = 16
      /\ SubSeq(h, 1, 4) = PutUint32(MagicNumber)
      /\ h[5] = route /\ h[6] = flags
      /\ Uint32(h, 9) = Len(payload) /\ Uint32(h, 13) = seq
  BY <1>a DEF HeaderOf
<1>2. Decode(Encode(p) \o rest) = PacketOf(route, flags, seq, payload)
  <2> DEFINE t == payload \o rest
             x == h \o t
  <2>1. t \in Seq(Byte) /\ Len(t) = Len(payload) + Len(rest) /\ Len(rest) \in Nat
    BY <1>0, ConcatProperties
  <2>2. Encode(p) \o rest = x
    <3>1. Encode(p) \o rest = (h \o payload) \o rest
      BY <1>1
    <3>2. (h \o payload) \o rest = h \o (payload \o rest)
      BY ONLY h \in Seq(Byte), <1>0, rest \in Seq(Byte), ConcatAssociative, SMT
    <3> QED  BY <3>1, <3>2
  <2>3. SubSeq(x, HeaderSize + 1, HeaderSize + Len(payload)) = payload
    <3>1. HeaderSize \in Nat /\ Len(h) = HeaderSize
      BY <1>1 DEF HeaderSize
    <3> QED  BY <1>0, <3>1, PayloadAfter
  <2> HIDE DEF t
  <2>4. /\ Len(x) = 16 + Len(t) /\ SubSeq(x, 1, 4) = PutUint32(MagicNumber)
        /\ x[5] = route /\ x[6] = flags /\ Uint32(x, 9) = Len(payload) /\ Uint32(x, 13) = seq
    BY <1>1, <2>1, HeaderFirst
  <2> HIDE DEF x
  <2>5. HeaderOK(x) /\ Len(x) >= HeaderSize + Uint32(x, 9)
    BY <1>0, <2>1, <2>4 DEF HeaderOK, HeaderSize
  <2>6. Decode(x) = PacketOf(x[5], x[6], Uint32(x, 13),
                             SubSeq(x, HeaderSize + 1, HeaderSize + Uint32(x, 9)))
    BY <2>5 DEF Decode
  <2>7. Decode(x) = PacketOf(route, flags, seq, payload)
    BY <2>3, <2>4, <2>6
  <2> QED  BY <2>2, <2>7
<1>3. ASSUME HeaderSize + Len(payload) <= ReceiveBuffer
      PROVE  CsReceive(Encode(p)) = PacketOf(route, flags, seq, payload)
  <2> DEFINE x == h \o payload
  <2>1. /\ x \in Seq(Byte) /\ Len(x) = 16 + Len(payload)
        /\ SubSeq(x, 1, 4) = PutUint32(MagicNumber)
        /\ x[5] = route /\ x[6] = flags /\ Uint32(x, 13) = seq
    BY <1>0, <1>1, HeaderFirst
  <2>2. SubSeq(x, HeaderSize + 1, HeaderSize + Len(payload)) = payload
    <3>1. HeaderSize \in Nat /\ Len(h) = HeaderSize
      BY <1>1 DEF HeaderSize
    <3>2. Joined(x, HeaderSize, Len(payload), h, payload)
      BY <1>0, <3>1, Parts
    <3> HIDE DEF x
    <3>3. /\ HeaderSize + Len(payload) <= Len(x)
          /\ \A i \in 1..Len(payload) : x[HeaderSize + i] = payload[i]
      BY <1>0, <3>1, <3>2 DEF Joined
    <3> QED  BY <1>0, <2>1, <3>1, <3>3, Slice
  <2> HIDE DEF x
  <2>3. Len(x) >= HeaderSize /\ HeaderSize + Len(payload) = Len(x)
    BY <1>0, <2>1 DEF HeaderSize
  <2>4. CsDecode(x) = PacketOf(x[5], x[6], Uint32(x, 13), SubSeq(x, HeaderSize + 1, Len(x)))
    BY <2>1, <2>3 DEF CsDecode
  <2>5. CsDecode(x) = PacketOf(route, flags, seq, payload)
    BY <2>1, <2>2, <2>3, <2>4
  <2>6. ReceiveAsync(x) = x
    BY <1>3, <2>3 DEF ReceiveAsync
  <2> QED  BY <1>1, <2>5, <2>6 DEF x, CsReceive
<1> QED  BY <1>2, <1>3 DEF p

(* A frame that is cut short anywhere, or whose payload is longer than the *)
(* limit, is refused as a whole: no part of it passes for a packet.        *)
THEOREM DamagedFrameRefused ==
    ASSUME NEW route, NEW flags, NEW seq, NEW payload, Legal(route, flags, seq, payload)
    PROVE  LET frame == Encode(PacketOf(route, flags, seq, payload)) IN
           /\ \A n \in 0..(Len(frame) - 1) : Decode(SubSeq(frame, 1, n)) = Invalid
           /\ Len(payload) > MaxPacketSize => Decode(frame) = Invalid
<1> DEFINE p == PacketOf(route, flags, seq, payload)
<1>0. payload \in Seq(Byte) /\ Len(payload) \in Nat
  BY DEF Legal
<1>a. PICK h \in Seq(Byte) : Encode(p) = h \o payload /\ HeaderOf(h, route, flags, seq, payload)
  BY FrameParts
<1> HIDE DEF p
<1>1. /\ Encode(p) = h \o payload /\ Len(h) = 16
      /\ SubSeq(h, 1, 4) = PutUint32(MagicNumber)
      /\ h[5] = route /\ h[6] = flags
      /\ Uint32(h, 9) = Len(payload) /\ Uint32(h, 13) = seq
  BY <1>a DEF HeaderOf
<1> DEFINE x == h \o payload
<1>2. x \in Seq(Byte) /\ Len(x) = 16 + Len(payload) /\ Uint32(x, 9) = Len(payload)
  BY <1>0, <1>1, HeaderFirst
<1> HIDE DEF x
<1>3. ASSUME NEW n \in 0..(Len(x) - 1) PROVE Decode(SubSeq(x, 1, n)) = Invalid
  <2> DEFINE y == SubSeq(x, 1, n)
  <2>1. Len(y) = n /\ \A i \in 1..n : y[i] = x[i]
    BY <1>0, <1>2
  <2>2. n \in Nat /\ n < 16 + Len(payload)
    BY <1>0, <1>2
  <2> HIDE DEF y
  <2>3. CASE n < 16
    BY <2>1, <2>2, <2>3 DEF Decode, HeaderOK, HeaderSize
  <2>4. CASE n >= 16
    <3>1. y[9] = x[9] /\ y[9 + 1] = x[9 + 1] /\ y[9 + 2] = x[9 + 2] /\ y[9 + 3] = x[9 + 3]
      BY <2>1, <2>2, <2>4
    <3>2. Uint32(y, 9) = Len(payload)
      BY <1>2, <3>1 DEF Uint32
    <3>3. ~ (Len(y) >= HeaderSize + Uint32(y, 9))
      BY <1>0, <2>1, <2>2, <3>2 DEF HeaderSize
    <3>4. Decode(y) = Invalid
      BY <3>3 DEF Decode
    <3> QED  BY <3>4 DEF y
  <2> QED  BY <2>2, <2>3, <2>4 DEF y
<1>4. Len(payload) > MaxPacketSize => Decode(x) = Invalid
  BY <1>0, <1>2 DEF Decode, HeaderOK
<1> QED  BY <1>1, <1>3, <1>4 DEF x, p

(* ReadPacket leaves the stream at the next packet.                        *)
THEOREM StreamGoesOn ==
    ASSUME NEW route, NEW flags, NEW seq, NEW payload, Legal(route, flags, seq, payload),
           Len(payload) <= MaxPacketSize, NEW rest \in Seq(Byte)
    PROVE  LET p == PacketOf(route, flags, seq, payload) IN
           ReadStream(Encode(p) \o rest) = [packet |-> p, rest |-> rest]
<1> DEFINE p == PacketOf(route, flags, seq, payload)
<1>0. payload \in Seq(Byte) /\ Len(payload) \in Nat /\ Len(rest) \in Nat
  BY DEF Legal
<1>1. p # Invalid
  <2>1. p \in [Route : Byte, Flags : Byte, Sequence : Nat, Payload : Seq(Byte)]
    BY SMT DEF PacketOf, Legal, IsUint32
  <2> HIDE DEF p
  <2> QED  BY <2>1, InvalidAssumption
<1>2. Decode(Encode(p) \o rest) = p
  BY PacketComesBack
<1>3. PICK h \in Seq(Byte) : Encode(p) = h \o payload /\ HeaderOf(h, route, flags, seq, payload)
  BY FrameParts
<1> HIDE DEF p
<1>4. Len(h) = 16 /\ Uint32(h, 9) = Len(payload)
  BY <1>3 DEF HeaderOf
<1> DEFINE frame == h \o payload
           x == frame \o rest
<1>5. /\ frame \in Seq(Byte) /\ Len(frame) = 16 + Len(payload)
      /\ Uint32(frame, 9) = Len(payload)
  BY <1>0, <1>4, HeaderFirst
<1> HIDE DEF frame
<1> DEFINE m == 16 + Len(payload)
           n == Len(rest)
<1>6. m \in Nat /\ n \in Nat /\ Len(frame) = m
  BY <1>0, <1>5
<1>7. Joined(x, m, n, frame, rest)
  <2> HIDE DEF m, n
  <2> QED  BY <1>5, <1>6, Parts DEF n
<1> HIDE DEF x
<1>8. /\ x \in Seq(Byte) /\ Len(x) = m + n
      /\ \A i \in 1..m : x[i] = frame[i]
      /\ \A i \in 1..n : x[m + i] = rest[i]
  BY <1>7 DEF Joined
<1>9. Uint32(x, 9) = Len(payload)
  <2>1. /\ x[9] = frame[9] /\ x[9 + 1] = frame[9 + 1]
        /\ x[9 + 2] = frame[9 + 2] /\ x[9 + 3] = frame[9 + 3]
    BY <1>0, <1>8
  <2> QED  BY <1>5, <2>1 DEF Uint32
<1>10. SubSeq(x, m + 1, m + n) = rest
  <2> HIDE DEF m
  <2>1. m + n <= Len(x)
    BY <1>6, <1>8
  <2> QED  BY <1>6, <1>8, <2>1, Slice
<1>11. Encode(p) \o rest = x
  BY <1>3 DEF x, frame
<1>12. HeaderSize + Uint32(x, 9) + 1 = m + 1
  BY <1>9 DEF HeaderSize
<1>13. ReadStream(x) = [packet |-> p, rest |-> rest]
  BY <1>1, <1>2, <1>8, <1>10, <1>11, <1>12 DEF ReadStream
<1> QED  BY <1>11, <1>13 DEF p

-----------------------------------------------------------------------------
(* The samples *)

SampleOK ==
    \/ sample.kind = "none"
    \/ \E p \in SamplePackets : sample = [kind |-> "packet", value |-> p]
    \/ \E m \in SampleResponses : sample = [kind |-> "ChatResponse", value |-> m]

(* The sample is there until the tool starts. *)
LEMMA SampleInv == MCSpec => []SampleOK
<1>1. MCInit => SampleOK
  BY DEF MCInit, SampleOK
<1>2. SampleOK /\ [MCNext]_<<vars, sample>> => SampleOK'
  BY DEF MCNext, StartTool, SampleOK
<1> QED  BY <1>1, <1>2, PTL DEF MCSpec

(* Every sample is a packet of legal parts. *)
LEMMA SamplesLegal ==
    ASSUME NEW p \in SamplePackets
    PROVE  \E route, flags, seq, payload :
               /\ p = PacketOf(route, flags, seq, payload)
               /\ Legal(route, flags, seq, payload)
<1>1. PICK route \in {RouteChat, 255}, seq \in {0, 1, 256, 65536, 2147483647},
           payload \in Payloads : p = PacketOf(route, 3, seq, payload)
  BY SMT DEF SamplePackets
<1>2. route \in Byte /\ 3 \in Byte /\ IsUint32(seq)
  BY SMT DEF RouteChat, Byte, IsUint32
<1>3. payload \in Seq(Byte) /\ IsUint32(Len(payload))
  <2>1. PICK n \in 0..(MaxPacketSize + 1) : payload \in [1..n -> {0, 255}]
    BY DEF Payloads
  <2>2. payload \in [1..n -> Byte] /\ n \in Nat
    BY <2>1 DEF Byte
  <2>3. payload \in Seq(Byte) /\ Len(payload) = n
    BY <2>2, SeqDef, LenProperties
  <2>4. IsUint32(n)
    BY <2>1, SMT DEF LargestLength, IsUint32
  <2> QED  BY <2>2, <2>3, <2>4
<1> QED  BY <1>1, <1>2, <1>3 DEF Legal

(* For every limit, every sample that is not longer comes back from the    *)
(* codec of the gateway, whatever follows it, and from that of the C#      *)
(* client if its frame fits into the buffer.                               *)
THEOREM SamplesComeBack == MCSpec => []RoundTrip
<1>1. ASSUME SampleOK PROVE RoundTrip
  <2> DEFINE Rests == {<<>>, <<0>>, Encode(NewPacket(RouteChat, <<1>>))}
  <2> SUFFICES ASSUME sample.kind = "packet", Len(sample.value.Payload) <= MaxPacketSize,
                      NEW rest \in Rests
               PROVE  /\ ReadStream(Encode(sample.value) \o rest)
                             = [packet |-> sample.value, rest |-> rest]
                      /\ HeaderSize + Len(sample.value.Payload) <= ReceiveBuffer =>
                             CsReceive(Encode(sample.value)) = sample.value
    BY DEF RoundTrip
  <2>1. sample.value \in SamplePackets
    BY <1>1 DEF SampleOK
  <2>2. PICK route, flags, seq, payload :
            /\ sample.value = PacketOf(route, flags, seq, payload)
            /\ Legal(route, flags, seq, payload)
    BY <2>1, SamplesLegal
  <2>3. Len(payload) <= MaxPacketSize
    BY <2>2 DEF PacketOf
  <2>4. rest \in Seq(Byte)
    <3>1. <<>> \in Seq(Byte) /\ <<0>> \in Seq(Byte) /\ <<1>> \in Seq(Byte) /\ Len(<<1>>) = 1
      BY DEF Byte
    <3>2. Legal(RouteChat, 0, 0, <<1>>)
      BY <3>1, SMT DEF Legal, RouteChat, Byte, IsUint32
    <3>3. PICK h \in Seq(Byte) : Encode(PacketOf(RouteChat, 0, 0, <<1>>)) = h \o <<1>>
      BY <3>2, FrameParts
    <3>4. Encode(NewPacket(RouteChat, <<1>>)) \in Seq(Byte)
      BY <3>1, <3>3, ConcatProperties DEF NewPacket
    <3> QED  BY <3>1, <3>4
  <2>5. ReadStream(Encode(sample.value) \o rest) = [packet |-> sample.value, rest |-> rest]
    BY <2>2, <2>3, <2>4, StreamGoesOn
  <2>6. HeaderSize + Len(payload) <= ReceiveBuffer =>
            CsReceive(Encode(sample.value)) = sample.value
    BY <2>2, <2>3, <2>4, PacketComesBack
  <2>7. sample.value.Payload = payload
    BY <2>2 DEF PacketOf
  <2> QED  BY <2>5, <2>6, <2>7
<1> QED  BY <1>1, SampleInv, PTL

(* For every pair of limits, a frame gives its own packet or an error.     *)
THEOREM SamplesOrErrors == MCSpec => []FrameOrError
<1>1. ASSUME SampleOK PROVE FrameOrError
  <2> DEFINE p == sample.value
             frame == Encode(p)
  <2> SUFFICES ASSUME sample.kind = "packet"
               PROVE  /\ \A n \in 0..(Len(frame) - 1) :
                             ReadFrame(TRUE, SubSeq(frame, 1, n)) = Invalid
                      /\ ReadFrame(TRUE, frame) = IF /\ Len(p.Payload) <= MaxPacketSize
                                                     /\ HeaderSize + Len(p.Payload) <= ReadLimit
                                                  THEN p ELSE Invalid
                      /\ ReadFrame(FALSE, frame) = Invalid
    BY DEF FrameOrError
  <2>1. p \in SamplePackets
    BY <1>1 DEF SampleOK
  <2>2. PICK route, flags, seq, payload :
            /\ p = PacketOf(route, flags, seq, payload)
            /\ Legal(route, flags, seq, payload)
    BY <2>1, SamplesLegal
  <2>3. p.Payload = payload /\ payload \in Seq(Byte) /\ Len(payload) \in Nat
    BY <2>2 DEF PacketOf, Legal
  <2>4. /\ \A n \in 0..(Len(frame) - 1) : Decode(SubSeq(frame, 1, n)) = Invalid
        /\ Len(payload) > MaxPacketSize => Decode(frame) = Invalid
    BY <2>2, DamagedFrameRefused
  <2>5. PICK h \in Seq(Byte) : frame = h \o payload /\ HeaderOf(h, route, flags, seq, payload)
    BY <2>2, FrameParts
  <2>6. frame \in Seq(Byte) /\ Len(frame) = HeaderSize + Len(payload)
    <3>1. Len(h) = 16
      BY <2>5 DEF HeaderOf
    <3> QED  BY <2>3, <2>5, <3>1, HeaderFirst DEF HeaderSize
  <2>7. Len(payload) <= MaxPacketSize => Decode(frame) = p
    <3>1. <<>> \in Seq(Byte)
      OBVIOUS
    <3>2. frame \o <<>> = frame
      <4> HIDE DEF frame
      <4> QED  BY <2>6, ConcatEmptySeq
    <3> HIDE DEF frame
    <3>3. ASSUME Len(payload) <= MaxPacketSize PROVE Decode(frame \o <<>>) = p
      BY <2>2, <3>1, <3>3, PacketComesBack DEF frame
    <3> QED  BY <3>2, <3>3
  <2> HIDE DEF frame, p
  <2>8. \A n \in 0..(Len(frame) - 1) : ReadFrame(TRUE, SubSeq(frame, 1, n)) = Invalid
    BY <2>4 DEF ReadFrame
  <2>9. ReadFrame(TRUE, frame) = IF /\ Len(p.Payload) <= MaxPacketSize
                                    /\ HeaderSize + Len(p.Payload) <= ReadLimit
                                 THEN p ELSE Invalid
    BY <2>3, <2>4, <2>6, <2>7 DEF ReadFrame
  <2>10. ReadFrame(FALSE, frame) = Invalid
    BY DEF ReadFrame
  <2> QED  BY <2>8, <2>9, <2>10
<1> QED  BY <1>1, SampleInv, PTL

(* Whatever its fields hold, a ChatResponse that is read as a              *)
(* MessageBroadcast shows its target and no content.                       *)
LEMMA ReadAsBroadcast ==
    ASSUME NEW m \in [DOMAIN WireTypes.ChatResponse -> Int]
    PROVE  LET bc == Unmarshal("MessageBroadcast", Marshal("ChatResponse", m)) IN
           bc[10] = m[10] /\ bc[5] = 0
<1> DEFINE sent == Marshal("ChatResponse", m)
<1>1. /\ WireTypes["ChatResponse"] = ResponseTypes
      /\ WireTypes["MessageBroadcast"] = BroadcastTypes
  BY DEF WireTypes
<1>2. /\ 10 \in DOMAIN ResponseTypes /\ ResponseTypes[10] = "varint"
      /\ 5 \in DOMAIN ResponseTypes /\ ResponseTypes[5] = "varint"
      /\ 10 \in DOMAIN BroadcastTypes /\ BroadcastTypes[10] = "varint"
      /\ 5 \in DOMAIN BroadcastTypes /\ BroadcastTypes[5] = "bytes"
  BY DEF ResponseTypes, BroadcastTypes
<1>3. sent = {[number |-> n, type |-> ResponseTypes[n], value |-> m[n]] :
                 n \in {i \in DOMAIN ResponseTypes : m[i] # 0}}
  BY <1>1 DEF Marshal
<1>4. ASSUME NEW f \in sent
      PROVE  f.type = ResponseTypes[f.number] /\ f.value = m[f.number]
  BY <1>3
<1>5. m[10] # 0 <=> \E f \in sent : f.number = 10 /\ f.type = "varint"
  <2>1. ASSUME m[10] # 0 PROVE \E f \in sent : f.number = 10 /\ f.type = "varint"
    <3>1. [number |-> 10, type |-> ResponseTypes[10], value |-> m[10]] \in sent
      BY <1>2, <1>3, <2>1
    <3> HIDE DEF sent
    <3> QED  BY <1>2, <3>1
  <2>2. ASSUME NEW f \in sent, f.number = 10 PROVE m[10] # 0
    BY <1>3, <2>2
  <2> QED  BY <2>1, <2>2
<1>6. ~ \E f \in sent : f.number = 5 /\ f.type = "bytes"
  <2> HIDE DEF sent
  <2> QED  BY <1>2, <1>4
<1> HIDE DEF sent
<1> DEFINE bc == Unmarshal("MessageBroadcast", sent)
<1>7. bc = [n \in DOMAIN BroadcastTypes |->
               IF \E f \in sent : f.number = n /\ f.type = BroadcastTypes[n]
               THEN (CHOOSE f \in sent : f.number = n).value
               ELSE 0]
  BY <1>1 DEF Unmarshal
<1> HIDE DEF bc
<1>8. bc[5] = 0
  BY <1>2, <1>6, <1>7
<1>9. bc[10] = m[10]
  <2>1. CASE m[10] = 0
    BY <1>2, <1>5, <1>7, <2>1
  <2>2. CASE m[10] # 0
    <3>1. \E f \in sent : f.number = 10 /\ f.type = "varint"
      BY <1>5, <2>2
    <3> DEFINE g == CHOOSE f \in sent : f.number = 10
    <3>2. g \in sent /\ g.number = 10
      BY <3>1
    <3>3. bc[10] = g.value
      BY <1>2, <1>7, <3>1
    <3> HIDE DEF g
    <3> QED  BY <1>4, <3>2, <3>3
  <2> QED  BY <2>1, <2>2
<1> QED  BY <1>8, <1>9 DEF bc, sent

(* The gateway finds the target of every answer, and no client takes one   *)
(* for a message.                                                          *)
THEOREM SamplesReadAsBroadcast == MCSpec => []ResponseReadAsBroadcast
<1>1. ASSUME SampleOK PROVE ResponseReadAsBroadcast
  <2>1. ASSUME sample.kind = "ChatResponse"
        PROVE  sample.value \in [DOMAIN WireTypes.ChatResponse -> Int]
    BY <1>1, <2>1 DEF SampleOK, SampleResponses
  <2>2. /\ MessageBroadcast.target_user_id = 10 /\ ChatResponse.target_user_id = 10
        /\ MessageBroadcast.content = 5
    BY DEF MessageBroadcast, ChatResponse
  <2> QED  BY <2>1, <2>2, ReadAsBroadcast DEF ResponseReadAsBroadcast
<1> QED  BY <1>1, SampleInv, PTL

(* The tool that starts with a sample is the tool: what is proved of Spec  *)
(* in StressToolProofs holds in the checked instance, which takes each of  *)
(* its own steps and none besides but the one that puts the sample away.   *)
THEOREM SamplesOnlyWatch == MCSpec => Spec
<1>1. MCInit => Init
  BY DEF MCInit
<1>2. [MCNext]_<<vars, sample>> => [Next]_vars
  BY DEF MCNext, StartTool
<1> QED  BY <1>1, <1>2, PTL DEF MCSpec, Spec
=============================================================================
