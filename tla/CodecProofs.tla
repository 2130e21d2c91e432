---------------------------- MODULE CodecProofs ----------------------------
(* Numbers survive the wire, wherever they stand in a message.             *)
EXTENDS Codec, SequenceTheorems, TLAPS

\* Division by the weight of a byte.
LEMMA Div256 ==
  ASSUME NEW v \in Int
  PROVE  /\ v \div 256 \in Int /\ v % 256 \in 0 .. 255
         /\ v = ((v \div 256) * 256) + (v % 256)
OBVIOUS

\* Dividing by 256 again and again is dividing by its powers.
LEMMA Powers ==
  ASSUME NEW v \in Int
  PROVE  /\ v \div 65536 = (v \div 256) \div 256
         /\ v \div 16777216 = (v \div 65536) \div 256
OBVIOUS

\* The number that four bytes make: the high one carries the sign.
Number(w, x, y, z) ==
  ((IF w >= 128 THEN w - 256 ELSE w) * 16777216) + (x * 65536) + (y * 256) + z

Int32 == {v \in Int : -2147483648 <= v /\ v <= 2147483647}

UInt16 == {v \in Int : 0 <= v /\ v <= 65535}

\* The digits of a number to the base 256.
D0(v) == v % 256
D1(v) == (v \div 256) % 256
D2(v) == (v \div 65536) % 256
D3(v) == (v \div 16777216) % 256

LEMMA Digits ==
  ASSUME NEW v \in Int
  PROVE  D0(v) \in Byte /\ D1(v) \in Byte /\ D2(v) \in Byte /\ D3(v) \in Byte
BY SMT, Div256 DEF D0, D1, D2, D3, Byte

LEMMA Digits16 ==
  ASSUME NEW v \in Int, 0 <= v, v <= 65535
  PROVE  (D1(v) * 256) + D0(v) = v
BY SMT DEF D0, D1

LEMMA Digits32 ==
  ASSUME NEW v \in Int, -2147483648 <= v, v <= 2147483647
  PROVE  Number(D3(v), D2(v), D1(v), D0(v)) = v
<1> DEFINE p == v \div 256
           q == v \div 65536
           r == v \div 16777216
           w == r % 256
           x == q % 256
           y == p % 256
           z == v % 256
<1>1. /\ p \in Int /\ q \in Int /\ r \in Int
      /\ v = (p * 256) + z /\ p = (q * 256) + y /\ q = (r * 256) + x
      /\ z \in 0 .. 255 /\ y \in 0 .. 255 /\ x \in 0 .. 255
  BY SMT, Powers, Div256
<1>2. w \in 0 .. 255 /\ r = ((r \div 256) * 256) + w /\ r \div 256 \in Int
  BY SMT, <1>1, Div256
<1> HIDE DEF p, q, r, w, x, y, z
<1>3. -128 <= r /\ r <= 127
  BY SMT, <1>1
<1>4. r = IF w >= 128 THEN w - 256 ELSE w
  BY SMT, <1>1, <1>2, <1>3
<1>5. Number(w, x, y, z) = v
  BY SMT, <1>1, <1>4 DEF Number
<1> QED
  BY SMT, <1>5 DEF p, q, r, w, x, y, z, D0, D1, D2, D3

LEMMA Ranges ==
  /\ \A v \in UInt16 : v \in Int /\ (D1(v) * 256) + D0(v) = v
  /\ \A v \in Int32 : v \in Int /\ Number(D3(v), D2(v), D1(v), D0(v)) = v
BY SMT, Digits16, Digits32 DEF UInt16, Int32

\* serializeInt16 and serializeInt32 write bytes that make the number.
LEMMA Bytes16 ==
  ASSUME NEW v \in UInt16
  PROVE  LET m == serializeInt16(v) IN
         m \in Seq(Byte) /\ Len(m) = 2 /\ (m[1] * 256) + m[2] = v
<1> DEFINE m == serializeInt16(v)
<1>1. m = <<D1(v), D0(v)>>
  BY SMT DEF serializeInt16, D0, D1
<1>2. D0(v) \in Byte /\ D1(v) \in Byte /\ (D1(v) * 256) + D0(v) = v
  BY Zenon, Digits, Ranges
<1> HIDE DEF m
<1>3. m \in Seq(Byte) /\ Len(m) = 2 /\ m[1] = D1(v) /\ m[2] = D0(v)
  BY SMT, <1>1, <1>2
<1> QED
  BY Zenon, <1>2, <1>3 DEF m

LEMMA Bytes32 ==
  ASSUME NEW v \in Int32
  PROVE  LET m == serializeInt32(v) IN
         m \in Seq(Byte) /\ Len(m) = 4 /\ Number(m[1], m[2], m[3], m[4]) = v
<1> DEFINE m == serializeInt32(v)
<1>1. m = <<D3(v), D2(v), D1(v), D0(v)>>
  BY SMT DEF serializeInt32, D0, D1, D2, D3
<1>2. /\ D0(v) \in Byte /\ D1(v) \in Byte /\ D2(v) \in Byte /\ D3(v) \in Byte
      /\ Number(D3(v), D2(v), D1(v), D0(v)) = v
  BY Zenon, Digits, Ranges
<1> HIDE DEF m
<1>3. /\ m \in Seq(Byte) /\ Len(m) = 4
      /\ m[1] = D3(v) /\ m[2] = D2(v) /\ m[3] = D1(v) /\ m[4] = D0(v)
  BY SMT, <1>1, <1>2
<1> QED
  BY Zenon, <1>2, <1>3 DEF m

\* A byte in the middle of a message is read from its place.
LEMMA AtMiddle ==
  ASSUME NEW pre \in Seq(Byte), NEW mid \in Seq(Byte), NEW post \in Seq(Byte),
         NEW i \in 0 .. Len(mid) - 1
  PROVE  at(pre \o mid \o post, Len(pre) + i) = mid[i + 1]
<1> DEFINE b == pre \o mid \o post
           k == Len(pre) + i
<1>1. Len(b) = Len(pre) + Len(mid) + Len(post) /\ k \in 0 .. Len(b) - 1
  BY SMT
<1>2. b[k + 1] = mid[i + 1]
  BY SMT
<1> HIDE DEF b
<1> QED
  BY SMT, <1>1, <1>2 DEF at, b

\* The first four places.
LEMMA AtPlaces ==
  ASSUME NEW pre \in Seq(Byte), NEW mid \in Seq(Byte), NEW post \in Seq(Byte)
  PROVE  LET b == pre \o mid \o post IN
         /\ Len(mid) >= 2 => at(b, Len(pre)) = mid[1] /\ at(b, Len(pre) + 1) = mid[2]
         /\ Len(mid) >= 4 => at(b, Len(pre) + 2) = mid[3] /\ at(b, Len(pre) + 3) = mid[4]
<1> DEFINE b == pre \o mid \o post
<1>1. \A i \in 0 .. Len(mid) - 1 : at(b, Len(pre) + i) = mid[i + 1]
  BY AtMiddle
<1> HIDE DEF b
<1>2. Len(pre) \in Nat /\ Len(mid) \in Nat
  BY SMT
<1>3. /\ Len(mid) >= 2 => 0 \in 0 .. Len(mid) - 1 /\ 1 \in 0 .. Len(mid) - 1
      /\ Len(mid) >= 4 => 2 \in 0 .. Len(mid) - 1 /\ 3 \in 0 .. Len(mid) - 1
  BY SMT, <1>2
<1>4. /\ Len(mid) >= 2 => at(b, Len(pre) + 0) = mid[0 + 1] /\ at(b, Len(pre) + 1) = mid[1 + 1]
      /\ Len(mid) >= 4 => at(b, Len(pre) + 2) = mid[2 + 1] /\ at(b, Len(pre) + 3) = mid[3 + 1]
  BY Zenon, <1>1, <1>3
<1>5. /\ Len(pre) + 0 = Len(pre) /\ 0 + 1 = 1 /\ 1 + 1 = 2 /\ 2 + 1 = 3 /\ 3 + 1 = 4
  BY SMT, <1>2
<1> QED
  BY Zenon, <1>4, <1>5 DEF b

\* What the readers make of the bytes at a place.
LEMMA Reads16 ==
  ASSUME NEW pre \in Seq(Byte), NEW mid \in Seq(Byte), NEW post \in Seq(Byte),
         Len(mid) = 2
  PROVE  deserializeInt16(pre \o mid \o post, Len(pre)) = (mid[1] * 256) + mid[2]
<1> DEFINE b == pre \o mid \o post
<1>1. Len(mid) >= 2
  BY SMT
<1>2. at(b, Len(pre)) = mid[1] /\ at(b, Len(pre) + 1) = mid[2]
  BY Zenon, <1>1, AtPlaces
<1> HIDE DEF b
<1>3. deserializeInt16(b, Len(pre)) = (mid[1] * 256) + mid[2]
  BY Zenon, <1>2 DEF deserializeInt16
<1> QED
  BY Zenon, <1>3 DEF b

LEMMA Reads32 ==
  ASSUME NEW pre \in Seq(Byte), NEW mid \in Seq(Byte), NEW post \in Seq(Byte),
         Len(mid) = 4
  PROVE  deserializeInt32(pre \o mid \o post, Len(pre))
           = Number(mid[1], mid[2], mid[3], mid[4])
<1> DEFINE b == pre \o mid \o post
<1>1. Len(mid) >= 2 /\ Len(mid) >= 4
  BY SMT
<1>2. /\ at(b, Len(pre)) = mid[1] /\ at(b, Len(pre) + 1) = mid[2]
      /\ at(b, Len(pre) + 2) = mid[3] /\ at(b, Len(pre) + 3) = mid[4]
  BY Zenon, <1>1, AtPlaces
<1> HIDE DEF b
<1>3. deserializeInt32(b, Len(pre))
        = Number(at(b, Len(pre)), at(b, Len(pre) + 1), at(b, Len(pre) + 2), at(b, Len(pre) + 3))
  BY SMT DEF deserializeInt32, Number
<1> QED
  BY Zenon, <1>2, <1>3 DEF b

\* A 16-bit number from 0 to 65535 is read back as it was written, between any
\* bytes (serializeInt16 and deserializeInt16).
THEOREM Int16RoundTrip ==
  ASSUME NEW v \in UInt16, NEW pre \in Seq(Byte), NEW post \in Seq(Byte)
  PROVE  deserializeInt16(pre \o serializeInt16(v) \o post, Len(pre)) = v
<1> DEFINE m == serializeInt16(v)
<1>1. m \in Seq(Byte) /\ Len(m) = 2 /\ (m[1] * 256) + m[2] = v
  BY Zenon, Bytes16
<1> HIDE DEF m
<1>2. deserializeInt16(pre \o m \o post, Len(pre)) = (m[1] * 256) + m[2]
  BY Zenon, <1>1, Reads16
<1> QED
  BY Zenon, <1>1, <1>2 DEF m

\* An int32_t, negative ones included, is read back as it was written, between
\* any bytes (serializeInt32 and deserializeInt32).
THEOREM Int32RoundTrip ==
  ASSUME NEW v \in Int32, NEW pre \in Seq(Byte), NEW post \in Seq(Byte)
  PROVE  deserializeInt32(pre \o serializeInt32(v) \o post, Len(pre)) = v
BY Zenon, Bytes32, Reads32

\* One sequence after another.
LEMMA Joined ==
  ASSUME NEW p \in Seq(Byte), NEW q \in Seq(Byte)
  PROVE  /\ p \o q \in Seq(Byte) /\ Len(p \o q) = Len(p) + Len(q)
         /\ Len(p) \in Nat /\ Len(q) \in Nat
         /\ \A i \in 1 .. Len(p) : (p \o q)[i] = p[i]
         /\ \A i \in 1 .. Len(q) : (p \o q)[i + Len(p)] = q[i]
<1> DEFINE c == p \o q
<1>1. /\ c \in Seq(Byte) /\ Len(c) = Len(p) + Len(q)
      /\ \A i \in 1 .. Len(p) + Len(q) : c[i] = IF i <= Len(p) THEN p[i] ELSE q[i - Len(p)]
  BY Zenon, ConcatProperties
<1>2. Len(p) \in Nat /\ Len(q) \in Nat
  BY SMT
<1> HIDE DEF c
<1>3. \A i \in 1 .. Len(p) : c[i] = p[i]
  BY SMT, <1>1, <1>2
<1>4. \A i \in 1 .. Len(q) : c[i + Len(p)] = q[i]
  <2> TAKE i \in 1 .. Len(q)
  <2>1. i + Len(p) \in 1 .. Len(p) + Len(q) /\ ~(i + Len(p) <= Len(p)) /\ (i + Len(p)) - Len(p) = i
    BY SMT, <1>2
  <2> QED
    BY Zenon, <1>1, <2>1
<1> QED
  BY Zenon, <1>1, <1>2, <1>3, <1>4 DEF c

\* What stands between five bytes and the rest.
LEMMA Between ==
  ASSUME NEW head \in Seq(Byte), NEW body \in Seq(Byte), NEW rest \in Seq(Byte),
         Len(head) = 5
  PROVE  LET b == (head \o body) \o rest IN
         b[1] = head[1] /\ Len(b) >= 5 /\ SubSeq(b, 6, 5 + Len(body)) = body
<1> DEFINE c == head \o body
           b == c \o rest
           s == SubSeq(b, 6, 5 + Len(body))
<1>0. /\ c \in Seq(Byte) /\ Len(c) = Len(head) + Len(body) /\ Len(body) \in Nat
      /\ \A i \in 1 .. Len(head) : c[i] = head[i]
      /\ \A i \in 1 .. Len(body) : c[i + Len(head)] = body[i]
  BY Zenon, Joined
<1> HIDE DEF c
<1>1. /\ c \in Seq(Byte) /\ Len(c) = 5 + Len(body) /\ Len(body) \in Nat
      /\ \A i \in 1 .. 5 : c[i] = head[i]
      /\ \A i \in 1 .. Len(body) : c[i + 5] = body[i]
  BY Zenon, <1>0
<1>2. /\ b \in Seq(Byte) /\ Len(b) = Len(c) + Len(rest) /\ Len(rest) \in Nat
      /\ \A i \in 1 .. Len(c) : b[i] = c[i]
  BY Zenon, <1>1, Joined
<1> HIDE DEF b
<1>3. /\ 1 \in 1 .. 5 /\ 1 \in 1 .. Len(c) /\ Len(b) >= 5
      /\ \A i \in 1 .. Len(body) : i + 5 \in 1 .. Len(c)
  BY SMT, <1>1, <1>2
<1>4. b[1] = head[1] /\ \A i \in 1 .. Len(body) : b[i + 5] = body[i]
  <2>1. b[1] = head[1]
    <3>1. b[1] = c[1]
      BY SMT, <1>2, <1>3
    <3>2. c[1] = head[1]
      BY SMT, <1>1
    <3> QED
      BY Zenon, <3>1, <3>2
  <2>2. ASSUME NEW i \in 1 .. Len(body) PROVE b[i + 5] = body[i]
    <3>1. b[i + 5] = c[i + 5]
      BY Zenon, <1>2, <1>3
    <3> QED
      BY Zenon, <1>1, <3>1
  <2> QED
    BY Zenon, <2>1, <2>2
<1>5. Len(b) = 5 + Len(body) + Len(rest)
  BY Zenon, <1>1, <1>2
<1>6. s \in Seq(Byte) /\ Len(s) = Len(body) /\ \A i \in 1 .. Len(s) : s[i] = body[i]
  BY SMT, <1>1, <1>2, <1>4, <1>5
<1> HIDE DEF s
<1>7. s = body
  BY Zenon, <1>6, SeqEqual
<1> QED
  BY Zenon, <1>3, <1>4, <1>7 DEF b, c, s

LEMMA OneAndFour ==
  ASSUME NEW p \in Seq(Byte), NEW q \in Seq(Byte), Len(p) = 1, Len(q) = 4
  PROVE  p \o q \in Seq(Byte) /\ Len(p \o q) = 5 /\ (p \o q)[1] = p[1]
<1>1. /\ p \o q \in Seq(Byte) /\ Len(p \o q) = Len(p) + Len(q)
      /\ \A i \in 1 .. Len(p) : (p \o q)[i] = p[i]
  BY Zenon, Joined
<1>2. Len(p) + Len(q) = 5 /\ 1 \in 1 .. Len(p)
  BY SMT
<1> QED
  BY Zenon, <1>1, <1>2

\* A message is cut out of the stream exactly: the header that Message::serialize
\* writes tells Header::deserialize the type and the length of the body, and the
\* bytes that follow it are the body, whatever comes after.
THEOREM FramesExact ==
  ASSUME NEW t \in Byte, t # 0, NEW body \in Seq(Byte), Len(body) + 4 \in Int32,
         NEW rest \in Seq(Byte)
  PROVE  LET b == serializeMessage(t, body) \o rest
         IN  /\ messageType(b) = t
             /\ bodyLen(b) = Len(body)
             /\ SubSeq(b, HeaderSize + 1, HeaderSize + bodyLen(b)) = body
<1> DEFINE num == serializeInt32(Len(body) + 4)
           one == <<t>>
           b == serializeMessage(t, body) \o rest
<1>1. num \in Seq(Byte) /\ Len(num) = 4
  BY Zenon, Bytes32
<1>2. one \in Seq(Byte) /\ Len(one) = 1 /\ one[1] = t
  BY SMT
<1>3. serializeMessage(t, body) = (one \o num) \o body
  BY Zenon DEF serializeMessage, serializeHeader, serializeByte1
<1>4. deserializeInt32(one \o num \o (body \o rest), Len(one)) = Len(body) + 4
  <2>1. body \o rest \in Seq(Byte)
    BY SMT
  <2> HIDE DEF one
  <2> QED
    BY Zenon, <1>2, <2>1, Int32RoundTrip
<1> HIDE DEF num, one
<1>5. one \o num \in Seq(Byte) /\ Len(one \o num) = 5 /\ (one \o num)[1] = t
  BY Zenon, <1>1, <1>2, OneAndFour
<1> DEFINE head == one \o num
           h == (head \o body) \o rest
<1> HIDE DEF head
<1>6. b[1] = t /\ Len(b) >= 5 /\ SubSeq(b, 6, 5 + Len(body)) = body
  <2>1. h[1] = head[1] /\ Len(h) >= 5 /\ SubSeq(h, 6, 5 + Len(body)) = body
    <3>1. head \in Seq(Byte) /\ Len(head) = 5
      BY Zenon, <1>5 DEF head
    <3> QED
      BY Zenon, <3>1, Between
  <2>2. h = b /\ head[1] = t
    BY Zenon, <1>3, <1>5 DEF head
  <2> HIDE DEF h, b
  <2> QED
    BY Zenon, <2>1, <2>2
<1>7. b = one \o num \o (body \o rest)
  <2>1. head \in Seq(Byte)
    BY Zenon, <1>5 DEF head
  <2>2. h = head \o (body \o rest)
    BY SMT, <2>1, ConcatAssociative
  <2> QED
    BY Zenon, <1>3, <2>2 DEF head
<1> HIDE DEF b
<1>8. messageType(b) = t
  BY SMT, <1>6 DEF messageType, deserializeByte1, at
<1>9. bodyLen(b) = Len(body)
  <2>1. deserializeInt32(b, 1) = Len(body) + 4
    BY Zenon, <1>2, <1>4, <1>7
  <2> QED
    BY SMT, <2>1 DEF bodyLen
<1>10. HeaderSize + 1 = 6 /\ HeaderSize + bodyLen(b) = 5 + Len(body)
  BY SMT, <1>9 DEF HeaderSize
<1> QED
  BY Zenon, <1>6, <1>8, <1>9, <1>10 DEF b
=============================================================================
