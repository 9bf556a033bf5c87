------------------------- MODULE MapiFramingProofs -------------------------
(***************************************************************************)
(* Proofs about block headers, FlattenSeq and encode_message, for any size *)
(* of a byte and of a block and payloads of any length.                    *)
(***************************************************************************)
EXTENDS MapiFraming, SequenceLemmas

(* Splitting a number below b * b into two digits of base b and putting    *)
(* them together again gives the number back.                              *)
LEMMA TwoDigits ==
    ASSUME NEW b \in Nat \ {0, 1}, NEW h \in Nat, h < b * b
    PROVE  /\ h % b \in 0..(b - 1)
           /\ h \div b \in 0..(b - 1)
           /\ (h % b) + (h \div b) * b = h
  <1>1. h % b \in 0..(b - 1) /\ h \div b \in Nat /\ h = b * (h \div b) + (h % b)
    OBVIOUS
  <1>2. h \div b < b
    <2> DEFINE q == h \div b
    <2>1. q \in Nat /\ b * q <= h
      BY <1>1
    <2>2. ASSUME q >= b PROVE FALSE
      <3>1. b * q >= b * b
        BY <2>1, <2>2
      <3> QED
        BY <2>1, <3>1
    <2> QED
      BY <2>1, <2>2
  <1> QED
    BY <1>1, <1>2

(* decode_header undoes encode_header for every length a block can have    *)
(* and both values of the last bit, and the header fits in two bytes: the  *)
(* shift loses no bit of the length and the last bit never touches it.     *)
THEOREM HeaderRoundTrip ==
    ASSUME NEW len \in 0..MAX_BLOCK_PAYLOAD, NEW last \in BOOLEAN
    PROVE  /\ encode_header(len, last) \in Byte \X Byte
           /\ decode_header(encode_header(len, last)) =
                [len |-> len, last |-> last]
  <1> DEFINE bit == IF last THEN 1 ELSE 0
             header == (((len % Word) * 2) % Word) + bit
  <1>1. len \in Nat /\ bit \in {0, 1} /\ ByteBase \in Nat \ {0, 1}
    BY FramingAssumption
  <1>2. Word \in Nat /\ Word > 0 /\ 2 * len + bit < Word
    <2>1. Word \in Nat
      BY <1>1 DEF Word
    <2>2. 2 * len + bit <= 2 * MAX_BLOCK_PAYLOAD + 1
      BY <1>1, FramingAssumption
    <2> QED
      BY <1>1, <2>1, <2>2, FramingAssumption
  <1>3. len % Word = len /\ (len * 2) % Word = len * 2
    <2> HIDE DEF bit
    <2>1. \A n \in Nat : n < Word => n % Word = n
      BY <1>2
    <2> QED
      BY <1>1, <1>2, <2>1
  <1>4. header = 2 * len + bit
    BY <1>1, <1>3
  <1>5. header \in Nat /\ header < ByteBase * ByteBase
    BY <1>1, <1>2, <1>4 DEF Word
  <1>6. /\ header % ByteBase \in Byte /\ header \div ByteBase \in Byte
        /\ (header % ByteBase) + (header \div ByteBase) * ByteBase = header
    <2> HIDE DEF header
    <2> QED
      BY <1>1, <1>5, TwoDigits DEF Byte
  <1>7. header \div 2 = len /\ (header % 2 = 1) = last
    <2>1. (2 * len + 1) \div 2 = len /\ (2 * len + 1) % 2 = 1
      BY <1>1
    <2>2. (2 * len + 0) \div 2 = len /\ (2 * len + 0) % 2 = 0
      BY <1>1
    <2>3. CASE last
      BY <2>1, <2>3, <1>4
    <2>4. CASE ~last
      BY <2>2, <2>4, <1>4
    <2> QED
      BY <2>3, <2>4
  <1>8. encode_header(len, last) = <<header % ByteBase, header \div ByteBase>>
    BY DEF encode_header
  <1> HIDE DEF header
  <1> QED
    BY <1>6, <1>7, <1>8 DEF decode_header

(* The bytes of the payload between b and e as one block.                  *)
OneBlock(payload, b, e, last) ==
    encode_header(e - b, last) \o SubSeq(payload, b + 1, e)

(* The header says the length and whether it is the last block, and the    *)
(* rest is that part of the payload.                                       *)
IsBlock(bytes, payload, b, e, last) ==
    /\ bytes \in Seq(Byte) /\ Len(bytes) = 2 + (e - b)
    /\ decode_header(<<bytes[1], bytes[2]>>) = [len |-> e - b, last |-> last]
    /\ \A j \in 1..(e - b) : bytes[2 + j] = payload[b + j]

(* What encode_message writes of one chunk is a block.                     *)
LEMMA BlockBytes ==
    ASSUME NEW payload \in Seq(Byte), NEW b \in Nat, NEW e \in 0..Len(payload),
           e - b \in 0..MAX_BLOCK_PAYLOAD, NEW last \in BOOLEAN
    PROVE  IsBlock(OneBlock(payload, b, e, last), payload, b, e, last)
<1> PICK bytes : bytes = OneBlock(payload, b, e, last)
  OBVIOUS
<1> PICK len : len = e - b
  OBVIOUS
<1> PICK h, t : h = encode_header(len, last) /\ t = SubSeq(payload, b + 1, e)
  OBVIOUS
<1>1. len \in Nat /\ Len(payload) \in Nat /\ e \in Nat
  BY LenProperties, FramingAssumption
<1>2. h \in Byte \X Byte /\ decode_header(h) = [len |-> len, last |-> last]
  BY HeaderRoundTrip
<1>3. h \in Seq(Byte) /\ Len(h) = 2
  <2>1. PICK x, y : h = <<x, y>>
    BY DEF encode_header
  <2>2. x \in Byte /\ y \in Byte
    BY <1>2, <2>1
  <2>3. <<x, y>> \in Seq(Byte)
    BY <2>2
  <2>4. Len(<<x, y>>) = 2
    OBVIOUS
  <2> QED BY <2>1, <2>3, <2>4, Zenon
<1>4. \A i \in (b + 1)..e : payload[i] \in Byte
  BY <1>1, ElementOfSeq
<1>5. t \in Seq(Byte) /\ Len(t) = len /\ \A j \in 1..len : t[j] = payload[b + j]
  <2> HIDE DEF Byte
  <2>1. b + 1 \in Int /\ e \in Int /\ (e - (b + 1)) + 1 = len
        /\ (IF b + 1 <= e THEN (e - (b + 1)) + 1 ELSE 0) = len
    BY <1>1
  <2>2. /\ SubSeq(payload, b + 1, e) \in Seq(Byte)
        /\ Len(SubSeq(payload, b + 1, e)) =
             IF b + 1 <= e THEN (e - (b + 1)) + 1 ELSE 0
    BY <2>1, <1>4, SubSeqProperties
  <2>3. \A i \in 1..(e - (b + 1)) + 1 :
          SubSeq(payload, b + 1, e)[i] = payload[(b + 1) + i - 1]
    BY <2>1, <1>4, SubSeqProperties
  <2>4. \A j \in 1..len : (b + 1) + j - 1 = b + j
    BY <1>1
  <2> QED BY <2>1, <2>2, <2>3, <2>4
<1>6. bytes = h \o t
  BY DEF OneBlock
<1>7. /\ h \o t \in Seq(Byte) /\ Len(h \o t) = Len(h) + Len(t)
  BY <1>3, <1>5, ConcatProperties
<1>8. \A i \in 1..Len(h) + Len(t) :
        (h \o t)[i] = IF i <= Len(h) THEN h[i] ELSE t[i - Len(h)]
  BY <1>3, <1>5, ConcatProperties
<1>9. \A i \in 1..(2 + len) : bytes[i] = IF i <= 2 THEN h[i] ELSE t[i - 2]
  BY <1>3, <1>5, <1>6, <1>8
<1>10. bytes[1] = h[1] /\ bytes[2] = h[2]
  <2>1. 1 \in 1..(2 + len) /\ 2 \in 1..(2 + len) /\ 1 <= 2 /\ 2 <= 2
    BY <1>1
  <2> QED BY <2>1, <1>9, Zenon
<1>11. \A j \in 1..len : bytes[2 + j] = payload[b + j]
  <2> TAKE j \in 1..len
  <2>1. 2 + j \in 1..(2 + len) /\ ~(2 + j <= 2) /\ (2 + j) - 2 = j
    BY <1>1
  <2> QED BY <2>1, <1>5, <1>9
<1>12. decode_header(<<bytes[1], bytes[2]>>) = decode_header(h)
  BY <1>10 DEF decode_header
<1> QED BY <1>2, <1>3, <1>5, <1>6, <1>7, <1>11, <1>12 DEF IsBlock

(* The bytes of a framed message: block i, of what stands between two      *)
(* ends, begins behind the blocks before it and their headers.             *)
IsFramed(bytes, payload, ends, n) ==
    /\ bytes \in Seq(Byte) /\ Len(bytes) = Len(payload) + 2 * n
    /\ \A i \in 1..n :
         LET b == Begin(ends, i)
             at == b + 2 * (i - 1)
         IN  /\ b \in Nat /\ b <= ends[i]
             /\ ends[i] - b \in 0..MAX_BLOCK_PAYLOAD
             /\ decode_header(<<bytes[at + 1], bytes[at + 2]>>) =
                  [len |-> ends[i] - b, last |-> i = n]
             /\ \A j \in 1..(ends[i] - b) :
                  bytes[at + (2 + j)] = payload[b + j]

(* Framed writes such bytes.                                               *)
LEMMA FramedBytes ==
    ASSUME NEW payload \in Seq(Byte), NEW n \in Nat \ {0},
           NEW ends \in [1..n -> 0..Len(payload)], Splits(payload, ends)
    PROVE  IsFramed(Framed(payload, ends), payload, ends, n)
<1> PICK bytes : bytes = Framed(payload, ends)
  OBVIOUS
<1> DEFINE B(i) == Begin(ends, i)
           piece(i) == encode_header(ends[i] - B(i), i = n)
                         \o SubSeq(payload, B(i) + 1, ends[i])
           s == [i \in 1..n |-> piece(i)]
           at == [i \in 1..(n + 1) |-> IF i = n + 1 THEN Len(payload) + 2 * n
                                       ELSE B(i) + 2 * (i - 1)]
<1>1. Len(payload) \in Nat /\ ends \in Seq(Nat) /\ Len(ends) = n
  <2>1. Len(payload) \in Nat
    BY LenProperties
  <2>2. ends \in [1..n -> Nat]
    BY <2>1
  <2>3. ends \in Seq(Nat)
    BY <2>2
  <2>4. DOMAIN ends = 1..n /\ DOMAIN ends = 1..Len(ends) /\ Len(ends) \in Nat
    BY <2>3, LenProperties
  <2> QED BY <2>1, <2>3, <2>4
<1>2. \A i \in 1..n : ends[i] \in 0..Len(payload)
  OBVIOUS
<1>3. \A i \in 1..n : B(i) \in Nat
  BY <1>1, <1>2 DEF Begin
<1>4. \A i \in 1..n : ends[i] - B(i) \in 0..MAX_BLOCK_PAYLOAD
  BY <1>1 DEF Splits
<1>5. ends[n] = Len(payload)
  BY <1>1 DEF Splits
<1>6. bytes = FlattenSeq(s)
  BY <1>1, Zenon DEF Framed
<1> HIDE DEF B
<1>7. \A i \in 1..n :
        /\ piece(i) \in Seq(Byte) /\ Len(piece(i)) = 2 + (ends[i] - B(i))
        /\ decode_header(<<piece(i)[1], piece(i)[2]>>) =
             [len |-> ends[i] - B(i), last |-> i = n]
        /\ \A j \in 1..(ends[i] - B(i)) : piece(i)[2 + j] = payload[B(i) + j]
  <2> TAKE i \in 1..n
  <2>1. B(i) \in Nat /\ ends[i] \in 0..Len(payload)
        /\ ends[i] - B(i) \in 0..MAX_BLOCK_PAYLOAD /\ (i = n) \in BOOLEAN
    BY <1>2, <1>3, <1>4
  <2>2. piece(i) = OneBlock(payload, B(i), ends[i], i = n)
    BY Zenon DEF OneBlock
  <2>3. IsBlock(OneBlock(payload, B(i), ends[i], i = n),
                payload, B(i), ends[i], i = n)
    BY <2>1, BlockBytes, Zenon
  <2> QED BY <2>2, <2>3, Zenon DEF IsBlock
<1> HIDE DEF piece
<1>8. s \in Seq(Seq(Byte)) /\ Len(s) = n
  <2>1. s \in [1..n -> Seq(Byte)]
    BY <1>7
  <2>2. s \in Seq(Seq(Byte))
    BY <2>1
  <2>3. DOMAIN s = 1..n /\ DOMAIN s = 1..Len(s) /\ Len(s) \in Nat
    BY <2>2, LenProperties
  <2> HIDE DEF s
  <2> QED BY <2>2, <2>3
<1>9. at \in [1..(n + 1) -> Nat]
  BY <1>1, <1>3
<1>10. Places(s, at)
  <2>1. at[1] = 0
    <3>1. B(1) = 0
      BY DEF B, Begin
    <3> QED BY <3>1
  <2>2. ASSUME NEW i \in 1..n PROVE at[i + 1] = at[i] + Len(s[i])
    <3>5. s[i] = piece(i)
      OBVIOUS
    <3>1. Len(s[i]) = 2 + (ends[i] - B(i)) /\ ends[i] \in Nat /\ B(i) \in Nat
      <4> HIDE DEF s, at
      <4>1. Len(s[i]) = 2 + (ends[i] - B(i))
        BY <3>5, <1>7
      <4> QED BY <4>1, <1>1, <1>2, <1>3
    <3>2. at[i] = B(i) + 2 * (i - 1)
      OBVIOUS
    <3>3. CASE i = n
      <4>1. at[i + 1] = Len(payload) + 2 * n
        BY <3>3
      <4>2. ends[i] = Len(payload)
        BY <1>5, <3>3
      <4> HIDE DEF at, s
      <4> QED BY <3>1, <3>2, <3>3, <4>1, <4>2, <1>1
    <3>4. CASE i # n
      <4>1. i + 1 \in 1..n
        BY <3>4
      <4>2. B(i + 1) = ends[i]
        BY <4>1 DEF B, Begin
      <4>3. at[i + 1] = ends[i] + 2 * ((i + 1) - 1)
        BY <4>1, <4>2
      <4> HIDE DEF at, s
      <4> QED BY <3>1, <3>2, <4>3
    <3> QED BY <3>3, <3>4
  <2> HIDE DEF at, s
  <2> QED BY <2>1, <2>2, <1>8 DEF Places
<1>11. /\ bytes \in Seq(Byte) /\ Len(bytes) = at[n + 1]
       /\ \A i \in 1..n : \A j \in 1..Len(s[i]) : bytes[at[i] + j] = s[i][j]
  <2> HIDE DEF s, at
  <2>1. s \in Seq(Seq(Byte)) /\ Len(s) > 0 /\ at \in [1..(Len(s) + 1) -> Nat]
    BY <1>8, <1>9
  <2>2. /\ FlattenSeq(s) \in Seq(Byte)
        /\ Len(FlattenSeq(s)) = at[Len(s) + 1]
        /\ \A i \in 1..Len(s) : \A j \in 1..Len(s[i]) :
             FlattenSeq(s)[at[i] + j] = s[i][j]
    BY <2>1, <1>10, FlattenPlaces, Zenon
  <2> QED BY <1>6, <1>8, <2>2, Zenon
<1>12. at[n + 1] = Len(payload) + 2 * n
  OBVIOUS
<1>13. ASSUME NEW i \in 1..n
       PROVE  /\ B(i) <= ends[i]
              /\ decode_header(<<bytes[(B(i) + 2 * (i - 1)) + 1],
                                 bytes[(B(i) + 2 * (i - 1)) + 2]>>) =
                   [len |-> ends[i] - B(i), last |-> i = n]
              /\ \A j \in 1..(ends[i] - B(i)) :
                   bytes[(B(i) + 2 * (i - 1)) + (2 + j)] = payload[B(i) + j]
  <2>1. s[i] = piece(i) /\ at[i] = B(i) + 2 * (i - 1)
    OBVIOUS
  <2> HIDE DEF s, at
  <2>2. B(i) \in Nat /\ ends[i] \in Nat /\ Len(s[i]) = 2 + (ends[i] - B(i))
        /\ ends[i] - B(i) \in Nat
    <3>1. Len(s[i]) = 2 + (ends[i] - B(i))
      BY <1>7, <2>1
    <3> QED BY <3>1, <1>1, <1>2, <1>3, <1>4, FramingAssumption
  <2>3. 1 \in 1..Len(s[i]) /\ 2 \in 1..Len(s[i])
        /\ \A j \in 1..(ends[i] - B(i)) : 2 + j \in 1..Len(s[i])
    BY <2>2
  <2>4. \A j \in 1..Len(s[i]) : bytes[at[i] + j] = piece(i)[j]
    BY <1>11, <2>1
  <2>5. bytes[at[i] + 1] = piece(i)[1] /\ bytes[at[i] + 2] = piece(i)[2]
    BY <2>3, <2>4, Zenon
  <2>6. \A j \in 1..(ends[i] - B(i)) :
          bytes[at[i] + (2 + j)] = payload[B(i) + j]
    BY <2>3, <2>4, <1>7, Zenon
  <2>7. decode_header(<<bytes[at[i] + 1], bytes[at[i] + 2]>>) =
          [len |-> ends[i] - B(i), last |-> i = n]
    BY <2>5, <1>7, Zenon
  <2>8. B(i) <= ends[i]
    BY <2>2
  <2> QED BY <2>1, <2>6, <2>7, <2>8, Zenon
<1> HIDE DEF s, at
<1> QED BY <1>3, <1>4, <1>11, <1>12, <1>13, Zenon DEF B, IsFramed

(* Rounding up: ceil(l / m) blocks of m hold l, one block less does not.   *)
LEMMA RoundUp ==
    ASSUME NEW l \in Nat \ {0}, NEW m \in Nat \ {0},
           NEW q, q = (l + m - 1) \div m
    PROVE  q \in Nat \ {0} /\ (q - 1) * m < l /\ l <= (q - 1) * m + m
<1>1. PICK s : s = l + m - 1
  OBVIOUS
<1>2. s \in Nat /\ s >= m
  BY <1>1
<1>3. q = s \div m
  BY <1>1
<1>4. PICK r : r = s % m
  OBVIOUS
<1>5. q \in Nat /\ r \in 0..(m - 1) /\ s = m * q + r
  BY <1>2, <1>3, <1>4
<1>6. q # 0
  <2>1. CASE q = 0
    <3>1. m * q = 0
      BY <2>1
    <3> QED BY <3>1, <1>2, <1>5
  <2> QED BY <2>1
<1>7. (q - 1) * m = m * q - m
  BY <1>5
<1>8. PICK z : z = m * q
  OBVIOUS
<1>9. z \in Nat /\ (q - 1) * m = z - m /\ s = z + r
  BY <1>5, <1>7, <1>8
<1> QED BY <1>1, <1>5, <1>6, <1>9

(* The chunks are blocks the payload may be sent in, and no fewer would    *)
(* do.                                                                     *)
LEMMA ChunksSplit ==
    ASSUME NEW payload \in Seq(Byte)
    PROVE  \E n \in Nat \ {0} :
             /\ chunks(payload) \in [1..n -> 0..Len(payload)]
             /\ Splits(payload, chunks(payload))
             /\ n > 1 => Len(payload) > MAX_BLOCK_PAYLOAD * (n - 1)
<1> DEFINE L == Len(payload)
           M == MAX_BLOCK_PAYLOAD
           n == IF payload = <<>> THEN 1 ELSE (L + M - 1) \div M
           ends == [i \in 1..n |-> IF i < n THEN i * M ELSE L]
<1>1. L \in Nat /\ M \in Nat \ {0}
  BY LenProperties, FramingAssumption
<1>2. /\ n \in Nat \ {0} /\ (n - 1) * M <= L /\ L <= (n - 1) * M + M
      /\ n > 1 => (n - 1) * M < L
  <2>1. CASE payload = <<>>
    <3>1. n = 1 /\ L = 0 /\ (1 - 1) * M = 0
      BY <2>1, <1>1
    <3> HIDE DEF n, L, M
    <3> QED BY <3>1, <1>1
  <2>2. CASE payload # <<>>
    <3>1. L \in Nat \ {0}
      BY <2>2, EmptySeq
    <3>2. n = (L + M - 1) \div M
      BY <2>2
    <3> HIDE DEF n, L, M
    <3>3. n \in Nat \ {0} /\ (n - 1) * M < L /\ L <= (n - 1) * M + M
      BY <3>1, <3>2, <1>1, RoundUp
    <3>4. PICK z : z = (n - 1) * M
      OBVIOUS
    <3>5. z \in Nat /\ z < L /\ L <= z + M
      BY <3>3, <3>4, <1>1
    <3> QED BY <3>3, <3>4, <3>5, <1>1
  <2> QED BY <2>1, <2>2
<1>3. chunks(payload) = ends
  BY Zenon DEF chunks
<1> HIDE DEF n, L, M
<1>4. \A i \in 1..n : i < n => i * M \in 0..L
  <2> SUFFICES ASSUME NEW i \in 1..n, i < n PROVE i * M \in 0..L
    OBVIOUS
  <2>1. i \in Nat /\ i <= n - 1 /\ n - 1 \in Nat
    BY <1>2
  <2>2. i * M \in Nat /\ i * M <= (n - 1) * M
    BY <2>1, <1>1
  <2>3. (n - 1) * M \in Nat
    BY <2>1, <1>1
  <2> QED BY <2>2, <2>3, <1>1, <1>2
<1>5. ends \in [1..n -> 0..L]
  BY <1>1, <1>2, <1>4
<1>6. Len(ends) = n
  BY <1>2
<1>7. ends[n] = L
  BY <1>2
<1>8. ASSUME NEW i \in 1..n PROVE ends[i] - Begin(ends, i) \in 0..M
  <2>1. i \in Nat /\ i >= 1 /\ i <= n /\ n \in Nat
    BY <1>2
  <2>2. Begin(ends, i) = (i - 1) * M
    <3>1. CASE i = 1
      <4>1. (1 - 1) * M = 0
        BY <1>1
      <4> QED BY <3>1, <4>1 DEF Begin
    <3>2. CASE i # 1
      <4>1. i - 1 \in 1..n /\ i - 1 < n
        BY <2>1, <3>2
      <4>2. ends[i - 1] = (i - 1) * M
        BY <4>1
      <4> QED BY <3>2, <4>2 DEF Begin
    <3> QED BY <3>1, <3>2
  <2>3. CASE i < n
    <3>1. ends[i] = i * M
      BY <2>3
    <3>2. i * M - (i - 1) * M = M
      BY <2>1, <1>1
    <3> QED BY <3>1, <3>2, <2>2, <1>1
  <2>4. CASE ~(i < n)
    <3>1. i = n /\ ends[i] = L
      BY <2>1, <2>4, <1>7
    <3>2. PICK z : z = (n - 1) * M
      OBVIOUS
    <3>3. z \in Nat
      BY <3>2, <2>1, <3>1, <1>1
    <3>4. L - z \in 0..M
      BY <3>2, <3>3, <1>1, <1>2
    <3> QED BY <3>1, <3>2, <3>4, <2>2
  <2> QED BY <2>3, <2>4
<1> HIDE DEF ends
<1>9. Splits(payload, ends)
  BY <1>6, <1>7, <1>8 DEF Splits, L, M
<1>10. n > 1 => L > M * (n - 1)
  <2>1. M * (n - 1) = (n - 1) * M
    BY <1>1, <1>2
  <2>2. (n - 1) * M \in Nat
    BY <1>1, <1>2
  <2> QED BY <2>1, <2>2, <1>1, <1>2
<1> QED BY <1>2, <1>3, <1>5, <1>9, <1>10 DEF L, M
-----------------------------------------------------------------------------
(* decode_message.                                                         *)

(* Any two bytes are a header, of a length below half a word.              *)
LEMMA HeaderType ==
    ASSUME NEW x \in Byte, NEW y \in Byte, NEW bytes,
           bytes[1] = x, bytes[2] = y
    PROVE  decode_header(bytes) \in [len : 0..(Word \div 2), last : BOOLEAN]
<1>1. PICK B : B = ByteBase
  OBVIOUS
<1>2. PICK h : h = x + y * B
  OBVIOUS
<1>3. B \in Nat \ {0, 1} /\ x \in 0..(B - 1) /\ y \in 0..(B - 1)
  BY <1>1, FramingAssumption DEF Byte
<1>4. y * B \in Nat /\ y * B <= (B - 1) * B
  BY <1>3
<1>5. (B - 1) * B = B * B - B /\ B * B \in Nat
  BY <1>3
<1>6. h \in Nat /\ h <= B * B
  BY <1>2, <1>3, <1>4, <1>5
<1>7. h \div 2 \in 0..((B * B) \div 2)
  <2>1. PICK z : z = B * B
    OBVIOUS
  <2>2. z \in Nat /\ h <= z
    BY <2>1, <1>5, <1>6
  <2>3. h \div 2 \in Nat /\ h \div 2 <= z \div 2 /\ z \div 2 \in Nat
    BY <2>2, <1>6
  <2> QED BY <2>1, <2>3
<1>8. (h % 2 = 1) \in BOOLEAN
  OBVIOUS
<1>9. PICK l, last : l = h \div 2 /\ last = (h % 2 = 1)
  OBVIOUS
<1>10. decode_header(bytes) = [len |-> l, last |-> last]
  BY <1>1, <1>2, <1>9 DEF decode_header
<1>11. l \in 0..(Word \div 2) /\ last \in BOOLEAN
  BY <1>1, <1>7, <1>8, <1>9 DEF Word
<1> QED BY <1>10, <1>11

(* What the recursive function of decode_message, here f, has at offset o. *)
DecodeAt(data, f, o) ==
    IF Len(data) < o + 2 THEN None
    ELSE LET h == decode_header(SubSeq(data, o + 1, o + 2))
             end == o + 2 + h.len
             payload == SubSeq(data, o + 3, end)
         IN  IF Len(data) < end THEN None
             ELSE IF h.last
             THEN [some |-> TRUE, message |-> payload, used |-> end]
             ELSE IF ~f[end].some THEN None
             ELSE [f[end] EXCEPT !.message = payload \o @]

(* The length in a header is a number.                                     *)
LEMMA HeaderLen ==
    ASSUME NEW data \in Seq(Byte), NEW o \in Nat, o + 2 <= Len(data)
    PROVE  decode_header(SubSeq(data, o + 1, o + 2)).len \in Nat
<1>1. PICK t : t = SubSeq(data, o + 1, o + 2)
  OBVIOUS
<1>2. Len(data) \in Nat /\ \A i \in 1..Len(data) : data[i] \in Byte
  BY LenProperties, ElementOfSeq
<1>3. o + 1 \in 1..Len(data) /\ o + 2 \in 1..Len(data)
  BY <1>2
<1>4. t[1] = data[o + 1] /\ t[2] = data[o + 2]
  <2>1. \A i \in (o + 1)..(o + 2) : data[i] \in Byte
    BY <1>2
  <2>2. \A i \in 1..2 : t[i] = data[o + i]
    BY <2>1, <1>1, SubSeqProperties
  <2> QED BY <2>2
<1>5. t[1] \in Byte /\ t[2] \in Byte
  BY <1>2, <1>3, <1>4
<1>6. decode_header(t) \in [len : 0..(Word \div 2), last : BOOLEAN]
  BY <1>5, HeaderType
<1>7. PICK z : z = Word \div 2
  OBVIOUS
<1>8. decode_header(t).len \in 0..z
  BY <1>6, <1>7
<1> QED BY <1>1, <1>8

(* It depends on what f has at later offsets only.                         *)
LEMMA DecodeLocal ==
    ASSUME NEW data \in Seq(Byte), NEW o \in 0..Len(data), NEW f, NEW g,
           \A e \in 0..Len(data) : e > o => f[e] = g[e]
    PROVE  DecodeAt(data, f, o) = DecodeAt(data, g, o)
<1>1. PICK L, len : L = Len(data)
                 /\ len = decode_header(SubSeq(data, o + 1, o + 2)).len
  OBVIOUS
<1>2. L \in Nat /\ o \in 0..L
  BY <1>1, LenProperties
<1>3. CASE L < o + 2
  BY <1>1, <1>3, Zenon DEF DecodeAt
<1>4. CASE ~(L < o + 2)
  <2>1. len \in Nat
    BY <1>1, <1>2, <1>4, HeaderLen
  <2>2. PICK end : end = o + 2 + len
    OBVIOUS
  <2>3. CASE L < end
    BY <1>1, <1>4, <2>2, <2>3, Zenon DEF DecodeAt
  <2>4. CASE ~(L < end)
    <3>1. end \in 0..Len(data) /\ end > o
      BY <1>1, <1>2, <2>1, <2>2, <2>4
    <3>2. f[end] = g[end]
      BY <3>1, Zenon
    <3> QED BY <1>1, <1>4, <2>2, <2>4, <3>2, Zenon DEF DecodeAt
  <2> QED BY <2>3, <2>4
<1> QED BY <1>3, <1>4

(* g solves the recursion at the last offsets, those from Len(data) - k.   *)
Solves(g, data, k) ==
    \A o \in 0..Len(data) : o + k >= Len(data) => g[o] = DecodeAt(data, g, o)

(* It can be solved from the end of the data to its beginning.             *)
LEMMA SolutionExists ==
    ASSUME NEW data \in Seq(Byte), NEW n \in 0..Len(data)
    PROVE  \E g : Solves(g, data, n)
<1> DEFINE P(k) == \E g : Solves(g, data, k)
           bad == {k \in 0..Len(data) : ~P(k)}
<1>1. PICK L : L = Len(data)
  OBVIOUS
<1>2. L \in Nat
  BY <1>1, LenProperties
<1>3. SUFFICES ASSUME bad # {} PROVE FALSE
  BY <1>3
<1>4. PICK k \in bad : \A j \in bad : k <= j
  <2>1. bad \in SUBSET Nat
    BY <1>1, <1>2
  <2> HIDE DEF bad
  <2> QED BY <1>3, <2>1, LeastNumber
<1>5. k \in 0..L /\ ~P(k)
  BY <1>1, <1>4
<1>6. CASE k = 0
  <2> DEFINE g == [o \in 0..Len(data) |-> None]
  <2>1. ASSUME NEW o \in 0..Len(data), o + 0 >= Len(data)
        PROVE  g[o] = DecodeAt(data, g, o)
    <3>1. Len(data) < o + 2
      BY <1>1, <1>2, <2>1
    <3>2. g[o] = None
      BY Zenon
    <3> HIDE DEF g
    <3> QED BY <3>1, <3>2, Zenon DEF DecodeAt
  <2> HIDE DEF g
  <2>2. Solves(g, data, 0)
    BY <2>1, Zenon DEF Solves
  <2> QED BY <2>2, <1>5, <1>6, Zenon
<1>7. CASE k # 0
  <2>1. k - 1 \in 0..L /\ ~(k <= k - 1) /\ L - k \in 0..L
    BY <1>2, <1>5, <1>7
  <2>2. P(k - 1)
    <3>1. k - 1 \notin bad
      <4> HIDE DEF bad, P
      <4> QED BY <2>1, <1>4, Zenon
    <3> HIDE DEF P
    <3> QED BY <1>1, <2>1, <3>1, Zenon
  <2>3. PICK h : Solves(h, data, k - 1)
    BY <2>2, Zenon
  <2>4. PICK c : c = L - k
    OBVIOUS
  <2> DEFINE g == [o \in 0..Len(data) |->
                     IF o = c THEN DecodeAt(data, h, o) ELSE h[o]]
  <2>5. \A o \in 0..Len(data) :
          g[o] = IF o = c THEN DecodeAt(data, h, o) ELSE h[o]
    BY Zenon
  <2> HIDE DEF g
  <2>6. ASSUME NEW o \in 0..Len(data), o + k >= Len(data)
        PROVE  g[o] = DecodeAt(data, g, o)
    <3>1. o = c \/ (o + (k - 1) >= Len(data) /\ o # c)
      BY <1>1, <1>2, <1>5, <2>4, <2>6
    <3>2. \A e \in 0..Len(data) : e > o => e # c
      BY <1>1, <1>2, <1>5, <2>4, <2>6
    <3>3. \A e \in 0..Len(data) : e > o => g[e] = h[e]
      BY <2>5, <3>2, Zenon
    <3>4. DecodeAt(data, g, o) = DecodeAt(data, h, o)
      BY <3>3, DecodeLocal, Zenon
    <3>5. g[o] = DecodeAt(data, h, o)
      BY <2>3, <2>5, <3>1, Zenon DEF Solves
    <3> QED BY <3>4, <3>5, Zenon
  <2>7. Solves(g, data, k)
    BY <2>6, Zenon DEF Solves
  <2> QED BY <2>7, <1>5, Zenon
<1> QED BY <1>6, <1>7

(* decode_message is a solution, at offset 0.                              *)
LEMMA DecodeSolves ==
    ASSUME NEW data \in Seq(Byte)
    PROVE  \E f : Solves(f, data, Len(data)) /\ decode_message(data) = f[0]
<1> DEFINE D(f) == [o \in 0..Len(data) |-> DecodeAt(data, f, o)]
           from == CHOOSE f : f = D(f)
<1>1. Len(data) \in Nat
  BY LenProperties
<1>2. \A o \in 0..Len(data) : o + Len(data) >= Len(data)
  BY <1>1
<1>3. PICK g : Solves(g, data, Len(data))
  <2>1. Len(data) \in 0..Len(data)
    BY <1>1
  <2> QED BY <2>1, SolutionExists, Zenon
<1> DEFINE s == [o \in 0..Len(data) |-> g[o]]
<1>4. s = D(s)
  <2>1. \A o \in 0..Len(data) : s[o] = g[o]
    BY Zenon
  <2>2. \A o \in 0..Len(data) : DecodeAt(data, s, o) = g[o]
    <3> HIDE DEF s
    <3> TAKE o \in 0..Len(data)
    <3>1. \A e \in 0..Len(data) : e > o => s[e] = g[e]
      BY <2>1, Zenon
    <3>2. DecodeAt(data, s, o) = DecodeAt(data, g, o)
      BY <3>1, DecodeLocal, Zenon
    <3> QED BY <1>2, <1>3, <3>2, Zenon DEF Solves
  <2>3. D(s) = [o \in 0..Len(data) |-> g[o]]
    <3> HIDE DEF s
    <3> QED BY <2>2, Zenon
  <2> QED BY <2>3, Zenon
<1> HIDE DEF s
<1>5. from = D(from)
  BY <1>4, Zenon
<1>6. decode_message(data) = from[0]
  BY Zenon DEF decode_message, DecodeAt
<1> HIDE DEF from
<1>7. \A o \in 0..Len(data) : D(from)[o] = DecodeAt(data, from, o)
  BY Zenon
<1>8. Solves(from, data, Len(data))
  BY <1>5, <1>7, Zenon DEF Solves
<1> QED BY <1>6, <1>8, Zenon
=============================================================================
