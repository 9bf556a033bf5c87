------------------------- MODULE MessageQueueProofs ------------------------
(***************************************************************************)
(* Proofs about MapiFraming: what is on its way is always whole blocks of  *)
(* messages written, so writing and reading blocks implement a queue of    *)
(* messages, and decode_message agrees with read_message.  For any         *)
(* messages, any splits and any size of a byte and of a block.             *)
(***************************************************************************)
EXTENDS MapiFramingProofs

(* Where a block begins in the stream and in its message.                  *)
Mark == [msg : Nat, from : Nat, len : Nat, last : BOOLEAN, at : Nat]

EndOf(b) == b.at + (2 + b.len)

(* Bytes hold, at mark b, a block of a message of msgs.                    *)
Stands(bytes, b, msgs) ==
    /\ b.msg \in 1..Len(msgs)
    /\ b.len \in 0..MAX_BLOCK_PAYLOAD
    /\ b.from + b.len <= Len(msgs[b.msg])
    /\ b.last => b.from + b.len = Len(msgs[b.msg])
    /\ EndOf(b) <= Len(bytes)
    /\ decode_header(<<bytes[b.at + 1], bytes[b.at + 2]>>) =
         [len |-> b.len, last |-> b.last]
    /\ \A j \in 1..b.len : bytes[b.at + (2 + j)] = msgs[b.msg][b.from + j]

(* Block c is the one behind block b.                                      *)
Follows(b, c) ==
    /\ c.at = EndOf(b)
    /\ b.last => c.msg = b.msg + 1 /\ c.from = 0
    /\ ~b.last => c.msg = b.msg /\ c.from = b.from + b.len

(* The n blocks at the marks S are all of bytes and carry all of msgs; the *)
(* mark behind them is where the next message will begin.                  *)
Laid(bytes, S, n, msgs) ==
    /\ \A i \in 1..n : Stands(bytes, S[i], msgs)
    /\ \A i \in 1..n : Follows(S[i], S[i + 1])
    /\ S[n + 1].at = Len(bytes) /\ S[n + 1].msg = Len(msgs) + 1
    /\ S[n + 1].from = 0

(* The marks of the m blocks of one more message, which end at ends: mark  *)
(* j of those of a message that begins behind `at` and is number `msg`.    *)
NewMark(ends, m, size, msg, at, j, c) ==
    /\ c.at = at + ((IF j <= m THEN Begin(ends, j) ELSE size) + 2 * (j - 1))
    /\ j <= m => /\ c.msg = msg /\ c.from = Begin(ends, j)
                 /\ c.len = ends[j] - Begin(ends, j) /\ c.last = (j = m)
    /\ j > m => c.msg = msg + 1 /\ c.from = 0

(* The elements of a concatenation.                                        *)
LEMMA ConcatParts ==
    ASSUME NEW T, NEW s \in Seq(T), NEW t \in Seq(T)
    PROVE  /\ s \o t \in Seq(T) /\ Len(s \o t) = Len(s) + Len(t)
           /\ \A i \in 1..Len(s) : (s \o t)[i] = s[i]
           /\ \A i \in 1..Len(t) : (s \o t)[Len(s) + i] = t[i]
<1>1. Len(s) \in Nat /\ Len(t) \in Nat
  BY LenProperties
<1>2. s \o t \in Seq(T) /\ Len(s \o t) = Len(s) + Len(t)
  BY ConcatProperties
<1>3. \A i \in 1..Len(s) + Len(t) :
        (s \o t)[i] = IF i <= Len(s) THEN s[i] ELSE t[i - Len(s)]
  BY ConcatProperties
<1> PICK u, a, b : u = s \o t /\ a = Len(s) /\ b = Len(t)
  OBVIOUS
<1>4. \A i \in 1..a : i \in 1..a + b /\ i <= a
  BY <1>1
<1>5. \A i \in 1..b : a + i \in 1..a + b /\ ~(a + i <= a) /\ (a + i) - a = i
  BY <1>1
<1> QED BY <1>2, <1>3, <1>4, <1>5, Zenon

(* The same of bytes, and that their concatenation is associative.         *)
LEMMA JoinBytes ==
    ASSUME NEW s \in Seq(Byte), NEW t \in Seq(Byte)
    PROVE  /\ s \o t \in Seq(Byte) /\ Len(s \o t) = Len(s) + Len(t)
           /\ \A i \in 1..Len(s) : (s \o t)[i] = s[i]
           /\ \A i \in 1..Len(t) : (s \o t)[Len(s) + i] = t[i]
           /\ \A u \in Seq(Byte) : (s \o t) \o u = s \o (t \o u)
<1>1. \A u \in Seq(Byte) : (s \o t) \o u = s \o (t \o u)
  <2> TAKE u \in Seq(Byte)
  <2> HIDE DEF Byte
  <2> QED BY ConcatAssociative
<1> QED BY <1>1, ConcatParts

(* The bytes of a block are among the first w.                             *)
LEMMA WithinBlock ==
    ASSUME NEW a \in Nat, NEW l \in Nat, NEW w \in Nat, a + (2 + l) <= w
    PROVE  /\ a + 1 \in 1..w /\ a + 2 \in 1..w
           /\ \A j \in 1..l : a + (2 + j) \in 1..w
  OBVIOUS

(* A block keeps standing when bytes and a message are added behind.       *)
LEMMA StillStands ==
    ASSUME NEW W \in Seq(Byte), NEW F \in Seq(Byte), NEW b \in Mark,
           NEW msgs, NEW more, Len(msgs) \in Nat, Len(more) = Len(msgs) + 1,
           \A i \in 1..Len(msgs) : more[i] = msgs[i],
           Stands(W, b, msgs)
    PROVE  Stands(W \o F, b, more)
<1> PICK V : V = W \o F
  OBVIOUS
<1>1. Len(W) \in Nat /\ Len(V) \in Nat /\ Len(V) >= Len(W)
      /\ \A i \in 1..Len(W) : V[i] = W[i]
  BY ConcatProperties, LenProperties
<1>2. b.msg \in Nat /\ b.from \in Nat /\ b.len \in Nat /\ b.at \in Nat
  BY DEF Mark
<1>3. b.msg \in 1..Len(msgs) /\ b.msg \in 1..Len(more)
      /\ more[b.msg] = msgs[b.msg]
  BY DEF Stands
<1>4. b.at + (2 + b.len) <= Len(W)
  BY DEF Stands, EndOf
<1>5. b.at + 1 \in 1..Len(W) /\ b.at + 2 \in 1..Len(W)
      /\ \A j \in 1..b.len : b.at + (2 + j) \in 1..Len(W)
  BY <1>1, <1>2, <1>4, WithinBlock
<1>6. V[b.at + 1] = W[b.at + 1] /\ V[b.at + 2] = W[b.at + 2]
      /\ \A j \in 1..b.len : V[b.at + (2 + j)] = W[b.at + (2 + j)]
  BY <1>1, <1>5
<1>7. EndOf(b) <= Len(V)
  BY <1>1, <1>2, <1>4 DEF EndOf
<1>8. decode_header(<<V[b.at + 1], V[b.at + 2]>>) =
        [len |-> b.len, last |-> b.last]
  BY <1>6, Zenon DEF Stands
<1>9. \A j \in 1..b.len : V[b.at + (2 + j)] = more[b.msg][b.from + j]
  BY <1>3, <1>6, Zenon DEF Stands
<1> QED BY <1>3, <1>7, <1>8, <1>9, Zenon DEF Stands


(* Where a block begins is a number.                                       *)
LEMMA MarkPlace ==
    ASSUME NEW at \in Nat, NEW b \in Nat, NEW j \in Nat \ {0}
    PROVE  at + (b + 2 * (j - 1)) \in Nat
  OBVIOUS

(* Every block of a new message has its mark.                              *)
LEMMA NewMarkExists ==
    ASSUME NEW size \in Nat, NEW m \in Nat \ {0},
           NEW ends \in [1..m -> 0..size],
           \A i \in 1..m : Begin(ends, i) \in Nat /\ Begin(ends, i) <= ends[i],
           NEW msg \in Nat, NEW at \in Nat, NEW j \in 1..(m + 1)
    PROVE  \E c \in Mark : NewMark(ends, m, size, msg, at, j, c)
<1> DEFINE p == at + ((IF j <= m THEN Begin(ends, j) ELSE size) + 2 * (j - 1))
<1>1. CASE j <= m
  <2>0. j \in 1..m
    BY <1>1
  <2> PICK b, l, last, a : b = Begin(ends, j) /\ l = ends[j] - Begin(ends, j)
                          /\ last = (j = m) /\ a = p
    OBVIOUS
  <2>1. b \in Nat /\ l \in Nat /\ last \in BOOLEAN
    BY <2>0
  <2>2. a \in Nat
    <3>1. a = at + (b + 2 * (j - 1))
      BY <1>1, Zenon
    <3>2. j \in Nat \ {0}
      BY <2>0
    <3> QED BY <2>1, <3>1, <3>2, MarkPlace, Zenon
  <2> DEFINE c == [msg |-> msg, from |-> b, len |-> l, last |-> last, at |-> a]
  <2> HIDE DEF p
  <2>3. c \in Mark
    BY <2>1, <2>2 DEF Mark
  <2>4. c.msg = msg /\ c.from = b /\ c.len = l /\ c.at = a
    OBVIOUS
  <2>5. c.last = last
    BY Zenon
  <2>6. ~(j > m)
    BY <1>1
  <2> HIDE DEF c
  <2>7. NewMark(ends, m, size, msg, at, j, c)
    BY <2>4, <2>5, <2>6, Zenon DEF NewMark, p
  <2> QED BY <2>3, <2>7
<1>2. CASE ~(j <= m)
  <2> PICK a : a = p
    OBVIOUS
  <2>1. a \in Nat
    BY <1>2
  <2> DEFINE c == [msg |-> msg + 1, from |-> 0, len |-> 0, last |-> FALSE,
                   at |-> a]
  <2>2. c \in Mark /\ c.msg = msg + 1 /\ c.from = 0 /\ c.at = a
    BY <2>1 DEF Mark
  <2> HIDE DEF c, p
  <2>3. NewMark(ends, m, size, msg, at, j, c)
    BY <1>2, <2>2, Zenon DEF NewMark, p
  <2> QED BY <2>2, <2>3
<1> QED BY <1>1, <1>2

(* The blocks of a new message stand behind what was there.                *)
LEMMA NewStands ==
    ASSUME NEW W \in Seq(Byte), NEW payload \in Seq(Byte),
           NEW m \in Nat \ {0}, NEW ends \in [1..m -> 0..Len(payload)],
           Splits(payload, ends),
           NEW F \in Seq(Byte), IsFramed(F, payload, ends, m),
           NEW msg \in Nat \ {0}, NEW more, Len(more) = msg,
           more[msg] = payload,
           NEW j \in 1..m, NEW c \in Mark,
           NewMark(ends, m, Len(payload), msg, Len(W), j, c)
    PROVE  Stands(W \o F, c, more)
<1>a. PICK V : V = W \o F
  OBVIOUS
<1>b. PICK b, e, q : b = Begin(ends, j) /\ e = ends[j] /\ q = b + 2 * (j - 1)
  OBVIOUS
<1>c. PICK w, f, p, l : /\ w = Len(W) /\ f = Len(F) /\ p = Len(payload)
                       /\ l = e - b
  OBVIOUS
<1>1. /\ f = p + 2 * m
      /\ b \in Nat /\ b <= e /\ l \in 0..MAX_BLOCK_PAYLOAD
      /\ decode_header(<<F[q + 1], F[q + 2]>>) = [len |-> l, last |-> j = m]
      /\ \A i \in 1..l : F[q + (2 + i)] = payload[b + i]
  BY <1>b, <1>c, Zenon DEF IsFramed
<1>2. w \in Nat /\ p \in Nat /\ e \in 0..p
  BY <1>b, <1>c, LenProperties
<1>3. Len(V) = w + f /\ \A i \in 1..f : V[w + i] = F[i]
  BY <1>a, <1>c, ConcatParts
<1>4. /\ c.at = w + q /\ c.msg = msg /\ c.from = b /\ c.len = l
      /\ c.last = (j = m)
  <2>1. j <= m
    OBVIOUS
  <2> QED BY <2>1, <1>b, <1>c, Zenon DEF NewMark
<1>5. /\ q \in Nat /\ l \in Nat /\ f \in Nat /\ q + (2 + l) <= f
      /\ (w + q) + 1 = w + (q + 1) /\ (w + q) + 2 = w + (q + 2)
      /\ \A i \in 1..l : (w + q) + (2 + i) = w + (q + (2 + i))
      /\ (w + q) + (2 + l) <= w + f /\ b + l = e
  <2>1. /\ w \in Nat /\ p \in Nat /\ b \in Nat /\ e \in 0..p /\ b <= e
        /\ m \in Nat /\ j \in 1..m
        /\ f = p + 2 * m /\ q = b + 2 * (j - 1) /\ l = e - b
    BY <1>b, <1>c, <1>1, <1>2
  <2>2. q \in Nat /\ l \in Nat /\ f \in Nat
    BY <2>1
  <2>3. 2 * j <= 2 * m /\ q + (2 + l) = e + 2 * j
    BY <2>1
  <2> QED BY <2>1, <2>2, <2>3
<1>7. /\ q + 1 \in 1..f /\ q + 2 \in 1..f
      /\ \A i \in 1..l : q + (2 + i) \in 1..f
  BY <1>5, WithinBlock, Zenon
<1>8. c.at + 1 = w + (q + 1) /\ c.at + 2 = w + (q + 2)
      /\ \A i \in 1..l : c.at + (2 + i) = w + (q + (2 + i))
  BY <1>4, <1>5, Zenon
<1>9. V[c.at + 1] = F[q + 1] /\ V[c.at + 2] = F[q + 2]
  <2>1. V[w + (q + 1)] = F[q + 1] /\ V[w + (q + 2)] = F[q + 2]
    BY <1>3, <1>7, Zenon
  <2> QED BY <2>1, <1>8, Zenon
<1>10. \A i \in 1..l : V[c.at + (2 + i)] = payload[b + i]
  <2> TAKE i \in 1..l
  <2>1. V[w + (q + (2 + i))] = F[q + (2 + i)]
    BY <1>3, <1>7, Zenon
  <2>2. F[q + (2 + i)] = payload[b + i]
    BY <1>1, Zenon
  <2>3. c.at + (2 + i) = w + (q + (2 + i))
    BY <1>8, Zenon
  <2> QED BY <2>1, <2>2, <2>3, Zenon
<1>11. decode_header(<<V[c.at + 1], V[c.at + 2]>>) =
         [len |-> c.len, last |-> c.last]
  BY <1>1, <1>4, <1>9, Zenon
<1>12. EndOf(c) <= Len(V)
  BY <1>3, <1>4, <1>5, Zenon DEF EndOf
<1>13. c.msg \in 1..Len(more) /\ more[c.msg] = payload
  BY <1>4
<1>14. c.from + c.len <= Len(payload)
  BY <1>2, <1>4, <1>5, <1>c
<1>15. c.last => c.from + c.len = Len(payload)
  <2>1. Len(ends) = m
    OBVIOUS
  <2>2. j = m => e = Len(payload)
    BY <2>1, <1>b DEF Splits
  <2> QED BY <1>4, <1>5, <2>2, Zenon
<1>16. \A i \in 1..c.len : V[c.at + (2 + i)] = more[c.msg][c.from + i]
  BY <1>4, <1>10, <1>13, Zenon
<1>17. c.len \in 0..MAX_BLOCK_PAYLOAD
  BY <1>1, <1>4
<1> QED
  BY <1>a, <1>11, <1>12, <1>13, <1>14, <1>15, <1>16, <1>17, Zenon DEF Stands

(* They follow one another.                                                *)
LEMMA NewFollows ==
    ASSUME NEW size \in Nat, NEW m \in Nat \ {0},
           NEW ends \in [1..m -> 0..size], ends[m] = size,
           NEW msg \in Nat, NEW at \in Nat, NEW j \in 1..m,
           Begin(ends, j) \in Nat,
           NEW c \in Mark, NEW d \in Mark,
           NewMark(ends, m, size, msg, at, j, c),
           NewMark(ends, m, size, msg, at, j + 1, d)
    PROVE  Follows(c, d)
<1> PICK b, e : b = Begin(ends, j) /\ e = ends[j]
  OBVIOUS
<1>1. b \in Nat /\ e \in Nat
  OBVIOUS
<1>2. /\ c.at = at + (b + 2 * (j - 1)) /\ c.msg = msg /\ c.from = b
      /\ c.len = e - b /\ c.last = (j = m)
  <2>1. j <= m
    OBVIOUS
  <2> QED BY <2>1, Zenon DEF NewMark
<1>3. EndOf(c) = at + (e + 2 * j)
  BY <1>1, <1>2 DEF EndOf
<1>4. CASE j = m
  <2>1. ~(j + 1 <= m) /\ j + 1 > m /\ (j + 1) - 1 = j /\ e = size
    BY <1>4
  <2>2. d.at = at + (size + 2 * ((j + 1) - 1)) /\ d.msg = msg + 1 /\ d.from = 0
    BY <2>1, Zenon DEF NewMark
  <2>3. c.last
    BY <1>2, <1>4
  <2> QED BY <1>2, <1>3, <2>1, <2>2, <2>3 DEF Follows
<1>5. CASE j # m
  <2>1. j + 1 <= m /\ (j + 1) - 1 = j
    BY <1>5
  <2>2. d.at = at + (Begin(ends, j + 1) + 2 * ((j + 1) - 1)) /\ d.msg = msg
        /\ d.from = Begin(ends, j + 1)
    BY <2>1, Zenon DEF NewMark
  <2>3. Begin(ends, j + 1) = e
    BY <2>1 DEF Begin
  <2>4. ~c.last
    BY <1>2, <1>5, Zenon
  <2>5. b + (e - b) = e
    BY <1>1
  <2> QED BY <1>2, <1>3, <2>1, <2>2, <2>3, <2>4, <2>5 DEF Follows
<1> QED BY <1>4, <1>5

(* Payload is added behind the messages msgs.                              *)
Extends(msgs, more, payload) ==
    /\ Len(msgs) \in Nat /\ Len(more) = Len(msgs) + 1
    /\ \A i \in 1..Len(msgs) : more[i] = msgs[i]
    /\ more[Len(msgs) + 1] = payload

(* The marks R are the n marks S and those of m blocks more.               *)
Prolongs(R, S, n, m, bytes, msgs) ==
    /\ R \in [1..((n + m) + 1) -> Mark]
    /\ Laid(bytes, R, n + m, msgs)
    /\ \A i \in 1..n : R[i] = S[i]
    /\ R[n + 1].at = S[n + 1].at /\ R[n + 1].msg = S[n + 1].msg
    /\ R[n + 1].from = S[n + 1].from

(* Framing one more message behind a stream of blocks makes a longer one.  *)
LEMMA WriteLaid ==
    ASSUME NEW n \in Nat, NEW W \in Seq(Byte), NEW S \in [1..(n + 1) -> Mark],
           NEW msgs, NEW more, NEW payload \in Seq(Byte),
           Extends(msgs, more, payload),
           NEW m \in Nat \ {0}, NEW ends \in [1..m -> 0..Len(payload)],
           Splits(payload, ends), Laid(W, S, n, msgs)
    PROVE  \E R : Prolongs(R, S, n, m, W \o Framed(payload, ends), more)
<1>a. PICK F : F = Framed(payload, ends)
  OBVIOUS
<1>b. PICK msg, w, p : msg = Len(msgs) + 1 /\ w = Len(W) /\ p = Len(payload)
  OBVIOUS
<1>1. IsFramed(F, payload, ends, m) /\ F \in Seq(Byte) /\ Len(F) = p + 2 * m
  <2>1. IsFramed(F, payload, ends, m)
    BY <1>a, FramedBytes, Zenon
  <2> QED BY <2>1, <1>b, Zenon DEF IsFramed
<1>2. \A i \in 1..m : Begin(ends, i) \in Nat /\ Begin(ends, i) <= ends[i]
  BY <1>1, Zenon DEF IsFramed
<1>3. w \in Nat /\ p \in Nat /\ msg \in Nat \ {0} /\ Len(more) = msg
      /\ more[msg] = payload
  BY <1>b, LenProperties DEF Extends
<1>4. ends \in [1..m -> 0..p] /\ ends[m] = p
  <2>1. Len(ends) = m
    OBVIOUS
  <2> QED BY <1>b, <2>1 DEF Splits
<1>5. \A j \in 1..(m + 1) : \E c \in Mark : NewMark(ends, m, p, msg, w, j, c)
  <2> TAKE j \in 1..(m + 1)
  <2> QED BY <1>2, <1>3, <1>4, NewMarkExists, Zenon
<1> DEFINE New(j) == CHOOSE c \in Mark : NewMark(ends, m, p, msg, w, j, c)
           R == [i \in 1..((n + m) + 1) |->
                   IF i <= n THEN S[i] ELSE New(i - n)]
<1>6. \A j \in 1..(m + 1) : /\ New(j) \in Mark
                            /\ NewMark(ends, m, p, msg, w, j, New(j))
  BY <1>5, Zenon
<1> HIDE DEF New
<1>7. \A i \in 1..((n + m) + 1) : ~(i <= n) => i - n \in 1..(m + 1)
  OBVIOUS
<1>8. \A i \in 1..((n + m) + 1) : i <= n => i \in 1..(n + 1)
  OBVIOUS
<1>9. R \in [1..((n + m) + 1) -> Mark]
  BY <1>6, <1>7, <1>8
<1>10. \A i \in 1..n : R[i] = S[i]
  OBVIOUS
<1>11. \A j \in 1..(m + 1) : R[n + j] = New(j)
  <2> TAKE j \in 1..(m + 1)
  <2>1. n + j \in 1..((n + m) + 1) /\ ~(n + j <= n) /\ (n + j) - n = j
    OBVIOUS
  <2> QED BY <2>1
<1> HIDE DEF R
<1>12. Begin(ends, 1) = 0
  BY DEF Begin
<1>13. /\ R[n + 1].at = w /\ R[n + 1].msg = msg /\ R[n + 1].from = 0
  <2>1. 1 \in 1..(m + 1) /\ 1 <= m
    OBVIOUS
  <2>2. NewMark(ends, m, p, msg, w, 1, R[n + 1])
    BY <1>6, <1>11, <2>1, Zenon
  <2>3. /\ R[n + 1].at = w + (0 + 2 * (1 - 1))
        /\ R[n + 1].msg = msg /\ R[n + 1].from = 0
    BY <2>1, <2>2, <1>12, Zenon DEF NewMark
  <2>4. w + (0 + 2 * (1 - 1)) = w
    BY <1>3
  <2> QED BY <2>3, <2>4
<1>14. /\ S[n + 1].at = w /\ S[n + 1].msg = msg /\ S[n + 1].from = 0
  BY <1>b, Zenon DEF Laid
<1>15. ASSUME NEW i \in 1..(n + m) PROVE Stands(W \o F, R[i], more)
  <2>1. CASE i <= n
    <3>1. i \in 1..n /\ i \in 1..(n + 1)
      BY <2>1
    <3>2. S[i] \in Mark /\ Stands(W, S[i], msgs)
      BY <3>1 DEF Laid
    <3>3. /\ Len(msgs) \in Nat /\ Len(more) = Len(msgs) + 1
          /\ \A k \in 1..Len(msgs) : more[k] = msgs[k]
      BY Zenon DEF Extends
    <3>4. Stands(W \o F, S[i], more)
      BY <3>2, <3>3, <1>1, StillStands, Zenon
    <3> QED BY <3>1, <3>4, <1>10
  <2>2. CASE ~(i <= n)
    <3>1. PICK j : j = i - n
      OBVIOUS
    <3>2. j \in 1..m /\ j \in 1..(m + 1) /\ i = n + j
      BY <2>2, <3>1
    <3>3. R[i] \in Mark /\ NewMark(ends, m, Len(payload), msg, Len(W), j, R[i])
      BY <3>2, <1>6, <1>11, <1>b, Zenon
    <3> QED BY <3>2, <3>3, <1>1, <1>3, NewStands, Zenon
  <2> QED BY <2>1, <2>2
<1>16. ASSUME NEW i \in 1..(n + m) PROVE Follows(R[i], R[i + 1])
  <2>1. CASE i < n
    <3>1. i \in 1..n /\ i + 1 \in 1..n
      BY <2>1
    <3> QED BY <3>1, <1>10, Zenon DEF Laid
  <2>2. CASE i = n
    <3>1. i \in 1..n
      BY <2>2
    <3>2. Follows(S[i], S[n + 1]) /\ R[i] = S[i]
      BY <3>1, <2>2, <1>10, Zenon DEF Laid
    <3> QED BY <3>2, <2>2, <1>13, <1>14, Zenon DEF Follows
  <2>3. CASE i > n
    <3>1. PICK j : j = i - n
      OBVIOUS
    <3>2. j \in 1..m /\ j \in 1..(m + 1) /\ i = n + j /\ i + 1 = n + (j + 1)
          /\ j + 1 \in 1..(m + 1)
      BY <2>3, <3>1
    <3>3. /\ R[i] \in Mark /\ NewMark(ends, m, p, msg, w, j, R[i])
          /\ R[i + 1] \in Mark /\ NewMark(ends, m, p, msg, w, j + 1, R[i + 1])
      BY <3>2, <1>6, <1>11, Zenon
    <3>4. Begin(ends, j) \in Nat /\ msg \in Nat
      BY <3>2, <1>2, <1>3
    <3> QED BY <3>2, <3>3, <3>4, <1>3, <1>4, NewFollows, Zenon
  <2> QED BY <2>1, <2>2, <2>3
<1>17. /\ R[(n + m) + 1].at = Len(W \o F)
       /\ R[(n + m) + 1].msg = Len(more) + 1 /\ R[(n + m) + 1].from = 0
  <2>1. m + 1 \in 1..(m + 1) /\ ~(m + 1 <= m) /\ m + 1 > m
        /\ n + (m + 1) = (n + m) + 1
    OBVIOUS
  <2>2. NewMark(ends, m, p, msg, w, m + 1, R[(n + m) + 1])
    BY <2>1, <1>6, <1>11, Zenon
  <2>3. /\ R[(n + m) + 1].at = w + (p + 2 * ((m + 1) - 1))
        /\ R[(n + m) + 1].msg = msg + 1 /\ R[(n + m) + 1].from = 0
    BY <2>1, <2>2, Zenon DEF NewMark
  <2>6. Len(W \o F) = Len(W) + Len(F)
    BY <1>1, ConcatParts, Zenon
  <2>4. Len(W \o F) = w + (p + 2 * m)
    BY <2>6, <1>1, <1>b, Zenon
  <2>5. (m + 1) - 1 = m
    OBVIOUS
  <2> QED BY <2>3, <2>4, <2>5, <1>3, Zenon
<1>18. Laid(W \o F, R, n + m, more)
  BY <1>15, <1>16, <1>17, Zenon DEF Laid
<1>19. Prolongs(R, S, n, m, W \o F, more)
  BY <1>9, <1>10, <1>13, <1>14, <1>18, Zenon DEF Prolongs
<1> QED BY <1>a, <1>19

-----------------------------------------------------------------------------
(* The stream on its way is what is left of the bytes W behind base.       *)
Carried(stream, W, base) ==
    /\ base + Len(stream) = Len(W)
    /\ \A x \in 1..Len(stream) : stream[x] = W[base + x]

(* Before block b is read the locals hold the message up to it.            *)
Holds(b, msgs, got, gone, text) ==
    /\ b.msg = Len(got) + 1
    /\ b.from = gone + Len(text)
    /\ \A j \in 1..Len(text) : text[j] = msgs[b.msg][gone + j]

(* read_message is at the header of block b, or knows it and waits for its *)
(* payload.                                                                *)
Reading(b, base) ==
    /\ Holds(b, sent, received, lost, message)
    /\ block = NoBlock => base = b.at
    /\ block # NoBlock => /\ base = b.at + 2 /\ b.len > 0
                          /\ block.len = b.len /\ block.last = b.last

(* The stream consists of blocks and read_message is at one of them, or at *)
(* the end with nothing in its hands.                                      *)
ReadingAt(n, W, S, base, k) ==
    /\ n \in Nat /\ W \in Seq(Byte) /\ S \in [1..(n + 1) -> Mark]
    /\ base \in Nat /\ k \in 1..(n + 1)
    /\ Laid(W, S, n, sent)
    /\ Carried(in \o out, W, base)
    /\ Reading(S[k], base)
    /\ k = n + 1 => block = NoBlock

InStep == \E n, W, S, base, k : ReadingAt(n, W, S, base, k)

FramingInv == TypeOK /\ (aligned => InStep)

(* What is written behind is carried behind.                               *)
LEMMA WriteCarried ==
    ASSUME NEW i \in Seq(Byte), NEW o \in Seq(Byte), NEW F \in Seq(Byte),
           NEW W \in Seq(Byte), NEW base \in Nat, Carried(i \o o, W, base)
    PROVE  Carried(i \o (o \o F), W \o F, base)
<1>a. PICK T : T = i \o o
  OBVIOUS
<1>1. T \in Seq(Byte) /\ i \o (o \o F) = T \o F
  <2>1. T \in Seq(Byte)
    BY <1>a, ConcatParts
  <2>3. \A u \in Seq(Byte) : (i \o o) \o u = i \o (o \o u)
    BY JoinBytes, Zenon
  <2>2. (i \o o) \o F = i \o (o \o F)
    BY <2>3, Zenon
  <2> QED BY <1>a, <2>1, <2>2, Zenon
<1>b. PICK t, f, w : t = Len(T) /\ f = Len(F) /\ w = Len(W)
  OBVIOUS
<1>c. PICK U, V : U = T \o F /\ V = W \o F
  OBVIOUS
<1>2. t \in Nat /\ f \in Nat /\ w \in Nat
  BY <1>1, <1>b, LenProperties
<1>3. base + t = w /\ \A x \in 1..t : T[x] = W[base + x]
  BY <1>a, <1>b DEF Carried
<1>4. /\ Len(U) = t + f
      /\ \A x \in 1..t : U[x] = T[x]
      /\ \A x \in 1..f : U[t + x] = F[x]
  BY <1>1, <1>b, <1>c, ConcatParts
<1>5. /\ Len(V) = w + f
      /\ \A x \in 1..w : V[x] = W[x]
      /\ \A x \in 1..f : V[w + x] = F[x]
  BY <1>b, <1>c, ConcatParts
<1>6. ASSUME NEW x \in 1..Len(U) PROVE U[x] = V[base + x]
  <2>1. CASE x <= t
    <3>1. x \in 1..t /\ base + x \in 1..w
      BY <2>1, <1>2, <1>3, <1>4
    <3> QED BY <3>1, <1>3, <1>4, <1>5
  <2>2. CASE ~(x <= t)
    <3>1. PICK y : y = x - t
      OBVIOUS
    <3>2. y \in 1..f /\ x = t + y /\ base + x = w + y
      BY <3>1, <2>2, <1>2, <1>3, <1>4
    <3> QED BY <3>2, <1>4, <1>5
  <2> QED BY <2>1, <2>2
<1>7. base + Len(U) = Len(V)
  BY <1>2, <1>3, <1>4, <1>5
<1> QED BY <1>1, <1>c, <1>6, <1>7 DEF Carried

(* Bytes that arrive stay where they are in the stream.                    *)
LEMMA TransferKeeps ==
    ASSUME NEW i \in Seq(Byte), NEW o \in Seq(Byte), NEW k \in 1..Len(o)
    PROVE  /\ i \o SubSeq(o, 1, k) \in Seq(Byte)
           /\ SubSeq(o, k + 1, Len(o)) \in Seq(Byte)
           /\ (i \o SubSeq(o, 1, k)) \o SubSeq(o, k + 1, Len(o)) = i \o o
<1>1. Len(o) \in Nat /\ \A x \in 1..Len(o) : o[x] \in Byte
  BY LenProperties, ElementOfSeq
<1>2. SubSeq(o, 1, k) \in Seq(Byte)
  <2>1. \A x \in 1..k : o[x] \in Byte
    BY <1>1
  <2> QED BY <2>1, SubSeqProperties
<1>3. SubSeq(o, k + 1, Len(o)) \in Seq(Byte)
  <2>1. \A x \in (k + 1)..Len(o) : o[x] \in Byte
    BY <1>1
  <2>2. k + 1 \in Int /\ Len(o) \in Int
    BY <1>1
  <2> QED BY <2>1, <2>2, SubSeqProperties
<1>4. SubSeq(o, 1, k) \o SubSeq(o, k + 1, Len(o)) = o
  <2>1. 1 \in 1..Len(o) + 1 /\ k \in (1 - 1)..Len(o) /\ Len(o) \in k..Len(o)
    BY <1>1
  <2>2. SubSeq(o, 1, k) \o SubSeq(o, k + 1, Len(o)) = SubSeq(o, 1, Len(o))
    BY <2>1, ConcatAdjacentSubSeq, Zenon
  <2> QED BY <2>2, SubSeqFull
<1>5. PICK p, q : p = SubSeq(o, 1, k) /\ q = SubSeq(o, k + 1, Len(o))
  OBVIOUS
<1>6. (i \o p) \o q = i \o (p \o q) /\ i \o p \in Seq(Byte)
  <2>1. p \in Seq(Byte) /\ q \in Seq(Byte)
    BY <1>2, <1>3, <1>5
  <2>2. (i \o p) \o q = i \o (p \o q)
    BY <2>1, JoinBytes, Zenon
  <2>3. i \o p \in Seq(Byte)
    BY <2>1, ConcatParts, Zenon
  <2> QED BY <2>2, <2>3
<1> QED BY <1>2, <1>3, <1>4, <1>5, <1>6

(* The first k bytes of the buffer are those of W behind base, and the     *)
(* rest is carried on.                                                     *)
Takes(i, o, W, base, k) ==
    /\ SubSeq(i, k + 1, Len(i)) \in Seq(Byte)
    /\ Carried(SubSeq(i, k + 1, Len(i)) \o o, W, base + k)
    /\ SubSeq(i, 1, k) \in Seq(Byte) /\ Len(SubSeq(i, 1, k)) = k
    /\ \A x \in 1..k : SubSeq(i, 1, k)[x] = W[base + x]
    /\ base + k <= Len(W)

(* The reader takes bytes from the front.                                  *)
LEMMA TakeCarried ==
    ASSUME NEW i \in Seq(Byte), NEW o \in Seq(Byte), NEW W \in Seq(Byte),
           NEW base \in Nat, Carried(i \o o, W, base), NEW k \in 0..Len(i)
    PROVE  Takes(i, o, W, base, k)
<1>a. PICK T, r, a : /\ T = i \o o /\ r = SubSeq(i, k + 1, Len(i))
                     /\ a = SubSeq(i, 1, k)
  OBVIOUS
<1>b. PICK li, lo : li = Len(i) /\ lo = Len(o)
  OBVIOUS
<1>1. li \in Nat /\ lo \in Nat /\ k \in 0..li
      /\ \A x \in 1..li : i[x] \in Byte
  BY <1>b, LenProperties, ElementOfSeq
<1>2. /\ T \in Seq(Byte) /\ Len(T) = li + lo
      /\ \A x \in 1..li : T[x] = i[x]
      /\ \A x \in 1..lo : T[li + x] = o[x]
  BY <1>a, <1>b, ConcatParts
<1>3. base + Len(T) = Len(W) /\ \A x \in 1..Len(T) : T[x] = W[base + x]
  BY <1>a DEF Carried
<1>4. r \in Seq(Byte) /\ Len(r) = li - k
      /\ \A x \in 1..(li - k) : r[x] = i[k + x]
  <2>1. \A x \in (k + 1)..li : i[x] \in Byte
    BY <1>1
  <2>2. k + 1 \in Int /\ li \in Int /\ (li - (k + 1)) + 1 = li - k
        /\ (IF k + 1 <= li THEN (li - (k + 1)) + 1 ELSE 0) = li - k
    BY <1>1
  <2>3. r = SubSeq(i, k + 1, li)
    BY <1>a, <1>b
  <2>4. r \in Seq(Byte)
        /\ Len(r) = IF k + 1 <= li THEN (li - (k + 1)) + 1 ELSE 0
    BY <2>1, <2>2, <2>3, SubSeqProperties
  <2>5. \A x \in 1..(li - (k + 1)) + 1 : r[x] = i[(k + 1) + x - 1]
    BY <2>1, <2>2, <2>3, SubSeqProperties
  <2>6. \A x \in 1..(li - k) : (k + 1) + x - 1 = k + x
    BY <1>1
  <2> QED BY <2>2, <2>4, <2>5, <2>6, Zenon
<1>5. a \in Seq(Byte) /\ Len(a) = k /\ \A x \in 1..k : a[x] = i[x]
  <2>1. \A x \in 1..k : i[x] \in Byte
    BY <1>1
  <2>2. 1 \in Int /\ k \in Int /\ (k - 1) + 1 = k
        /\ (IF 1 <= k THEN (k - 1) + 1 ELSE 0) = k
    BY <1>1
  <2>4. a \in Seq(Byte) /\ Len(a) = IF 1 <= k THEN (k - 1) + 1 ELSE 0
    BY <2>1, <2>2, <1>a, SubSeqProperties
  <2>5. \A x \in 1..(k - 1) + 1 : a[x] = i[1 + x - 1]
    BY <2>1, <2>2, <1>a, SubSeqProperties
  <2>6. \A x \in 1..k : 1 + x - 1 = x
    BY <1>1
  <2> QED BY <2>2, <2>4, <2>5, <2>6, Zenon
<1>6. /\ r \o o \in Seq(Byte) /\ Len(r \o o) = (li - k) + lo
      /\ \A x \in 1..(li - k) : (r \o o)[x] = r[x]
      /\ \A x \in 1..lo : (r \o o)[(li - k) + x] = o[x]
  <2>1. /\ r \o o \in Seq(Byte) /\ Len(r \o o) = Len(r) + Len(o)
        /\ \A x \in 1..Len(r) : (r \o o)[x] = r[x]
        /\ \A x \in 1..Len(o) : (r \o o)[Len(r) + x] = o[x]
    BY <1>4, JoinBytes, Zenon
  <2> QED BY <2>1, <1>4, <1>b, Zenon
<1>7. PICK U : U = r \o o
  OBVIOUS
<1>8. ASSUME NEW x \in 1..((li - k) + lo) PROVE U[x] = W[(base + k) + x]
  <2>1. k + x \in 1..(li + lo) /\ base + (k + x) = (base + k) + x
    BY <1>1
  <2>2. T[k + x] = W[(base + k) + x]
    BY <2>1, <1>2, <1>3
  <2>3. CASE x <= li - k
    <3>1. x \in 1..(li - k) /\ k + x \in 1..li
      BY <2>3, <1>1
    <3> QED BY <3>1, <2>2, <1>2, <1>4, <1>6, <1>7, Zenon
  <2>4. CASE ~(x <= li - k)
    <3>1. PICK y : y = x - (li - k)
      OBVIOUS
    <3>2. y \in 1..lo /\ x = (li - k) + y /\ k + x = li + y
      BY <3>1, <2>4, <1>1
    <3> QED BY <3>2, <2>2, <1>2, <1>6, <1>7, Zenon
  <2> QED BY <2>3, <2>4
<1>9. (base + k) + Len(U) = Len(W) /\ base + k <= Len(W)
  BY <1>1, <1>2, <1>3, <1>6, <1>7
<1>10. \A x \in 1..k : x \in 1..li /\ x \in 1..(li + lo)
  BY <1>1
<1>11. \A x \in 1..k : a[x] = W[base + x]
  BY <1>2, <1>3, <1>5, <1>10
<1>12. Carried(r \o o, W, base + k)
  BY <1>6, <1>7, <1>8, <1>9 DEF Carried
<1> QED BY <1>a, <1>4, <1>5, <1>9, <1>11, <1>12, Zenon DEF Takes

(* With block b read as well, c being the next, the message is complete or *)
(* the locals hold it up to c.                                             *)
HoldsAfter(b, c, msgs, got, gone, text) ==
    /\ ~b.last => Holds(c, msgs, got, gone, text)
    /\ b.last => /\ c.msg = Len(got) + 2 /\ c.from = 0
                 /\ text = SubSeq(msgs[b.msg], gone + 1, Len(msgs[b.msg]))

(* Reading the payload of a block: the locals hold the message up to the   *)
(* next block, or the message is complete.                                 *)
LEMMA HoldsMore ==
    ASSUME NEW b \in Mark, NEW c \in Mark, NEW msgs, NEW bytes,
           NEW got, NEW gone \in Nat, NEW text \in Seq(Byte),
           NEW part \in Seq(Byte), Len(got) \in Nat,
           Stands(bytes, b, msgs), Follows(b, c),
           Holds(b, msgs, got, gone, text),
           msgs[b.msg] \in Seq(Byte), Len(part) = b.len,
           \A j \in 1..b.len : part[j] = msgs[b.msg][b.from + j]
    PROVE  HoldsAfter(b, c, msgs, got, gone, text \o part)
<1>a. PICK m, full : m = msgs[b.msg] /\ full = text \o part
  OBVIOUS
<1>b. PICK t, l : t = Len(text) /\ l = b.len
  OBVIOUS
<1>1. t \in Nat /\ l \in Nat /\ b.from \in Nat /\ b.from = gone + t
      /\ b.msg = Len(got) + 1
  BY <1>b, LenProperties DEF Mark, Holds
<1>2. \A j \in 1..t : text[j] = m[gone + j]
  BY <1>a, <1>b DEF Holds
<1>3. \A j \in 1..l : part[j] = m[(gone + t) + j]
  BY <1>a, <1>b, <1>1
<1>4. /\ full \in Seq(Byte) /\ Len(full) = t + l
      /\ \A j \in 1..t : full[j] = text[j]
      /\ \A j \in 1..l : full[t + j] = part[j]
  <2>1. /\ text \o part \in Seq(Byte)
        /\ Len(text \o part) = Len(text) + Len(part)
        /\ \A j \in 1..Len(text) : (text \o part)[j] = text[j]
        /\ \A j \in 1..Len(part) : (text \o part)[Len(text) + j] = part[j]
    BY JoinBytes, Zenon
  <2> QED BY <2>1, <1>a, <1>b, Zenon
<1>5. ASSUME NEW j \in 1..(t + l) PROVE full[j] = m[gone + j]
  <2>1. CASE j <= t
    <3>1. j \in 1..t
      BY <2>1, <1>1
    <3> QED BY <3>1, <1>2, <1>4, Zenon
  <2>2. CASE ~(j <= t)
    <3>1. PICK y : y = j - t
      OBVIOUS
    <3>2. y \in 1..l /\ j = t + y /\ (gone + t) + y = gone + j
      BY <3>1, <2>2, <1>1
    <3> QED BY <3>2, <1>3, <1>4, Zenon
  <2> QED BY <2>1, <2>2
<1>6. ASSUME ~b.last PROVE Holds(c, msgs, got, gone, full)
  <2>1. c.msg = b.msg /\ c.from = b.from + b.len
    BY <1>6 DEF Follows
  <2>2. c.from = gone + Len(full)
    <3>1. (gone + t) + l = gone + (t + l)
      BY <1>1
    <3> QED BY <3>1, <2>1, <1>1, <1>b, <1>4, Zenon
  <2>3. \A j \in 1..Len(full) : full[j] = msgs[c.msg][gone + j]
    BY <2>1, <1>a, <1>4, <1>5
  <2> QED BY <2>1, <2>2, <2>3, <1>1 DEF Holds
<1>7. ASSUME b.last
      PROVE  /\ c.msg = Len(got) + 2 /\ c.from = 0
             /\ full = SubSeq(m, gone + 1, Len(m))
  <2>1. c.msg = b.msg + 1 /\ c.from = 0
    BY <1>7 DEF Follows
  <2>2. b.from + b.len = Len(m) /\ m \in Seq(Byte)
    BY <1>7, <1>a DEF Stands
  <2>3. PICK z : z = Len(m)
    OBVIOUS
  <2>4. z \in Nat /\ z = gone + (t + l) /\ \A x \in 1..z : m[x] \in Byte
    BY <2>2, <2>3, <1>1, <1>b, LenProperties, ElementOfSeq
  <2>5. \A x \in (gone + 1)..z : m[x] \in Byte
    BY <2>4
  <2>6. gone + 1 \in Int /\ z \in Int /\ (z - (gone + 1)) + 1 = t + l
        /\ (IF gone + 1 <= z THEN (z - (gone + 1)) + 1 ELSE 0) = t + l
    BY <2>4, <1>1
  <2>7. PICK u : u = SubSeq(m, gone + 1, z)
    OBVIOUS
  <2>8. u \in Seq(Byte)
        /\ Len(u) = IF gone + 1 <= z THEN (z - (gone + 1)) + 1 ELSE 0
    BY <2>5, <2>6, <2>7, SubSeqProperties
  <2>9. \A x \in 1..(z - (gone + 1)) + 1 : u[x] = m[(gone + 1) + x - 1]
    BY <2>5, <2>6, <2>7, SubSeqProperties
  <2>10. \A x \in 1..(t + l) : (gone + 1) + x - 1 = gone + x
    BY <1>1
  <2>11. Len(u) = t + l /\ \A x \in 1..(t + l) : u[x] = m[gone + x]
    BY <2>6, <2>8, <2>9, <2>10, Zenon
  <2>12. full = u
    <3>1. Len(full) = Len(u) /\ \A x \in 1..Len(full) : full[x] = u[x]
      BY <2>11, <1>4, <1>5, Zenon
    <3> QED BY <3>1, <2>8, <1>4, SeqEqual
  <2>13. b.msg + 1 = Len(got) + 2
    BY <1>1
  <2> QED BY <2>1, <2>3, <2>7, <2>12, <2>13
<1> QED BY <1>a, <1>6, <1>7, Zenon DEF HoldsAfter

-----------------------------------------------------------------------------
(* NoBlock is a header, of no payload.                                     *)
LEMMA NoBlockFacts ==
    /\ NoBlock \in [len : 0..(Word \div 2), last : BOOLEAN]
    /\ NoBlock.len = 0
<1>1. 0 \in 0..(Word \div 2)
  <2>1. PICK z : z = ByteBase * ByteBase
    OBVIOUS
  <2>2. z \in Nat
    BY <2>1, FramingAssumption
  <2>3. z \div 2 \in Nat
    BY <2>2
  <2> QED BY <2>1, <2>3 DEF Word
<1> QED BY <1>1 DEF NoBlock

(* What the messages and the buffers are.                                  *)
LEMMA Facts ==
    ASSUME TypeOK
    PROVE  /\ out \in Seq(Byte) /\ in \in Seq(Byte) /\ message \in Seq(Byte)
           /\ Len(sent) \in Nat /\ Len(received) \in Nat /\ lost \in Nat
           /\ received \in Seq(Seq(Byte)) /\ sent \in Seq(Payloads)
           /\ \A i \in 1..Len(sent) : sent[i] \in Payloads
           /\ \A i \in 1..Len(sent) : sent[i] \in Seq(Byte)
<1>1. /\ out \in Seq(Byte) /\ in \in Seq(Byte) /\ message \in Seq(Byte)
      /\ received \in Seq(Seq(Byte)) /\ sent \in Seq(Payloads) /\ lost \in Nat
  BY DEF TypeOK
<1>2. Len(sent) \in Nat /\ \A i \in 1..Len(sent) : sent[i] \in Payloads
  BY <1>1, LenProperties, ElementOfSeq
<1>3. Len(received) \in Nat
  BY <1>1, LenProperties
<1> QED BY <1>1, <1>2, <1>3, FramingAssumption

(* Initially the stream is empty.                                          *)
LEMMA FramingInit == Init => FramingInv
<1> SUFFICES ASSUME Init PROVE FramingInv
  OBVIOUS
<1>1. TypeOK
  <2>1. block \in [len : 0..(Word \div 2), last : BOOLEAN] /\ block.len = 0
    BY NoBlockFacts DEF Init
  <2>2. /\ out \in Seq(Byte) /\ in \in Seq(Byte) /\ message \in Seq(Byte)
        /\ sent \in Seq(Payloads) /\ received \in Seq(Seq(Byte))
    BY EmptySeq DEF Init
  <2>3. /\ drops \in 0..MaxDrops /\ lost \in Nat /\ aligned \in BOOLEAN
        /\ 0 <= MAX_BLOCK_PAYLOAD
    BY FramingAssumption DEF Init
  <2> QED BY <2>1, <2>2, <2>3 DEF TypeOK
<1>2. InStep
  <2> DEFINE b == [msg |-> 1, from |-> 0, len |-> 0, last |-> FALSE, at |-> 0]
             S == [i \in 1..(0 + 1) |-> b]
             W == <<>>
  <2>1. b \in Mark /\ b.msg = 1 /\ b.from = 0 /\ b.at = 0
    BY DEF Mark
  <2> HIDE DEF b
  <2>2. S \in [1..(0 + 1) -> Mark] /\ S[0 + 1] = b
    BY <2>1
  <2> HIDE DEF S
  <2>3. W \in Seq(Byte) /\ Len(W) = 0
    BY EmptySeq
  <2>4. Len(sent) = 0 /\ Len(received) = 0 /\ Len(message) = 0
    BY DEF Init
  <2>5. in \o out = <<>>
    BY DEF Init
  <2>6. \A i \in 1..0 : FALSE
    OBVIOUS
  <2>7. Laid(W, S, 0, sent)
    <3>1. 1 = 0 + 1
      OBVIOUS
    <3>2. S[0 + 1].at = Len(W) /\ S[0 + 1].msg = Len(sent) + 1
          /\ S[0 + 1].from = 0
      BY <2>1, <2>2, <2>3, <2>4
    <3> HIDE DEF W
    <3> QED BY <3>2, <2>6, Zenon DEF Laid
  <2>8. Carried(in \o out, W, 0)
    BY <2>3, <2>5, <2>6 DEF Carried
  <2>9. Reading(b, 0)
    <3>1. Holds(b, sent, received, lost, message)
      <4>1. b.msg = Len(received) + 1 /\ b.from = lost + Len(message)
        BY <2>1, <2>4 DEF Init
      <4>2. \A j \in 1..Len(message) : FALSE
        BY <2>4, <2>6
      <4> QED BY <4>1, <4>2, Zenon DEF Holds
    <3>2. block = NoBlock
      BY DEF Init
    <3> QED BY <3>1, <3>2, <2>1 DEF Reading
  <2>10. 0 + 1 \in 1..(0 + 1) /\ 0 \in Nat
    OBVIOUS
  <2>11. block = NoBlock
    BY DEF Init
  <2> HIDE DEF W
  <2>12. ReadingAt(0, W, S, 0, 0 + 1)
    BY <2>2, <2>3, <2>7, <2>8, <2>9, <2>10, <2>11, Zenon DEF ReadingAt
  <2> QED BY <2>12, Zenon DEF InStep
<1> QED BY <1>1, <1>2 DEF FramingInv

(* Writing a framed message keeps the stream in blocks.                    *)
LEMMA WriteKeeps ==
    ASSUME FramingInv, NEW payload \in Payloads, NEW m \in Nat \ {0},
           NEW ends \in [1..m -> 0..Len(payload)], Splits(payload, ends),
           Write(payload, Framed(payload, ends))
    PROVE  FramingInv'
<1>a. PICK F : F = Framed(payload, ends)
  OBVIOUS
<1>1. payload \in Seq(Byte) /\ F \in Seq(Byte)
  <2>1. payload \in Seq(Byte)
    BY FramingAssumption
  <2>2. IsFramed(F, payload, ends, m)
    BY <1>a, <2>1, FramedBytes, Zenon
  <2> QED BY <2>1, <2>2, Zenon DEF IsFramed
<1>2. /\ out' = out \o F /\ sent' = Append(sent, payload)
      /\ in' = in /\ block' = block /\ message' = message
      /\ received' = received /\ drops' = drops /\ lost' = lost
      /\ aligned' = aligned
  BY <1>a DEF Write
<1>3. TypeOK
  BY DEF FramingInv
<1>4. TypeOK'
  <2>1. out' \in Seq(Byte)
    BY <1>1, <1>2, <1>3, Facts, JoinBytes
  <2>2. sent' \in Seq(Payloads)
    BY <1>2, <1>3, Facts, AppendProperties
  <2> QED BY <2>1, <2>2, <1>2, <1>3 DEF TypeOK
<1>5. Extends(sent, sent', payload)
  <2>1. sent \in Seq(Payloads)
    BY <1>3, Facts
  <2>2. Len(sent) \in Nat
    BY <1>3, Facts
  <2>3. Len(Append(sent, payload)) = Len(sent) + 1
    BY <2>1, AppendProperties
  <2>4. \A i \in 1..Len(sent) : Append(sent, payload)[i] = sent[i]
    BY <2>1, AppendProperties
  <2>5. Append(sent, payload)[Len(sent) + 1] = payload
    BY <2>1, AppendProperties
  <2> QED BY <1>2, <2>2, <2>3, <2>4, <2>5, Zenon DEF Extends
<1>6. ASSUME InStep PROVE InStep'
  <2>0. PICK n, W, S, base, k : ReadingAt(n, W, S, base, k)
    BY <1>6, Zenon DEF InStep
  <2>1. /\ n \in Nat /\ W \in Seq(Byte) /\ S \in [1..(n + 1) -> Mark]
        /\ base \in Nat /\ k \in 1..(n + 1)
        /\ Laid(W, S, n, sent)
        /\ Carried(in \o out, W, base)
        /\ Reading(S[k], base)
        /\ k = n + 1 => block = NoBlock
    BY <2>0, Zenon DEF ReadingAt
  <2>2. PICK R \in [1..((n + m) + 1) -> Mark] :
          /\ Laid(W \o F, R, n + m, sent')
          /\ \A i \in 1..n : R[i] = S[i]
          /\ R[n + 1].at = S[n + 1].at /\ R[n + 1].msg = S[n + 1].msg
          /\ R[n + 1].from = S[n + 1].from
    <3>1. PICK msgs, more : msgs = sent /\ more = sent'
      OBVIOUS
    <3>2. Extends(msgs, more, payload) /\ Laid(W, S, n, msgs)
      BY <3>1, <2>1, <1>5
    <3>3. \E R : Prolongs(R, S, n, m, W \o Framed(payload, ends), more)
      BY <3>2, <2>1, <1>1, WriteLaid, Zenon
    <3> QED BY <3>1, <3>3, <1>a, Zenon DEF Prolongs
  <2>3. Carried(in \o (out \o F), W \o F, base)
    BY <2>1, <1>1, <1>3, Facts, WriteCarried, Zenon
  <2>4. Carried(in' \o out', W \o F, base)
    BY <2>3, <1>2
  <2>5. W \o F \in Seq(Byte) /\ n + m \in Nat
        /\ k \in 1..((n + m) + 1) /\ k # (n + m) + 1
    <3>1. W \o F \in Seq(Byte)
      BY <2>1, <1>1, JoinBytes
    <3>2. n + m \in Nat /\ k \in 1..((n + m) + 1) /\ k # (n + m) + 1
      BY <2>1
    <3> QED BY <3>1, <3>2
  <2>6. R[k].at = S[k].at /\ R[k].msg = S[k].msg /\ R[k].from = S[k].from
        /\ (block # NoBlock => R[k] = S[k])
    <3>1. CASE k = n + 1
      BY <3>1, <2>1, <2>2, Zenon
    <3>2. CASE k # n + 1
      <4>1. k \in 1..n
        BY <2>1, <3>2
      <4> QED BY <4>1, <2>2, Zenon
    <3> QED BY <3>1, <3>2
  <2>7. Holds(R[k], sent', received, lost, message)
    <3>1. Holds(S[k], sent, received, lost, message)
      BY <2>1 DEF Reading
    <3>2. R[k].msg = Len(received) + 1 /\ R[k].from = lost + Len(message)
      BY <3>1, <2>6, Zenon DEF Holds
    <3>3. CASE message = <<>>
      <4>1. \A j \in 1..Len(message) : FALSE
        BY <3>3
      <4> QED BY <3>2, <4>1, Zenon DEF Holds
    <3>4. CASE message # <<>>
      <4>1. S[k].msg \in 1..Len(sent)
        <5>1. k # n + 1
          <6>1. S[n + 1].from = 0
            BY <2>1 DEF Laid
          <6>2. Len(message) \in Nat \ {0}
            BY <3>4, <1>3, Facts, EmptySeq
          <6>3. S[k].from # 0
            BY <3>1, <6>2, <1>3, Facts DEF Holds
          <6> QED BY <6>1, <6>3
        <5>2. k \in 1..n
          BY <2>1, <5>1
        <5> QED BY <5>2, <2>1, Zenon DEF Laid, Stands
      <4>2. sent'[S[k].msg] = sent[S[k].msg]
        BY <4>1, <1>5, Zenon DEF Extends
      <4>3. \A j \in 1..Len(message) : message[j] = sent'[R[k].msg][lost + j]
        BY <4>2, <3>1, <2>6, Zenon DEF Holds
      <4> QED BY <3>2, <4>3, Zenon DEF Holds
    <3> QED BY <3>3, <3>4
  <2>8. Reading(R[k], base)'
    <3>1. Holds(R[k], sent', received', lost', message')
      BY <2>7, <1>2
    <3>2. block' = NoBlock => base = R[k].at
      BY <2>1, <2>6, <1>2, Zenon DEF Reading
    <3>3. block' # NoBlock => /\ base = R[k].at + 2 /\ R[k].len > 0
                              /\ block'.len = R[k].len
                              /\ block'.last = R[k].last
      BY <2>1, <2>6, <1>2, Zenon DEF Reading
    <3> QED BY <3>1, <3>2, <3>3, Zenon DEF Reading
  <2>9. PICK N, V : N = n + m /\ V = W \o F
    OBVIOUS
  <2>10. /\ N \in Nat /\ V \in Seq(Byte) /\ R \in [1..(N + 1) -> Mark]
         /\ k \in 1..(N + 1) /\ k # N + 1
    BY <2>2, <2>5, <2>9
  <2>11. Laid(V, R, N, sent') /\ Carried(in' \o out', V, base)
    BY <2>2, <2>4, <2>9
  <2>12. ReadingAt(N, V, R, base, k)'
    BY <2>1, <2>8, <2>10, <2>11, Zenon DEF ReadingAt
  <2> QED BY <2>12, Zenon DEF InStep
<1> QED BY <1>2, <1>4, <1>6 DEF FramingInv

(* The arrival of bytes keeps it.                                          *)
LEMMA TransferKeepsInv == FramingInv /\ Transfer => FramingInv'
<1> SUFFICES ASSUME FramingInv, Transfer PROVE FramingInv'
  OBVIOUS
<1>1. PICK k \in 1..Len(out) :
        /\ in' = in \o SubSeq(out, 1, k)
        /\ out' = SubSeq(out, k + 1, Len(out))
        /\ block' = block /\ message' = message /\ sent' = sent
        /\ received' = received /\ drops' = drops /\ lost' = lost
        /\ aligned' = aligned
  BY DEF Transfer
<1>2. TypeOK /\ in \in Seq(Byte) /\ out \in Seq(Byte)
  BY Facts DEF FramingInv
<1>3. in' \in Seq(Byte) /\ out' \in Seq(Byte) /\ in' \o out' = in \o out
  <2>1. /\ in \o SubSeq(out, 1, k) \in Seq(Byte)
        /\ SubSeq(out, k + 1, Len(out)) \in Seq(Byte)
        /\ (in \o SubSeq(out, 1, k)) \o SubSeq(out, k + 1, Len(out)) = in \o out
    BY <1>2, TransferKeeps, Zenon
  <2> QED BY <1>1, <2>1, Zenon
<1>4. TypeOK'
  BY <1>1, <1>2, <1>3 DEF TypeOK
<1>5. ASSUME InStep PROVE InStep'
  <2>0. PICK n, W, S, base, j : ReadingAt(n, W, S, base, j)
    BY <1>5, Zenon DEF InStep
  <2>1. /\ n \in Nat /\ W \in Seq(Byte) /\ S \in [1..(n + 1) -> Mark]
        /\ base \in Nat /\ j \in 1..(n + 1)
        /\ Laid(W, S, n, sent)
        /\ Carried(in \o out, W, base)
        /\ Reading(S[j], base)
        /\ j = n + 1 => block = NoBlock
    BY <2>0, Zenon DEF ReadingAt
  <2>2. Reading(S[j], base)'
    BY <2>1, <1>1, Zenon DEF Reading
  <2>3. Laid(W, S, n, sent') /\ Carried(in' \o out', W, base)
    BY <2>1, <1>1, <1>3
  <2>4. ReadingAt(n, W, S, base, j)'
    BY <2>1, <2>2, <2>3, <1>1, Zenon DEF ReadingAt
  <2> QED BY <2>4, Zenon DEF InStep
<1> QED BY <1>1, <1>4, <1>5 DEF FramingInv

(* What a step of the reader hands over while reads are in step: nothing,  *)
(* or what is left of the next message.                                    *)
Delivers ==
    \/ received' = received /\ lost' = lost
    \/ /\ Len(received) + 1 \in 1..Len(sent)
       /\ received' = Append(received,
                             SubSeq(sent[Len(received) + 1], lost + 1,
                                    Len(sent[Len(received) + 1])))
       /\ lost' = 0

(* Once all of a block is read the reader is at the next.                  *)
LEMMA BlockRead ==
    ASSUME TypeOK, NEW n, NEW W, NEW S, NEW base, NEW k,
           ReadingAt(n, W, S, base, k), k # n + 1,
           NEW part \in Seq(Byte), Len(part) = S[k].len,
           \A j \in 1..S[k].len : part[j] = W[S[k].at + (2 + j)],
           EndBlock(S[k].last, message \o part), sent' = sent,
           Carried(in' \o out', W, EndOf(S[k]))
    PROVE  InStep' /\ Delivers
<1>a. PICK b, c : b = S[k] /\ c = S[k + 1]
  OBVIOUS
<1>1. /\ n \in Nat /\ W \in Seq(Byte) /\ S \in [1..(n + 1) -> Mark]
      /\ base \in Nat /\ k \in 1..(n + 1) /\ Laid(W, S, n, sent)
      /\ Reading(b, base)
  BY <1>a, Zenon DEF ReadingAt
<1>2. k \in 1..n /\ k + 1 \in 1..(n + 1)
  BY <1>1
<1>3. b \in Mark /\ c \in Mark /\ Stands(W, b, sent) /\ Follows(b, c)
  BY <1>a, <1>1, <1>2, Zenon DEF Laid
<1>4. Holds(b, sent, received, lost, message)
  BY <1>1 DEF Reading
<1>5. /\ message \in Seq(Byte) /\ Len(received) \in Nat /\ lost \in Nat
      /\ received \in Seq(Seq(Byte))
      /\ \A i \in 1..Len(sent) : sent[i] \in Seq(Byte)
  BY Facts
<1>6. b.msg \in 1..Len(sent) /\ sent[b.msg] \in Seq(Byte)
      /\ b.msg = Len(received) + 1
  BY <1>3, <1>4, <1>5, Zenon DEF Stands, Holds
<1>7. \A j \in 1..b.len : part[j] = sent[b.msg][b.from + j]
  BY <1>a, <1>3, Zenon DEF Stands
<1>b. PICK full : full = message \o part
  OBVIOUS
<1>8. /\ ~b.last => Holds(c, sent, received, lost, full)
      /\ b.last => /\ c.msg = Len(received) + 2 /\ c.from = 0
                   /\ full = SubSeq(sent[b.msg], lost + 1, Len(sent[b.msg]))
  <2>1. Len(part) = b.len
    BY <1>a
  <2> PICK msgs, got, gone, text : /\ msgs = sent /\ got = received
                                  /\ gone = lost /\ text = message
    OBVIOUS
  <2>2. /\ gone \in Nat /\ text \in Seq(Byte) /\ Len(got) \in Nat
        /\ Stands(W, b, msgs) /\ Holds(b, msgs, got, gone, text)
        /\ msgs[b.msg] \in Seq(Byte)
        /\ \A j \in 1..b.len : part[j] = msgs[b.msg][b.from + j]
    BY <1>3, <1>4, <1>5, <1>6, <1>7, Zenon
  <2>3. HoldsAfter(b, c, msgs, got, gone, text \o part)
    BY <1>3, <2>1, <2>2, HoldsMore, Zenon
  <2> QED BY <1>b, <2>3, Zenon DEF HoldsAfter
<1>9. /\ block' = NoBlock
      /\ b.last => message' = <<>> /\ received' = Append(received, full)
                   /\ lost' = 0
      /\ ~b.last => message' = full /\ received' = received /\ lost' = lost
  BY <1>a, <1>b, Zenon DEF EndBlock
<1>10. Holds(c, sent', received', lost', message')
  <2>1. CASE b.last
    <3>1. full \in Seq(Byte)
      BY <1>5, <1>b, JoinBytes
    <3>2. Len(Append(received, full)) = Len(received) + 1
      BY <3>1, <1>5, AppendProperties
    <3>3. c.msg = Len(received') + 1
      BY <2>1, <3>2, <1>5, <1>8, <1>9
    <3>4. message' = <<>> /\ lost' = 0 /\ c.from = 0
      BY <2>1, <1>8, <1>9
    <3>5. c.from = lost' + Len(message') /\ \A j \in 1..Len(message') : FALSE
      BY <3>4
    <3> QED BY <3>3, <3>5, Zenon DEF Holds
  <2>2. CASE ~b.last
    BY <2>2, <1>8, <1>9
  <2> QED BY <2>1, <2>2
<1>11. Delivers
  BY <1>6, <1>8, <1>9, Zenon DEF Delivers
<1>c. PICK e : e = EndOf(b)
  OBVIOUS
<1>12. e \in Nat /\ e = c.at
  <2>1. c.at = EndOf(b) /\ c.at \in Nat
    BY <1>3 DEF Follows, Mark
  <2> QED BY <2>1, <1>c
<1>13. Reading(c, e)'
  BY <1>9, <1>10, <1>12, Zenon DEF Reading
<1>14. ReadingAt(n, W, S, e, k + 1)'
  <2>1. Laid(W, S, n, sent') /\ Carried(in' \o out', W, e)
    BY <1>1, <1>a, <1>c, Zenon
  <2>2. Reading(S[k + 1], e)'
    BY <1>13, <1>a, Zenon
  <2> QED BY <1>1, <1>2, <1>9, <1>12, <2>1, <2>2, Zenon DEF ReadingAt
<1>15. InStep'
  BY <1>14, Zenon DEF InStep
<1> QED BY <1>11, <1>15

(* Reading a header in step: it is that of the block the reader is at.     *)
LEMMA HeaderRead ==
    ASSUME TypeOK, InStep, ReadHeader
    PROVE  InStep' /\ Delivers /\ block'.len <= MAX_BLOCK_PAYLOAD
<1>0. PICK n, W, S, base, k : ReadingAt(n, W, S, base, k)
  BY Zenon DEF InStep
<1>1. /\ n \in Nat /\ W \in Seq(Byte) /\ S \in [1..(n + 1) -> Mark]
      /\ base \in Nat /\ k \in 1..(n + 1) /\ Laid(W, S, n, sent)
      /\ Carried(in \o out, W, base) /\ Reading(S[k], base)
  BY <1>0, Zenon DEF ReadingAt
<1>a. PICK b : b = S[k]
  OBVIOUS
<1>b. PICK h : h = decode_header(SubSeq(in, 1, 2))
  OBVIOUS
<1>2. /\ block = NoBlock /\ Len(in) >= 2 /\ in' = SubSeq(in, 3, Len(in))
      /\ out' = out /\ sent' = sent
      /\ \/ h.len > 0 /\ block' = h /\ message' = message
            /\ received' = received /\ lost' = lost
         \/ h.len = 0 /\ EndBlock(h.last, message)
  BY <1>b DEF ReadHeader
<1>3. base = b.at /\ Holds(b, sent, received, lost, message)
  BY <1>1, <1>2, <1>a DEF Reading
<1>4. in \in Seq(Byte) /\ out \in Seq(Byte) /\ message \in Seq(Byte)
      /\ Len(in) \in Nat
  BY Facts, LenProperties
<1>5. /\ Carried(SubSeq(in, 2 + 1, Len(in)) \o out, W, base + 2)
      /\ \A x \in 1..2 : SubSeq(in, 1, 2)[x] = W[base + x]
      /\ base + 2 <= Len(W)
  <2>1. 2 \in 0..Len(in)
    BY <1>2, <1>4
  <2> PICK i, o : i = in /\ o = out
    OBVIOUS
  <2>2. i \in Seq(Byte) /\ o \in Seq(Byte) /\ Carried(i \o o, W, base)
        /\ 2 \in 0..Len(i)
    BY <1>1, <1>4, <2>1
  <2>3. Takes(i, o, W, base, 2)
    BY <1>1, <2>2, TakeCarried, Zenon
  <2> QED BY <2>3, Zenon DEF Takes
<1>6. Carried(in' \o out', W, base + 2)
  <2>1. 2 + 1 = 3
    OBVIOUS
  <2> QED BY <2>1, <1>2, <1>5, Zenon
<1>7. k # n + 1
  <2>1. S[n + 1].at = Len(W) /\ Len(W) \in Nat
    BY <1>1, LenProperties DEF Laid
  <2>2. b.at + 2 <= Len(W) /\ b.at \in Nat
    BY <1>1, <1>3, <1>5
  <2> QED BY <2>1, <2>2, <1>a
<1>8. k \in 1..n
  BY <1>1, <1>7
<1>9. b \in Mark /\ Stands(W, b, sent)
  BY <1>a, <1>1, <1>8, Zenon DEF Laid
<1>10. b.len \in Nat /\ b.len \in 0..MAX_BLOCK_PAYLOAD /\ b.last \in BOOLEAN
       /\ b.at \in Nat
  BY <1>9 DEF Stands, Mark
<1>11. h = [len |-> b.len, last |-> b.last]
  <2>1. SubSeq(in, 1, 2)[1] = W[b.at + 1] /\ SubSeq(in, 1, 2)[2] = W[b.at + 2]
    BY <1>3, <1>5
  <2>2. h = decode_header(<<W[b.at + 1], W[b.at + 2]>>)
    BY <2>1, <1>b DEF decode_header
  <2> QED BY <2>2, <1>9, Zenon DEF Stands
<1>12. h.len = b.len /\ h.last = b.last
  BY <1>11, Zenon
<1>13. CASE h.len > 0
  <2>1. /\ block' = h /\ message' = message
        /\ received' = received /\ lost' = lost
    BY <1>13, <1>2
  <2>2. block' # NoBlock /\ block'.len = b.len /\ block'.last = b.last
        /\ b.len > 0
    BY <1>12, <1>13, <2>1, NoBlockFacts
  <2>3. Reading(b, base + 2)'
    <3>1. Holds(b, sent', received', lost', message')
      BY <1>2, <1>3, <2>1
    <3>2. base + 2 = b.at + 2
      BY <1>3
    <3> QED BY <2>2, <3>1, <3>2, Zenon DEF Reading
  <2>4. ReadingAt(n, W, S, base + 2, k)'
    <3>1. Laid(W, S, n, sent') /\ base + 2 \in Nat
      BY <1>1, <1>2
    <3>2. Reading(S[k], base + 2)'
      BY <2>3, <1>a, Zenon
    <3> QED BY <1>1, <1>6, <1>7, <3>1, <3>2, Zenon DEF ReadingAt
  <2>5. InStep'
    BY <2>4, Zenon DEF InStep
  <2>6. Delivers
    BY <2>1 DEF Delivers
  <2>7. block'.len <= MAX_BLOCK_PAYLOAD
    BY <2>2, <1>10, FramingAssumption
  <2> QED BY <2>5, <2>6, <2>7
<1>14. CASE ~(h.len > 0)
  <2>1. h.len = 0 /\ EndBlock(h.last, message) /\ b.len = 0
    BY <1>14, <1>2, <1>12
  <2>2. message \o <<>> = message /\ <<>> \in Seq(Byte) /\ Len(<<>>) = 0
    BY <1>4, ConcatEmptySeq, EmptySeq
  <2>3. EndOf(b) = base + 2
    BY <2>1, <1>1, <1>3, <1>10 DEF EndOf
  <2>4. EndBlock(S[k].last, message \o <<>>)
    BY <2>1, <2>2, <1>12, <1>a, Zenon
  <2>5. Len(<<>>) = S[k].len
    BY <2>1, <2>2, <1>a
  <2>6. \A j \in 1..S[k].len : <<>>[j] = W[S[k].at + (2 + j)]
    BY <2>1, <1>a
  <2>7. Carried(in' \o out', W, EndOf(S[k]))
    BY <2>3, <1>6, <1>a, Zenon
  <2>8. PICK part : part = <<>>
    OBVIOUS
  <2>9. InStep' /\ Delivers
    BY <1>0, <1>2, <1>7, <2>2, <2>4, <2>5, <2>6, <2>7, <2>8, BlockRead, Zenon
  <2>10. block' = NoBlock
    BY <2>1 DEF EndBlock
  <2> QED BY <2>9, <2>10, NoBlockFacts, FramingAssumption
<1> QED BY <1>13, <1>14

(* Reading a payload in step: it is that of the block whose header was     *)
(* read.                                                                   *)
LEMMA PayloadRead ==
    ASSUME TypeOK, InStep, ReadPayload
    PROVE  InStep' /\ Delivers /\ block'.len <= MAX_BLOCK_PAYLOAD
<1>0. PICK n, W, S, base, k : ReadingAt(n, W, S, base, k)
  BY Zenon DEF InStep
<1>1. /\ n \in Nat /\ W \in Seq(Byte) /\ S \in [1..(n + 1) -> Mark]
      /\ base \in Nat /\ k \in 1..(n + 1) /\ Laid(W, S, n, sent)
      /\ Carried(in \o out, W, base) /\ Reading(S[k], base)
      /\ k = n + 1 => block = NoBlock
  BY <1>0, Zenon DEF ReadingAt
<1>a. PICK b, l : b = S[k] /\ l = block.len
  OBVIOUS
<1>2. /\ block # NoBlock /\ Len(in) >= l /\ in' = SubSeq(in, l + 1, Len(in))
      /\ out' = out /\ sent' = sent
      /\ EndBlock(block.last, message \o SubSeq(in, 1, l))
  BY <1>a DEF ReadPayload
<1>3. base = b.at + 2 /\ l = b.len /\ block.last = b.last
  BY <1>1, <1>2, <1>a, Zenon DEF Reading
<1>4. in \in Seq(Byte) /\ out \in Seq(Byte) /\ Len(in) \in Nat
  BY Facts, LenProperties
<1>5. k # n + 1 /\ b \in Mark
  BY <1>1, <1>2, <1>a
<1>6. l \in Nat /\ b.at \in Nat
  BY <1>3, <1>5 DEF Mark
<1>7. /\ Carried(SubSeq(in, l + 1, Len(in)) \o out, W, base + l)
      /\ SubSeq(in, 1, l) \in Seq(Byte) /\ Len(SubSeq(in, 1, l)) = l
      /\ \A x \in 1..l : SubSeq(in, 1, l)[x] = W[base + x]
  <2> PICK i, o : i = in /\ o = out
    OBVIOUS
  <2>2. i \in Seq(Byte) /\ o \in Seq(Byte) /\ Carried(i \o o, W, base)
        /\ l \in 0..Len(i)
    BY <1>1, <1>2, <1>4, <1>6
  <2>3. Takes(i, o, W, base, l)
    BY <1>1, <2>2, TakeCarried, Zenon
  <2> QED BY <2>3, Zenon DEF Takes
<1>b. PICK part : part = SubSeq(in, 1, l)
  OBVIOUS
<1>8. base + l = EndOf(b)
  BY <1>3, <1>6 DEF EndOf
<1>9. Carried(in' \o out', W, EndOf(S[k]))
  BY <1>2, <1>7, <1>8, <1>a, Zenon
<1>10. \A j \in 1..l : (b.at + 2) + j = b.at + (2 + j)
  BY <1>6
<1>11. \A j \in 1..S[k].len : part[j] = W[S[k].at + (2 + j)]
  BY <1>3, <1>7, <1>10, <1>a, <1>b, Zenon
<1>12. part \in Seq(Byte) /\ Len(part) = S[k].len
       /\ EndBlock(S[k].last, message \o part)
  BY <1>2, <1>3, <1>7, <1>a, <1>b, Zenon
<1>13. InStep' /\ Delivers
  BY <1>0, <1>2, <1>5, <1>9, <1>11, <1>12, BlockRead, Zenon
<1>14. block' = NoBlock
  BY <1>2 DEF EndBlock
<1> QED BY <1>13, <1>14, NoBlockFacts, FramingAssumption

(* The types are kept by every step of the reader, in step or not.         *)
LEMMA ReaderTypes ==
    ASSUME TypeOK, Reader
    PROVE  /\ out' \in Seq(Byte) /\ in' \in Seq(Byte)
           /\ block' \in [len : 0..(Word \div 2), last : BOOLEAN]
           /\ message' \in Seq(Byte)
           /\ sent' \in Seq(Payloads) /\ received' \in Seq(Seq(Byte))
           /\ drops' \in 0..MaxDrops /\ lost' \in Nat /\ aligned' = aligned
<1>1. /\ in \in Seq(Byte) /\ out \in Seq(Byte) /\ message \in Seq(Byte)
      /\ received \in Seq(Seq(Byte)) /\ lost \in Nat /\ Len(in) \in Nat
      /\ block \in [len : 0..(Word \div 2), last : BOOLEAN]
  BY Facts, LenProperties DEF TypeOK
<1>2. \A x \in 1..Len(in) : in[x] \in Byte
  BY <1>1, ElementOfSeq
<1>3. \A l \in Nat : SubSeq(in, l + 1, Len(in)) \in Seq(Byte)
  <2> TAKE l \in Nat
  <2>1. \A x \in (l + 1)..Len(in) : in[x] \in Byte
    BY <1>1, <1>2
  <2>2. l + 1 \in Int /\ Len(in) \in Int
    BY <1>1
  <2> HIDE DEF Byte
  <2> QED BY <2>1, <2>2, SubSeqProperties
<1>4. \A l \in 0..Len(in) : SubSeq(in, 1, l) \in Seq(Byte)
  <2> TAKE l \in 0..Len(in)
  <2>1. \A x \in 1..l : in[x] \in Byte
    BY <1>1, <1>2
  <2>2. 1 \in Int /\ l \in Int
    BY <1>1
  <2> QED BY <2>1, <2>2, SubSeqProperties
<1>5. ASSUME NEW text \in Seq(Byte), NEW last, EndBlock(last, text)
      PROVE  /\ block' \in [len : 0..(Word \div 2), last : BOOLEAN]
             /\ message' \in Seq(Byte) /\ received' \in Seq(Seq(Byte))
             /\ lost' \in Nat
  <2>1. block' = NoBlock
    BY <1>5 DEF EndBlock
  <2>2. message' \in Seq(Byte)
    <3>1. message' = <<>> \/ message' = text
      BY <1>5 DEF EndBlock
    <3> QED BY <3>1, EmptySeq
  <2>3. received' \in Seq(Seq(Byte))
    <3>1. received' = received \/ received' = Append(received, text)
      BY <1>5 DEF EndBlock
    <3>2. Append(received, text) \in Seq(Seq(Byte))
      BY <1>1, AppendProperties
    <3> QED BY <1>1, <3>1, <3>2
  <2>4. lost' \in Nat
    BY <1>1, <1>5 DEF EndBlock
  <2> QED BY <2>1, <2>2, <2>3, <2>4, NoBlockFacts
<1>6. CASE ReadHeader
  <2>1. PICK h : h = decode_header(SubSeq(in, 1, 2))
    OBVIOUS
  <2>2. /\ Len(in) >= 2 /\ in' = SubSeq(in, 3, Len(in))
        /\ out' = out /\ sent' = sent /\ drops' = drops /\ aligned' = aligned
        /\ \/ block' = h /\ message' = message
              /\ received' = received /\ lost' = lost
           \/ EndBlock(h.last, message)
    BY <1>6, <2>1 DEF ReadHeader
  <2>3. in' \in Seq(Byte)
    <3>1. 2 \in Nat /\ 2 + 1 = 3
      OBVIOUS
    <3>2. SubSeq(in, 2 + 1, Len(in)) \in Seq(Byte)
      BY <1>3, <3>1, Zenon
    <3> QED BY <3>1, <3>2, <2>2, Zenon
  <2>4. h \in [len : 0..(Word \div 2), last : BOOLEAN]
    <3>1. 2 \in 0..Len(in)
      BY <2>2, <1>1
    <3>2. SubSeq(in, 1, 2) \in Seq(Byte)
      BY <3>1, <1>4
    <3>3. 1 \in 1..2 /\ 2 \in 1..2 /\ Len(SubSeq(in, 1, 2)) = 2
      BY <1>1, <3>1
    <3>4. SubSeq(in, 1, 2)[1] \in Byte /\ SubSeq(in, 1, 2)[2] \in Byte
      BY <3>2, <3>3, ElementOfSeq
    <3> QED BY <2>1, <3>4, HeaderType
  <2>5. /\ block' \in [len : 0..(Word \div 2), last : BOOLEAN]
        /\ message' \in Seq(Byte) /\ received' \in Seq(Seq(Byte))
        /\ lost' \in Nat
    BY <1>1, <1>5, <2>2, <2>4, Zenon
  <2> QED BY <1>1, <2>2, <2>3, <2>5 DEF TypeOK
<1>7. CASE ReadPayload
  <2>0. PICK l : l = block.len
    OBVIOUS
  <2>1. /\ Len(in) >= l /\ in' = SubSeq(in, l + 1, Len(in))
        /\ out' = out /\ sent' = sent /\ drops' = drops /\ aligned' = aligned
        /\ EndBlock(block.last, message \o SubSeq(in, 1, l))
    BY <1>7, <2>0 DEF ReadPayload
  <2>2. l \in Nat
    <3>1. PICK z : z = Word \div 2
      OBVIOUS
    <3>2. block.len \in 0..z
      BY <1>1, <3>1
    <3> QED BY <2>0, <3>2
  <2>3. in' \in Seq(Byte)
    BY <1>3, <2>1, <2>2
  <2>4. message \o SubSeq(in, 1, l) \in Seq(Byte)
    <3>1. l \in 0..Len(in)
      BY <1>1, <2>1, <2>2
    <3>2. SubSeq(in, 1, l) \in Seq(Byte)
      BY <3>1, <1>4
    <3> QED BY <1>1, <3>2, JoinBytes, Zenon
  <2>5. /\ block' \in [len : 0..(Word \div 2), last : BOOLEAN]
        /\ message' \in Seq(Byte) /\ received' \in Seq(Seq(Byte))
        /\ lost' \in Nat
    BY <1>5, <2>1, <2>4, Zenon
  <2> QED BY <1>1, <2>1, <2>3, <2>5 DEF TypeOK
<1> QED BY <1>6, <1>7 DEF Reader

(* A step of the reader keeps the invariant.                               *)
LEMMA ReaderKeeps ==
    ASSUME FramingInv, Reader
    PROVE  FramingInv' /\ (aligned => Delivers)
<1>1. TypeOK
  BY DEF FramingInv
<1>2. ASSUME aligned
      PROVE  InStep' /\ Delivers /\ block'.len <= MAX_BLOCK_PAYLOAD
  <2>1. InStep
    BY <1>2 DEF FramingInv
  <2> QED BY <1>1, <2>1, HeaderRead, PayloadRead, Zenon DEF Reader
<1>3. /\ out' \in Seq(Byte) /\ in' \in Seq(Byte)
      /\ block' \in [len : 0..(Word \div 2), last : BOOLEAN]
      /\ message' \in Seq(Byte)
      /\ sent' \in Seq(Payloads) /\ received' \in Seq(Seq(Byte))
      /\ drops' \in 0..MaxDrops /\ lost' \in Nat /\ aligned' = aligned
  BY <1>1, ReaderTypes, Zenon
<1>4. aligned \in BOOLEAN
  BY <1>1 DEF TypeOK
<1>5. TypeOK'
  BY <1>2, <1>3, <1>4, Zenon DEF TypeOK
<1> QED BY <1>2, <1>3, <1>5, Zenon DEF FramingInv

(* Dropping the read gives up the locals and, at a header, nothing else.   *)
LEMMA DropKeeps == FramingInv /\ DropRead => FramingInv'
<1> SUFFICES ASSUME FramingInv, DropRead PROVE FramingInv'
  OBVIOUS
<1>1. /\ drops < MaxDrops /\ block' = NoBlock /\ message' = <<>>
      /\ lost' = lost + Len(message) /\ drops' = drops + 1
      /\ out' = out /\ in' = in /\ sent' = sent /\ received' = received
  BY DEF DropRead
<1>2. aligned' = (aligned /\ block = NoBlock)
  BY DEF DropRead
<1>3. TypeOK /\ message \in Seq(Byte) /\ lost \in Nat
  BY Facts DEF FramingInv
<1>4. Len(message) \in Nat
  BY <1>3, LenProperties
<1>5. TypeOK'
  <2>1. drops' \in 0..MaxDrops /\ lost' \in Nat
    BY <1>1, <1>3, <1>4, FramingAssumption DEF TypeOK
  <2>2. aligned' \in BOOLEAN
    BY <1>2, <1>3, Zenon DEF TypeOK
  <2>3. message' \in Seq(Byte)
    BY <1>1, EmptySeq
  <2>4. block'.len <= MAX_BLOCK_PAYLOAD
        /\ block' \in [len : 0..(Word \div 2), last : BOOLEAN]
    BY <1>1, NoBlockFacts, FramingAssumption
  <2> QED BY <2>1, <2>2, <2>3, <2>4, <1>1, <1>3 DEF TypeOK
<1>6. ASSUME aligned' PROVE InStep'
  <2>1. aligned /\ block = NoBlock
    BY <1>2, <1>6, Zenon
  <2>2. InStep
    BY <2>1 DEF FramingInv
  <2>3. PICK n, W, S, base, k : ReadingAt(n, W, S, base, k)
    BY <2>2, Zenon DEF InStep
  <2>4. PICK b : b = S[k]
    OBVIOUS
  <2>5. Reading(b, base)
    BY <2>3, <2>4, Zenon DEF ReadingAt
  <2>6. base = b.at /\ Holds(b, sent, received, lost, message)
    BY <2>1, <2>5, Zenon DEF Reading
  <2>7. Holds(b, sent', received', lost', message')
    <3>1. Len(message') = 0 /\ \A j \in 1..Len(message') : FALSE
      BY <1>1
    <3>2. b.from = lost' + Len(message')
      BY <3>1, <2>6, <1>1, <1>3, <1>4 DEF Holds
    <3>3. b.msg = Len(received') + 1
      BY <2>6, <1>1 DEF Holds
    <3> QED BY <3>1, <3>2, <3>3, Zenon DEF Holds
  <2>8. Reading(b, base)'
    BY <2>6, <2>7, <1>1, Zenon DEF Reading
  <2>9. Reading(S[k], base)'
    BY <2>4, <2>8, Zenon
  <2>10. ReadingAt(n, W, S, base, k)'
    BY <2>3, <2>9, <1>1, Zenon DEF ReadingAt
  <2> QED BY <2>10, Zenon DEF InStep
<1> QED BY <1>5, <1>6 DEF FramingInv

(* Every step keeps the invariant.                                         *)
LEMMA FramingStep == FramingInv /\ [Next]_vars => FramingInv'
<1> SUFFICES ASSUME FramingInv, [Next]_vars PROVE FramingInv'
  OBVIOUS
<1>1. CASE WriteMessage
  <2>1. PICK payload \in Payloads : Write(payload, encode_message(payload))
    BY <1>1 DEF WriteMessage
  <2>2. payload \in Seq(Byte)
    BY FramingAssumption
  <2>3. PICK m \in Nat \ {0} :
          /\ chunks(payload) \in [1..m -> 0..Len(payload)]
          /\ Splits(payload, chunks(payload))
    BY <2>2, ChunksSplit, Zenon
  <2>4. Write(payload, Framed(payload, chunks(payload)))
    BY <2>1, Zenon DEF encode_message
  <2> QED BY <2>3, <2>4, WriteKeeps, Zenon
<1>2. CASE ServerMessage
  <2>1. PICK payload \in Payloads, m \in 1..MaxBlocks :
          \E ends \in [1..m -> 0..Len(payload)] :
            Splits(payload, ends) /\ Write(payload, Framed(payload, ends))
    BY <1>2, Zenon DEF ServerMessage
  <2>2. PICK ends \in [1..m -> 0..Len(payload)] :
          Splits(payload, ends) /\ Write(payload, Framed(payload, ends))
    BY <2>1, Zenon
  <2>3. m \in Nat \ {0}
    BY FramingAssumption
  <2> QED BY <2>2, <2>3, WriteKeeps, Zenon
<1>3. CASE Transfer
  BY <1>3, TransferKeepsInv
<1>4. CASE Reader
  BY <1>4, ReaderKeeps, Zenon
<1>5. CASE DropRead
  BY <1>5, DropKeeps
<1>6. CASE UNCHANGED vars
  <2>1. /\ out' = out /\ in' = in /\ block' = block /\ message' = message
        /\ sent' = sent /\ received' = received /\ drops' = drops
        /\ lost' = lost /\ aligned' = aligned
    BY <1>6 DEF vars
  <2>2. TypeOK'
    BY <2>1 DEF FramingInv, TypeOK
  <2>3. ASSUME aligned' PROVE InStep'
    <3>1. InStep
      BY <2>1, <2>3 DEF FramingInv
    <3>2. PICK n, W, S, base, k : ReadingAt(n, W, S, base, k)
      BY <3>1, Zenon DEF InStep
    <3>3. Reading(S[k], base)'
      BY <2>1, <3>2, Zenon DEF ReadingAt, Reading
    <3>4. ReadingAt(n, W, S, base, k)'
      BY <2>1, <3>2, <3>3, Zenon DEF ReadingAt
    <3> QED BY <3>4, Zenon DEF InStep
  <2> QED BY <2>2, <2>3 DEF FramingInv
<1> QED BY <1>1, <1>2, <1>3, <1>4, <1>5, <1>6 DEF Next

(* Whatever the messages, however they are split into blocks and however   *)
(* the bytes arrive, the bytes on their way are whole blocks of messages   *)
(* written, and while no read was dropped behind a header read_message     *)
(* stands at the block its locals say.                                     *)
THEOREM FramingInductive == Spec => []FramingInv
  BY FramingInit, FramingStep, PTL DEF Spec

(* The buffers hold bytes, and while reads are in step no header announces *)
(* more than MAX_BLOCK_PAYLOAD bytes to read_buffered.                     *)
THEOREM FramingTypeCorrect == Spec => []TypeOK
<1>1. FramingInv => TypeOK
  BY DEF FramingInv
<1> QED BY <1>1, FramingInductive, PTL

(* The size of what encode_message writes.                                 *)
LEMMA EncodedSize ==
    ASSUME NEW payload \in Seq(Byte)
    PROVE  \E n \in Nat \ {0} :
             /\ Len(encode_message(payload)) = Len(payload) + 2 * n
             /\ n > 1 => Len(payload) > MAX_BLOCK_PAYLOAD * (n - 1)
<1>1. PICK n \in Nat \ {0} :
        /\ chunks(payload) \in [1..n -> 0..Len(payload)]
        /\ Splits(payload, chunks(payload))
        /\ n > 1 => Len(payload) > MAX_BLOCK_PAYLOAD * (n - 1)
  BY ChunksSplit, Zenon
<1>2. PICK ends : ends = chunks(payload)
  OBVIOUS
<1>3. ends \in [1..n -> 0..Len(payload)] /\ Splits(payload, ends)
  BY <1>1, <1>2, Zenon
<1>4. IsFramed(Framed(payload, ends), payload, ends, n)
  BY <1>3, FramedBytes, Zenon
<1>5. Len(encode_message(payload)) = Len(payload) + 2 * n
  BY <1>2, <1>4, Zenon DEF encode_message, IsFramed
<1> QED BY <1>1, <1>5, Zenon

(* encode_message writes no block that the length of the payload does not  *)
(* call for: ceil(length / MAX_BLOCK_PAYLOAD), and one for an empty one.   *)
THEOREM Fewest == Spec => []FewestBlocks
<1>1. FramingInv => FewestBlocks
  <2> SUFFICES ASSUME FramingInv, NEW i \in 1..Len(sent)
               PROVE  LET size == Len(encode_message(sent[i])) - Len(sent[i])
                      IN  /\ size >= 2
                          /\ size > 2 => Len(sent[i]) > MAX_BLOCK_PAYLOAD
                                                          * (size \div 2 - 1)
    BY Zenon DEF FewestBlocks
  <2>1. PICK p : p = sent[i]
    OBVIOUS
  <2>2. p \in Seq(Byte)
    BY <2>1, Facts DEF FramingInv
  <2>3. PICK n \in Nat \ {0} :
          /\ Len(encode_message(p)) = Len(p) + 2 * n
          /\ n > 1 => Len(p) > MAX_BLOCK_PAYLOAD * (n - 1)
    BY <2>2, EncodedSize, Zenon
  <2>4. PICK e, l : e = Len(encode_message(p)) /\ l = Len(p)
    OBVIOUS
  <2>5. l \in Nat
    BY <2>2, <2>4, LenProperties
  <2>6. PICK s : s = e - l
    OBVIOUS
  <2>7. s = 2 * n
    BY <2>3, <2>4, <2>5, <2>6
  <2>8. s >= 2 /\ s \div 2 = n /\ (s > 2 => n > 1)
    BY <2>7
  <2>9. s > 2 => l > MAX_BLOCK_PAYLOAD * (s \div 2 - 1)
    BY <2>3, <2>4, <2>8, Zenon
  <2> QED BY <2>1, <2>4, <2>6, <2>8, <2>9, Zenon
<1> QED BY <1>1, FramingInductive, PTL

-----------------------------------------------------------------------------
(* The refinement.  The mapping of Queue, by name.                         *)
Pending == IF aligned THEN SubSeq(sent, Len(received) + 1, Len(sent)) ELSE <<>>
Lost == IF aligned THEN lost ELSE 0
QueueVars == <<Pending, received, Lost, aligned>>

(* In step, what was lost and what is held are of the next message; at the *)
(* end of the stream there is neither.                                     *)
LEMMA Bounds ==
    ASSUME FramingInv, aligned
    PROVE  /\ Len(received) \in 0..Len(sent)
           /\ Len(received) < Len(sent) =>
                lost + Len(message) <= Len(sent[Len(received) + 1])
           /\ Len(received) = Len(sent) =>
                block = NoBlock /\ lost + Len(message) = 0
<1>1. /\ InStep /\ Len(received) \in Nat /\ Len(sent) \in Nat /\ lost \in Nat
      /\ message \in Seq(Byte) /\ Len(message) \in Nat
      /\ \A i \in 1..Len(sent) : sent[i] \in Seq(Byte)
  BY Facts, LenProperties DEF FramingInv
<1>2. PICK n, W, S, base, k : ReadingAt(n, W, S, base, k)
  BY <1>1, Zenon DEF InStep
<1>3. PICK b, r, g : b = S[k] /\ r = Len(received) /\ g = lost + Len(message)
  OBVIOUS
<1>4. /\ S \in [1..(n + 1) -> Mark] /\ k \in 1..(n + 1) /\ n \in Nat
      /\ Laid(W, S, n, sent) /\ (k = n + 1 => block = NoBlock)
      /\ b.msg = r + 1 /\ b.from = g
  BY <1>2, <1>3, Zenon DEF ReadingAt, Reading, Holds
<1>5. r \in Nat /\ g \in Nat
  BY <1>1, <1>3
<1>6. CASE k = n + 1
  <2>1. b.msg = Len(sent) + 1 /\ b.from = 0
    BY <1>3, <1>4, <1>6, Zenon DEF Laid
  <2>2. r = Len(sent) /\ g = 0
    BY <2>1, <1>1, <1>4, <1>5
  <2> QED BY <2>2, <1>1, <1>3, <1>4, <1>6
<1>7. CASE k # n + 1
  <2>1. k \in 1..n /\ b \in Mark
    BY <1>3, <1>4, <1>7
  <2>2. Stands(W, b, sent)
    BY <1>3, <1>4, <2>1, Zenon DEF Laid
  <2>3. r + 1 \in 1..Len(sent) /\ g + b.len <= Len(sent[r + 1])
        /\ b.len \in Nat
    BY <1>4, <2>1, <2>2 DEF Stands, Mark
  <2>4. Len(sent[r + 1]) \in Nat
    BY <2>3, <1>1, LenProperties
  <2>5. r < Len(sent) /\ g <= Len(sent[r + 1])
    BY <1>1, <1>5, <2>3, <2>4
  <2> QED BY <2>5, <1>1, <1>3, <1>5
<1> QED BY <1>6, <1>7

(* What waits behind r messages of s.                                      *)
LEMMA Waiting ==
    ASSUME NEW s \in Seq(Payloads), NEW r \in 0..Len(s)
    PROVE  LET q == SubSeq(s, r + 1, Len(s))
           IN  /\ r < Len(s) => /\ q # <<>> /\ Head(q) = s[r + 1]
                                /\ Tail(q) = SubSeq(s, (r + 1) + 1, Len(s))
               /\ \A p \in Payloads :
                    SubSeq(Append(s, p), r + 1, Len(Append(s, p))) =
                      Append(q, p)
<1>1. Len(s) \in Nat /\ \A i \in 1..Len(s) : s[i] \in Payloads
  BY LenProperties, ElementOfSeq
<1>2. PICK q : q = SubSeq(s, r + 1, Len(s))
  OBVIOUS
<1>3. \A i \in (r + 1)..Len(s) : s[i] \in Payloads
  BY <1>1
<1>4. /\ q \in Seq(Payloads) /\ Len(q) = Len(s) - r
      /\ \A i \in 1..Len(q) : q[i] = s[r + i]
  BY <1>1, <1>2, <1>3, SubSeqProperties
<1>5. ASSUME r < Len(s)
      PROVE  q # <<>> /\ Head(q) = s[r + 1]
             /\ Tail(q) = SubSeq(s, (r + 1) + 1, Len(s))
  <2>1. Len(q) > 0 /\ 1 \in 1..Len(q)
    BY <1>1, <1>4, <1>5
  <2>2. q # <<>>
    BY <2>1
  <2>3. Head(q) = s[r + 1]
    BY <1>4, <2>1
  <2>4. PICK t : t = SubSeq(s, (r + 1) + 1, Len(s))
    OBVIOUS
  <2>5. t \in Seq(Payloads) /\ Len(t) = Len(s) - (r + 1)
        /\ \A i \in 1..Len(t) : t[i] = s[(r + 1) + i]
    <3>1. \A i \in ((r + 1) + 1)..Len(s) : s[i] \in Payloads
      BY <1>1
    <3>2. r + 1 \in Nat
      OBVIOUS
    <3> QED BY <1>1, <1>5, <2>4, <3>1, <3>2, SubSeqProperties
  <2>6. Tail(q) \in Seq(Payloads) /\ Len(Tail(q)) = Len(q) - 1
        /\ \A i \in 1..Len(Tail(q)) : Tail(q)[i] = q[i + 1]
    BY <1>4, <2>2, HeadTailProperties
  <2>7. Len(t) = Len(Tail(q))
    BY <1>1, <1>4, <2>5, <2>6
  <2>8. \A i \in 1..Len(t) : t[i] = Tail(q)[i]
    <3> TAKE i \in 1..Len(t)
    <3>1. i + 1 \in 1..Len(q) /\ r + (i + 1) = (r + 1) + i
      BY <1>1, <1>4, <2>5
    <3> QED BY <1>4, <2>5, <2>6, <2>7, <3>1
  <2>9. Tail(q) = t
    BY <2>5, <2>6, <2>7, <2>8, SeqEqual
  <2> QED BY <2>2, <2>3, <2>4, <2>9
<1>6. ASSUME NEW p \in Payloads
      PROVE  SubSeq(Append(s, p), r + 1, Len(Append(s, p))) = Append(q, p)
  <2>1. PICK u : u = Append(s, p)
    OBVIOUS
  <2>2. u \in Seq(Payloads) /\ Len(u) = Len(s) + 1
        /\ \A i \in 1..Len(s) : u[i] = s[i]
    BY <2>1, AppendProperties
  <2>3. u[Len(s) + 1] = p
    BY <2>1, AppendProperties
  <2>4. PICK v, w : v = SubSeq(u, r + 1, Len(u)) /\ w = Append(q, p)
    OBVIOUS
  <2>5. v \in Seq(Payloads) /\ Len(v) = Len(u) - r
        /\ \A i \in 1..Len(v) : v[i] = u[r + i]
    <3>1. \A i \in (r + 1)..Len(u) : u[i] \in Payloads
      BY <1>1, <2>2, ElementOfSeq
    <3>2. Len(u) \in Nat /\ r \in 0..Len(u)
      BY <1>1, <2>2
    <3> QED BY <2>2, <2>4, <3>1, <3>2, SubSeqProperties
  <2>6. w \in Seq(Payloads) /\ Len(w) = Len(q) + 1
        /\ \A i \in 1..Len(q) : w[i] = q[i]
    BY <1>4, <2>4, AppendProperties
  <2>7. w[Len(q) + 1] = p
    BY <1>4, <2>4, AppendProperties
  <2>8. Len(v) = Len(w)
    BY <1>1, <1>4, <2>2, <2>5, <2>6
  <2>9. \A i \in 1..Len(v) : v[i] = w[i]
    <3> TAKE i \in 1..Len(v)
    <3>1. CASE i \in 1..Len(q)
      <4>1. r + i \in 1..Len(s)
        BY <1>1, <1>4, <3>1
      <4> QED BY <1>4, <2>2, <2>5, <2>6, <3>1, <4>1
    <3>2. CASE i \notin 1..Len(q)
      <4>1. i = Len(q) + 1 /\ r + i = Len(s) + 1
        BY <1>1, <1>4, <2>6, <2>8, <3>2
      <4> QED BY <2>3, <2>5, <2>7, <4>1
    <3> QED BY <3>1, <3>2
  <2>10. v = w
    BY <2>5, <2>6, <2>8, <2>9, SeqEqual
  <2> QED BY <2>1, <2>4, <2>10
<1> QED BY <1>2, <1>5, <1>6, Zenon

(* Writing a message, in whatever blocks, puts it into the queue.          *)
LEMMA WritePuts ==
    ASSUME FramingInv, NEW payload \in Payloads, NEW bytes,
           Write(payload, bytes)
    PROVE  [Queue!Next]_QueueVars
<1>1. /\ sent' = Append(sent, payload) /\ received' = received
      /\ lost' = lost /\ aligned' = aligned
  BY DEF Write
<1>2. CASE aligned
  <2>1. PICK s, r : s = sent /\ r = Len(received)
    OBVIOUS
  <2>2. s \in Seq(Payloads) /\ r \in 0..Len(s)
    BY <1>2, <2>1, Bounds, Facts DEF FramingInv
  <2>3. SubSeq(Append(s, payload), r + 1, Len(Append(s, payload))) =
          Append(SubSeq(s, r + 1, Len(s)), payload)
    BY <2>2, Waiting, Zenon
  <2>4. Pending' = Append(Pending, payload) /\ Lost' = Lost
    BY <1>1, <1>2, <2>1, <2>3, Zenon DEF Pending, Lost
  <2>5. Queue!Put
    BY <1>1, <1>2, <2>4, Zenon DEF Queue!Put, Pending, Lost
  <2> QED BY <2>5, Zenon DEF Queue!Next
<1>3. CASE ~aligned
  <2>1. UNCHANGED QueueVars
    BY <1>1, <1>3, Zenon DEF QueueVars, Pending, Lost
  <2> QED BY <2>1, Zenon
<1> QED BY <1>2, <1>3, Zenon

(* A step of read_message takes a message from the queue, or is hidden.    *)
LEMMA ReaderGets ==
    ASSUME FramingInv, Reader
    PROVE  [Queue!Next]_QueueVars
<1>1. sent' = sent /\ aligned' = aligned
  BY Zenon DEF Reader, ReadHeader, ReadPayload
<1>2. CASE aligned
  <2>1. Delivers
    BY <1>2, ReaderKeeps, Zenon
  <2>2. CASE received' = received /\ lost' = lost
    <3>1. UNCHANGED QueueVars
      BY <1>1, <2>2, Zenon DEF QueueVars, Pending, Lost
    <3> QED BY <3>1, Zenon
  <2>3. CASE ~(received' = received /\ lost' = lost)
    <3>1. PICK s, r, g : s = sent /\ r = Len(received) /\ g = lost
      OBVIOUS
    <3>2. /\ r + 1 \in 1..Len(s) /\ lost' = 0
          /\ received' = Append(received,
                                SubSeq(s[r + 1], g + 1, Len(s[r + 1])))
      BY <2>1, <2>3, <3>1, Zenon DEF Delivers
    <3>3. s \in Seq(Payloads) /\ r \in 0..Len(s) /\ Len(s) \in Nat
          /\ received \in Seq(Seq(Byte))
          /\ s[r + 1] \in Seq(Byte)
      BY <1>2, <3>1, <3>2, Bounds, Facts DEF FramingInv
    <3>4. r < Len(s)
      BY <3>2, <3>3
    <3>5. PICK q : q = SubSeq(s, r + 1, Len(s))
      OBVIOUS
    <3>6. /\ q # <<>> /\ Head(q) = s[r + 1]
          /\ Tail(q) = SubSeq(s, (r + 1) + 1, Len(s))
      BY <3>3, <3>4, <3>5, Waiting, Zenon
    <3>7. Len(received') = r + 1
      <4>1. PICK m : m = SubSeq(s[r + 1], g + 1, Len(s[r + 1]))
        OBVIOUS
      <4>2. \A T, t : t \in Seq(T) => \A e : Len(Append(t, e)) = Len(t) + 1
        BY AppendProperties
      <4> QED BY <3>1, <3>2, <3>3, <4>1, <4>2, Zenon
    <3>8. Pending = q /\ Pending' = Tail(q) /\ Lost = g /\ Lost' = 0
      BY <1>1, <1>2, <3>1, <3>2, <3>5, <3>6, <3>7, Zenon DEF Pending, Lost
    <3>9. Queue!Get
      BY <1>1, <1>2, <3>1, <3>2, <3>6, <3>8, Zenon DEF Queue!Get, Pending, Lost
    <3> QED BY <3>9, Zenon DEF Queue!Next
  <2> QED BY <2>2, <2>3, Zenon
<1>3. CASE ~aligned
  <2>1. Pending' = Pending /\ Lost' = Lost
    BY <1>1, <1>3, Zenon DEF Pending, Lost
  <2>2. received' = received \/ \E m : received' = Append(received, m)
    BY Zenon DEF Reader, ReadHeader, ReadPayload, EndBlock
  <2>3. CASE received' = received
    <3>1. UNCHANGED QueueVars
      BY <1>1, <2>1, <2>3, Zenon DEF QueueVars
    <3> QED BY <3>1, Zenon
  <2>4. CASE \E m : received' = Append(received, m)
    <3>1. PICK m, t : received' = Append(received, m) /\ t = received
      BY <2>4, Zenon
    <3>2. t \in Seq(Seq(Byte)) /\ Append(t, m) \in Seq(Seq(Byte))
      BY <3>1, ReaderKeeps, Facts DEF FramingInv, TypeOK
    <3>3. Len(Append(t, m)) = Len(t) + 1 /\ SubSeq(Append(t, m), 1, Len(t)) = t
      BY <3>2
    <3>4. Queue!Misread
      BY <1>1, <1>3, <2>1, <3>1, <3>3, Zenon
         DEF Queue!Misread, Pending, Lost
    <3> QED BY <3>4, Zenon DEF Queue!Next
  <2> QED BY <2>2, <2>3, <2>4, Zenon
<1> QED BY <1>2, <1>3, Zenon

(* Dropping a read loses bytes of the oldest message, or the thread.       *)
LEMMA DropDrops ==
    ASSUME FramingInv, DropRead
    PROVE  [Queue!Next]_QueueVars
<1>1. /\ sent' = sent /\ received' = received
      /\ lost' = lost + Len(message)
  BY DEF DropRead
<1>2. aligned' = (aligned /\ block = NoBlock)
  BY DEF DropRead
<1>3. CASE ~aligned
  <2>1. ~aligned' /\ aligned' = aligned
    <3>1. aligned \in BOOLEAN
      BY DEF FramingInv, TypeOK
    <3> QED BY <1>2, <1>3, <3>1, Zenon
  <2>2. UNCHANGED QueueVars
    BY <1>1, <1>3, <2>1, Zenon DEF QueueVars, Pending, Lost
  <2> QED BY <2>2, Zenon
<1>4. CASE aligned
  <2>1. PICK s, r, g, l : /\ s = sent /\ r = Len(received)
                          /\ g = lost /\ l = Len(message)
    OBVIOUS
  <2>2. /\ s \in Seq(Payloads) /\ r \in 0..Len(s) /\ Len(s) \in Nat
        /\ g \in Nat /\ l \in Nat
    BY <1>4, <2>1, Bounds, Facts, LenProperties DEF FramingInv
  <2>3. /\ r < Len(s) => g + l <= Len(s[r + 1])
        /\ r = Len(s) => block = NoBlock /\ g + l = 0
    BY <1>4, <2>1, Bounds, Zenon
  <2>4. PICK q : q = SubSeq(s, r + 1, Len(s))
    OBVIOUS
  <2>5. r < Len(s) => q # <<>> /\ Head(q) = s[r + 1]
    BY <2>2, <2>4, Waiting, Zenon
  <2>6. Pending = q /\ Lost = g
    BY <1>4, <2>1, <2>4, Zenon DEF Pending, Lost
  <2>7. CASE block # NoBlock
    <3>1. r < Len(s)
      BY <2>2, <2>3, <2>7
    <3>2. aligned' = FALSE
      BY <1>2, <2>7, Zenon
    <3>3. Pending' = <<>> /\ Lost' = 0
      BY <3>2, Zenon DEF Pending, Lost
    <3>4. Queue!Misalign
      BY <1>1, <2>5, <2>6, <3>1, <3>2, <3>3, Zenon
         DEF Queue!Misalign, Pending, Lost
    <3> QED BY <3>4, Zenon DEF Queue!Next
  <2>8. CASE block = NoBlock
    <3>1. aligned' /\ aligned' = aligned
      <4>1. aligned \in BOOLEAN
        BY DEF FramingInv, TypeOK
      <4> QED BY <1>2, <1>4, <2>8, <4>1, Zenon
    <3>2. Pending' = q /\ Lost' = g + l
      BY <1>1, <2>1, <2>4, <3>1, Zenon DEF Pending, Lost
    <3>3. CASE r < Len(s)
      <4>1. g + l \in g..Len(s[r + 1])
        <5>1. s[r + 1] \in Seq(Byte)
          BY <2>1, <2>2, <3>3, Facts DEF FramingInv
        <5>2. Len(s[r + 1]) \in Nat
          BY <5>1, LenProperties
        <5> QED BY <2>2, <2>3, <3>3, <5>2
      <4>2. Lost' \in Lost..Len(Head(Pending)) /\ Pending # <<>>
        BY <2>5, <2>6, <3>2, <3>3, <4>1, Zenon
      <4>3. Queue!Drop
        BY <1>1, <2>6, <3>1, <3>2, <4>2, Zenon DEF Queue!Drop, Pending, Lost
      <4> QED BY <4>3, Zenon DEF Queue!Next
    <3>4. CASE ~(r < Len(s))
      <4>1. g + l = g
        BY <2>2, <2>3, <3>4
      <4>2. UNCHANGED QueueVars
        BY <1>1, <2>6, <3>1, <3>2, <4>1, Zenon DEF QueueVars
      <4> QED BY <4>2, Zenon
    <3> QED BY <3>3, <3>4, Zenon
  <2> QED BY <2>7, <2>8, Zenon
<1> QED BY <1>3, <1>4, Zenon

(* write_message and read_message implement a queue, for any messages, any *)
(* size of block, any split the server chooses and any arrival of bytes:   *)
(* messages come out in order, each once, whole but for what dropped reads *)
(* took, until a read is dropped between a header and its payload.         *)
THEOREM QueueRefinement == Spec => IsQueue
<1>1. Init => Queue!Init
  <2> SUFFICES ASSUME Init PROVE Queue!Init
    OBVIOUS
  <2>1. /\ sent = <<>> /\ received = <<>> /\ lost = 0 /\ aligned = TRUE
    BY DEF Init
  <2>2. SubSeq(sent, Len(received) + 1, Len(sent)) = <<>>
    BY <2>1
  <2> QED BY <2>1, <2>2, Zenon DEF Queue!Init
<1>2. FramingInv /\ [Next]_vars => [Queue!Next]_QueueVars
  <2> SUFFICES ASSUME FramingInv, [Next]_vars PROVE [Queue!Next]_QueueVars
    OBVIOUS
  <2>1. CASE WriteMessage
    BY <2>1, WritePuts, Zenon DEF WriteMessage
  <2>2. CASE ServerMessage
    BY <2>2, WritePuts, Zenon DEF ServerMessage
  <2>3. CASE Transfer
    <3>1. /\ sent' = sent /\ received' = received /\ lost' = lost
          /\ aligned' = aligned
      BY <2>3, Zenon DEF Transfer
    <3>2. UNCHANGED QueueVars
      BY <3>1, Zenon DEF QueueVars, Pending, Lost
    <3> QED BY <3>2, Zenon
  <2>4. CASE Reader
    BY <2>4, ReaderGets
  <2>5. CASE DropRead
    BY <2>5, DropDrops
  <2>6. CASE UNCHANGED vars
    <3>1. /\ sent' = sent /\ received' = received /\ lost' = lost
          /\ aligned' = aligned
      BY <2>6 DEF vars
    <3>2. UNCHANGED QueueVars
      BY <3>1, Zenon DEF QueueVars, Pending, Lost
    <3> QED BY <3>2, Zenon
  <2> QED BY <2>1, <2>2, <2>3, <2>4, <2>5, <2>6, Zenon DEF Next
<1>3. FramingInv /\ [Next]_vars => [Queue!Next]_(Queue!vars)
  BY <1>2, Zenon DEF QueueVars, Pending, Lost, Queue!vars
<1> QED
  BY <1>1, <1>3, FramingInductive, PTL DEF Spec, IsQueue, Queue!Spec
-----------------------------------------------------------------------------
(* decode_message on the stream.                                           *)

(* What decode_message returns for a complete message.                     *)
Found(text, end) == [some |-> TRUE, message |-> text, used |-> end]

(* Its fields.                                                             *)
LEMMA FoundFields ==
    ASSUME NEW text, NEW end
    PROVE  /\ Found(text, end).some /\ ~None.some
           /\ Found(text, end).message = text /\ Found(text, end).used = end
<1>1. Found(text, end).some
  BY Zenon DEF Found
<1>2. Found(text, end).message = text
  BY Zenon DEF Found
<1>3. Found(text, end).used = end
  BY Zenon DEF Found
<1>4. ~None.some
  BY Zenon DEF None
<1> QED BY <1>1, <1>2, <1>3, <1>4

(* Prepending to the message found.                                        *)
LEMMA FoundMore ==
    ASSUME NEW text, NEW end, NEW part, NEW r, r = Found(text, end)
    PROVE  [r EXCEPT !.message = part \o @] = Found(part \o text, end)
<1>1. ASSUME NEW y, r = [some |-> y, message |-> text, used |-> end]
      PROVE  [r EXCEPT !.message = part \o @] =
               [some |-> y, message |-> part \o text, used |-> end]
  <2>1. r.message = text
    BY <1>1
  <2>2. PICK v : v = part \o text
    OBVIOUS
  <2>3. [r EXCEPT !.message = v] = [some |-> y, message |-> v, used |-> end]
    BY <1>1
  <2> QED BY <2>1, <2>2, <2>3, Zenon
<1> QED BY <1>1, Zenon DEF Found

(* Offsets behind base.                                                    *)
LEMMA Offsets ==
    ASSUME NEW base \in Nat, NEW a \in Nat, NEW l \in Nat, a >= base
    PROVE  /\ a - base \in Nat /\ a + (2 + l) \in Nat /\ a + (2 + l) >= base
           /\ (a - base) + (2 + l) = (a + (2 + l)) - base
  OBVIOUS

(* They are ordered as the places are.                                     *)
LEMMA OffsetsOrdered ==
    ASSUME NEW base \in Nat, NEW x \in Nat, NEW y \in Nat, x >= base, x <= y
    PROVE  x - base \in Nat /\ y - base \in Nat /\ x - base <= y - base
  OBVIOUS

(* The places where a message of z bytes is cut.                           *)
LEMMA CutPlaces ==
    ASSUME NEW g \in Nat, NEW l \in Nat, NEW z \in Nat, g + l <= z
    PROVE  /\ g + 1 \in 1..(z + 1) /\ g + l \in ((g + 1) - 1)..z
           /\ z \in (g + l)..z
  OBVIOUS

(* The data are the first bytes of W behind base.                          *)
FrontOf(data, W, base) ==
    /\ base + Len(data) <= Len(W)
    /\ \A x \in 1..Len(data) : data[x] = W[base + x]

(* The bytes of a block that begins behind o and ends at `end`, as the     *)
(* recursion of decode_message, solved by f, takes them.                   *)
BlockDecoded(f, data, o, end, last, part) ==
    /\ Len(data) < end => f[o] = None
    /\ ~(Len(data) < end) /\ last => f[o] = Found(part, end)
    /\ ~(Len(data) < end) /\ ~last /\ ~f[end].some => f[o] = None
    /\ ~(Len(data) < end) /\ ~last /\ f[end].some =>
         f[o] = [f[end] EXCEPT !.message = part \o @]

(* decode_message at the header of a block.                                *)
LEMMA DecodeBlock ==
    ASSUME NEW data \in Seq(Byte), NEW W \in Seq(Byte), NEW base \in Nat,
           FrontOf(data, W, base), NEW b \in Mark, NEW msgs, Stands(W, b, msgs),
           msgs[b.msg] \in Seq(Byte), NEW o \in 0..Len(data),
           b.at = base + o, NEW f, Solves(f, data, Len(data))
    PROVE  BlockDecoded(f, data, o, o + (2 + b.len), b.last,
                        SubSeq(msgs[b.msg], b.from + 1, b.from + b.len))
<1>a. PICK L, l, g, m : L = Len(data) /\ l = b.len /\ g = b.from
                       /\ m = msgs[b.msg]
  OBVIOUS
<1>b. PICK end, t : end = o + (2 + l) /\ t = SubSeq(data, o + 1, o + 2)
  OBVIOUS
<1>1. /\ L \in Nat /\ o \in 0..L /\ l \in Nat /\ g \in Nat /\ b.at \in Nat
      /\ m \in Seq(Byte) /\ Len(m) \in Nat /\ g + l <= Len(m)
  BY <1>a, LenProperties DEF Mark, Stands
<1>2. f[o] = DecodeAt(data, f, o)
  <2>1. o + Len(data) >= Len(data)
    BY <1>a, <1>1
  <2> QED BY <2>1, Zenon DEF Solves
<1>3. CASE L < o + 2
  <2>1. f[o] = None
    BY <1>a, <1>2, <1>3, Zenon DEF DecodeAt
  <2>2. L < end
    BY <1>1, <1>3, <1>b
  <2> QED BY <2>1, <2>2, <1>a, <1>b, Zenon DEF BlockDecoded
<1>4. CASE ~(L < o + 2)
  <2>1. \A i \in 1..Len(data) : data[i] \in Byte /\ data[i] = W[base + i]
    BY ElementOfSeq DEF FrontOf
  <2>2. t[1] = W[b.at + 1] /\ t[2] = W[b.at + 2]
    <3>1. \A i \in (o + 1)..(o + 2) : data[i] \in Byte
      <4>1. \A i \in (o + 1)..(o + 2) : i \in 1..L
        BY <1>1, <1>4
      <4> QED BY <4>1, <1>a, <2>1, Zenon
    <3>2. t[1] = data[o + 1] /\ t[2] = data[o + 2]
      <4>1. \A i \in 1..2 : t[i] = data[o + i]
        BY <3>1, <1>b, SubSeqProperties
      <4> QED BY <4>1
    <3>3. o + 1 \in 1..Len(data) /\ o + 2 \in 1..Len(data)
          /\ base + (o + 1) = b.at + 1 /\ base + (o + 2) = b.at + 2
      BY <1>1, <1>4, <1>a
    <3> QED BY <2>1, <3>2, <3>3, Zenon
  <2>3. decode_header(t) = [len |-> l, last |-> b.last]
    <3>1. decode_header(t) = decode_header(<<W[b.at + 1], W[b.at + 2]>>)
      BY <2>2 DEF decode_header
    <3> QED BY <3>1, <1>a, Zenon DEF Stands
  <2>4. decode_header(t).len = l /\ decode_header(t).last = b.last
    <3>1. PICK last : last = b.last
      OBVIOUS
    <3>2. [len |-> l, last |-> last].len = l
          /\ [len |-> l, last |-> last].last = last
      OBVIOUS
    <3> QED BY <2>3, <3>1, <3>2, Zenon
  <2>5. o + 2 + decode_header(t).len = end
    BY <2>4, <1>1, <1>b
  <2>6. ASSUME ~(L < end)
        PROVE  SubSeq(data, o + 3, end) = SubSeq(m, g + 1, g + l)
    <3>1. PICK u, v : u = SubSeq(data, o + 3, end)
                   /\ v = SubSeq(m, g + 1, g + l)
      OBVIOUS
    <3>2. u \in Seq(Byte) /\ Len(u) = l
          /\ \A i \in 1..l : u[i] = data[o + (2 + i)]
      <4>1. \A i \in (o + 3)..end : data[i] \in Byte
        <5>1. \A i \in (o + 3)..end : i \in 1..L
          BY <1>1, <1>b, <2>6
        <5> QED BY <5>1, <1>a, <2>1, Zenon
      <4>2. o + 3 \in Int /\ end \in Int
        BY <1>1, <1>b
      <4>3. u \in Seq(Byte)
            /\ Len(u) = (IF o + 3 <= end THEN end - (o + 3) + 1 ELSE 0)
            /\ \A i \in 1..(end - (o + 3) + 1) : u[i] = data[(o + 3) + i - 1]
        BY <3>1, <4>1, <4>2, SubSeqProperties
      <4>4. end - (o + 3) + 1 = l /\ (~(o + 3 <= end) => l = 0)
            /\ \A i \in 1..l : (o + 3) + i - 1 = o + (2 + i)
        BY <1>1, <1>b
      <4> QED BY <4>3, <4>4
    <3>3. v \in Seq(Byte) /\ Len(v) = l
          /\ \A i \in 1..l : v[i] = m[g + i]
      <4>1. \A i \in 1..Len(m) : m[i] \in Byte
        BY <1>1, ElementOfSeq
      <4>2. \A i \in (g + 1)..(g + l) : m[i] \in Byte
        BY <1>1, <4>1
      <4>3. g + 1 \in Int /\ g + l \in Int
        BY <1>1
      <4>4. v \in Seq(Byte)
            /\ Len(v) = (IF g + 1 <= g + l THEN (g + l) - (g + 1) + 1 ELSE 0)
            /\ \A i \in 1..((g + l) - (g + 1) + 1) : v[i] = m[(g + 1) + i - 1]
        BY <3>1, <4>2, <4>3, SubSeqProperties
      <4>5. (g + l) - (g + 1) + 1 = l /\ (~(g + 1 <= g + l) => l = 0)
            /\ \A i \in 1..l : (g + 1) + i - 1 = g + i
        BY <1>1
      <4> QED BY <4>4, <4>5
    <3>4. \A i \in 1..l : u[i] = v[i]
      <4> TAKE i \in 1..l
      <4>1. o + (2 + i) \in 1..Len(data)
        <5>1. o \in Nat /\ o + (2 + l) <= L
          BY <1>1, <1>b, <2>6
        <5>2. \A j \in 1..l : o + (2 + j) \in 1..L
          BY <1>1, <5>1, WithinBlock, Zenon
        <5> QED BY <1>a, <5>2, Zenon
      <4>4. base + (o + (2 + i)) = b.at + (2 + i)
        BY <1>1
      <4>2. data[o + (2 + i)] = W[b.at + (2 + i)]
        BY <2>1, <4>1, <4>4, Zenon
      <4>3. W[b.at + (2 + i)] = m[g + i]
        BY <1>a, Zenon DEF Stands
      <4> QED BY <3>2, <3>3, <4>2, <4>3, Zenon
    <3> QED BY <3>1, <3>2, <3>3, <3>4, SeqEqual
  <2>7. CASE L < end
    <3>1. f[o] = None
      BY <1>2, <1>4, <1>a, <1>b, <2>5, <2>7, Zenon DEF DecodeAt
    <3> QED BY <3>1, <2>7, <1>a, <1>b, Zenon DEF BlockDecoded
  <2>8. CASE ~(L < end)
    <3>1. PICK p : p = SubSeq(m, g + 1, g + l)
      OBVIOUS
    <3>2. SubSeq(data, o + 3, end) = p
      BY <2>6, <2>8, <3>1, Zenon
    <3>3. DecodeAt(data, f, o) =
            IF b.last THEN Found(p, end)
            ELSE IF ~f[end].some THEN None
            ELSE [f[end] EXCEPT !.message = p \o @]
      BY <1>4, <1>a, <1>b, <2>4, <2>5, <2>8, <3>2, Zenon DEF DecodeAt, Found
    <3>4. BlockDecoded(f, data, o, end, b.last, p)
      BY <1>2, <1>a, <2>8, <3>3, Zenon DEF BlockDecoded
    <3> QED BY <3>1, <3>4, <1>a, <1>b, Zenon
  <2> QED BY <2>7, <2>8
<1> QED BY <1>3, <1>4

(* Marks k to e are of blocks one behind the other, none but perhaps the   *)
(* last of them the last of a message.                                     *)
Linked(S, k, e) ==
    /\ \A i \in k..e : S[i] \in Mark
    /\ \A i \in k..(e - 1) : Follows(S[i], S[i + 1]) /\ ~S[i].last

(* Linked blocks are of the same message, and none begins before the       *)
(* first.                                                                  *)
LEMMA SameMessage ==
    ASSUME NEW k \in Nat, NEW e \in Nat, NEW S, Linked(S, k, e),
           NEW i \in k..e
    PROVE  S[i].msg = S[k].msg /\ S[i].at >= S[k].at
<1> DEFINE P(j) == S[j].msg = S[k].msg /\ S[j].at >= S[k].at
           bad == {j \in k..e : ~P(j)}
<1>1. SUFFICES ASSUME bad # {} PROVE FALSE
  BY <1>1
<1>2. PICK c \in bad : \A j \in bad : c <= j
  <2>1. bad \in SUBSET Nat
    OBVIOUS
  <2> HIDE DEF bad
  <2> QED BY <1>1, <2>1, LeastNumber
<1>3. c \in k..e /\ ~P(c)
  BY <1>2
<1>4. \A j \in k..e : S[j] \in Mark
  BY Zenon DEF Linked
<1>5. k \in k..e /\ S[k].at \in Nat
  BY <1>3, <1>4 DEF Mark
<1>6. c # k
  BY <1>3, <1>5
<1>7. PICK d : d = c - 1
  OBVIOUS
<1>8. d \in k..e /\ d \in k..(e - 1) /\ d + 1 = c /\ ~(c <= d)
  BY <1>3, <1>6, <1>7
<1>9. P(d)
  <2>1. d \notin bad
    <3> HIDE DEF bad
    <3> QED BY <1>2, <1>8, Zenon
  <2> QED BY <1>8, <2>1
<1>10. Follows(S[d], S[c]) /\ ~S[d].last
  BY <1>8, Zenon DEF Linked
<1>11. S[d] \in Mark
  BY <1>4, <1>8, Zenon
<1>12. S[c].msg = S[d].msg /\ S[c].at = S[d].at + (2 + S[d].len)
  BY <1>10, Zenon DEF Follows, EndOf
<1>13. S[d].at \in Nat /\ S[d].len \in Nat
  BY <1>11 DEF Mark
<1>14. S[c].at >= S[k].at
  <2>1. PICK x, y, z, l : x = S[d].at /\ y = S[c].at /\ z = S[k].at
                          /\ l = S[d].len
    OBVIOUS
  <2>2. x \in Nat /\ z \in Nat /\ l \in Nat /\ y = x + (2 + l) /\ x >= z
    BY <2>1, <1>5, <1>9, <1>12, <1>13
  <2>3. y >= z
    BY <2>2
  <2> QED BY <2>1, <2>3
<1> QED BY <1>3, <1>9, <1>12, <1>14

(* A block that stands is followed by the last of its message.             *)
LEMMA LastBlock ==
    ASSUME NEW n \in Nat, NEW W, NEW S \in [1..(n + 1) -> Mark], NEW msgs,
           Len(msgs) \in Nat, Laid(W, S, n, msgs), NEW k \in 1..n
    PROVE  \E e \in k..n : S[e].last /\ Linked(S, k, e)
<1> DEFINE lasts == {i \in k..n : S[i].last}
<1>1. \A i \in 1..n : Follows(S[i], S[i + 1])
  BY Zenon DEF Laid
<1>2. \A i \in k..(n + 1) : S[i] \in Mark
  OBVIOUS
<1>3. lasts # {}
  <2> SUFFICES ASSUME \A i \in k..n : ~S[i].last PROVE FALSE
    OBVIOUS
  <2>1. Linked(S, k, n + 1)
    <3>1. \A i \in k..((n + 1) - 1) : i \in 1..n /\ i \in k..n
      OBVIOUS
    <3> QED BY <1>1, <1>2, <3>1, Zenon DEF Linked
  <2>2. k \in Nat /\ n + 1 \in Nat /\ n + 1 \in k..(n + 1)
    OBVIOUS
  <2>3. S[n + 1].msg = S[k].msg
    BY <2>1, <2>2, SameMessage, Zenon
  <2>4. S[n + 1].msg = Len(msgs) + 1 /\ S[k].msg \in 1..Len(msgs)
    BY Zenon DEF Laid, Stands
  <2> QED BY <2>3, <2>4
<1>4. PICK e \in lasts : \A j \in lasts : e <= j
  <2>1. lasts \in SUBSET Nat
    OBVIOUS
  <2> HIDE DEF lasts
  <2> QED BY <1>3, <2>1, LeastNumber
<1>5. e \in k..n /\ S[e].last
  BY <1>4
<1>6. \A i \in k..(e - 1) : i \in 1..n /\ i \in k..n /\ ~(e <= i)
  BY <1>5
<1>7. \A i \in k..(e - 1) : ~S[i].last
  BY <1>4, <1>6, Zenon
<1>8. \A i \in k..e : i \in k..(n + 1)
  BY <1>5
<1>9. Linked(S, k, e)
  BY <1>1, <1>2, <1>6, <1>7, <1>8, Zenon DEF Linked
<1> QED BY <1>5, <1>9

(* f has at offset o the message text, which ends at `end`, if the L bytes *)
(* of the data reach so far, and nothing otherwise.                        *)
Expected(f, L, o, text, end) ==
    /\ end <= L => f[o] = Found(text, end)
    /\ ~(end <= L) => f[o] = None

(* Taking one block more into account.                                     *)
LEMMA ExpectedMore ==
    ASSUME NEW f, NEW data, NEW L \in Nat, L = Len(data),
           NEW o \in Nat, NEW next \in Nat, NEW end \in Nat, next <= end,
           NEW part, NEW text, BlockDecoded(f, data, o, next, FALSE, part),
           next <= L => Expected(f, L, next, text, end)
    PROVE  Expected(f, L, o, part \o text, end)
<1>1. CASE L < next
  <2>1. f[o] = None
    BY <1>1, Zenon DEF BlockDecoded
  <2>2. ~(end <= L)
    BY <1>1
  <2> QED BY <2>1, <2>2, Zenon DEF Expected
<1>2. CASE ~(L < next)
  <2>1. Expected(f, L, next, text, end)
    BY <1>2
  <2>2. CASE end <= L
    <3>1. f[next] = Found(text, end)
      BY <2>1, <2>2, Zenon DEF Expected
    <3>2. f[next].some
      <4>1. Found(text, end).some
        BY FoundFields, Zenon
      <4> QED BY <3>1, <4>1
    <3>3. f[o] = [f[next] EXCEPT !.message = part \o @]
      BY <1>2, <3>2, Zenon DEF BlockDecoded
    <3>4. [f[next] EXCEPT !.message = part \o @] = Found(part \o text, end)
      BY <3>1, FoundMore, Zenon
    <3>5. f[o] = Found(part \o text, end)
      BY <3>3, <3>4, Zenon
    <3> QED BY <2>2, <3>5, Zenon DEF Expected
  <2>3. CASE ~(end <= L)
    <3>1. f[next] = None
      BY <2>1, <2>3, Zenon DEF Expected
    <3>2. f[o] = None
      BY <1>2, <3>1, FoundFields, Zenon DEF BlockDecoded
    <3> QED BY <2>3, <3>2, Zenon DEF Expected
  <2> QED BY <2>2, <2>3
<1> QED BY <1>1, <1>2

(* All blocks of the marks k to e stand in W.                              *)
AllStand(W, S, k, e, msgs) == \A i \in k..e : Stands(W, S[i], msgs)

(* decode_message at a block: it finds the message from there to its end,  *)
(* once the last block is there.                                           *)
LEMMA DecodeRun ==
    ASSUME NEW data \in Seq(Byte), NEW W \in Seq(Byte), NEW base \in Nat,
           FrontOf(data, W, base), NEW k \in Nat, NEW e \in Nat, k <= e,
           NEW S, Linked(S, k, e), NEW msgs, AllStand(W, S, k, e, msgs),
           S[e].last, S[k].at = base, NEW m \in Seq(Byte),
           m = msgs[S[k].msg], NEW f, Solves(f, data, Len(data))
    PROVE  /\ EndOf(S[e]) - base \in Nat
           /\ Expected(f, Len(data), 0, SubSeq(m, S[k].from + 1, Len(m)),
                       EndOf(S[e]) - base)
<1>a. PICK L, E : L = Len(data) /\ E = EndOf(S[e]) - base
  OBVIOUS
<1> DEFINE Text(i) == SubSeq(m, S[i].from + 1, Len(m))
           Off(i) == S[i].at - base
           Q(i) == /\ EndOf(S[i]) <= EndOf(S[e])
                   /\ Off(i) <= L => Expected(f, L, Off(i), Text(i), E)
           bad == {j \in 0..(e - k) : ~Q(e - j)}
<1>1. ASSUME NEW i \in k..e
      PROVE  /\ S[i] \in Mark /\ Stands(W, S[i], msgs) /\ msgs[S[i].msg] = m
             /\ S[i].at \in Nat /\ S[i].len \in Nat /\ S[i].from \in Nat
             /\ S[i].from + S[i].len <= Len(m) /\ Off(i) \in Nat
             /\ S[i].last => S[i].from + S[i].len = Len(m)
             /\ S[i].last \in BOOLEAN /\ EndOf(S[i]) \in Nat
             /\ S[i].at >= base /\ EndOf(S[i]) >= base
             /\ Off(i) + (2 + S[i].len) = EndOf(S[i]) - base
  <2>1. S[i] \in Mark /\ Stands(W, S[i], msgs)
    BY Zenon DEF Linked, AllStand
  <2>2. S[i].msg = S[k].msg /\ S[i].at >= S[k].at
    BY SameMessage, Zenon
  <2>3. S[i].at \in Nat /\ S[i].len \in Nat /\ S[i].from \in Nat
        /\ S[i].last \in BOOLEAN
    BY <2>1 DEF Mark
  <2>4. /\ Off(i) \in Nat /\ EndOf(S[i]) \in Nat /\ S[i].at >= base
        /\ EndOf(S[i]) >= base
        /\ Off(i) + (2 + S[i].len) = EndOf(S[i]) - base
    BY <2>2, <2>3, Offsets, Zenon DEF EndOf
  <2>5. msgs[S[i].msg] = m
    BY <2>2, Zenon
  <2>6. /\ S[i].from + S[i].len <= Len(m)
        /\ S[i].last => S[i].from + S[i].len = Len(m)
    BY <2>1, <2>5, Zenon DEF Stands
  <2> QED BY <2>1, <2>3, <2>4, <2>5, <2>6
<1>2. L \in Nat /\ Len(m) \in Nat
  BY <1>a, LenProperties
<1>3. ASSUME NEW i \in k..e, Off(i) <= L
      PROVE  BlockDecoded(f, data, Off(i), Off(i) + (2 + S[i].len), S[i].last,
                          SubSeq(m, S[i].from + 1, S[i].from + S[i].len))
  <2>1. PICK b, o : b = S[i] /\ o = Off(i)
    OBVIOUS
  <2>2. b \in Mark /\ Stands(W, b, msgs) /\ msgs[b.msg] = m
        /\ o \in 0..Len(data) /\ b.at = base + o
    <3>1. /\ b \in Mark /\ Stands(W, b, msgs) /\ msgs[b.msg] = m
          /\ b.at \in Nat /\ o \in Nat
      BY <1>1, <2>1, Zenon
    <3>2. L \in Nat /\ L = Len(data) /\ o <= L /\ o = b.at - base
      BY <1>2, <1>3, <1>a, <2>1, Zenon
    <3>3. o \in 0..Len(data) /\ b.at = base + o
      BY <3>1, <3>2
    <3> QED BY <3>1, <3>3
  <2>3. BlockDecoded(f, data, o, o + (2 + b.len), b.last,
                     SubSeq(msgs[b.msg], b.from + 1, b.from + b.len))
    BY <2>2, DecodeBlock, Zenon
  <2> QED BY <2>1, <2>2, <2>3, Zenon
<1>4. e \in k..e /\ k \in k..e
  OBVIOUS
<1>5. Q(e)
  <2>1. EndOf(S[e]) <= EndOf(S[e])
    BY <1>1, <1>4
  <2>2. ASSUME Off(e) <= L PROVE Expected(f, L, Off(e), Text(e), E)
    <3>1. BlockDecoded(f, data, Off(e), Off(e) + (2 + S[e].len), S[e].last,
                       SubSeq(m, S[e].from + 1, S[e].from + S[e].len))
      BY <1>3, <1>4, <2>2, Zenon
    <3>2. Off(e) + (2 + S[e].len) = E
      BY <1>1, <1>4, <1>a, Zenon
    <3>3. S[e].from + S[e].len = Len(m)
      BY <1>1, <1>4
    <3>4. BlockDecoded(f, data, Off(e), E, S[e].last, Text(e))
      BY <3>1, <3>2, <3>3, Zenon
    <3>5. E <= L <=> ~(L < E)
      BY <1>1, <1>2, <1>4, <1>a
    <3> QED BY <3>4, <3>5, <1>a, Zenon DEF BlockDecoded, Expected
  <2> QED BY <2>1, <2>2
<1>6. ASSUME NEW i \in k..e, i # e, Q(i + 1)
      PROVE  Q(i)
  <2>0. i + 1 \in k..e /\ i \in k..(e - 1)
    BY <1>6
  <2>1. PICK b, c : b = S[i] /\ c = S[i + 1]
    OBVIOUS
  <2>2. Follows(b, c) /\ ~b.last
    BY <2>0, <2>1, Zenon DEF Linked
  <2>3. c.at = EndOf(b) /\ c.from = b.from + b.len
    BY <2>2, Zenon DEF Follows
  <2>4. /\ b.at \in Nat /\ b.len \in Nat /\ b.from \in Nat
        /\ b.from + b.len <= Len(m) /\ Off(i) \in Nat /\ b.last \in BOOLEAN
    BY <1>1, <2>1, Zenon
  <2>5. c.at \in Nat /\ c.len \in Nat /\ Off(i + 1) \in Nat
    BY <1>1, <2>0, <2>1, Zenon
  <2>6. EndOf(S[e]) \in Nat
    BY <1>1, <1>4
  <2>7. EndOf(b) <= EndOf(S[e]) /\ EndOf(b) \in Nat /\ c.at <= EndOf(S[e])
    <3>1. EndOf(c) <= EndOf(S[e])
      BY <1>6, <2>1, Zenon
    <3>2. EndOf(c) = c.at + (2 + c.len) /\ EndOf(b) = b.at + (2 + b.len)
      BY DEF EndOf
    <3>3. PICK x, y : x = EndOf(S[e]) /\ y = EndOf(c)
      OBVIOUS
    <3>4. x \in Nat /\ y = c.at + (2 + c.len) /\ y <= x
      BY <2>6, <3>1, <3>2, <3>3
    <3>5. c.at <= x
      BY <2>5, <3>4
    <3> QED BY <2>3, <2>5, <3>3, <3>5
  <2>8. ASSUME Off(i) <= L PROVE Expected(f, L, Off(i), Text(i), E)
    <3>1. PICK o, next, part, text :
            /\ o = Off(i) /\ next = Off(i + 1)
            /\ part = SubSeq(m, b.from + 1, b.from + b.len)
            /\ text = Text(i + 1)
      OBVIOUS
    <3>2. o + (2 + b.len) = next
      BY <1>1, <2>1, <2>3, <3>1, Zenon
    <3>3. BlockDecoded(f, data, o, next, b.last, part)
      BY <1>3, <2>1, <2>8, <3>1, <3>2, Zenon
    <3>4. b.last = FALSE
      BY <2>2, <2>4, Zenon
    <3>5. BlockDecoded(f, data, o, next, FALSE, part)
      BY <3>3, <3>4, Zenon
    <3>6. next <= L => Expected(f, L, next, text, E)
      BY <1>6, <3>1, Zenon
    <3>7. o \in Nat /\ next \in Nat /\ E \in Nat /\ next <= E
      <4>1. next = c.at - base /\ E = EndOf(S[e]) - base
        BY <1>a, <2>1, <3>1, Zenon
      <4>2. o \in Nat /\ next \in Nat /\ c.at >= base
        BY <1>1, <2>0, <2>1, <2>4, <2>5, <3>1, Zenon
      <4> QED BY <2>5, <2>6, <2>7, <4>1, <4>2, OffsetsOrdered, Zenon
    <3>8. Expected(f, L, o, part \o text, E)
      BY <1>2, <1>a, <3>5, <3>6, <3>7, ExpectedMore, Zenon
    <3>9. part \o text = Text(i)
      <4>1. PICK x, y, z : x = b.from + 1 /\ y = b.from + b.len /\ z = Len(m)
        OBVIOUS
      <4>2. x \in 1..(z + 1) /\ y \in (x - 1)..z /\ z \in y..z
        BY <1>2, <2>4, <4>1, CutPlaces, Zenon
      <4>3. SubSeq(m, x, y) \o SubSeq(m, y + 1, z) = SubSeq(m, x, z)
        <5> HIDE DEF Text, Off
        <5> QED BY <4>1, <4>2, ConcatAdjacentSubSeq
      <4>4. part = SubSeq(m, x, y) /\ text = SubSeq(m, y + 1, z)
            /\ Text(i) = SubSeq(m, x, z)
        BY <2>1, <2>3, <3>1, <4>1, Zenon
      <4> QED BY <4>3, <4>4, Zenon
    <3> QED BY <3>1, <3>8, <3>9, Zenon
  <2> QED BY <2>1, <2>7, <2>8, Zenon
<1> HIDE DEF Q
<1>7. bad = {}
  <2> SUFFICES ASSUME bad # {} PROVE FALSE
    OBVIOUS
  <2>1. PICK j \in bad : \A h \in bad : j <= h
    <3>1. bad \in SUBSET Nat
      OBVIOUS
    <3> HIDE DEF bad
    <3> QED BY <3>1, LeastNumber
  <2>2. j \in 0..(e - k) /\ ~Q(e - j)
    BY <2>1
  <2>3. j # 0
    BY <1>5, <2>2
  <2>4. PICK i : i = e - j
    OBVIOUS
  <2>5. /\ i \in k..e /\ i # e /\ j - 1 \in 0..(e - k) /\ ~(j <= j - 1)
        /\ e - (j - 1) = i + 1
    BY <2>2, <2>3, <2>4
  <2>6. j - 1 \notin bad
    <3> HIDE DEF bad
    <3> QED BY <2>1, <2>5, Zenon
  <2>7. Q(i + 1)
    BY <2>5, <2>6
  <2>8. Q(i)
    BY <1>6, <2>5, <2>7, Zenon
  <2> QED BY <2>2, <2>4, <2>8
<1>8. Q(k)
  <2>1. e - k \in 0..(e - k) /\ e - (e - k) = k
    OBVIOUS
  <2> QED BY <1>7, <2>1
<1>9. Off(k) = 0 /\ 0 <= L
  BY <1>2
<1>10. Expected(f, L, 0, Text(k), E)
  BY <1>8, <1>9, Zenon DEF Q
<1>11. E \in Nat
  <2>1. EndOf(S[k]) <= EndOf(S[e])
    BY <1>8, Zenon DEF Q
  <2>2. /\ EndOf(S[k]) \in Nat /\ EndOf(S[e]) \in Nat
        /\ EndOf(S[k]) >= base
    BY <1>1, <1>4, Zenon
  <2> QED BY <1>a, <2>1, <2>2, OffsetsOrdered, Zenon
<1> QED BY <1>10, <1>11, <1>a, Zenon

(* At the end of the stream decode_message finds nothing.                  *)
LEMMA DecodeEmpty ==
    ASSUME NEW data \in Seq(Byte), Len(data) = 0
    PROVE  decode_message(data) = None
<1>1. PICK f : Solves(f, data, Len(data)) /\ decode_message(data) = f[0]
  BY DecodeSolves, Zenon
<1>2. 0 \in 0..Len(data) /\ 0 + Len(data) >= Len(data) /\ Len(data) < 0 + 2
  OBVIOUS
<1>3. f[0] = DecodeAt(data, f, 0)
  BY <1>1, <1>2, Zenon DEF Solves
<1> QED BY <1>1, <1>2, <1>3, Zenon DEF DecodeAt

(* decode_message finds `text` once all of it, up to `end`, is there.      *)
FindsAt(data, text, end) ==
    /\ end <= Len(data) => decode_message(data) = Found(text, end)
    /\ ~(end <= Len(data)) => decode_message(data) = None

(* At a block it finds the rest of the message of that block.              *)
LEMMA DecodeFinds ==
    ASSUME NEW W \in Seq(Byte), NEW base \in Nat, NEW k \in Nat,
           NEW e \in Nat, k <= e, NEW S, Linked(S, k, e), NEW msgs,
           AllStand(W, S, k, e, msgs), S[e].last, S[k].at = base,
           NEW m \in Seq(Byte),
           NEW data \in Seq(Byte), FrontOf(data, W, base),
           NEW msg, S[k].msg = msg, m = msgs[msg]
    PROVE  FindsAt(data, SubSeq(m, S[k].from + 1, Len(m)), EndOf(S[e]) - base)
<1>1. PICK f : Solves(f, data, Len(data)) /\ decode_message(data) = f[0]
  BY DecodeSolves, Zenon
<1>2. Expected(f, Len(data), 0, SubSeq(m, S[k].from + 1, Len(m)),
               EndOf(S[e]) - base)
  BY <1>1, DecodeRun, Zenon
<1> QED BY <1>1, <1>2, Zenon DEF Expected, FindsAt

(* What has arrived is the front of the stream, which is its own front.    *)
LEMMA Fronts ==
    ASSUME NEW i \in Seq(Byte), NEW o \in Seq(Byte), NEW W \in Seq(Byte),
           NEW base \in Nat, Carried(i \o o, W, base)
    PROVE  /\ i \o o \in Seq(Byte) /\ Len(i) <= Len(i \o o)
           /\ FrontOf(i \o o, W, base) /\ FrontOf(i, W, base)
<1>1. PICK t : t = i \o o
  OBVIOUS
<1>2. /\ t \in Seq(Byte) /\ Len(t) = Len(i) + Len(o)
      /\ \A x \in 1..Len(i) : t[x] = i[x]
  BY <1>1, JoinBytes, Zenon
<1>3. Len(i) \in Nat /\ Len(o) \in Nat /\ Len(W) \in Nat
  BY LenProperties
<1>4. base + Len(t) = Len(W) /\ \A x \in 1..Len(t) : t[x] = W[base + x]
  BY <1>1, Zenon DEF Carried
<1>5. PICK a, b, w : a = Len(i) /\ b = Len(t) /\ w = Len(W)
  OBVIOUS
<1>6. a \in Nat /\ b \in Nat /\ a <= b /\ base + b <= w /\ base + a <= w
  <2>1. a \in Nat /\ Len(o) \in Nat /\ b = a + Len(o) /\ base + b = w
    BY <1>2, <1>3, <1>4, <1>5
  <2> QED BY <2>1
<1>7. \A x \in 1..a : x \in 1..b
  BY <1>6
<1>8. FrontOf(t, W, base)
  BY <1>4, <1>5, <1>6, Zenon DEF FrontOf
<1>9. FrontOf(i, W, base)
  BY <1>2, <1>4, <1>5, <1>6, <1>7, Zenon DEF FrontOf
<1> QED BY <1>1, <1>2, <1>5, <1>6, <1>8, <1>9, Zenon

(* On any stream of blocks, however much of it has arrived, decode_message *)
(* says what read_message will return: the batch decoder and the           *)
(* incremental reader never disagree while reads are in step.              *)
THEOREM DecoderAgrees == Spec => []DecodeAgrees
<1>1. ASSUME FramingInv, aligned, block = NoBlock, message = <<>>,
             NEW next, next = Len(received) + 1,
             NEW all, all = decode_message(in \o out),
             NEW now, now = decode_message(in)
      PROVE  /\ all.some <=> next <= Len(sent)
             /\ all.some =>
                  all.message = SubSeq(sent[next], lost + 1, Len(sent[next]))
             /\ now.some <=> all.some /\ all.used <= Len(in)
             /\ now.some => now = all
  <2>1. /\ InStep /\ in \in Seq(Byte) /\ out \in Seq(Byte)
        /\ Len(sent) \in Nat /\ Len(received) \in Nat /\ lost \in Nat
        /\ \A i \in 1..Len(sent) : sent[i] \in Seq(Byte)
    BY <1>1, Facts DEF FramingInv
  <2>2. PICK n, W, S, base, k : ReadingAt(n, W, S, base, k)
    BY <2>1, Zenon DEF InStep
  <2>3. /\ n \in Nat /\ W \in Seq(Byte) /\ S \in [1..(n + 1) -> Mark]
        /\ base \in Nat /\ k \in 1..(n + 1) /\ Laid(W, S, n, sent)
        /\ Carried(in \o out, W, base)
        /\ Holds(S[k], sent, received, lost, message) /\ base = S[k].at
    BY <1>1, <2>2, Zenon DEF ReadingAt, Reading
  <2>4. S[k].msg = next /\ S[k].from = lost
    <3>1. lost + Len(message) = lost
      BY <1>1, <2>1
    <3> QED BY <1>1, <2>3, <3>1, Zenon DEF Holds
  <2>5. PICK i, t : i = in /\ t = in \o out
    OBVIOUS
  <2>6. /\ i \in Seq(Byte) /\ t \in Seq(Byte) /\ Len(i) <= Len(t)
        /\ FrontOf(t, W, base) /\ FrontOf(i, W, base)
    BY <2>1, <2>3, <2>5, Fronts, Zenon
  <2>7. Len(i) \in Nat /\ Len(t) \in Nat /\ Len(W) \in Nat
        /\ base + Len(t) = Len(W)
    BY <2>3, <2>5, <2>6, LenProperties DEF Carried
  <2>8. CASE k = n + 1
    <3>1. base = Len(W) /\ next = Len(sent) + 1
      BY <2>3, <2>4, <2>8, Zenon DEF Laid
    <3>2. Len(t) = 0 /\ Len(i) = 0
      <4>1. PICK a, b : a = Len(i) /\ b = Len(t)
        OBVIOUS
      <4>2. a \in Nat /\ b \in Nat /\ a <= b /\ base + b = base
        BY <2>6, <2>7, <3>1, <4>1
      <4>3. a = 0 /\ b = 0
        BY <2>3, <4>2
      <4> QED BY <4>1, <4>3
    <3>3. all = None /\ now = None
      BY <1>1, <2>5, <2>6, <3>2, DecodeEmpty, Zenon
    <3>4. ~all.some /\ ~now.some
      BY <3>3, FoundFields, Zenon
    <3>5. ~(next <= Len(sent))
      BY <2>1, <3>1
    <3> QED BY <3>4, <3>5, Zenon
  <2>9. CASE k # n + 1
    <3>1. k \in 1..n /\ k \in Nat
      BY <2>3, <2>9
    <3>2. PICK e \in k..n : S[e].last /\ Linked(S, k, e)
      BY <2>1, <2>3, <3>1, LastBlock, Zenon
    <3>3. e \in Nat /\ k <= e /\ e \in 1..n /\ \A x \in k..e : x \in 1..n
      BY <2>3, <3>1
    <3>4. AllStand(W, S, k, e, sent) /\ Stands(W, S[k], sent)
          /\ Stands(W, S[e], sent) /\ S[e] \in Mark
      <4>1. \A x \in 1..n : Stands(W, S[x], sent)
        BY <2>3, Zenon DEF Laid
      <4>2. S[e] \in Mark
        BY <2>3, <3>3
      <4> QED BY <3>1, <3>3, <4>1, <4>2, Zenon DEF AllStand
    <3>5. next \in 1..Len(sent)
      BY <2>4, <3>4, Zenon DEF Stands
    <3>6. PICK m, text, end :
            /\ m = sent[next] /\ text = SubSeq(m, S[k].from + 1, Len(m))
            /\ end = EndOf(S[e]) - base
      OBVIOUS
    <3>7. m \in Seq(Byte) /\ m = sent[next] /\ S[k].at = base
      BY <2>1, <2>3, <2>4, <3>5, <3>6, Zenon
    <3>8. /\ end <= Len(t) => all = Found(text, end)
          /\ end <= Len(i) => now = Found(text, end)
          /\ ~(end <= Len(i)) => now = None
      <4>1. ASSUME NEW data \in Seq(Byte), FrontOf(data, W, base)
            PROVE  FindsAt(data, text, end)
        <5>1. W \in Seq(Byte) /\ base \in Nat
          BY <2>3
        <5>2. FindsAt(data, SubSeq(m, S[k].from + 1, Len(m)),
                      EndOf(S[e]) - base)
          BY <5>1, <4>1, <2>4, <3>1, <3>2, <3>3, <3>4, <3>6, <3>7,
             DecodeFinds, Zenon
        <5> QED BY <3>6, <5>2, Zenon
      <4>2. FindsAt(t, text, end) /\ FindsAt(i, text, end)
        BY <2>6, <4>1, Zenon
      <4> QED BY <1>1, <2>5, <4>2, Zenon DEF FindsAt
    <3>9. end <= Len(t)
      <4>1. PICK x, b, w : x = EndOf(S[e]) /\ b = Len(t) /\ w = Len(W)
        OBVIOUS
      <4>2. x \in Nat
        BY <3>4, <4>1 DEF EndOf, Mark
      <4>3. x <= w
        BY <3>4, <4>1, Zenon DEF Stands
      <4>4. b \in Nat /\ w \in Nat /\ base + b = w /\ end = x - base
        BY <2>7, <3>6, <4>1
      <4>5. end <= b
        BY <2>3, <4>2, <4>3, <4>4
      <4> QED BY <4>1, <4>5
    <3>10. all = Found(text, end)
      BY <3>8, <3>9, Zenon
    <3>11. all.some
      BY <3>10, FoundFields, Zenon
    <3>12. all.message = text /\ all.used = end
      BY <3>10, FoundFields, Zenon
    <3>13. text = SubSeq(sent[next], lost + 1, Len(sent[next]))
      BY <2>4, <3>6, Zenon
    <3>14. next <= Len(sent)
      BY <2>1, <3>5
    <3>15. CASE end <= Len(i)
      <4>1. now = all
        BY <3>8, <3>10, <3>15, Zenon
      <4> QED
        BY <2>5, <3>11, <3>12, <3>13, <3>14, <3>15, <4>1, Zenon
    <3>16. CASE ~(end <= Len(i))
      <4>1. now = None
        BY <3>8, <3>16, Zenon
      <4>2. ~now.some
        BY <4>1, FoundFields, Zenon
      <4> QED
        BY <2>5, <3>11, <3>12, <3>13, <3>14, <3>16, <4>2, Zenon
    <3> QED BY <3>15, <3>16
  <2> QED BY <2>8, <2>9
<1>2. FramingInv => DecodeAgrees
  BY <1>1, Zenon DEF DecodeAgrees
<1> QED BY <1>2, FramingInductive, PTL
=============================================================================
