--------------------------- MODULE SequenceLemmas ---------------------------
(***************************************************************************)
(* Facts about sequences that the proofs of several components need: what  *)
(* FlattenSeq returns, and what a recursive function that reads a sequence *)
(* from left to right returns.                                             *)
(***************************************************************************)
EXTENDS SequencesExt, SequenceTheorems, NaturalsInduction,
        WellFoundedInduction, TLAPS

(* A nonempty set of numbers has a least element.                          *)
LEMMA LeastNumber ==
    ASSUME NEW S \in SUBSET Nat, S # {}
    PROVE  \E k \in S : \A j \in S : k <= j
<1> DEFINE Less == OpToRel(<, Nat)
<1>1. IsWellFoundedOn(Less, Nat)
  BY NatLessThanWellFounded
<1>2. \A x, y \in Nat : x < y => <<x, y>> \in Less
  BY DEF OpToRel
<1> HIDE DEF Less
<1>3. PICK k \in S : \A j \in S : <<j, k>> \notin Less
  BY <1>1, WFMin
<1>4. \A j \in S : k <= j
  <2> TAKE j \in S
  <2>1. j \in Nat /\ k \in Nat /\ ~(j < k)
    BY <1>2, <1>3
  <2> QED BY <2>1
<1> QED BY <1>4

(* What FlattenSeq computes for the first n of the sequences s.            *)
Joins(g, s, n) ==
    \A i \in 1..n : g[i] = IF i = 1 THEN s[i] ELSE g[i - 1] \o s[i]

(* There is such a function.                                               *)
LEMMA JoinsExist ==
    ASSUME NEW T, NEW s \in Seq(Seq(T)), NEW n \in 1..Len(s)
    PROVE  \E g \in [1..n -> Seq(T)] : Joins(g, s, n)
<1> DEFINE P(m) == \E g \in [1..m -> Seq(T)] : Joins(g, s, m)
           bad == {m \in 1..Len(s) : ~P(m)}
<1>1. Len(s) \in Nat /\ \A i \in 1..Len(s) : s[i] \in Seq(T)
  BY LenProperties, ElementOfSeq
<1>2. SUFFICES ASSUME bad # {} PROVE FALSE
  BY <1>2
<1>3. PICK k \in bad : \A j \in bad : k <= j
  <2>1. bad \in SUBSET Nat
    BY <1>1
  <2> HIDE DEF bad
  <2> QED BY <1>2, <2>1, LeastNumber
<1>4. k \in 1..Len(s) /\ ~P(k)
  BY <1>3
<1>5. CASE k = 1
  <2> DEFINE g == [i \in 1..1 |-> s[1]]
  <2>1. g \in [1..1 -> Seq(T)]
    BY <1>1, <1>4, <1>5
  <2>2. Joins(g, s, 1)
    BY <1>1 DEF Joins
  <2> QED BY <2>1, <2>2, <1>4, <1>5
<1>6. CASE k # 1
  <2>1. k - 1 \in 1..Len(s) /\ k - 1 \notin bad
    <3> HIDE DEF bad, P
    <3>1. k \in Nat /\ ~(k <= k - 1) /\ k - 1 \in 1..Len(s)
      BY <1>1, <1>4, <1>6
    <3> QED BY <3>1, <1>3
  <2>2. PICK h \in [1..(k - 1) -> Seq(T)] : Joins(h, s, k - 1)
    BY <2>1
  <2> DEFINE g == [i \in 1..k |-> IF i = k THEN h[k - 1] \o s[k] ELSE h[i]]
  <2>3. h[k - 1] \o s[k] \in Seq(T)
    BY <1>1, <1>4, <2>1, ConcatProperties
  <2>4. g \in [1..k -> Seq(T)]
    BY <1>1, <1>4, <2>3
  <2>5. \A i \in 1..k : g[i] = IF i = 1 THEN s[i] ELSE g[i - 1] \o s[i]
    <3> TAKE i \in 1..k
    <3>1. CASE i = k
      <4>1. k - 1 \in 1..k /\ k - 1 # k
        BY <1>1, <1>4, <1>6
      <4>2. g[k - 1] = h[k - 1]
        BY <4>1
      <4> QED BY <3>1, <4>2, <1>6
    <3>2. CASE i # k
      <4>1. i \in 1..(k - 1)
        BY <1>1, <1>4, <3>2
      <4>2. CASE i = 1
        BY <4>1, <4>2, <2>2, <3>2 DEF Joins
      <4>3. CASE i # 1
        <5>1. i - 1 \in 1..k /\ i - 1 # k
          BY <4>1, <4>3, <1>4, <1>1
        <5>2. g[i - 1] = h[i - 1]
          BY <5>1
        <5> QED BY <4>1, <4>3, <5>2, <2>2, <3>2 DEF Joins
      <4> QED BY <4>2, <4>3
    <3> QED BY <3>1, <3>2
  <2> QED BY <2>4, <2>5, <1>4 DEF Joins
<1> QED BY <1>5, <1>6

(* FlattenSeq is the last of the partial concatenations.                   *)
LEMMA FlattenJoins ==
    ASSUME NEW T, NEW s \in Seq(Seq(T)), Len(s) > 0
    PROVE  \E g : Joins(g, s, Len(s)) /\ FlattenSeq(s) = g[Len(s)]
<1> DEFINE D(f) == [i \in 1..Len(s) |->
                      IF i = 1 THEN s[i] ELSE f[i - 1] \o s[i]]
           flatten == CHOOSE f : f = D(f)
<1>1. Len(s) \in Nat /\ Len(s) \in 1..Len(s)
  BY LenProperties
<1>2. PICK g \in [1..Len(s) -> Seq(T)] : Joins(g, s, Len(s))
  BY <1>1, JoinsExist
<1>3. g = D(g)
  BY <1>2 DEF Joins
<1>4. flatten = D(flatten)
  BY <1>3, Zenon
<1>5. Joins(flatten, s, Len(s))
  <2> HIDE DEF flatten
  <2>1. \A i \in 1..Len(s) :
          D(flatten)[i] = IF i = 1 THEN s[i] ELSE flatten[i - 1] \o s[i]
    BY Zenon
  <2> QED BY <1>4, <2>1, Zenon DEF Joins
<1>6. FlattenSeq(s) = flatten[Len(s)]
  <2>1. Len(s) # 0
    BY <1>1
  <2> QED BY <2>1, Zenon DEF FlattenSeq
<1> QED BY <1>5, <1>6, Zenon

(* The sequences s, one behind the other, begin behind the places at.      *)
Places(s, at) ==
    /\ at[1] = 0
    /\ \A i \in 1..Len(s) : at[i + 1] = at[i] + Len(s[i])

(* Sequence i of s stands in FlattenSeq(s) behind place at[i].             *)
LEMMA FlattenPlaces ==
    ASSUME NEW T, NEW s \in Seq(Seq(T)), Len(s) > 0,
           NEW at \in [1..(Len(s) + 1) -> Nat], Places(s, at)
    PROVE  /\ FlattenSeq(s) \in Seq(T)
           /\ Len(FlattenSeq(s)) = at[Len(s) + 1]
           /\ \A i \in 1..Len(s) : \A j \in 1..Len(s[i]) :
                FlattenSeq(s)[at[i] + j] = s[i][j]
<1> PICK g : Joins(g, s, Len(s)) /\ FlattenSeq(s) = g[Len(s)]
  BY FlattenJoins
<1> DEFINE Q(m) == /\ g[m] \in Seq(T) /\ Len(g[m]) = at[m + 1]
                   /\ \A i \in 1..m : at[i + 1] <= at[m + 1]
                   /\ \A i \in 1..m : \A j \in 1..Len(s[i]) :
                        g[m][at[i] + j] = s[i][j]
           bad == {m \in 1..Len(s) : ~Q(m)}
<1>1. /\ Len(s) \in Nat
      /\ \A i \in 1..Len(s) : s[i] \in Seq(T) /\ Len(s[i]) \in Nat
  BY LenProperties, ElementOfSeq
<1>2. \A i \in 1..(Len(s) + 1) : at[i] \in Nat
  OBVIOUS
<1>3. ASSUME bad # {} PROVE FALSE
  <2>1. PICK k \in bad : \A j \in bad : k <= j
    <3>1. bad \in SUBSET Nat
      BY <1>1
    <3> HIDE DEF bad
    <3> QED BY <1>3, <3>1, LeastNumber
  <2>2. k \in 1..Len(s) /\ ~Q(k)
    BY <2>1
  <2>3. CASE k = 1
    <3>1. g[1] = s[1] /\ 1 \in 1..Len(s)
      BY <1>1, <2>2, <2>3 DEF Joins
    <3>2. at[1 + 1] = Len(s[1])
      BY <1>1, <1>2, <3>1 DEF Places
    <3>3. at[1 + 1] <= at[1 + 1]
      BY <1>1, <3>1, <3>2
    <3>4. \A j \in 1..Len(s[1]) : at[1] + j = j
      BY <1>1, <3>1 DEF Places
    <3> QED BY <1>1, <2>2, <2>3, <3>1, <3>2, <3>3, <3>4
  <2>4. CASE k # 1
    <3> DEFINE h == g[k - 1]
    <3>1. /\ k \in Nat /\ k \in 1..Len(s) /\ k - 1 \in 1..Len(s)
          /\ ~(k <= k - 1) /\ (k - 1) + 1 = k
      <4>1. k \in 1..Len(s) /\ Len(s) \in Nat
        BY <1>1, <2>2
      <4> HIDE DEF Q, bad
      <4> QED BY <4>1, <2>4
    <3>2. k - 1 \notin bad
      <4> HIDE DEF bad
      <4> QED BY <3>1, <2>1
    <3>3. Q(k - 1)
      BY <3>1, <3>2
    <3>4. h \in Seq(T) /\ Len(h) = at[k]
      BY <3>1, <3>3
    <3>5. \A i \in 1..(k - 1) : at[i + 1] <= at[k]
      BY <3>1, <3>3
    <3>6. \A i \in 1..(k - 1) : \A j \in 1..Len(s[i]) : h[at[i] + j] = s[i][j]
      BY <3>3
    <3>7. g[k] = h \o s[k]
      BY <2>2, <2>4 DEF Joins
    <3> HIDE DEF Q, bad, h
    <3>8. s[k] \in Seq(T) /\ Len(s[k]) \in Nat
      BY <1>1, <2>2
    <3>9. at[k + 1] = at[k] + Len(s[k]) /\ at[k] \in Nat
      BY <1>1, <1>2, <2>2 DEF Places
    <3>x. PICK t : t = s[k]
      OBVIOUS
    <3>y. h \o t \in Seq(T) /\ Len(h \o t) = Len(h) + Len(t)
      BY <3>4, <3>8, <3>x, ConcatProperties
    <3>z. \A i \in 1..Len(h) + Len(t) :
            (h \o t)[i] = IF i <= Len(h) THEN h[i] ELSE t[i - Len(h)]
      BY <3>4, <3>8, <3>x, ConcatProperties
    <3>10. g[k] \in Seq(T) /\ Len(g[k]) = at[k + 1]
      BY <3>4, <3>7, <3>9, <3>x, <3>y
    <3>11. \A i \in 1..Len(h) + Len(s[k]) :
             g[k][i] = IF i <= Len(h) THEN h[i] ELSE s[k][i - Len(h)]
      BY <3>7, <3>x, <3>z, Zenon
    <3>12. \A i \in 1..k : at[i + 1] <= at[k + 1]
      <4> TAKE i \in 1..k
      <4>1. CASE i = k
        BY <4>1, <3>8, <3>9
      <4>2. CASE i # k
        <5>1. i \in 1..(k - 1) /\ i + 1 \in 1..(Len(s) + 1)
          BY <4>2, <3>1, <1>1
        <5>2. at[i + 1] \in Nat /\ at[i + 1] <= at[k]
          BY <5>1, <1>2, <3>5
        <5> QED BY <5>2, <3>8, <3>9
      <4> QED BY <4>1, <4>2
    <3>13. \A i \in 1..k : \A j \in 1..Len(s[i]) : g[k][at[i] + j] = s[i][j]
      <4> TAKE i \in 1..k
      <4> TAKE j \in 1..Len(s[i])
      <4>y. i \in 1..Len(s) /\ i \in 1..(Len(s) + 1)
        BY <3>1, <1>1
      <4>0. i \in 1..Len(s) /\ Len(s[i]) \in Nat /\ at[i] \in Nat
        BY <4>y, <1>1, <1>2
      <4>1. CASE i = k
        <5>1. at[k] + j \in 1..Len(h) + Len(s[k]) /\ ~(at[k] + j <= Len(h))
              /\ (at[k] + j) - Len(h) = j
          BY <4>0, <4>1, <3>4, <3>9
        <5> QED BY <5>1, <4>1, <3>11
      <4>2. CASE i # k
        <5>1. i \in 1..(k - 1)
          BY <4>2, <3>1
        <5>2. at[i] + Len(s[i]) <= at[k]
          BY <5>1, <4>0, <3>5 DEF Places
        <5>3. at[i] + j \in 1..Len(h) + Len(s[k]) /\ at[i] + j <= Len(h)
          <6>1. PICK a, l, m, b : a = at[i] /\ l = Len(s[i]) /\ m = Len(h)
                                 /\ b = Len(s[k])
            OBVIOUS
          <6>2. a \in Nat /\ l \in Nat /\ m \in Nat /\ b \in Nat /\ a + l <= m
            BY <6>1, <4>0, <5>2, <3>4, <3>8, <3>9
          <6>3. j \in 1..l
            BY <6>1
          <6>4. a + j \in 1..m + b /\ a + j <= m
            BY <6>2, <6>3
          <6> QED BY <6>1, <6>4
        <5>4. g[k][at[i] + j] = h[at[i] + j]
          BY <5>3, <3>11
        <5> QED BY <5>1, <5>4, <3>6
      <4> QED BY <4>1, <4>2
    <3> QED BY <3>10, <3>12, <3>13, <2>2 DEF Q
  <2> QED BY <2>3, <2>4
<1>4. Q(Len(s))
  <2>1. Len(s) \in 1..Len(s)
    BY <1>1
  <2> QED BY <1>3, <2>1
<1> QED BY <1>4

-----------------------------------------------------------------------------
(* Growing the sequence by one element.                                    *)

(* Append, element by element.                                             *)
LEMMA Grown ==
    ASSUME NEW T, NEW s \in Seq(T), NEW x \in T
    PROVE  /\ Append(s, x) \in Seq(T)
           /\ Len(s) \in Nat
           /\ Len(Append(s, x)) = Len(s) + 1
           /\ \A i \in 1..Len(s) : Append(s, x)[i] = s[i]
           /\ Append(s, x)[Len(s) + 1] = x
BY AppendProperties, LenProperties

(* What holds of the empty sequence, and of one element more whenever it   *)
(* holds of a sequence, holds of all of them.                              *)
LEMMA SequenceInduction ==
    ASSUME NEW T, NEW S, <<>> \in S,
           \A s \in Seq(T) : \A x \in T : s \in S => Append(s, x) \in S
    PROVE  \A s \in Seq(T) : s \in S
<1> DEFINE bad == {n \in Nat : \E s \in Seq(T) : Len(s) = n /\ s \notin S}
<1>1. ASSUME bad # {} PROVE FALSE
  <2>1. PICK k \in bad : \A j \in bad : k <= j
    <3>1. bad \in SUBSET Nat
      OBVIOUS
    <3> HIDE DEF bad
    <3> QED BY <1>1, <3>1, LeastNumber
  <2>2. PICK t \in Seq(T) : Len(t) = k /\ t \notin S
    BY <2>1
  <2>3. PICK s \in Seq(T), x \in T : t = Append(s, x)
    <3>1. t # <<>>
      BY <2>2
    <3> QED BY <3>1, SequenceEmptyOrAppend
  <2>4. Len(s) \in Nat /\ k = Len(s) + 1
    BY <2>2, <2>3, AppendProperties, LenProperties
  <2>5. s \notin S
    BY <2>2, <2>3
  <2>6. Len(s) \in bad
    BY <2>4, <2>5
  <2> HIDE DEF bad
  <2> QED BY <2>1, <2>4, <2>6
<1>2. ASSUME NEW s \in Seq(T), s \notin S PROVE bad # {}
  BY <1>2, LenProperties
<1> HIDE DEF bad
<1> QED BY <1>1, <1>2

(* Append to a concatenation.                                              *)
LEMMA ConcatAppend ==
    ASSUME NEW T, NEW s \in Seq(T), NEW t \in Seq(T), NEW x \in T
    PROVE  s \o Append(t, x) = Append(s \o t, x)
<1>1. PICK u, e : u = s \o t /\ e = <<x>>
  OBVIOUS
<1>2. e \in Seq(T) /\ u \in Seq(T)
  BY <1>1, ConcatProperties
<1>3. Append(t, x) = t \o e /\ Append(u, x) = u \o e
  BY <1>1, <1>2, AppendIsConcat
<1>4. s \o (t \o e) = (s \o t) \o e
  BY <1>2, ConcatAssociative
<1> QED BY <1>1, <1>3, <1>4

(* s with one element more, or with two.                                   *)
One(T, s, x) ==
    /\ <<x>> \in Seq(T) /\ Append(s, x) \in Seq(T)
    /\ s \o <<x>> = Append(s, x)
Two(T, s, x, y) ==
    /\ <<x, y>> \in Seq(T) /\ Append(Append(s, x), y) \in Seq(T)
    /\ s \o <<x, y>> = Append(Append(s, x), y)

(* Concatenation with one element appends it.                              *)
LEMMA ConcatOne ==
    ASSUME NEW T, NEW s \in Seq(T), NEW x \in T
    PROVE  One(T, s, x)
<1>1. s \o <<x>> = Append(s, x)
  BY AppendIsConcat
<1>2. <<x>> \in Seq(T) /\ Append(s, x) \in Seq(T)
  OBVIOUS
<1> QED BY <1>1, <1>2 DEF One

(* Concatenation with two elements appends both.                           *)
LEMMA ConcatTwo ==
    ASSUME NEW T, NEW s \in Seq(T), NEW x \in T, NEW y \in T
    PROVE  Two(T, s, x, y)
<1>1. <<x>> \in Seq(T) /\ <<x, y>> = Append(<<x>>, y) /\ <<x, y>> \in Seq(T)
  OBVIOUS
<1>2. s \o Append(<<x>>, y) = Append(s \o <<x>>, y)
  BY <1>1, ConcatAppend
<1>3. s \o <<x>> = Append(s, x)
  BY AppendIsConcat
<1>4. Append(Append(s, x), y) \in Seq(T)
  OBVIOUS
<1> QED BY <1>1, <1>2, <1>3, <1>4 DEF Two

(* Three elements, one by one.                                             *)
LEMMA TupleOfThree ==
    ASSUME NEW T, NEW x \in T, NEW y \in T, NEW z \in T
    PROVE  <<x, y, z>> \in Seq(T) /\ Append(<<x, y>>, z) = <<x, y, z>>
<1>1. PICK a, b : a = Append(<<x, y>>, z) /\ b = <<x, y, z>>
  OBVIOUS
<1>2. <<x, y>> \in Seq(T) /\ Len(<<x, y>>) = 2
  OBVIOUS
<1>3. a \in Seq(T) /\ Len(a) = 3
  BY <1>1, <1>2, AppendProperties
<1>4. a[1] = x /\ a[2] = y /\ a[3] = z
  <2>1. PICK d : d = <<x, y>>
    OBVIOUS
  <2>2. d \in Seq(T) /\ Len(d) = 2 /\ d[1] = x /\ d[2] = y
    BY <2>1
  <2>3. 1 \in 1..Len(d) /\ 2 \in 1..Len(d) /\ Len(d) + 1 = 3
    BY <2>2
  <2>4. a = Append(d, z)
    BY <2>1, <1>1
  <2>5. /\ \A i \in 1..Len(d) : Append(d, z)[i] = d[i]
        /\ Append(d, z)[Len(d) + 1] = z
    <3>1. d \in Seq(T)
      BY <2>2
    <3> QED BY <3>1, AppendProperties, LenProperties
  <2> QED BY <2>2, <2>3, <2>4, <2>5
<1>5. <<x, y, z>> \in Seq(T) /\ Len(<<x, y, z>>) = 3
  OBVIOUS
<1>6. <<x, y, z>>[1] = x /\ <<x, y, z>>[2] = y /\ <<x, y, z>>[3] = z
  OBVIOUS
<1>7. b \in Seq(T) /\ Len(b) = 3 /\ b[1] = x /\ b[2] = y /\ b[3] = z
  BY <1>5, <1>6, <1>1
<1>8. a = b
  BY <1>3, <1>4, <1>7
<1> QED BY <1>1, <1>5, <1>8

(* And a sequence of three.                                                *)
Three(T, s, x, y, z) ==
    /\ <<x, y, z>> \in Seq(T) /\ Append(Append(Append(s, x), y), z) \in Seq(T)
    /\ s \o <<x, y, z>> = Append(Append(Append(s, x), y), z)

LEMMA ConcatThree ==
    ASSUME NEW T, NEW s \in Seq(T), NEW x \in T, NEW y \in T, NEW z \in T
    PROVE  Three(T, s, x, y, z)
<1>1. PICK e : e = <<x, y>>
  OBVIOUS
<1>2. e \in Seq(T) /\ s \o e = Append(Append(s, x), y)
  <2>1. Two(T, s, x, y)
    BY ConcatTwo, Zenon
  <2> QED BY <2>1, <1>1 DEF Two
<1>3. Append(e, z) = <<x, y, z>>
  <2>1. Append(<<x, y>>, z) = <<x, y, z>>
    BY TupleOfThree
  <2> QED BY <1>1, <2>1
<1>4. s \o Append(e, z) = Append(s \o e, z)
  <2>1. e \in Seq(T)
    BY <1>2
  <2> QED BY <2>1, ConcatAppend
<1>5. Append(e, z) \in Seq(T)
  BY <1>2
<1>6. Append(Append(Append(s, x), y), z) \in Seq(T)
  OBVIOUS
<1> QED BY <1>2, <1>3, <1>4, <1>5, <1>6, Zenon DEF Three

(* The first element in front of two sequences, taken off again.           *)
LEMMA TailOfConcat ==
    ASSUME NEW T, NEW h \in T, NEW s \in Seq(T), NEW e \in Seq(T)
    PROVE  Tail(<<h>> \o s \o e) = s \o e
<1>1. PICK d, t, l : d = s \o e /\ t = <<h>> \o s \o e /\ l = Len(s) + Len(e)
  OBVIOUS
<1>2. d \in Seq(T) /\ Len(d) = l /\ l \in Nat
  BY <1>1
<1>3. t = <<h>> \o d
  BY <1>1
<1>4. t \in Seq(T) /\ Len(t) = l + 1 /\ \A i \in 1..l : t[i + 1] = d[i]
  BY <1>2, <1>3
<1>5. /\ Tail(t) \in Seq(T) /\ Len(Tail(t)) = l
      /\ \A i \in 1..l : Tail(t)[i] = t[i + 1]
  BY <1>2, <1>4
<1>6. Tail(t) = d
  BY <1>2, <1>4, <1>5
<1> QED BY <1>1, <1>6

(* The first h values of a function, as a sequence.                        *)
First(f, h) == [j \in 1..h |-> f[j]]

FirstLaw(T, f, h) ==
    /\ First(f, 0) = <<>>
    /\ First(f, h) \in Seq(T) /\ First(f, h + 1) \in Seq(T)
    /\ Append(First(f, h), f[h + 1]) = First(f, h + 1)

LEMMA FirstAppend ==
    ASSUME NEW T, NEW f, NEW h \in Nat, \A j \in 1..(h + 1) : f[j] \in T
    PROVE  FirstLaw(T, f, h)
<1>1. PICK s, t, x : s = First(f, h) /\ t = First(f, h + 1) /\ x = f[h + 1]
  OBVIOUS
<1>2. /\ s \in Seq(T) /\ Len(s) = h /\ \A j \in 1..h : s[j] = f[j]
  BY <1>1 DEF First
<1>3. /\ t \in Seq(T) /\ Len(t) = h + 1 /\ \A j \in 1..(h + 1) : t[j] = f[j]
  BY <1>1 DEF First
<1>4. x \in T /\ x = f[h + 1]
  BY <1>1
<1>5. PICK e : e = Append(s, x)
  OBVIOUS
<1>6. /\ e \in Seq(T) /\ Len(e) = h + 1 /\ \A j \in 1..h : e[j] = s[j]
      /\ e[h + 1] = x
  <2>1. /\ Append(s, x) \in Seq(T) /\ Len(Append(s, x)) = Len(s) + 1
        /\ \A j \in 1..Len(s) : Append(s, x)[j] = s[j]
        /\ Append(s, x)[Len(s) + 1] = x
    BY <1>2, <1>4, Grown
  <2> QED BY <2>1, <1>2, <1>5
<1>7. \A j \in 1..(h + 1) : e[j] = t[j]
  <2> TAKE j \in 1..(h + 1)
  <2>1. j \in 1..h \/ j = h + 1
    OBVIOUS
  <2> QED BY <2>1, <1>2, <1>3, <1>4, <1>6
<1>8. e = t
  BY <1>3, <1>6, <1>7
<1>9. First(f, 0) = <<>>
  BY DEF First
<1> QED BY <1>1, <1>2, <1>3, <1>5, <1>8, <1>9 DEF FirstLaw

(* Three sequences behind a fourth, grouped either way.                    *)
Regroups(T, s, q, d, e) ==
    /\ (q \o d) \o e \in Seq(T)
    /\ s \o ((q \o d) \o e) = ((s \o q) \o d) \o e

LEMMA Regrouped ==
    ASSUME NEW T, NEW s \in Seq(T), NEW q \in Seq(T), NEW d \in Seq(T),
           NEW e \in Seq(T)
    PROVE  Regroups(T, s, q, d, e)
<1>1. (q \o d) \o e \in Seq(T)
  OBVIOUS
<1>2. s \o ((q \o d) \o e) = ((s \o q) \o d) \o e
  OBVIOUS
<1> QED BY <1>1, <1>2, Zenon DEF Regroups

(* The first elements of a sequence, one by one.                           *)
LEMMA PrefixGrows ==
    ASSUME NEW T, NEW s \in Seq(T)
    PROVE  /\ SubSeq(s, 1, 0) = <<>>
           /\ SubSeq(s, 1, Len(s)) = s
           /\ \A i \in 0..Len(s) : /\ SubSeq(s, 1, i) \in Seq(T)
                                   /\ Len(SubSeq(s, 1, i)) = i
           /\ \A i \in 0..(Len(s) - 1) :
                SubSeq(s, 1, i + 1) = Append(SubSeq(s, 1, i), s[i + 1])
<1>1. Len(s) \in Nat /\ \A i \in 1..Len(s) : s[i] \in T
  BY LenProperties, ElementOfSeq
<1>2. SubSeq(s, 1, 0) = <<>> /\ SubSeq(s, 1, Len(s)) = s
  BY SubSeqEmpty, SubSeqFull
<1>3. ASSUME NEW i \in 0..Len(s)
      PROVE  SubSeq(s, 1, i) \in Seq(T) /\ Len(SubSeq(s, 1, i)) = i
  <2>1. i \in Int /\ 1 \in Int /\ \A j \in 1..i : s[j] \in T
    BY <1>1
  <2>2. /\ SubSeq(s, 1, i) \in Seq(T)
        /\ Len(SubSeq(s, 1, i)) = IF 1 <= i THEN i - 1 + 1 ELSE 0
    BY <2>1, SubSeqProperties
  <2> QED BY <2>2
<1>4. ASSUME NEW i \in 0..(Len(s) - 1)
      PROVE  SubSeq(s, 1, i + 1) = Append(SubSeq(s, 1, i), s[i + 1])
  <2>1. /\ 1 \in 1..Len(s) /\ i + 1 \in 1..Len(s) /\ (i + 1) - 1 = i
        /\ i \in 0..Len(s)
    BY <1>1
  <2>2. SubSeq(s, 1, i + 1) = SubSeq(s, 1, i) \o <<s[i + 1]>>
    BY <2>1, SubSeqRecursiveSecond
  <2>3. SubSeq(s, 1, i) \in Seq(T) /\ s[i + 1] \in T
    BY <2>1, <1>1, <1>3
  <2> QED BY <2>2, <2>3, AppendIsConcat
<1> QED BY <1>2, <1>3, <1>4

(* Nothing joined is nothing.                                              *)
LEMMA FlattenEmpty == FlattenSeq(<<>>) = <<>>
BY EmptySeq DEF FlattenSeq

(* FlattenSeq of one sequence more is the concatenation with it.           *)
LEMMA FlattenAppend ==
    ASSUME NEW T, NEW s \in Seq(Seq(T)), NEW x \in Seq(T)
    PROVE  /\ FlattenSeq(s) \in Seq(T)
           /\ FlattenSeq(Append(s, x)) = FlattenSeq(s) \o x
<1> DEFINE n == Len(s)
           s1 == Append(s, x)
<1>1. /\ n \in Nat /\ s1 \in Seq(Seq(T)) /\ Len(s1) = n + 1
      /\ \A i \in 1..n : s1[i] = s[i]
      /\ s1[n + 1] = x
  BY Grown
<1> HIDE DEF s1
<1>2. PICK h : Joins(h, s1, n + 1) /\ FlattenSeq(s1) = h[n + 1]
  <2>1. Len(s1) > 0
    BY <1>1
  <2>2. \E h : Joins(h, s1, Len(s1)) /\ FlattenSeq(s1) = h[Len(s1)]
    BY <2>1, <1>1, FlattenJoins, Zenon
  <2> QED BY <2>2, <1>1
<1>3. CASE n = 0
  <2>1. s = <<>>
    BY <1>3, EmptySeq
  <2>2. h[1] = x
    BY <1>1, <1>2, <1>3 DEF Joins
  <2>3. FlattenSeq(s) = <<>> /\ <<>> \o x = x /\ <<>> \in Seq(T)
    BY <2>1, FlattenEmpty, ConcatEmptySeq, EmptySeq
  <2> QED BY <1>1, <1>2, <1>3, <2>2, <2>3 DEF s1
<1>4. CASE n # 0
  <2>1. PICK g : Joins(g, s, n) /\ FlattenSeq(s) = g[n]
    <3>1. Len(s) > 0
      BY <1>1, <1>4
    <3> QED BY <3>1, FlattenJoins, Zenon
  <2> DEFINE bad == {i \in 1..n : g[i] # h[i] \/ g[i] \notin Seq(T)}
  <2>2. SUFFICES ASSUME bad # {} PROVE FALSE
    <3>1. n \in 1..n /\ n + 1 \in 1..(n + 1) /\ n + 1 # 1 /\ (n + 1) - 1 = n
      BY <1>1, <1>4
    <3>2. g[n] = h[n] /\ g[n] \in Seq(T)
      BY <3>1, <2>2
    <3>3. h[n + 1] = h[n] \o s1[n + 1]
      BY <3>1, <1>2 DEF Joins
    <3> QED BY <3>2, <3>3, <2>1, <1>1, <1>2, Zenon DEF s1
  <2>3. PICK k \in bad : \A j \in bad : k <= j
    <3>1. bad \in SUBSET Nat
      BY <1>1
    <3> HIDE DEF bad
    <3> QED BY <2>2, <3>1, LeastNumber
  <2>4. k \in 1..n /\ k \in 1..(n + 1) /\ s[k] \in Seq(T) /\ s1[k] = s[k]
    BY <2>3, <1>1, ElementOfSeq
  <2>5. CASE k = 1
    <3>1. g[k] = s[k] /\ h[k] = s[k]
      BY <2>5, <2>4, <2>1, <1>2 DEF Joins
    <3> QED BY <3>1, <2>4, <2>3
  <2>6. CASE k # 1
    <3>1. k - 1 \in 1..n /\ ~(k <= k - 1)
      BY <2>4, <2>6, <1>1
    <3>2. k - 1 \notin bad
      <4> HIDE DEF bad
      <4> QED BY <3>1, <2>3
    <3>3. g[k - 1] = h[k - 1] /\ g[k - 1] \in Seq(T)
      BY <3>1, <3>2
    <3>4. g[k] = g[k - 1] \o s[k] /\ h[k] = h[k - 1] \o s1[k]
      BY <2>4, <2>6, <2>1, <1>2 DEF Joins
    <3>5. g[k] = h[k] /\ g[k] \in Seq(T)
      <4>1. PICK a, t : a = g[k - 1] /\ t = s[k]
        OBVIOUS
      <4>2. a \o t \in Seq(T)
        BY <4>1, <3>3, <2>4, ConcatProperties
      <4> QED BY <4>1, <4>2, <3>3, <3>4, <2>4, Zenon
    <3> QED BY <3>5, <2>3
  <2> QED BY <2>5, <2>6
<1> QED BY <1>3, <1>4

(* The sequences that f gives for the elements of s, joined.               *)
Joined(f, s) == FlattenSeq([i \in 1..Len(s) |-> f[s[i]]])

(* How joining begins, and goes on with one element more.                  *)
JoinLaw(f, s, c, T) ==
    /\ Joined(f, <<>>) = <<>>
    /\ Joined(f, s) \in Seq(T)
    /\ Joined(f, Append(s, c)) = Joined(f, s) \o f[c]

(* Joining follows that law.                                               *)
LEMMA JoinedAppend ==
    ASSUME NEW C, NEW T, NEW f \in [C -> Seq(T)], NEW s \in Seq(C), NEW c \in C
    PROVE  JoinLaw(f, s, c, T)
<1> DEFINE n == Len(s)
           t == Append(s, c)
           F == [i \in 1..n |-> f[s[i]]]
           G == [i \in 1..Len(t) |-> f[t[i]]]
<1>1. /\ n \in Nat /\ Len(t) = n + 1 /\ t[n + 1] = c
      /\ \A i \in 1..n : t[i] = s[i] /\ s[i] \in C
  BY Grown, ElementOfSeq
<1> HIDE DEF t
<1>2. f[c] \in Seq(T)
  OBVIOUS
<1>3. F \in Seq(Seq(T)) /\ Len(F) = n
  <2>1. \A i \in 1..n : f[s[i]] \in Seq(T)
    BY <1>1
  <2> QED BY <1>1, <2>1
<1>4. Append(F, f[c]) = G
  <2>0. PICK e : e = f[c]
    OBVIOUS
  <2> HIDE DEF F
  <2>1. /\ Len(Append(F, e)) = n + 1
        /\ \A i \in 1..n : Append(F, e)[i] = F[i]
        /\ Append(F, e)[n + 1] = e /\ Append(F, e) \in Seq(Seq(T))
    BY <2>0, <1>2, <1>3, Grown
  <2>2. \A i \in 1..(n + 1) : Append(F, e)[i] = G[i]
    <3> TAKE i \in 1..(n + 1)
    <3>1. G[i] = f[t[i]]
      BY <1>1
    <3>2. CASE i \in 1..n
      <4>1. F[i] = f[s[i]]
        BY <3>2 DEF F
      <4>2. t[i] = s[i] /\ Append(F, e)[i] = F[i]
        BY <3>2, <1>1, <2>1
      <4> HIDE DEF G
      <4> QED BY <4>1, <4>2, <3>1, Zenon
    <3>3. CASE i = n + 1
      <4>1. t[i] = c
        BY <3>3, <1>1
      <4>2. Append(F, e)[i] = e
        BY <3>3, <2>1, Zenon
      <4>3. f[t[i]] = e
        BY <4>1, <2>0, Zenon
      <4> HIDE DEF G
      <4> QED BY <4>2, <4>3, <3>1, Zenon
    <3>4. i \in 1..n \/ i = n + 1
      BY <1>1
    <3> QED BY <3>2, <3>3, <3>4, Zenon
  <2>3. Append(F, e) = [i \in 1..(n + 1) |-> Append(F, e)[i]]
    BY <2>1, LenProperties
  <2>4. G = [i \in 1..(n + 1) |-> G[i]]
    BY <1>1
  <2> HIDE DEF G
  <2> QED BY <2>0, <2>2, <2>3, <2>4
<1>5. /\ FlattenSeq(F) \in Seq(T)
      /\ FlattenSeq(Append(F, f[c])) = FlattenSeq(F) \o f[c]
  <2> HIDE DEF F
  <2> QED BY <1>2, <1>3, FlattenAppend
<1>6. Joined(f, <<>>) = <<>>
  <2>1. [i \in 1..Len(<<>>) |-> f[<<>>[i]]] = <<>>
    OBVIOUS
  <2> QED BY <2>1, FlattenEmpty, Zenon DEF Joined
<1>7. Joined(f, s) = FlattenSeq(F) /\ Joined(f, t) = FlattenSeq(G)
  BY DEF Joined
<1> QED BY <1>4, <1>5, <1>6, <1>7 DEF t, JoinLaw

-----------------------------------------------------------------------------
(* Reading a sequence from left to right, from the state b.                *)

(* H reads an element of C and takes a state of X to the next one.         *)
Automaton(X, C, b, H) == b \in X /\ H \in [X \X C -> X]

(* The step H takes g from each place to the next one.                     *)
Reads(g, b, H, s) ==
    /\ g[0] = b
    /\ \A i \in 1..Len(s) : g[i] = H[<<g[i - 1], s[i]>>]

(* There is such a function.                                               *)
LEMMA ReadsExist ==
    ASSUME NEW X, NEW C, NEW b, NEW H, Automaton(X, C, b, H), NEW s \in Seq(C)
    PROVE  \E g \in [0..Len(s) -> X] : Reads(g, b, H, s)
<1> DEFINE P(m) == \E g \in [0..m -> X] :
                     /\ g[0] = b
                     /\ \A i \in 1..m : g[i] = H[<<g[i - 1], s[i]>>]
           bad == {m \in 0..Len(s) : ~P(m)}
<1>1. /\ Len(s) \in Nat /\ \A i \in 1..Len(s) : s[i] \in C
      /\ b \in X /\ H \in [X \X C -> X]
  BY LenProperties, ElementOfSeq DEF Automaton
<1>2. SUFFICES ASSUME bad # {} PROVE FALSE
  <2>1. P(Len(s))
    <3>1. Len(s) \in 0..Len(s)
      BY <1>1
    <3>2. Len(s) \notin bad
      <4> HIDE DEF P, bad
      <4> QED BY <1>2
    <3> HIDE DEF P
    <3> QED BY <3>1, <3>2
  <2> QED BY <2>1 DEF Reads
<1>3. PICK k \in bad : \A j \in bad : k <= j
  <2>1. bad \in SUBSET Nat
    BY <1>1
  <2> HIDE DEF bad
  <2> QED BY <1>2, <2>1, LeastNumber
<1>4. k \in 0..Len(s) /\ ~P(k)
  BY <1>3
<1>5. CASE k = 0
  <2> DEFINE g == [i \in 0..0 |-> b]
  <2>1. g \in [0..0 -> X] /\ g[0] = b
    BY <1>1
  <2>2. \A i \in 1..0 : g[i] = H[<<g[i - 1], s[i]>>]
    OBVIOUS
  <2> HIDE DEF g
  <2> QED BY <2>1, <2>2, <1>4, <1>5
<1>6. CASE k # 0
  <2>1. k - 1 \in 0..Len(s) /\ k - 1 \notin bad
    <3> HIDE DEF bad, P
    <3>1. k \in Nat /\ ~(k <= k - 1) /\ k - 1 \in 0..Len(s)
      BY <1>1, <1>4, <1>6
    <3> QED BY <3>1, <1>3
  <2>2. PICK h \in [0..(k - 1) -> X] :
          /\ h[0] = b
          /\ \A i \in 1..(k - 1) : h[i] = H[<<h[i - 1], s[i]>>]
    BY <2>1
  <2> DEFINE next == H[<<h[k - 1], s[k]>>]
             g == [i \in 0..k |-> IF i = k THEN next ELSE h[i]]
  <2>3. next \in X
    <3>1. h[k - 1] \in X /\ s[k] \in C
      BY <1>1, <1>4, <1>6, <2>1
    <3> QED BY <3>1, <1>1
  <2> HIDE DEF next
  <2>4. g \in [0..k -> X] /\ g[0] = b
    BY <1>1, <1>4, <1>6, <2>2, <2>3
  <2>5. \A i \in 1..k : g[i] = H[<<g[i - 1], s[i]>>]
    <3> TAKE i \in 1..k
    <3>1. i - 1 \in 0..k /\ i - 1 # k /\ i \in 0..k
      BY <1>1, <1>4
    <3>2. g[i - 1] = h[i - 1]
      BY <3>1
    <3>3. CASE i = k
      BY <3>1, <3>2, <3>3 DEF next
    <3>4. CASE i # k
      <4>1. i \in 1..(k - 1) /\ g[i] = h[i]
        BY <1>1, <1>4, <3>1, <3>4
      <4> QED BY <4>1, <3>2, <2>2
    <3> QED BY <3>3, <3>4
  <2> HIDE DEF g
  <2> QED BY <2>4, <2>5, <1>4
<1> QED BY <1>5, <1>6

(* r follows the step up to n, wherever it is in a state.                  *)
RunsAs(r, X, b, H, s, n) ==
    /\ r[0] = b
    /\ \A i \in 1..n : r[i - 1] \in X => r[i] = H[<<r[i - 1], s[i]>>]

(* q and r are in the same state at n.                                     *)
Agree(q, r, X, n) == r[n] \in X /\ q[n] = r[n]

(* Two such functions agree, and stay in the states.                       *)
LEMMA RunsAgree ==
    ASSUME NEW X, NEW C, NEW b, NEW H, Automaton(X, C, b, H), NEW s \in Seq(C),
           NEW r, NEW q, NEW n, n \in 0..Len(s),
           RunsAs(r, X, b, H, s, n), RunsAs(q, X, b, H, s, n)
    PROVE  Agree(q, r, X, n)
<1> DEFINE bad == {i \in 0..n : r[i] \notin X \/ q[i] # r[i]}
<1>1. /\ Len(s) \in Nat /\ n \in Nat /\ \A i \in 1..n : s[i] \in C
      /\ b \in X /\ H \in [X \X C -> X]
  BY LenProperties, ElementOfSeq DEF Automaton
<1>2. SUFFICES ASSUME bad # {} PROVE FALSE
  BY <1>1, <1>2 DEF Agree
<1>3. PICK k \in bad : \A j \in bad : k <= j
  <2>1. bad \in SUBSET Nat
    BY <1>1
  <2> HIDE DEF bad
  <2> QED BY <1>2, <2>1, LeastNumber
<1>4. k \in 0..n /\ (r[k] \notin X \/ q[k] # r[k])
  BY <1>3
<1>5. k # 0
  BY <1>1, <1>4 DEF RunsAs
<1>6. k - 1 \in 0..n /\ ~(k <= k - 1) /\ k \in 1..n
  BY <1>1, <1>4, <1>5
<1>7. k - 1 \notin bad
  <2> HIDE DEF bad
  <2> QED BY <1>6, <1>3
<1>8. r[k - 1] \in X /\ q[k - 1] = r[k - 1]
  BY <1>6, <1>7
<1>9. r[k] = H[<<r[k - 1], s[k]>>] /\ q[k] = H[<<r[k - 1], s[k]>>]
  BY <1>6, <1>8 DEF RunsAs
<1>10. r[k] \in X
  <2>1. PICK a, c : a = r[k - 1] /\ c = s[k]
    OBVIOUS
  <2>2. H[<<a, c>>] \in X
    BY <2>1, <1>1, <1>6, <1>8
  <2> QED BY <2>1, <2>2, <1>9
<1> QED BY <1>4, <1>9, <1>10

(* The step that q takes at the end of s, where r stops.                   *)
StepsOn(r, q, X, H, s, c) ==
    r[Len(s)] \in X /\ q[Len(Append(s, c))] = H[<<r[Len(s)], c>>]

(* One element more is one step more.                                      *)
LEMMA RunsAppend ==
    ASSUME NEW X, NEW C, NEW b, NEW H, Automaton(X, C, b, H), NEW s \in Seq(C),
           NEW c \in C, NEW r, NEW q,
           RunsAs(r, X, b, H, s, Len(s)),
           RunsAs(q, X, b, H, Append(s, c), Len(s) + 1)
    PROVE  StepsOn(r, q, X, H, s, c)
<1> DEFINE n == Len(s)
<1>1. /\ n \in Nat /\ Len(Append(s, c)) = n + 1
      /\ \A i \in 1..n : Append(s, c)[i] = s[i]
      /\ Append(s, c)[n + 1] = c
  BY Grown
<1>2. RunsAs(q, X, b, H, s, n)
  <2>1. \A i \in 1..n : q[i - 1] \in X => q[i] = H[<<q[i - 1], s[i]>>]
  <3> TAKE i \in 1..n
  <3>1. i \in 1..(n + 1)
    BY <1>1
  <3> QED BY <3>1, <1>1 DEF RunsAs
  <2> QED BY <2>1 DEF RunsAs
<1>3. Agree(q, r, X, n)
  <2>1. n \in 0..Len(s)
    BY <1>1
  <2>2. RunsAs(r, X, b, H, s, n)
    OBVIOUS
  <2> HIDE DEF n
  <2> QED BY <2>1, <2>2, <1>2, RunsAgree, Zenon
<1>4. n + 1 \in 1..(n + 1) /\ (n + 1) - 1 = n
  BY <1>1
<1> QED BY <1>1, <1>3, <1>4 DEF RunsAs, Agree, StepsOn

=============================================================================
