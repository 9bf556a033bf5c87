----------------------- MODULE ParameterBindingProofs -----------------------
(***************************************************************************)
(* Proofs about ParameterBinding, for queries of any length, any number of *)
(* values and strings of any characters: the server reads every bound      *)
(* value where its placeholder was, and the driver reads it back.          *)
(***************************************************************************)
EXTENDS ParameterBinding, SequenceLemmas, FiniteSetTheorems

-----------------------------------------------------------------------------
(* The server's lexer.                                                     *)

Tok == [kind : {"word", "str"}, text : Seq(Char)]
Modes == {"code", "str", "quote", "dash", "comment"}
LexStates == [tokens : Seq(Tok), mode : Modes, cur : Seq(Char)]

LexStart == Lexed(<<>>, "code", <<>>)
LexReader == [p \in LexStates \X Char |-> LexStep(p[1], p[2])]

(* The characters the lexer and the encodings name are characters.         *)
LEMMA Named ==
    /\ "'" \in Char /\ "\"" \in Char /\ "\\" \in Char /\ "?" \in Char
    /\ "-" \in Char /\ "\n" \in Char /\ "\t" \in Char /\ "," \in Char
    /\ ";" \in Char /\ "]" \in Char /\ " " \in Char /\ "NULL" \in Char
    /\ "SELECT" \in Char /\ "n" \in Char /\ "t" \in Char /\ "s" \in Char
    /\ "true" \in Char /\ "false" \in Char
    /\ "DATE" \in Char /\ "TIME" \in Char /\ "TIMESTAMP" \in Char
<1>1. Marked \subseteq Char /\ {"n", "t", "s", "true", "false", "DATE", "TIME",
                               "TIMESTAMP"} \subseteq Char
  BY CharAssumption
<1>2. /\ "'" \in Marked /\ "\"" \in Marked /\ "\\" \in Marked /\ "?" \in Marked
      /\ "-" \in Marked /\ "\n" \in Marked /\ "\t" \in Marked /\ "," \in Marked
      /\ ";" \in Marked /\ "]" \in Marked /\ " " \in Marked /\ "NULL" \in Marked
      /\ "SELECT" \in Marked
  BY DEF Marked
<1> QED BY <1>1, <1>2

(* Words and literals are tokens.                                          *)
LEMMA Tokens ==
    /\ \A c \in Char : <<c>> \in Seq(Char) /\ Token("word", <<c>>) \in Tok
    /\ \A x \in Seq(Char) : Token("str", x) \in Tok
    /\ <<>> \in Seq(Char)
<1>1. \A c \in Char : <<c>> \in Seq(Char)
  OBVIOUS
<1>2. \A x \in Seq(Char) : Token("str", x) \in Tok /\ Token("word", x) \in Tok
  BY DEF Tok, Token
<1>3. <<>> \in Seq(Char)
  OBVIOUS
<1> QED BY <1>1, <1>2, <1>3, Zenon

(* A state of the lexer is its three parts.                                *)
LEMMA StParts ==
    ASSUME NEW u, NEW m, NEW x
    PROVE  /\ Lexed(u, m, x).tokens = u /\ Lexed(u, m, x).mode = m
           /\ Lexed(u, m, x).cur = x
           /\ u \in Seq(Tok) /\ m \in Modes /\ x \in Seq(Char)
                => Lexed(u, m, x) \in LexStates
BY DEF Lexed, LexStates

(* Every state is one of those.                                            *)
LEMMA StAll ==
    ASSUME NEW st \in LexStates
    PROVE  /\ st.tokens \in Seq(Tok) /\ st.mode \in Modes
           /\ st.cur \in Seq(Char)
           /\ st = Lexed(st.tokens, st.mode, st.cur)
BY DEF Lexed, LexStates

(* What a character does in code.                                          *)
LEMMA InCodeCases ==
    ASSUME NEW u \in Seq(Tok), NEW c \in Char
    PROVE  /\ InCode(u, c) \in LexStates
           /\ c = "'" => InCode(u, c) = Lexed(u, "str", <<>>)
           /\ c = "-" => InCode(u, c) = Lexed(u, "dash", <<>>)
           /\ c \in {" ", "\n"} => InCode(u, c) = Lexed(u, "code", <<>>)
           /\ c \notin {"'", "-", " ", "\n"} =>
                InCode(u, c) =
                  Lexed(Append(u, Token("word", <<c>>)), "code", <<>>)
<1>1. Append(u, Token("word", <<c>>)) \in Seq(Tok)
  BY Named, Tokens, AppendProperties
<1>2. c = "'" => InCode(u, c) = Lexed(u, "str", <<>>)
  BY DEF InCode, Lexed
<1>3. c = "-" => InCode(u, c) = Lexed(u, "dash", <<>>)
  BY DEF InCode, Lexed
<1>4. c \in {" ", "\n"} => InCode(u, c) = Lexed(u, "code", <<>>)
  BY DEF InCode, Lexed
<1>5. c \notin {"'", "-", " ", "\n"} =>
        InCode(u, c) = Lexed(Append(u, Token("word", <<c>>)), "code", <<>>)
  BY DEF InCode, Lexed
<1>6. InCode(u, c) \in LexStates
  <2>1. \A m \in {"str", "dash", "code"} :
          /\ Lexed(u, m, <<>>) \in LexStates
          /\ Lexed(Append(u, Token("word", <<c>>)), m, <<>>) \in LexStates
    BY <1>1, StParts, Tokens DEF Modes
  <2> QED BY <2>1, <1>2, <1>3, <1>4, <1>5
<1> QED BY <1>2, <1>3, <1>4, <1>5, <1>6

(* What a character does in each of the modes.                             *)
LEMMA LexStepCases ==
    ASSUME NEW u \in Seq(Tok), NEW x \in Seq(Char), NEW c \in Char
    PROVE  /\ LexStep(Lexed(u, "str", x), c) =
                IF c = "'" THEN Lexed(u, "quote", x)
                ELSE Lexed(u, "str", Append(x, c))
           /\ LexStep(Lexed(u, "quote", x), c) =
                IF c = "'" THEN Lexed(u, "str", Append(x, c))
                ELSE InCode(Append(u, Token("str", x)), c)
           /\ LexStep(Lexed(u, "dash", x), c) =
                IF c = "-" THEN Lexed(u, "comment", <<>>)
                ELSE InCode(Append(u, Token("word", <<"-">>)), c)
           /\ LexStep(Lexed(u, "comment", x), c) =
                IF c = "\n" THEN InCode(u, c) ELSE Lexed(u, "comment", x)
           /\ LexStep(Lexed(u, "code", x), c) = InCode(u, c)
<1>1. LexStep(Lexed(u, "str", x), c) =
        IF c = "'" THEN Lexed(u, "quote", x) ELSE Lexed(u, "str", Append(x, c))
  <2>1. c = "'" => LexStep(Lexed(u, "str", x), c) = Lexed(u, "quote", x)
    BY SMT DEF LexStep, Lexed
  <2>2. c # "'" =>
          LexStep(Lexed(u, "str", x), c) = Lexed(u, "str", Append(x, c))
    BY SMT DEF LexStep, Lexed
  <2> QED BY <2>1, <2>2
<1>2. LexStep(Lexed(u, "quote", x), c) =
        IF c = "'" THEN Lexed(u, "str", Append(x, c))
        ELSE InCode(Append(u, Token("str", x)), c)
  <2>1. c = "'" =>
          LexStep(Lexed(u, "quote", x), c) = Lexed(u, "str", Append(x, c))
    BY SMT DEF LexStep, Lexed
  <2>2. c # "'" => LexStep(Lexed(u, "quote", x), c) =
                     InCode(Append(u, Token("str", x)), c)
    BY SMT DEF LexStep, Lexed
  <2> QED BY <2>1, <2>2
<1>3. LexStep(Lexed(u, "dash", x), c) =
        IF c = "-" THEN Lexed(u, "comment", <<>>)
        ELSE InCode(Append(u, Token("word", <<"-">>)), c)
  BY DEF LexStep, Lexed
<1>4. LexStep(Lexed(u, "comment", x), c) =
        IF c = "\n" THEN InCode(u, c) ELSE Lexed(u, "comment", x)
  BY DEF LexStep, Lexed
<1>5. LexStep(Lexed(u, "code", x), c) = InCode(u, c)
  BY DEF LexStep, Lexed
<1> QED BY <1>1, <1>2, <1>3, <1>4, <1>5

(* A step ends in a state.                                                 *)
LEMMA LexStepType ==
    ASSUME NEW st \in LexStates, NEW c \in Char
    PROVE  LexStep(st, c) \in LexStates
<1>1. PICK u, m, x : /\ u \in Seq(Tok) /\ m \in Modes /\ x \in Seq(Char)
                     /\ st = Lexed(u, m, x)
  BY StAll
<1>2. /\ Append(u, Token("word", <<"-">>)) \in Seq(Tok)
      /\ Append(u, Token("str", x)) \in Seq(Tok)
      /\ Append(x, c) \in Seq(Char)
  BY <1>1, Named, Tokens, AppendProperties
<1>3. \A m1 \in Modes : /\ Lexed(u, m1, x) \in LexStates
                        /\ Lexed(u, m1, <<>>) \in LexStates
                        /\ Lexed(u, m1, Append(x, c)) \in LexStates
  BY <1>1, <1>2, StParts, Tokens
<1>4. /\ InCode(u, c) \in LexStates
      /\ InCode(Append(u, Token("str", x)), c) \in LexStates
      /\ InCode(Append(u, Token("word", <<"-">>)), c) \in LexStates
  BY <1>1, <1>2, InCodeCases
<1>5. \A m1 \in {"str", "quote", "dash", "comment", "code"} : m1 \in Modes
  BY DEF Modes
<1>6. CASE m = "str"
  BY <1>1, <1>3, <1>5, <1>6, LexStepCases
<1>7. CASE m = "quote"
  BY <1>1, <1>3, <1>4, <1>5, <1>7, LexStepCases
<1>8. CASE m = "dash"
  BY <1>1, <1>3, <1>4, <1>5, <1>8, LexStepCases
<1>9. CASE m = "comment"
  BY <1>1, <1>3, <1>4, <1>5, <1>9, LexStepCases
<1>10. CASE m = "code"
  BY <1>1, <1>4, <1>10, LexStepCases
<1> QED BY <1>1, <1>6, <1>7, <1>8, <1>9, <1>10 DEF Modes

(* The lexer is a reader.                                                  *)
LEMMA LexIsReader ==
    /\ Automaton(LexStates, Char, LexStart, LexReader)
    /\ \A st \in LexStates, c \in Char : LexReader[<<st, c>>] = LexStep(st, c)
<1>1. LexStart \in LexStates
  <2>1. <<>> \in Seq(Tok) /\ <<>> \in Seq(Char) /\ "code" \in Modes
    BY DEF Modes
  <2> QED BY <2>1, StParts DEF LexStart
<1>2. LexReader \in [LexStates \X Char -> LexStates]
  <2>1. \A p \in LexStates \X Char : LexStep(p[1], p[2]) \in LexStates
    BY LexStepType
  <2> QED BY <2>1 DEF LexReader
<1>3. ASSUME NEW st \in LexStates, NEW c \in Char
      PROVE  LexReader[<<st, c>>] = LexStep(st, c)
  BY DEF LexReader
<1> QED BY <1>1, <1>2, <1>3 DEF Automaton

(* What Lex computes on the way.                                           *)
LEMMA LexReads ==
    ASSUME NEW s \in Seq(Char)
    PROVE  \E r : /\ RunsAs(r, LexStates, LexStart, LexReader, s, Len(s))
                  /\ Lex(s) = r[Len(s)]
<1> DEFINE D(f) == [n \in 0..Len(s) |->
                      IF n = 0 THEN Lexed(<<>>, "code", <<>>)
                      ELSE LexStep(f[n - 1], s[n])]
           read == CHOOSE f : f = D(f)
<1>1. Len(s) \in Nat /\ \A i \in 1..Len(s) : s[i] \in Char
  BY LenProperties, ElementOfSeq
<1>2. PICK g \in [0..Len(s) -> LexStates] : Reads(g, LexStart, LexReader, s)
  BY LexIsReader, ReadsExist, Zenon
<1>3. g = D(g)
  <2>1. \A n \in 1..Len(s) : g[n] = LexStep(g[n - 1], s[n])
    <3> TAKE n \in 1..Len(s)
    <3>1. n - 1 \in 0..Len(s) /\ s[n] \in Char
      BY <1>1
    <3>2. PICK a, c : a = g[n - 1] /\ c = s[n]
      OBVIOUS
    <3>3. a \in LexStates /\ c \in Char
      BY <3>1, <3>2
    <3>4. LexReader[<<a, c>>] = LexStep(a, c)
      BY <3>3, LexIsReader, Zenon
    <3> QED BY <3>2, <3>4, <1>2, Zenon DEF Reads
  <2>2. g[0] = Lexed(<<>>, "code", <<>>)
    BY <1>2 DEF Reads, LexStart, Lexed
  <2>3. \A n \in 0..Len(s) : g[n] = D(g)[n]
    <3> TAKE n \in 0..Len(s)
    <3>1. CASE n = 0
      BY <3>1, <2>2
    <3>2. CASE n # 0
      <4>1. n \in 1..Len(s)
        BY <3>2, <1>1
      <4> QED BY <4>1, <3>2, <2>1
    <3> QED BY <3>1, <3>2
  <2> QED BY <2>3
<1>4. read = D(read)
  BY <1>3, Zenon
<1>5. RunsAs(read, LexStates, LexStart, LexReader, s, Len(s))
  <2> HIDE DEF read
  <2>1. \A n \in 0..Len(s) : read[n] =
          IF n = 0 THEN Lexed(<<>>, "code", <<>>)
          ELSE LexStep(read[n - 1], s[n])
    BY <1>4, Zenon
  <2>2. read[0] = LexStart
    BY <2>1, <1>1 DEF LexStart, Lexed
  <2>3. ASSUME NEW n \in 1..Len(s), read[n - 1] \in LexStates
        PROVE  read[n] = LexReader[<<read[n - 1], s[n]>>]
    <3>1. n \in 0..Len(s) /\ n # 0 /\ s[n] \in Char
      BY <1>1
    <3>2. LexReader[<<read[n - 1], s[n]>>] = LexStep(read[n - 1], s[n])
      BY <3>1, <2>3, LexIsReader, Zenon
    <3> QED BY <3>1, <3>2, <2>1, Zenon
  <2> QED BY <2>2, <2>3 DEF RunsAs
<1>6. Lex(s) = read[Len(s)]
  BY Zenon DEF Lex
<1> QED BY <1>5, <1>6, Zenon

(* Lex reads character by character.                                       *)
LEMMA LexLaws ==
    /\ Lex(<<>>) = LexStart
    /\ \A s \in Seq(Char) : Lex(s) \in LexStates
    /\ \A s \in Seq(Char), c \in Char : Lex(Append(s, c)) = LexStep(Lex(s), c)
<1>1. Lex(<<>>) = LexStart
  <2>1. <<>> \in Seq(Char) /\ Len(<<>>) = 0
    OBVIOUS
  <2>2. PICK r : /\ RunsAs(r, LexStates, LexStart, LexReader, <<>>, Len(<<>>))
                 /\ Lex(<<>>) = r[Len(<<>>)]
    BY <2>1, LexReads, Zenon
  <2> QED BY <2>1, <2>2 DEF RunsAs
<1>2. ASSUME NEW s \in Seq(Char), NEW c \in Char
      PROVE  Lex(s) \in LexStates /\ Lex(Append(s, c)) = LexStep(Lex(s), c)
  <2>1. Append(s, c) \in Seq(Char) /\ Len(Append(s, c)) = Len(s) + 1
    BY AppendProperties
  <2>2. PICK r : /\ RunsAs(r, LexStates, LexStart, LexReader, s, Len(s))
                 /\ Lex(s) = r[Len(s)]
    BY LexReads, Zenon
  <2>3. PICK q : /\ RunsAs(q, LexStates, LexStart, LexReader, Append(s, c),
                            Len(Append(s, c)))
                 /\ Lex(Append(s, c)) = q[Len(Append(s, c))]
    BY <2>1, LexReads, Zenon
  <2>4. StepsOn(r, q, LexStates, LexReader, s, c)
    BY <2>1, <2>2, <2>3, LexIsReader, RunsAppend, Zenon
  <2>5. LexReader[<<Lex(s), c>>] = LexStep(Lex(s), c) /\ Lex(s) \in LexStates
    BY <2>2, <2>4, LexIsReader, Zenon DEF StepsOn
  <2> QED BY <2>2, <2>3, <2>4, <2>5, Zenon DEF StepsOn
<1>3. "'" \in Char
  BY Named
<1> QED BY <1>1, <1>2, <1>3


-----------------------------------------------------------------------------
(* Counting, and filling the holes of a sequence.                          *)

(* A count is a number.                                                    *)
LEMMA CountNat ==
    ASSUME NEW s, NEW h, NEW i \in Nat
    PROVE  Count(s, h, i) \in Nat
<1>1. IsFiniteSet(1..i)
  BY FS_Interval
<1>2. {j \in 1..i : s[j] = h} \in SUBSET (1..i)
  OBVIOUS
<1> QED BY <1>1, <1>2, FS_Subset, FS_CardinalityType DEF Count

(* One place more counts one more if a hole is there.                      *)
LEMMA CountStep ==
    ASSUME NEW s, NEW h, NEW i \in Nat
    PROVE  /\ Count(s, h, 0) = 0
           /\ s[i + 1] = h => Count(s, h, i + 1) = Count(s, h, i) + 1
           /\ s[i + 1] # h => Count(s, h, i + 1) = Count(s, h, i)
<1> DEFINE A == {j \in 1..i : s[j] = h}
           B == {j \in 1..(i + 1) : s[j] = h}
<1>1. IsFiniteSet(A)
  <2>1. IsFiniteSet(1..i) /\ A \in SUBSET (1..i)
    BY FS_Interval
  <2> QED BY <2>1, FS_Subset
<1>2. {j \in 1..0 : s[j] = h} = {}
  OBVIOUS
<1>3. s[i + 1] = h => B = A \cup {i + 1}
  OBVIOUS
<1>4. s[i + 1] # h => B = A
  <2>1. ASSUME s[i + 1] # h PROVE \A j \in 1..(i + 1) : s[j] = h => j \in 1..i
    BY <2>1
  <2>2. \A j \in 1..i : j \in 1..(i + 1)
    OBVIOUS
  <2> QED BY <2>1, <2>2
<1>5. i + 1 \notin A
  OBVIOUS
<1> HIDE DEF A, B
<1>6. Cardinality(A \cup {i + 1}) = Cardinality(A) + 1
  BY <1>1, <1>5, FS_AddElement
<1>7. Count(s, h, i) = Cardinality(A) /\ Count(s, h, i + 1) = Cardinality(B)
  BY DEF Count, A, B
<1>8. Count(s, h, 0) = 0
  BY <1>2, FS_EmptySet DEF Count
<1> QED BY <1>3, <1>4, <1>6, <1>7, <1>8

(* What is counted in the first i elements depends on them only.           *)
LEMMA CountSame ==
    ASSUME NEW s, NEW t, NEW h, NEW i \in Nat, \A j \in 1..i : s[j] = t[j]
    PROVE  Count(s, h, i) = Count(t, h, i)
<1>1. {j \in 1..i : s[j] = h} = {j \in 1..i : t[j] = h}
  OBVIOUS
<1> QED BY <1>1 DEF Count

(* The holes of all of s.                                                  *)
Holes(s, h) == Count(s, h, Len(s))

(* The holes of a sequence with one element more.                          *)
LEMMA HolesAppend ==
    ASSUME NEW T, NEW s \in Seq(T), NEW x \in T, NEW h
    PROVE  /\ Holes(<<>>, h) = 0
           /\ Holes(s, h) \in Nat
           /\ Holes(Append(s, x), h) = Holes(s, h) + (IF x = h THEN 1 ELSE 0)
           /\ \A i \in 1..Len(s) : Count(Append(s, x), h, i) = Count(s, h, i)
<1>1. /\ Len(s) \in Nat /\ Len(Append(s, x)) = Len(s) + 1
      /\ \A i \in 1..Len(s) : Append(s, x)[i] = s[i]
      /\ Append(s, x)[Len(s) + 1] = x
  BY Grown
<1>2. \A i \in 0..Len(s) : Count(Append(s, x), h, i) = Count(s, h, i)
  <2> TAKE i \in 0..Len(s)
  <2>1. i \in Nat /\ \A j \in 1..i : Append(s, x)[j] = s[j]
    BY <1>1
  <2> QED BY <2>1, CountSame
<1>3. Len(s) \in 0..Len(s) /\ \A i \in 1..Len(s) : i \in 0..Len(s)
  BY <1>1
<1>4. Count(Append(s, x), h, Len(s)) = Count(s, h, Len(s))
  BY <1>2, <1>3
<1>5. Len(<<>>) = 0 /\ Count(<<>>, h, 0) = 0
  BY CountStep
<1>6. Count(s, h, Len(s)) \in Nat
  BY <1>1, CountNat
<1>7. /\ x = h => Count(Append(s, x), h, Len(s) + 1) = Count(s, h, Len(s)) + 1
      /\ x # h => Count(Append(s, x), h, Len(s) + 1) = Count(s, h, Len(s))
  <2>1. PICK t, n : t = Append(s, x) /\ n = Len(s)
    OBVIOUS
  <2>2. n \in Nat /\ t[n + 1] = x /\ Count(t, h, n) = Count(s, h, n)
    BY <1>1, <1>4, <2>1
  <2>3. /\ x = h => Count(t, h, n + 1) = Count(t, h, n) + 1
        /\ x # h => Count(t, h, n + 1) = Count(t, h, n)
    BY <2>2, CountStep
  <2> QED BY <2>1, <2>2, <2>3
<1> QED BY <1>1, <1>2, <1>3, <1>5, <1>6, <1>7 DEF Holes

(* What stands for the element x behind s.                                 *)
Piece(s, x, hole, parts) ==
    IF x = hole THEN parts[Holes(s, hole) + 1] ELSE <<x>>

(* The parts that are needed are there.                                    *)
Enough(s, hole, parts, T) ==
    \A k \in 1..Holes(s, hole) : parts[k] \in Seq(T)

(* Filling a sequence with one element more.                               *)
LEMMA FillAppend ==
    ASSUME NEW T, NEW s \in Seq(T), NEW x \in T, NEW hole, NEW parts,
           Enough(Append(s, x), hole, parts, T)
    PROVE  /\ Enough(s, hole, parts, T)
           /\ Fill(s, hole, parts) \in Seq(T)
           /\ Piece(s, x, hole, parts) \in Seq(T)
           /\ Fill(Append(s, x), hole, parts) =
                Fill(s, hole, parts) \o Piece(s, x, hole, parts)
<1> DEFINE n == Len(s)
           t == Append(s, x)
           F == [i \in 1..n |-> IF s[i] = hole THEN parts[Count(s, hole, i)]
                                ELSE <<s[i]>>]
           G == [i \in 1..Len(t) |->
                   IF t[i] = hole THEN parts[Count(t, hole, i)]
                   ELSE <<t[i]>>]
           p == Piece(s, x, hole, parts)
<1>1. /\ n \in Nat /\ Len(t) = n + 1 /\ t[n + 1] = x
      /\ \A i \in 1..n : t[i] = s[i] /\ s[i] \in T
  BY Grown, ElementOfSeq
<1>2. /\ Holes(s, hole) \in Nat
      /\ Holes(t, hole) = Holes(s, hole) + (IF x = hole THEN 1 ELSE 0)
      /\ \A i \in 1..n : Count(t, hole, i) = Count(s, hole, i)
  BY HolesAppend
<1> HIDE DEF t
<1>3. Enough(s, hole, parts, T)
  BY <1>2 DEF Enough, t
<1>4. p \in Seq(T)
  <2>1. CASE x = hole
    <3>1. Holes(s, hole) + 1 \in 1..Holes(t, hole)
      BY <1>2, <2>1
    <3> QED BY <3>1, <2>1 DEF Enough, t, Piece
  <2>2. CASE x # hole
    BY <2>2 DEF Piece
  <2> QED BY <2>1, <2>2
<1>5. \A i \in 1..n : s[i] = hole => Count(s, hole, i) \in 1..Holes(s, hole)
  <2> SUFFICES ASSUME NEW i \in 1..n, s[i] = hole
               PROVE  Count(s, hole, i) \in 1..Holes(s, hole)
    OBVIOUS
  <2> DEFINE A == {j \in 1..i : s[j] = hole}
             B == {j \in 1..n : s[j] = hole}
  <2>1. IsFiniteSet(B) /\ A \in SUBSET B
    <3>1. IsFiniteSet(1..n) /\ B \in SUBSET (1..n)
      BY <1>1, FS_Interval
    <3>2. \A j \in 1..i : j \in 1..n
      BY <1>1
    <3> QED BY <3>1, <3>2, FS_Subset
  <2>2. i \in A
    BY <1>1
  <2> HIDE DEF A, B
  <2>3. /\ IsFiniteSet(A) /\ Cardinality(A) <= Cardinality(B)
        /\ Cardinality(A) \in Nat /\ Cardinality(B) \in Nat
    BY <2>1, FS_Subset, FS_CardinalityType
  <2>4. Cardinality(A) # 0
    BY <2>2, <2>3, FS_EmptySet
  <2>5. Count(s, hole, i) = Cardinality(A) /\ Holes(s, hole) = Cardinality(B)
    BY DEF Count, Holes, A, B
  <2> QED BY <2>3, <2>4, <2>5
<1>6. \A i \in 1..n : F[i] \in Seq(T)
  <2> TAKE i \in 1..n
  <2>1. F[i] = IF s[i] = hole THEN parts[Count(s, hole, i)] ELSE <<s[i]>>
    OBVIOUS
  <2> HIDE DEF F
  <2>2. CASE s[i] = hole
    BY <2>1, <2>2, <1>3, <1>5 DEF Enough
  <2>3. CASE s[i] # hole
    BY <2>1, <2>3, <1>1
  <2> QED BY <2>2, <2>3
<1>7. F \in Seq(Seq(T)) /\ Len(F) = n
  BY <1>1, <1>6
<1>8. Append(F, p) = G
  <2>1. /\ Len(Append(F, p)) = n + 1 /\ \A i \in 1..n : Append(F, p)[i] = F[i]
        /\ Append(F, p)[n + 1] = p /\ Append(F, p) \in Seq(Seq(T))
    BY <1>4, <1>7, Grown
  <2>2. G[n + 1] = p
    <3>1. n + 1 \in 1..Len(t)
      BY <1>1
    <3>2. G[n + 1] = IF x = hole THEN parts[Count(t, hole, n + 1)] ELSE <<x>>
      BY <3>1, <1>1
    <3>3. Count(t, hole, n + 1) = Holes(t, hole)
      BY <1>1 DEF Holes
    <3>4. CASE x = hole
      BY <3>2, <3>3, <3>4, <1>2 DEF Piece
    <3>5. CASE x # hole
      BY <3>2, <3>5 DEF Piece
    <3> QED BY <3>4, <3>5
  <2>3. \A i \in 1..n : G[i] = F[i]
    <3> TAKE i \in 1..n
    <3>1. /\ i \in 1..Len(t) /\ t[i] = s[i]
          /\ Count(t, hole, i) = Count(s, hole, i)
      BY <1>1, <1>2
    <3> QED BY <3>1
  <2>4. \A i \in 1..(n + 1) : Append(F, p)[i] = G[i]
    <3> HIDE DEF F, G, p
    <3> TAKE i \in 1..(n + 1)
    <3>1. i \in 1..n \/ i = n + 1
      BY <1>1
    <3> QED BY <3>1, <2>1, <2>2, <2>3
  <2>5. DOMAIN Append(F, p) = 1..(n + 1) /\ DOMAIN G = 1..(n + 1)
    <3>1. DOMAIN Append(F, p) = 1..(n + 1)
      <4> HIDE DEF F, p
      <4> QED BY <2>1, LenProperties
    <3> QED BY <3>1, <1>1
  <2>6. /\ Append(F, p) = [i \in 1..(n + 1) |-> Append(F, p)[i]]
        /\ G = [i \in 1..(n + 1) |-> G[i]]
    <3>1. G = [i \in 1..(n + 1) |-> G[i]]
      BY <1>1
    <3>2. Append(F, p) = [i \in 1..(n + 1) |-> Append(F, p)[i]]
      <4> HIDE DEF F, p
      <4> QED BY <2>1, <2>5, LenProperties
    <3> QED BY <3>1, <3>2
  <2> HIDE DEF F, G, p
  <2> QED BY <2>4, <2>6
<1>9. /\ Fill(s, hole, parts) = FlattenSeq(F)
      /\ Fill(t, hole, parts) = FlattenSeq(G)
  BY DEF Fill
<1>10. FlattenSeq(F) \in Seq(T) /\ FlattenSeq(Append(F, p)) = FlattenSeq(F) \o p
  <2> HIDE DEF F, p
  <2> QED BY <1>4, <1>7, FlattenAppend
<1> QED BY <1>3, <1>4, <1>8, <1>9, <1>10 DEF t

(* Nothing to fill.                                                        *)
LEMMA FillEmpty ==
    ASSUME NEW hole, NEW parts
    PROVE  Fill(<<>>, hole, parts) = <<>>
<1>1. [i \in 1..Len(<<>>) |-> IF <<>>[i] = hole THEN parts[Count(<<>>, hole, i)]
                              ELSE <<<<>>[i]>>] = <<>>
  OBVIOUS
<1> QED BY <1>1, FlattenEmpty, Zenon DEF Fill

-----------------------------------------------------------------------------
(* A literal, as the lexer reads it.                                       *)

(* A plain character is none of those that a step gives a meaning to.      *)
LEMMA PlainFacts ==
    ASSUME NEW c \in Plain
    PROVE  /\ c \in Char
           /\ c # "'" /\ c # "\"" /\ c # "\\" /\ c # "?" /\ c # "-"
           /\ c # "\n" /\ c # "\t" /\ c # "," /\ c # ";" /\ c # "]"
           /\ c # " " /\ c # "NULL" /\ c # "SELECT"
<1>1. c \in Char /\ c \notin Marked
  BY DEF Plain
<1>2. \A m \in Marked : c # m
  BY <1>1
<1>3. /\ "'" \in Marked /\ "\"" \in Marked /\ "\\" \in Marked /\ "?" \in Marked
      /\ "-" \in Marked /\ "\n" \in Marked /\ "\t" \in Marked /\ "," \in Marked
      /\ ";" \in Marked /\ "]" \in Marked /\ " " \in Marked /\ "NULL" \in Marked
      /\ "SELECT" \in Marked
  BY DEF Marked
<1> QED BY <1>1, <1>2, <1>3

(* The kinds of values that can be bound.                                  *)
LEMMA BindableCases ==
    ASSUME NEW v \in Bindable
    PROVE  \/ v.type = "None" /\ v.text = <<>>
           \/ v.type = "String" /\ v.text \in Seq(Char)
           \/ v.type = "bool" /\ v.text \in {<<"true">>, <<"false">>}
           \/ /\ v.type \in IntTypes \cup FloatTypes \cup {"Decimal"}
              /\ \E c \in Plain : v.text = <<c>> \/ v.text = <<"-", c>>
           \/ v.type \in TemporalTypes /\ \E c \in Plain : v.text = <<c>>
BY DEF Bindable, Signed, Unsigned

(* Behind the text p the lexer is in that state.                           *)
LexAt(p, u, m, x) ==
    /\ p \in Seq(Char) /\ u \in Seq(Tok) /\ x \in Seq(Char)
    /\ Lex(p) = Lexed(u, m, x)

(* A step of the lexer goes from one to the next.                          *)
LEMMA LexAtStep ==
    ASSUME NEW p, NEW u, NEW m, NEW x, LexAt(p, u, m, x), NEW c \in Char,
           NEW w \in Seq(Tok), NEW n, NEW y \in Seq(Char),
           LexStep(Lexed(u, m, x), c) = Lexed(w, n, y)
    PROVE  LexAt(Append(p, c), w, n, y)
<1>1. p \in Seq(Char) /\ Lex(p) = Lexed(u, m, x)
  BY DEF LexAt
<1>2. Lex(Append(p, c)) = LexStep(Lexed(u, m, x), c)
  BY <1>1, LexLaws, Zenon
<1>3. Append(p, c) \in Seq(Char)
  BY <1>1
<1> QED BY <1>2, <1>3 DEF LexAt

(* A character in code.                                                    *)
LEMMA LexInCode ==
    ASSUME NEW p, NEW u, LexAt(p, u, "code", <<>>)
    PROVE  /\ LexAt(Append(p, "'"), u, "str", <<>>)
           /\ LexAt(Append(p, "-"), u, "dash", <<>>)
           /\ LexAt(Append(p, " "), u, "code", <<>>)
           /\ LexAt(Append(p, "\n"), u, "code", <<>>)
<1>1. u \in Seq(Tok) /\ <<>> \in Seq(Char)
  BY DEF LexAt
<1>2. "'" \in Char /\ "-" \in Char /\ " " \in Char /\ "\n" \in Char
  BY Named, Zenon
<1>3. \A c \in Char : LexStep(Lexed(u, "code", <<>>), c) = InCode(u, c)
  BY <1>1, LexStepCases
<1>4. /\ InCode(u, "'") = Lexed(u, "str", <<>>)
      /\ InCode(u, "-") = Lexed(u, "dash", <<>>)
      /\ InCode(u, " ") = Lexed(u, "code", <<>>)
      /\ InCode(u, "\n") = Lexed(u, "code", <<>>)
  BY <1>1, <1>2, InCodeCases
<1>5. /\ LexStep(Lexed(u, "code", <<>>), "'") = Lexed(u, "str", <<>>)
      /\ LexStep(Lexed(u, "code", <<>>), "-") = Lexed(u, "dash", <<>>)
      /\ LexStep(Lexed(u, "code", <<>>), " ") = Lexed(u, "code", <<>>)
      /\ LexStep(Lexed(u, "code", <<>>), "\n") = Lexed(u, "code", <<>>)
  BY <1>2, <1>3, <1>4, Zenon
<1> QED BY <1>1, <1>2, <1>5, LexAtStep, Zenon

(* A character inside a literal, and the quote that ends it.               *)
LEMMA LexInString ==
    ASSUME NEW p, NEW u, NEW x, LexAt(p, u, "str", x), NEW c \in Char
    PROVE  /\ c # "'" => LexAt(Append(p, c), u, "str", Append(x, c))
           /\ c = "'" => LexAt(Append(p, c), u, "quote", x)
<1>1. u \in Seq(Tok) /\ x \in Seq(Char)
  BY DEF LexAt
<1>2. Append(x, c) \in Seq(Char)
  BY <1>1
<1>3. LexStep(Lexed(u, "str", x), c) =
        IF c = "'" THEN Lexed(u, "quote", x) ELSE Lexed(u, "str", Append(x, c))
  BY <1>1, LexStepCases
<1>4. CASE c = "'"
  <2>1. LexStep(Lexed(u, "str", x), c) = Lexed(u, "quote", x)
    BY <1>3, <1>4
  <2>2. LexAt(Append(p, c), u, "quote", x)
    BY <1>1, <2>1, LexAtStep, Zenon
  <2> QED BY <1>4, <2>2
<1>5. CASE c # "'"
  <2>1. LexStep(Lexed(u, "str", x), c) = Lexed(u, "str", Append(x, c))
    BY <1>3, <1>5
  <2>2. LexAt(Append(p, c), u, "str", Append(x, c))
    BY <1>1, <1>2, <2>1, LexAtStep, Zenon
  <2> QED BY <1>5, <2>2
<1> QED BY <1>4, <1>5

(* A second quote is a quote in the literal.                               *)
LEMMA LexSecondQuote ==
    ASSUME NEW p, NEW u, NEW x, LexAt(p, u, "quote", x)
    PROVE  LexAt(Append(p, "'"), u, "str", Append(x, "'"))
<1>1. u \in Seq(Tok) /\ x \in Seq(Char) /\ "'" \in Char
  <2>1. "'" \in Char
    BY Named, Zenon
  <2> QED BY <2>1 DEF LexAt
<1>2. Append(x, "'") \in Seq(Char)
  BY <1>1
<1>3. LexStep(Lexed(u, "quote", x), "'") = Lexed(u, "str", Append(x, "'"))
  BY <1>1, LexStepCases
<1> QED BY <1>1, <1>2, <1>3, LexAtStep, Zenon

(* The characters that are no word in code.                                *)
Breaks == {"'", "-", " ", "\n"}
Word(c) == Token("word", <<c>>)

(* A word in code.                                                         *)
LEMMA LexWord ==
    ASSUME NEW p, NEW u, LexAt(p, u, "code", <<>>), NEW c \in Char \ Breaks
    PROVE  LexAt(Append(p, c), Append(u, Word(c)), "code", <<>>)
<1>1. u \in Seq(Tok) /\ <<>> \in Seq(Char) /\ c \in Char
  BY DEF LexAt
<1>2. LexStep(Lexed(u, "code", <<>>), c) = InCode(u, c)
  BY <1>1, LexStepCases
<1>3. InCode(u, c) = Lexed(Append(u, Word(c)), "code", <<>>)
  BY <1>1, InCodeCases DEF Breaks, Word
<1>4. Append(u, Word(c)) \in Seq(Tok)
  BY <1>1, Tokens, AppendProperties DEF Word
<1> QED BY <1>1, <1>2, <1>3, <1>4, LexAtStep, Zenon

(* A signed numeral in code: the sign waits for the next character.        *)
LEMMA LexSigned ==
    ASSUME NEW p, NEW u, LexAt(p, u, "code", <<>>), NEW c \in Char \ Breaks
    PROVE  LexAt(Append(Append(p, "-"), c),
             Append(Append(u, Word("-")), Word(c)),
                 "code", <<>>)
<1>1. LexAt(Append(p, "-"), u, "dash", <<>>)
  BY LexInCode
<1>2. u \in Seq(Tok) /\ <<>> \in Seq(Char) /\ c \in Char /\ "-" \in Char
  <2>1. "-" \in Char
    BY Named, Zenon
  <2> QED BY <2>1 DEF LexAt
<1>3. PICK w : w = Append(u, Word("-"))
  OBVIOUS
<1>4. w \in Seq(Tok)
  BY <1>2, <1>3, Tokens, AppendProperties DEF Word
<1>5. LexStep(Lexed(u, "dash", <<>>), c) = InCode(w, c)
  <2>1. LexStep(Lexed(u, "dash", <<>>), c) =
          IF c = "-" THEN Lexed(u, "comment", <<>>)
          ELSE InCode(Append(u, Token("word", <<"-">>)), c)
    BY <1>2, LexStepCases
  <2>2. c # "-"
    BY DEF Breaks
  <2> QED BY <2>1, <2>2, <1>3 DEF Word
<1>6. InCode(w, c) = Lexed(Append(w, Word(c)), "code", <<>>)
  BY <1>2, <1>4, InCodeCases DEF Breaks, Word
<1>7. Append(w, Word(c)) \in Seq(Tok)
  BY <1>2, <1>4, Tokens, AppendProperties DEF Word
<1>8. LexAt(Append(Append(p, "-"), c), Append(w, Word(c)), "code", <<>>)
  BY <1>1, <1>2, <1>5, <1>6, <1>7, LexAtStep, Zenon
<1> QED BY <1>3, <1>8

(* encode_string_literal doubles the quotes.                               *)
Doubling == [c \in Char |-> IF c = "'" THEN <<"'", "'">> ELSE <<c>>]

(* It gives texts.                                                         *)
LEMMA DoublingType == Doubling \in [Char -> Seq(Char)]
<1>1. <<"'", "'">> \in Seq(Char)
  <2>1. "'" \in Char
    BY Named, Zenon
  <2> QED BY <2>1
<1>2. \A c \in Char : (IF c = "'" THEN <<"'", "'">> ELSE <<c>>) \in Seq(Char)
  BY <1>1, Tokens
<1> QED BY <1>2 DEF Doubling

(* What the encoding is, character by character.                           *)
LEMMA EncodedString ==
    ASSUME NEW x \in Seq(Char)
    PROVE  encode_string_literal(x) =
             (<<"'">> \o Joined(Doubling, x)) \o <<"'">>
<1>1. \A i \in 1..Len(x) : x[i] \in Char
  BY ElementOfSeq
<1>2. [i \in 1..Len(x) |-> IF x[i] = "'" THEN <<"'", "'">> ELSE <<x[i]>>] =
        [i \in 1..Len(x) |-> Doubling[x[i]]]
  BY <1>1 DEF Doubling
<1> QED BY <1>2, Zenon DEF encode_string_literal, Joined

(* Inside a literal the lexer takes the doubled quotes back.               *)
LEMMA LexDoubled ==
    ASSUME NEW s, NEW u, LexAt(s, u, "str", <<>>), NEW x \in Seq(Char)
    PROVE  /\ Joined(Doubling, x) \in Seq(Char)
           /\ LexAt(s \o Joined(Doubling, x), u, "str", x)
<1> DEFINE S == {y \in Seq(Char) :
                   /\ Joined(Doubling, y) \in Seq(Char)
                   /\ LexAt(s \o Joined(Doubling, y), u, "str", y)}
<1>0. s \in Seq(Char) /\ "'" \in Char
  <2>1. "'" \in Char
    BY Named, Zenon
  <2> QED BY <2>1 DEF LexAt
<1>1. <<>> \in S
  <2>1. <<>> \in Seq(Char)
    OBVIOUS
  <2>2. Joined(Doubling, <<>>) = <<>>
    BY <1>0, <2>1, DoublingType, JoinedAppend, Zenon DEF JoinLaw
  <2>3. s \o <<>> = s
    BY <1>0, ConcatEmptySeq
  <2> QED BY <2>1, <2>2, <2>3
<1>2. ASSUME NEW y \in Seq(Char), NEW c \in Char, y \in S
      PROVE  Append(y, c) \in S
  <2>1. PICK d, p : d = Joined(Doubling, y) /\ p = s \o d
    OBVIOUS
  <2>2. d \in Seq(Char) /\ LexAt(p, u, "str", y)
    BY <1>2, <2>1
  <2>3. Joined(Doubling, Append(y, c)) = d \o Doubling[c]
    <3>1. JoinLaw(Doubling, y, c, Char)
      BY DoublingType, JoinedAppend, Zenon
    <3> QED BY <2>1, <3>1, Zenon DEF JoinLaw
  <2>4. Append(y, c) \in Seq(Char)
    OBVIOUS
  <2>5. CASE c = "'"
    <3>1. PICK e, g : e = Append(d, "'") /\ g = Append(e, "'")
      OBVIOUS
    <3>2. Doubling[c] = <<"'", "'">>
      BY <2>5 DEF Doubling
    <3>3. e \in Seq(Char) /\ g \in Seq(Char) /\ d \o <<"'", "'">> = g
      <4>1. Two(Char, d, "'", "'")
        BY <1>0, <2>2, ConcatTwo, Zenon
      <4> QED BY <4>1, <3>1, <1>0, <2>2 DEF Two
    <3>4. s \o e = Append(p, "'") /\ s \o g = Append(Append(p, "'"), "'")
      <4>1. s \o Append(d, "'") = Append(s \o d, "'")
        BY <1>0, <2>2, ConcatAppend
      <4>2. s \o Append(e, "'") = Append(s \o e, "'")
        BY <1>0, <3>3, ConcatAppend
      <4> QED BY <4>1, <4>2, <3>1, <2>1, Zenon
    <3>5. LexAt(Append(p, "'"), u, "quote", y)
      BY <1>0, <2>2, LexInString, Zenon
    <3>6. LexAt(Append(Append(p, "'"), "'"), u, "str", Append(y, "'"))
      BY <3>5, LexSecondQuote, Zenon
    <3> QED BY <2>3, <2>4, <2>5, <3>2, <3>3, <3>4, <3>6
  <2>6. CASE c # "'"
    <3>1. Doubling[c] = <<c>>
      BY <2>6 DEF Doubling
    <3>2. d \o <<c>> = Append(d, c) /\ Append(d, c) \in Seq(Char)
      BY <2>2, ConcatOne, Zenon DEF One
    <3>3. s \o Append(d, c) = Append(p, c)
      BY <1>0, <2>1, <2>2, ConcatAppend
    <3>4. LexAt(Append(p, c), u, "str", Append(y, c))
      BY <2>2, <2>6, LexInString, Zenon
    <3> QED BY <2>3, <2>4, <3>1, <3>2, <3>3, <3>4
  <2> QED BY <2>5, <2>6
<1>3. \A y \in Seq(Char) : y \in S
  <2> HIDE DEF S
  <2> QED BY <1>1, <1>2, SequenceInduction
<1> QED BY <1>3


(* The forms of literals and of their tokens.                              *)
IsWord(v) ==
    \E c \in Char \ Breaks : add(v) = <<c>> /\ TokensOf(v) = <<Word(c)>>
IsSigned(v) == \E c \in Char \ Breaks :
                 add(v) = <<"-", c>> /\ TokensOf(v) = <<Word("-"), Word(c)>>
IsLiteral(v) == \E x \in Seq(Char) : /\ add(v) = encode_string_literal(x)
                                     /\ TokensOf(v) = <<Token("str", x)>>
IsDated(v) == \E k, c \in Char \ Breaks :
                /\ add(v) = <<k, " ", "'">> \o <<c>> \o <<"'">>
                /\ TokensOf(v) = <<Word(k), Token("str", <<c>>)>>

(* Plain characters and keywords are words in code.                        *)
LEMMA WordChars ==
    /\ Plain \subseteq Char \ Breaks
    /\ {"NULL", "true", "false", "DATE", "TIME", "TIMESTAMP"}
         \subseteq Char \ Breaks
<1>1. \A c \in Plain : c \in Char \ Breaks
  BY PlainFacts DEF Breaks
<1>2. /\ "NULL" \in Char \ Breaks /\ "true" \in Char \ Breaks
      /\ "false" \in Char \ Breaks /\ "DATE" \in Char \ Breaks
      /\ "TIME" \in Char \ Breaks /\ "TIMESTAMP" \in Char \ Breaks
  <2>1. /\ "NULL" \in Char /\ "true" \in Char /\ "false" \in Char
        /\ "DATE" \in Char /\ "TIME" \in Char /\ "TIMESTAMP" \in Char
    BY Named, Zenon
  <2> QED BY <2>1 DEF Breaks
<1> QED BY <1>1, <1>2

(* A number or a bool is a word or a signed one.                           *)
LEMMA NumberForms ==
    ASSUME NEW v, v.type \notin {"None", "String"}, v.type \notin TemporalTypes,
           NEW c \in Char \ Breaks
    PROVE  /\ v.text = <<c>> => IsWord(v)
           /\ v.text = <<"-", c>> => IsSigned(v)
<1>1. add(v) = v.text
  BY DEF add, encode
<1>2. TokensOf(v) = [i \in 1..Len(v.text) |-> Word(v.text[i])]
  BY DEF TokensOf, Word
<1>3. ASSUME v.text = <<c>> PROVE IsWord(v)
  <2>1. [i \in 1..Len(v.text) |-> Word(v.text[i])] = <<Word(c)>>
    BY <1>3
  <2> QED BY <1>1, <1>2, <1>3, <2>1 DEF IsWord
<1>4. ASSUME v.text = <<"-", c>> PROVE IsSigned(v)
  <2>1. [i \in 1..Len(v.text) |-> Word(v.text[i])] = <<Word("-"), Word(c)>>
    BY <1>4
  <2> QED BY <1>1, <1>2, <1>4, <2>1 DEF IsSigned
<1> QED BY <1>3, <1>4

(* Every value has one of the forms.                                       *)
LEMMA Forms ==
    ASSUME NEW v \in Bindable
    PROVE  IsWord(v) \/ IsSigned(v) \/ IsLiteral(v) \/ IsDated(v)
<1>1. CASE v.type = "None" /\ v.text = <<>>
  <2>1. add(v) = <<"NULL">> /\ TokensOf(v) = <<Word("NULL")>>
    BY <1>1 DEF add, TokensOf, Word, TemporalTypes
  <2>2. "NULL" \in Char \ Breaks
    BY WordChars
  <2> QED BY <2>1, <2>2 DEF IsWord
<1>2. CASE v.type = "String" /\ v.text \in Seq(Char)
  <2>1. /\ add(v) = encode_string_literal(v.text)
        /\ TokensOf(v) = <<Token("str", v.text)>>
    BY <1>2 DEF add, encode, TokensOf, TemporalTypes
  <2> QED BY <1>2, <2>1 DEF IsLiteral
<1>3. CASE v.type = "bool" /\ v.text \in {<<"true">>, <<"false">>}
  <2>1. v.type \notin {"None", "String"} /\ v.type \notin TemporalTypes
    BY <1>3 DEF TemporalTypes
  <2>2. "true" \in Char \ Breaks /\ "false" \in Char \ Breaks
    BY WordChars
  <2>3. v.text = <<"true">> \/ v.text = <<"false">>
    BY <1>3
  <2> QED BY <2>1, <2>2, <2>3, NumberForms
<1>4. CASE /\ v.type \in IntTypes \cup FloatTypes \cup {"Decimal"}
           /\ \E c \in Plain : v.text = <<c>> \/ v.text = <<"-", c>>
  <2>1. v.type \notin {"None", "String"} /\ v.type \notin TemporalTypes
    BY <1>4 DEF TemporalTypes, IntTypes, FloatTypes
  <2>2. PICK c \in Char \ Breaks : v.text = <<c>> \/ v.text = <<"-", c>>
    BY <1>4, WordChars
  <2> QED BY <2>1, <2>2, NumberForms
<1>5. CASE v.type \in TemporalTypes /\ \E c \in Plain : v.text = <<c>>
  <2>1. PICK c \in Char \ Breaks : v.text = <<c>>
    BY <1>5, WordChars
  <2>2. PICK k : k = Keyword[v.type]
    OBVIOUS
  <2>3. k \in {"DATE", "TIME", "TIMESTAMP"}
    BY <1>5, <2>2 DEF Keyword, TemporalTypes
  <2>4. k \in Char \ Breaks
    BY <2>3, WordChars
  <2>5. v.type # "None" /\ v.type # "String"
    BY <1>5 DEF TemporalTypes
  <2>6. add(v) = <<k, " ", "'">> \o <<c>> \o <<"'">>
    BY <1>5, <2>1, <2>2, <2>5 DEF add, encode, encode_temporal
  <2>7. TokensOf(v) = <<Word(k), Token("str", <<c>>)>>
    BY <1>5, <2>1, <2>2, <2>5 DEF TokensOf, Word
  <2> QED BY <2>1, <2>4, <2>6, <2>7 DEF IsDated
<1> QED BY <1>1, <1>2, <1>3, <1>4, <1>5, BindableCases

(* The lexer has w of the text p: in code, or behind the quote that ends   *)
(* the last token, which it does not know yet to be its end.               *)
Pending(p, w) ==
    \E y, x : LexAt(p, y, "quote", x) /\ w = Append(y, Token("str", x))
Has(p, w) == LexAt(p, w, "code", <<>>) \/ Pending(p, w)

(* Both sides of a literal are well formed.                                *)
Arrived(s, u, v) ==
    /\ add(v) \in Seq(Char) /\ TokensOf(v) \in Seq(Tok)
    /\ Has(s \o add(v), u \o TokensOf(v))

(* A word.                                                                 *)
LEMMA WordArrives ==
    ASSUME NEW s, NEW u, LexAt(s, u, "code", <<>>), NEW v, IsWord(v)
    PROVE  Arrived(s, u, v)
<1>1. PICK c \in Char \ Breaks : add(v) = <<c>> /\ TokensOf(v) = <<Word(c)>>
  BY DEF IsWord
<1>2. LexAt(Append(s, c), Append(u, Word(c)), "code", <<>>)
  BY LexWord, Zenon
<1>3. s \in Seq(Char) /\ u \in Seq(Tok) /\ c \in Char /\ Word(c) \in Tok
  BY Tokens DEF LexAt, Word
<1>4. One(Char, s, c) /\ One(Tok, u, Word(c))
  BY <1>3, ConcatOne, Zenon
<1> QED BY <1>1, <1>2, <1>4, Zenon DEF Arrived, Has, One

(* A number with its sign.                                                 *)
LEMMA SignedArrives ==
    ASSUME NEW s, NEW u, LexAt(s, u, "code", <<>>), NEW v, IsSigned(v)
    PROVE  Arrived(s, u, v)
<1>1. PICK c \in Char \ Breaks :
        add(v) = <<"-", c>> /\ TokensOf(v) = <<Word("-"), Word(c)>>
  BY DEF IsSigned
<1>2. LexAt(Append(Append(s, "-"), c), Append(Append(u, Word("-")), Word(c)),
            "code", <<>>)
  BY LexSigned, Zenon
<1>3. "-" \in Char
  BY Named, Zenon
<1>4. /\ s \in Seq(Char) /\ u \in Seq(Tok) /\ c \in Char
      /\ Word(c) \in Tok /\ Word("-") \in Tok
  BY <1>3, Tokens DEF LexAt, Word
<1>5. Two(Char, s, "-", c) /\ Two(Tok, u, Word("-"), Word(c))
  BY <1>3, <1>4, ConcatTwo, Zenon
<1> QED BY <1>1, <1>2, <1>5, Zenon DEF Arrived, Has, Two

(* A literal: the opening quote, the doubled text and the closing quote.   *)
LEMMA Quoted ==
    ASSUME NEW s, NEW u, LexAt(s, u, "code", <<>>), NEW x \in Seq(Char)
    PROVE  /\ encode_string_literal(x) \in Seq(Char)
           /\ LexAt(s \o encode_string_literal(x), u, "quote", x)
<1>1. PICK d, q, a : d = Joined(Doubling, x) /\ q = <<"'">> /\
             a = Append(s, "'")
  OBVIOUS
<1>2. s \in Seq(Char) /\ "'" \in Char /\ q \in Seq(Char) /\ s \o q = a
  <2>1. "'" \in Char
    BY Named, Zenon
  <2>2. s \in Seq(Char)
    BY DEF LexAt
  <2>3. One(Char, s, "'")
    BY <2>1, <2>2, ConcatOne, Zenon
  <2> QED BY <2>1, <2>2, <2>3, <1>1 DEF One
<1>3. LexAt(a, u, "str", <<>>)
  BY <1>1, LexInCode
<1>4. d \in Seq(Char) /\ LexAt(a \o d, u, "str", x)
  BY <1>1, <1>3, LexDoubled, Zenon
<1>5. LexAt(Append(a \o d, "'"), u, "quote", x)
  BY <1>2, <1>4, LexInString, Zenon
<1>6. encode_string_literal(x) = (q \o d) \o q
  BY <1>1, EncodedString
<1>7. Regroups(Char, s, q, d, q)
  BY <1>2, <1>4, Regrouped, Zenon
<1>8. (a \o d) \o q = Append(a \o d, "'")
  <2>1. a \o d \in Seq(Char)
    BY <1>4 DEF LexAt
  <2> QED BY <2>1, <1>1, <1>2, ConcatOne, Zenon DEF One
<1> QED BY <1>2, <1>5, <1>6, <1>7, <1>8, Zenon DEF Regroups

(* A string.                                                               *)
LEMMA LiteralArrives ==
    ASSUME NEW s, NEW u, LexAt(s, u, "code", <<>>), NEW v, IsLiteral(v)
    PROVE  Arrived(s, u, v)
<1>1. PICK x \in Seq(Char) : /\ add(v) = encode_string_literal(x)
                             /\ TokensOf(v) = <<Token("str", x)>>
  BY DEF IsLiteral
<1>2. /\ add(v) \in Seq(Char) /\ LexAt(s \o add(v), u, "quote", x)
  BY <1>1, Quoted, Zenon
<1>3. One(Tok, u, Token("str", x))
  <2>1. u \in Seq(Tok) /\ Token("str", x) \in Tok
    BY Tokens DEF LexAt
  <2> QED BY <2>1, ConcatOne, Zenon
<1> QED BY <1>1, <1>2, <1>3, Zenon DEF Arrived, Has, Pending, One

(* A date: its keyword, and its text as a literal.                         *)
LEMMA DatedArrives ==
    ASSUME NEW s, NEW u, LexAt(s, u, "code", <<>>), NEW v, IsDated(v)
    PROVE  Arrived(s, u, v)
<1>1. PICK k \in Char \ Breaks, c \in Char \ Breaks :
        /\ add(v) = <<k, " ", "'">> \o <<c>> \o <<"'">>
        /\ TokensOf(v) = <<Word(k), Token("str", <<c>>)>>
  BY DEF IsDated
<1>2. /\ c \in Char /\ k \in Char /\ c # "'" /\ <<c>> \in Seq(Char)
      /\ <<c>> = Append(<<>>, c)
  <2>1. c \in Char /\ k \in Char /\ c # "'"
    BY DEF Breaks
  <2>2. <<c>> = Append(<<>>, c)
    OBVIOUS
  <2> QED BY <2>1, <2>2, Tokens, Zenon
<1>3. "'" \in Char /\ " " \in Char
  BY Named, Zenon
<1>4. PICK s1, s2, s3, s4, s5, u1 :
        /\ s1 = Append(s, k) /\ s2 = Append(s1, " ") /\ s3 = Append(s2, "'")
        /\ s4 = Append(s3, c) /\ s5 = Append(s4, "'") /\ u1 = Append(u, Word(k))
  OBVIOUS
<1>5. LexAt(s1, u1, "code", <<>>)
  BY <1>4, LexWord, Zenon
<1>6. LexAt(s2, u1, "code", <<>>)
  BY <1>4, <1>5, LexInCode, Zenon
<1>7. LexAt(s3, u1, "str", <<>>)
  BY <1>4, <1>6, LexInCode, Zenon
<1>8. LexAt(s4, u1, "str", <<c>>)
  <2>1. LexAt(s4, u1, "str", Append(<<>>, c))
    BY <1>2, <1>4, <1>7, LexInString, Zenon
  <2> QED BY <2>1, <1>2, Zenon
<1>9. LexAt(s5, u1, "quote", <<c>>)
  BY <1>3, <1>4, <1>8, LexInString, Zenon
<1>10. /\ <<k, " ", "'">> \o <<c>> \o <<"'">> \in Seq(Char)
       /\ s \o (<<k, " ", "'">> \o <<c>> \o <<"'">>) = s5
  <2>1. s \in Seq(Char)
    BY DEF LexAt
  <2>2. PICK l : l = <<k, " ", "'">>
    OBVIOUS
  <2>3. l \in Seq(Char) /\ <<c>> \in Seq(Char) /\ <<"'">> \in Seq(Char)
    <3>1. Three(Char, s, k, " ", "'")
      BY <2>1, <1>2, <1>3, ConcatThree, Zenon
    <3> QED BY <2>2, <3>1, <1>2, <1>3, Tokens, Zenon DEF Three
  <2>4. s \o l = s3
    <3>1. Three(Char, s, k, " ", "'")
      BY <2>1, <1>2, <1>3, ConcatThree, Zenon
    <3> QED BY <2>2, <3>1, <1>4, Zenon DEF Three
  <2>5. s3 \in Seq(Char) /\ s4 \in Seq(Char)
    BY <1>7, <1>8 DEF LexAt
  <2>6. s3 \o <<c>> = s4 /\ s4 \o <<"'">> = s5
    BY <2>5, <1>2, <1>3, <1>4, ConcatOne, Zenon DEF One
  <2>7. Regroups(Char, s, l, <<c>>, <<"'">>)
    BY <2>1, <2>3, Regrouped, Zenon
  <2> QED BY <2>2, <2>4, <2>6, <2>7, Zenon DEF Regroups
<1>11. /\ TokensOf(v) \in Seq(Tok)
       /\ u \o TokensOf(v) = Append(u1, Token("str", <<c>>))
  <2>1. u \in Seq(Tok) /\ Word(k) \in Tok /\ Token("str", <<c>>) \in Tok
    BY <1>2, Tokens DEF LexAt, Word
  <2>2. Two(Tok, u, Word(k), Token("str", <<c>>))
    BY <2>1, ConcatTwo, Zenon
  <2> QED BY <2>2, <1>1, <1>4, Zenon DEF Two
<1> QED BY <1>1, <1>9, <1>10, <1>11, Zenon DEF Arrived, Has, Pending

(* Whatever is bound, the lexer has its tokens behind it.                  *)
LEMMA ValueArrives ==
    ASSUME NEW s, NEW u, LexAt(s, u, "code", <<>>), NEW v \in Bindable
    PROVE  Arrived(s, u, v)
BY Forms, WordArrives, SignedArrives, LiteralArrives, DatedArrives, Zenon

-----------------------------------------------------------------------------
(* Filling behind which nothing is to be filled.                           *)

NoHole(w, h) == \A i \in 1..Len(w) : w[i] # h

(* All but the last element.                                               *)
LEMMA NoHoleAppend ==
    ASSUME NEW T, NEW w \in Seq(T), NEW x \in T, NEW h
    PROVE  NoHole(Append(w, x), h) <=> NoHole(w, h) /\ x # h
<1>1. /\ Len(w) \in Nat /\ Len(Append(w, x)) = Len(w) + 1
      /\ \A i \in 1..Len(w) : Append(w, x)[i] = w[i]
      /\ Append(w, x)[Len(w) + 1] = x
  BY Grown
<1>2. PICK e, n : e = Append(w, x) /\ n = Len(w)
  OBVIOUS
<1>3. \A i \in 1..(n + 1) : i \in 1..n \/ i = n + 1
  BY <1>1, <1>2
<1>4. n + 1 \in 1..(n + 1) /\ \A i \in 1..n : i \in 1..(n + 1)
  BY <1>1, <1>2
<1>5. /\ Len(e) = n + 1 /\ \A i \in 1..n : e[i] = w[i]
      /\ e[n + 1] = x /\ n = Len(w)
  BY <1>1, <1>2, Zenon
<1>6. NoHole(e, h) <=> NoHole(w, h) /\ x # h
  BY <1>3, <1>4, <1>5, Zenon DEF NoHole
<1> QED BY <1>2, <1>6

(* A filled sequence is a sequence.                                        *)
LEMMA FillType ==
    ASSUME NEW T, NEW s \in Seq(T), NEW hole, NEW parts,
           Enough(s, hole, parts, T)
    PROVE  Fill(s, hole, parts) \in Seq(T)
<1> DEFINE S == {t \in Seq(T) : Enough(t, hole, parts, T)
                                  => Fill(t, hole, parts) \in Seq(T)}
<1>1. <<>> \in S
  <2>1. <<>> \in Seq(T)
    OBVIOUS
  <2> QED BY <2>1, FillEmpty
<1>2. ASSUME NEW t \in Seq(T), NEW x \in T, t \in S
      PROVE  Append(t, x) \in S
  <2>1. Append(t, x) \in Seq(T)
    OBVIOUS
  <2>2. ASSUME Enough(Append(t, x), hole, parts, T)
        PROVE  Fill(Append(t, x), hole, parts) \in Seq(T)
    <3>0. PICK f, p : f = Fill(t, hole, parts) /\ p = Piece(t, x, hole, parts)
      OBVIOUS
    <3>1. /\ Fill(t, hole, parts) \in Seq(T)
          /\ Piece(t, x, hole, parts) \in Seq(T)
          /\ Fill(Append(t, x), hole, parts) =
               Fill(t, hole, parts) \o Piece(t, x, hole, parts)
      BY <2>2, FillAppend
    <3>2. /\ f \in Seq(T) /\ p \in Seq(T)
          /\ Fill(Append(t, x), hole, parts) = f \o p
      BY <3>0, <3>1
    <3>3. f \o p \in Seq(T)
      BY <3>2
    <3> QED BY <3>2, <3>3
  <2> QED BY <2>1, <2>2
<1>3. \A t \in Seq(T) : t \in S
  <2> HIDE DEF S
  <2> QED BY <1>1, <1>2, SequenceInduction
<1> QED BY <1>3

(* Behind s, w stays as it is.                                             *)
Kept(T, s, w, hole, parts) ==
    /\ Holes(s \o w, hole) = Holes(s, hole)
    /\ Enough(s \o w, hole, parts, T)
    /\ Fill(s \o w, hole, parts) = Fill(s, hole, parts) \o w

(* A text without a hole does that.                                        *)
LEMMA FillKeeps ==
    ASSUME NEW T, NEW hole, NEW parts, NEW s \in Seq(T),
           Enough(s, hole, parts, T), NEW w \in Seq(T), NoHole(w, hole)
    PROVE  Kept(T, s, w, hole, parts)
<1> DEFINE S == {v \in Seq(T) : NoHole(v, hole) => Kept(T, s, v, hole, parts)}
<1>0. PICK f : f = Fill(s, hole, parts) /\ f \in Seq(T)
  BY FillType
<1>1. <<>> \in S
  <2>1. <<>> \in Seq(T) /\ s \o <<>> = s /\ f \o <<>> = f
    BY <1>0
  <2>2. Kept(T, s, <<>>, hole, parts)
    BY <1>0, <2>1, Zenon DEF Kept
  <2> QED BY <2>1, <2>2
<1>2. ASSUME NEW v \in Seq(T), NEW x \in T, v \in S
      PROVE  Append(v, x) \in S
  <2>1. Append(v, x) \in Seq(T)
    OBVIOUS
  <2>2. ASSUME NoHole(Append(v, x), hole)
        PROVE  Kept(T, s, Append(v, x), hole, parts)
    <3>1. NoHole(v, hole) /\ x # hole
      BY <2>2, NoHoleAppend
    <3>2. PICK t : t = s \o v
      OBVIOUS
    <3>3. t \in Seq(T)
      BY <3>2
    <3>4. /\ Holes(t, hole) = Holes(s, hole)
          /\ Enough(t, hole, parts, T)
          /\ Fill(t, hole, parts) = f \o v
      BY <1>0, <1>2, <3>1, <3>2 DEF Kept
    <3>5. /\ s \o Append(v, x) = Append(t, x)
          /\ f \o Append(v, x) = Append(f \o v, x)
      BY <1>0, <3>2, ConcatAppend
    <3>6. Holes(Append(t, x), hole) = Holes(t, hole)
      <4>1. /\ Holes(Append(t, x), hole) =
                 Holes(t, hole) + (IF x = hole THEN 1 ELSE 0)
            /\ Holes(t, hole) \in Nat
        BY <3>3, HolesAppend
      <4> QED BY <4>1, <3>1
    <3>7. Enough(Append(t, x), hole, parts, T)
      BY <3>4, <3>6 DEF Enough
    <3>8. Fill(Append(t, x), hole, parts) = Fill(t, hole, parts) \o <<x>>
      <4>1. Piece(t, x, hole, parts) = <<x>>
        BY <3>1 DEF Piece
      <4>2. Fill(Append(t, x), hole, parts) =
              Fill(t, hole, parts) \o Piece(t, x, hole, parts)
        BY <3>3, <3>7, FillAppend
      <4> QED BY <4>1, <4>2
    <3>9. (f \o v) \o <<x>> = Append(f \o v, x)
      <4>1. f \o v \in Seq(T)
        BY <1>0
      <4>2. One(T, f \o v, x)
        BY <4>1, ConcatOne, Zenon
      <4> QED BY <4>2 DEF One
    <3> QED BY <1>0, <3>4, <3>5, <3>6, <3>7, <3>8, <3>9, Zenon DEF Kept
  <2> QED BY <2>1, <2>2
<1>3. \A v \in Seq(T) : v \in S
  <2> HIDE DEF S
  <2> QED BY <1>1, <1>2, SequenceInduction
<1> QED BY <1>3

-----------------------------------------------------------------------------
(* What a step of the lexer adds does not depend on the tokens before.     *)

Adds(m, x, c, w, n, y) ==
    /\ w \in Seq(Tok) /\ n \in Modes /\ y \in Seq(Char)
    /\ \A u \in Seq(Tok) :
         LexStep(Lexed(u, m, x), c) = Lexed(u \o w, n, y)

CodeAdds(c, w, n) ==
    /\ w \in Seq(Tok) /\ n \in {"str", "dash", "code"}
    /\ \A u \in Seq(Tok) : InCode(u, c) = Lexed(u \o w, n, <<>>)

(* In code, a word is added or nothing.                                    *)
LEMMA InCodeAdds ==
    ASSUME NEW c \in Char
    PROVE  \E w, n : /\ CodeAdds(c, w, n)
                     /\ w = <<>> \/ w = <<Word(c)>>
                     /\ n = "dash" => c = "-"
                     /\ c = "?" => w = <<Mark>> /\ n = "code"
<1>1. \A u \in Seq(Tok) : u \o <<>> = u
  OBVIOUS
<1>2. \A u \in Seq(Tok) : u \o <<Word(c)>> = Append(u, Word(c))
  <2> TAKE u \in Seq(Tok)
  <2>1. Word(c) \in Tok
    BY Tokens DEF Word
  <2>2. One(Tok, u, Word(c))
    BY <2>1, ConcatOne, Zenon
  <2> QED BY <2>2 DEF One
<1>3. <<>> \in Seq(Tok) /\ <<Word(c)>> \in Seq(Tok)
  <2>1. Word(c) \in Tok
    BY Tokens DEF Word
  <2> QED BY <2>1
<1>4. CASE c = "'"
  <2>1. \A u \in Seq(Tok) : InCode(u, c) = Lexed(u, "str", <<>>)
    BY <1>4, InCodeCases
  <2>2. CodeAdds(c, <<>>, "str")
    BY <1>1, <1>3, <2>1 DEF CodeAdds
  <2> QED BY <1>4, <2>2
<1>5. CASE c = "-"
  <2>1. \A u \in Seq(Tok) : InCode(u, c) = Lexed(u, "dash", <<>>)
    BY <1>5, InCodeCases
  <2>2. CodeAdds(c, <<>>, "dash")
    BY <1>1, <1>3, <2>1 DEF CodeAdds
  <2> QED BY <1>5, <2>2
<1>6. CASE c \in {" ", "\n"}
  <2>1. \A u \in Seq(Tok) : InCode(u, c) = Lexed(u, "code", <<>>)
    BY <1>6, InCodeCases
  <2>2. CodeAdds(c, <<>>, "code")
    BY <1>1, <1>3, <2>1 DEF CodeAdds
  <2> QED BY <1>6, <2>2
<1>7. CASE c \notin {"'", "-", " ", "\n"}
  <2>1. \A u \in Seq(Tok) :
          InCode(u, c) = Lexed(Append(u, Word(c)), "code", <<>>)
    BY <1>7, InCodeCases DEF Word
  <2>2. CodeAdds(c, <<Word(c)>>, "code")
    BY <1>2, <1>3, <2>1 DEF CodeAdds
  <2>3. c = "?" => <<Word(c)>> = <<Mark>>
    BY DEF Word, Mark
  <2> QED BY <2>2, <2>3
<1> QED BY <1>4, <1>5, <1>6, <1>7

(* Behind a token that was pending.                                        *)
LEMMA InCodeBehind ==
    ASSUME NEW c \in Char, NEW a \in Tok, NEW w, NEW n, CodeAdds(c, w, n)
    PROVE  /\ <<a>> \o w \in Seq(Tok)
           /\ \A u \in Seq(Tok) :
                InCode(Append(u, a), c) = Lexed(u \o (<<a>> \o w), n, <<>>)
<1>1. w \in Seq(Tok)
  BY DEF CodeAdds
<1>2. <<a>> \in Seq(Tok)
  OBVIOUS
<1>3. ASSUME NEW u \in Seq(Tok)
      PROVE  InCode(Append(u, a), c) = Lexed(u \o (<<a>> \o w), n, <<>>)
  <2>1. PICK e, t : e = <<a>> /\ t = Append(u, a)
    OBVIOUS
  <2>2. t = u \o e /\ t \in Seq(Tok) /\ e \in Seq(Tok)
    <3>1. One(Tok, u, a)
      BY ConcatOne, Zenon
    <3> QED BY <2>1, <3>1, <1>2 DEF One
  <2>3. InCode(t, c) = Lexed(t \o w, n, <<>>)
    BY <2>2 DEF CodeAdds
  <2>4. (u \o e) \o w = u \o (e \o w)
    BY <1>1, <2>2
  <2> QED BY <2>1, <2>2, <2>3, <2>4, Zenon
<1>4. <<a>> \o w \in Seq(Tok)
  <2>1. PICK e : e = <<a>>
    OBVIOUS
  <2>2. e \in Seq(Tok)
    BY <2>1
  <2>3. e \o w \in Seq(Tok)
    BY <1>1, <2>2
  <2> QED BY <2>1, <2>3
<1> QED BY <1>3, <1>4

(* Which tokens are marks.                                                 *)
LEMMA MarkFacts ==
    /\ Mark \in Tok /\ Mark = Word("?")
    /\ \A c : c # "?" => Word(c) # Mark
    /\ \A x : Token("str", x) # Mark
<1>1. "?" \in Char
  BY Named, Zenon
<1>2. Word("?") \in Tok
  BY <1>1, Tokens DEF Word
<1>3. ASSUME NEW c, Word(c) = Mark PROVE c = "?"
  <2>1. Word(c).text[1] = c /\ Mark.text[1] = "?"
    BY DEF Word, Mark, Token
  <2> QED BY <2>1, <1>3
<1>4. ASSUME NEW x PROVE Token("str", x) # Mark
  <2>1. Token("str", x).kind = "str" /\ Mark.kind = "word"
    BY DEF Mark, Token
  <2> QED BY <2>1
<1> QED BY <1>2, <1>3, <1>4 DEF Mark, Word

(* One token of which none is a mark, or two.                              *)
LEMMA NoMarks ==
    ASSUME NEW a, a # Mark
    PROVE  /\ NoHole(<<>>, Mark) /\ NoHole(<<a>>, Mark)
           /\ NoHole(<<a>> \o <<>>, Mark)
           /\ \A b : b # Mark => NoHole(<<a>> \o <<b>>, Mark)
<1>1. NoHole(<<>>, Mark)
  BY DEF NoHole
<1>2. NoHole(<<a>>, Mark)
  BY DEF NoHole
<1>3. <<a>> \o <<>> = <<a>>
  OBVIOUS
<1>4. ASSUME NEW b, b # Mark PROVE NoHole(<<a>> \o <<b>>, Mark)
  <2>1. PICK e, T : e = <<a>> /\ T = {a, b}
    OBVIOUS
  <2>2. e \in Seq(T) /\ b \in T
    BY <2>1
  <2>3. e \o <<b>> = Append(e, b)
    <3>1. One(T, e, b)
      BY <2>2, ConcatOne, Zenon
    <3> QED BY <3>1 DEF One
  <2>4. NoHole(Append(e, b), Mark)
    BY <1>2, <1>4, <2>1, <2>2, NoHoleAppend
  <2> QED BY <2>1, <2>3, <2>4
<1> QED BY <1>1, <1>2, <1>3, <1>4

(* What is added is known from the character and the mode.                 *)
Tame(m, c, w, n, y) ==
    /\ c # "?" => NoHole(w, Mark)
    /\ c = "?" /\ m \in {"str", "comment"} => NoHole(w, Mark)
    /\ c = "?" /\ m = "code" => w = <<Mark>> /\ n = "code"
    /\ c = "?" /\ m \in {"quote", "dash"} =>
         \E a \in Tok : a # Mark /\ w = <<a>> \o <<Mark>>
    /\ n = "quote" => c = "'"
    /\ n = "dash" => c = "-"
    /\ n = "code" => y = <<>>

(* Behind a token that was pending.                                        *)
LEMMA PendingAdds ==
    ASSUME NEW m \in {"quote", "dash"}, NEW x \in Seq(Char), NEW c \in Char,
           NEW a \in Tok, a # Mark,
           \A u \in Seq(Tok) :
             LexStep(Lexed(u, m, x), c) = InCode(Append(u, a), c)
    PROVE  \E w, n, y : Adds(m, x, c, w, n, y) /\ Tame(m, c, w, n, y)
<1>1. PICK w, n : /\ CodeAdds(c, w, n)
                  /\ w = <<>> \/ w = <<Word(c)>>
                  /\ n = "dash" => c = "-"
                  /\ c = "?" => w = <<Mark>> /\ n = "code"
  BY InCodeAdds
<1>2. n \in {"str", "dash", "code"} /\ n \in Modes
  BY <1>1 DEF CodeAdds, Modes
<1>3. Adds(m, x, c, <<a>> \o w, n, <<>>)
  <2>1. /\ <<a>> \o w \in Seq(Tok)
        /\ \A u \in Seq(Tok) :
             InCode(Append(u, a), c) = Lexed(u \o (<<a>> \o w), n, <<>>)
    BY <1>1, InCodeBehind
  <2>2. \A u \in Seq(Tok) :
          LexStep(Lexed(u, m, x), c) = Lexed(u \o (<<a>> \o w), n, <<>>)
    BY <2>1, Zenon
  <2> QED BY <1>2, <2>1, <2>2, Tokens, Zenon DEF Adds
<1>4. ASSUME c # "?" PROVE NoHole(<<a>> \o w, Mark)
  <2>1. Word(c) # Mark
    BY <1>4, MarkFacts, Zenon
  <2>2. NoHole(<<a>> \o <<>>, Mark) /\ NoHole(<<a>> \o <<Word(c)>>, Mark)
    BY <2>1, NoMarks, Zenon
  <2> QED BY <2>2, <1>1, Zenon
<1>5. Tame(m, c, <<a>> \o w, n, <<>>)
  <2>1. c = "?" /\ m \in {"quote", "dash"} =>
          \E b \in Tok : b # Mark /\ <<a>> \o w = <<b>> \o <<Mark>>
    BY <1>1
  <2>2. n # "quote" /\ (n = "dash" => c = "-")
    BY <1>1, <1>2
  <2>3. m \notin {"str", "comment", "code"}
    OBVIOUS
  <2> QED BY <1>4, <2>1, <2>2, <2>3 DEF Tame
<1> QED BY <1>3, <1>5, Zenon

(* In every mode.                                                          *)
LEMMA LexAdds ==
    ASSUME NEW m \in Modes, NEW x \in Seq(Char), NEW c \in Char
    PROVE  \E w, n, y : Adds(m, x, c, w, n, y) /\ Tame(m, c, w, n, y)
<1>0. /\ \A u \in Seq(Tok) : u \o <<>> = u
      /\ <<>> \in Seq(Tok) /\ Append(x, c) \in Seq(Char) /\ <<>> \in Seq(Char)
  OBVIOUS
<1>1. /\ "str" \in Modes /\ "quote" \in Modes /\ "dash" \in Modes
      /\ "comment" \in Modes /\ "code" \in Modes
  BY DEF Modes
<1>2. NoHole(<<>>, Mark)
  BY DEF NoHole
<1>3. CASE m = "str"
  <2>1. CASE c = "'"
    <3>1. \A u \in Seq(Tok) :
            LexStep(Lexed(u, "str", x), c) = Lexed(u, "quote", x)
      BY <2>1, LexStepCases
    <3>2. Adds(m, x, c, <<>>, "quote", x)
      BY <1>0, <1>1, <1>3, <3>1 DEF Adds
    <3>3. Tame(m, c, <<>>, "quote", x)
      BY <1>2, <1>3, <2>1 DEF Tame
    <3> QED BY <3>2, <3>3, Zenon
  <2>2. CASE c # "'"
    <3>1. \A u \in Seq(Tok) :
            LexStep(Lexed(u, "str", x), c) = Lexed(u, "str", Append(x, c))
      BY <2>2, LexStepCases
    <3>2. Adds(m, x, c, <<>>, "str", Append(x, c))
      BY <1>0, <1>1, <1>3, <3>1 DEF Adds
    <3>3. Tame(m, c, <<>>, "str", Append(x, c))
      BY <1>2, <1>3 DEF Tame
    <3> QED BY <3>2, <3>3, Zenon
  <2> QED BY <2>1, <2>2
<1>4. CASE m = "quote"
  <2>1. CASE c = "'"
    <3>1. \A u \in Seq(Tok) :
            LexStep(Lexed(u, "quote", x), c) = Lexed(u, "str", Append(x, c))
      BY <2>1, LexStepCases
    <3>2. Adds(m, x, c, <<>>, "str", Append(x, c))
      BY <1>0, <1>1, <1>4, <3>1 DEF Adds
    <3>3. Tame(m, c, <<>>, "str", Append(x, c))
      BY <1>2, <1>4, <2>1 DEF Tame
    <3> QED BY <3>2, <3>3, Zenon
  <2>2. CASE c # "'"
    <3>1. \A u \in Seq(Tok) : LexStep(Lexed(u, "quote", x), c) =
                                InCode(Append(u, Token("str", x)), c)
      BY <2>2, LexStepCases
    <3>2. Token("str", x) \in Tok /\ Token("str", x) # Mark
      BY Tokens, MarkFacts, Zenon
    <3> QED BY <1>4, <3>1, <3>2, PendingAdds
  <2> QED BY <2>1, <2>2
<1>5. CASE m = "dash"
  <2>1. CASE c = "-"
    <3>1. \A u \in Seq(Tok) :
            LexStep(Lexed(u, "dash", x), c) = Lexed(u, "comment", <<>>)
      BY <2>1, LexStepCases
    <3>2. Adds(m, x, c, <<>>, "comment", <<>>)
      BY <1>0, <1>1, <1>5, <3>1 DEF Adds
    <3>3. Tame(m, c, <<>>, "comment", <<>>)
      BY <1>2, <1>5, <2>1 DEF Tame
    <3> QED BY <3>2, <3>3, Zenon
  <2>2. CASE c # "-"
    <3>1. \A u \in Seq(Tok) :
            LexStep(Lexed(u, "dash", x), c) = InCode(Append(u, Word("-")), c)
      BY <2>2, LexStepCases DEF Word
    <3>2. "-" \in Char /\ "-" # "?"
      BY Named, Zenon
    <3>3. Word("-") \in Tok /\ Word("-") # Mark
      <4>1. Word("-") \in Tok
        BY <3>2, Tokens, Zenon DEF Word
      <4>2. Word("-") # Mark
        BY <3>2, MarkFacts, Zenon
      <4> QED BY <4>1, <4>2
    <3> QED BY <1>5, <3>1, <3>3, PendingAdds
  <2> QED BY <2>1, <2>2
<1>6. CASE m = "comment" /\ c # "\n"
  <2>1. \A u \in Seq(Tok) :
          LexStep(Lexed(u, "comment", x), c) = Lexed(u, "comment", x)
    BY <1>6, LexStepCases
  <2>2. Adds(m, x, c, <<>>, "comment", x)
    BY <1>0, <1>1, <1>6, <2>1 DEF Adds
  <2>3. Tame(m, c, <<>>, "comment", x)
    BY <1>2, <1>6 DEF Tame
  <2> QED BY <2>2, <2>3, Zenon
<1>7. CASE m = "code" \/ (m = "comment" /\ c = "\n")
  <2>1. \A u \in Seq(Tok) : LexStep(Lexed(u, m, x), c) = InCode(u, c)
    BY <1>7, LexStepCases
  <2>2. PICK w, n : /\ CodeAdds(c, w, n)
                    /\ w = <<>> \/ w = <<Word(c)>>
                    /\ n = "dash" => c = "-"
                    /\ c = "?" => w = <<Mark>> /\ n = "code"
    BY InCodeAdds
  <2>3. n \in {"str", "dash", "code"} /\ n \in Modes
    BY <2>2 DEF CodeAdds, Modes
  <2>4. Adds(m, x, c, w, n, <<>>)
    BY <2>1, <2>2, <2>3, <1>0, Zenon DEF Adds, CodeAdds
  <2>5. c # "?" => NoHole(w, Mark)
    <3>1. ASSUME c # "?" PROVE NoHole(<<>>, Mark) /\ NoHole(<<Word(c)>>, Mark)
      <4>1. Word(c) # Mark
        BY <3>1, MarkFacts, Zenon
      <4>2. NoHole(<<Word(c)>>, Mark)
        BY <4>1 DEF NoHole
      <4> QED BY <4>2, <1>2
    <3> QED BY <2>2, <3>1
  <2>6. Tame(m, c, w, n, <<>>)
    BY <1>7, <2>2, <2>3, <2>5 DEF Tame
  <2> QED BY <2>4, <2>6, Zenon
<1> QED BY <1>3, <1>4, <1>5, <1>6, <1>7 DEF Modes

-----------------------------------------------------------------------------
(* The marks of a query are among its placeholders.                        *)

(* The step of the lexer that reads c behind s.                            *)
Reading(s, c, u, m, x, w, n, y) ==
    /\ u \in Seq(Tok) /\ m \in Modes /\ x \in Seq(Char)
    /\ Lex(s) = Lexed(u, m, x)
    /\ w \in Seq(Tok) /\ n \in Modes /\ y \in Seq(Char)
    /\ Adds(m, x, c, w, n, y) /\ Tame(m, c, w, n, y)
    /\ Lex(Append(s, c)) = Lexed(u \o w, n, y)

(* There always is one.                                                    *)
LEMMA ReadingExists ==
    ASSUME NEW s \in Seq(Char), NEW c \in Char
    PROVE  \E u, m, x, w, n, y : Reading(s, c, u, m, x, w, n, y)
<1>1. Lex(s) \in LexStates /\ Lex(Append(s, c)) = LexStep(Lex(s), c)
  BY LexLaws, Zenon
<1>2. PICK u, m, x : /\ u \in Seq(Tok) /\ m \in Modes /\ x \in Seq(Char)
                     /\ Lex(s) = Lexed(u, m, x)
  <2>1. PICK st : st = Lex(s)
    OBVIOUS
  <2> QED BY <1>1, <2>1, StAll
<1>3. PICK w, n, y : Adds(m, x, c, w, n, y) /\ Tame(m, c, w, n, y)
  BY <1>2, LexAdds, Zenon
<1>4. LexStep(Lexed(u, m, x), c) = Lexed(u \o w, n, y)
  BY <1>2, <1>3, Zenon DEF Adds
<1>5. w \in Seq(Tok) /\ n \in Modes /\ y \in Seq(Char)
  BY <1>3, Zenon DEF Adds
<1>6. Reading(s, c, u, m, x, w, n, y)
  BY <1>1, <1>2, <1>3, <1>4, <1>5, Zenon DEF Reading
<1> QED BY <1>6, Zenon

(* No part is needed where there is no hole.                               *)
LEMMA FreeCounts ==
    ASSUME NEW T, NEW s \in Seq(T), NEW w \in Seq(T), NEW h, NoHole(w, h)
    PROVE  Holes(s \o w, h) = Holes(s, h)
<1>1. PICK ps : ps = [k \in 1..Holes(s, h) |-> <<>>]
  OBVIOUS
<1>2. Enough(s, h, ps, T)
  <2>1. \A k \in 1..Holes(s, h) : ps[k] = <<>>
    BY <1>1
  <2>2. <<>> \in Seq(T)
    OBVIOUS
  <2> QED BY <2>1, <2>2, Zenon DEF Enough
<1> QED BY <1>2, FillKeeps, Zenon DEF Kept

(* How many marks a step adds.                                             *)
LEMMA MarksAdded ==
    ASSUME NEW u \in Seq(Tok), NEW m \in Modes, NEW c, NEW w \in Seq(Tok),
           NEW n, NEW y, Tame(m, c, w, n, y)
    PROVE  /\ Holes(u, Mark) \in Nat
           /\ c # "?" => Holes(u \o w, Mark) = Holes(u, Mark)
           /\ m \in {"str", "comment"} => Holes(u \o w, Mark) = Holes(u, Mark)
           /\ c = "?" /\ m \in {"code", "quote", "dash"} =>
                Holes(u \o w, Mark) = Holes(u, Mark) + 1
<1>1. /\ Holes(u, Mark) \in Nat
      /\ \A t \in Seq(Tok) : Holes(Append(t, Mark), Mark) = Holes(t, Mark) + 1
  BY MarkFacts, HolesAppend
<1>2. NoHole(w, Mark) => Holes(u \o w, Mark) = Holes(u, Mark)
  BY FreeCounts, Zenon
<1>3. c # "?" => NoHole(w, Mark)
  BY DEF Tame
<1>4. m \in {"str", "comment"} => NoHole(w, Mark)
  BY DEF Tame
<1>5. Mark \in Tok
  BY MarkFacts
<1>6. CASE c = "?" /\ m = "code"
  <2>1. w = <<Mark>>
    BY <1>6 DEF Tame
  <2>2. u \o <<Mark>> = Append(u, Mark)
    <3>1. One(Tok, u, Mark)
      BY <1>5, ConcatOne, Zenon
    <3> QED BY <3>1 DEF One
  <2> QED BY <1>1, <1>6, <2>1, <2>2
<1>7. CASE c = "?" /\ m \in {"quote", "dash"}
  <2>1. PICK a \in Tok : a # Mark /\ w = <<a>> \o <<Mark>>
    BY <1>7 DEF Tame
  <2>2. PICK e, t : e = <<a>> /\ t = u \o e
    OBVIOUS
  <2>3. e \in Seq(Tok)
    BY <2>2
  <2>4. t \in Seq(Tok)
    BY <2>2, <2>3
  <2>5. NoHole(e, Mark)
    BY <2>1, <2>2, NoMarks
  <2>6. Holes(t, Mark) = Holes(u, Mark)
    BY <2>2, <2>3, <2>5, FreeCounts, Zenon
  <2>7. e \o <<Mark>> = Append(e, Mark)
    <3>1. One(Tok, e, Mark)
      BY <1>5, <2>3, ConcatOne, Zenon
    <3> QED BY <3>1 DEF One
  <2>8. u \o Append(e, Mark) = Append(u \o e, Mark)
    BY <1>5, <2>3, ConcatAppend
  <2>9. u \o w = Append(t, Mark)
    BY <2>1, <2>2, <2>7, <2>8, Zenon
  <2> QED BY <1>1, <1>7, <2>4, <2>6, <2>9
<1> QED BY <1>1, <1>2, <1>3, <1>4, <1>6, <1>7

(* A prefix whose marks are as many as its placeholders.                   *)
Clean(s) == Holes(Lex(s).tokens, Mark) = Holes(s, "?")

(* Marks never outnumber the placeholders, and a text that has as many had *)
(* as many before its last character.                                      *)
LEMMA Marks ==
    ASSUME NEW s \in Seq(Char)
    PROVE  /\ Holes(Lex(s).tokens, Mark) <= Holes(s, "?")
           /\ \A c \in Char : Clean(Append(s, c)) => Clean(s)
<1> DEFINE S == {t \in Seq(Char) : Holes(Lex(t).tokens, Mark) <= Holes(t, "?")}
<1>1. <<>> \in S
  <2>1. <<>> \in Seq(Char)
    OBVIOUS
  <2>2. Lex(<<>>).tokens = <<>>
    BY LexLaws, StParts DEF LexStart
  <2>3. Holes(<<>>, Mark) = 0 /\ Holes(<<>>, "?") = 0
    BY <2>1, MarkFacts, HolesAppend, Named
  <2> QED BY <2>1, <2>2, <2>3
<1>2. ASSUME NEW t \in Seq(Char), NEW c \in Char
      PROVE  /\ Holes(Lex(t).tokens, Mark) \in Nat
             /\ Holes(t, "?") \in Nat
             /\ Holes(Append(t, c), "?") =
                  Holes(t, "?") + (IF c = "?" THEN 1 ELSE 0)
             /\ \/ Holes(Lex(Append(t, c)).tokens, Mark) =
                     Holes(Lex(t).tokens, Mark)
                \/ /\ Holes(Lex(Append(t, c)).tokens, Mark) =
                        Holes(Lex(t).tokens, Mark) + 1
                   /\ c = "?"
  <2>1. /\ Holes(t, "?") \in Nat
        /\ Holes(Append(t, c), "?") = Holes(t, "?") + (IF c = "?" THEN 1 ELSE 0)
    BY HolesAppend
  <2>2. PICK u, m, x, w, n, y : Reading(t, c, u, m, x, w, n, y)
    BY ReadingExists
  <2>3. /\ u \in Seq(Tok) /\ m \in Modes /\ w \in Seq(Tok)
        /\ Tame(m, c, w, n, y)
        /\ Lex(t) = Lexed(u, m, x) /\ Lex(Append(t, c)) = Lexed(u \o w, n, y)
    BY <2>2, Zenon DEF Reading
  <2>4. Lex(t).tokens = u /\ Lex(Append(t, c)).tokens = u \o w
    BY <2>3 DEF Lexed
  <2>5. /\ Holes(u, Mark) \in Nat
        /\ c # "?" => Holes(u \o w, Mark) = Holes(u, Mark)
        /\ m \in {"str", "comment"} => Holes(u \o w, Mark) = Holes(u, Mark)
        /\ c = "?" /\ m \in {"code", "quote", "dash"} =>
             Holes(u \o w, Mark) = Holes(u, Mark) + 1
    BY <2>3, MarksAdded
  <2>6. m \in {"str", "comment"} \/ m \in {"code", "quote", "dash"}
    BY <2>3 DEF Modes
  <2> QED BY <2>1, <2>4, <2>5, <2>6
<1>3. ASSUME NEW t \in Seq(Char), NEW c \in Char, t \in S
      PROVE  Append(t, c) \in S
  <2>1. Append(t, c) \in Seq(Char)
    OBVIOUS
  <2>2. Holes(Lex(t).tokens, Mark) <= Holes(t, "?")
    BY <1>3
  <2>3. Holes(Lex(Append(t, c)).tokens, Mark) <= Holes(Append(t, c), "?")
    BY <2>2, <1>2
  <2> QED BY <2>1, <2>3
<1>4. \A t \in Seq(Char) : t \in S
  <2> HIDE DEF S
  <2> QED BY <1>1, <1>3, SequenceInduction
<1>5. Holes(Lex(s).tokens, Mark) <= Holes(s, "?")
  BY <1>4
<1>6. ASSUME NEW c \in Char, Clean(Append(s, c)) PROVE Clean(s)
  <2>1. Holes(Lex(Append(s, c)).tokens, Mark) = Holes(Append(s, c), "?")
    BY <1>6 DEF Clean
  <2>2. Holes(Lex(s).tokens, Mark) = Holes(s, "?")
    BY <2>1, <1>2, <1>5
  <2> QED BY <2>2 DEF Clean
<1> QED BY <1>5, <1>6

-----------------------------------------------------------------------------
(* The lexer on the filled query keeps up with the lexer on the query.     *)

(* What the mode says about the last character.                            *)
Shape(s) ==
    /\ Lex(s).mode = "quote" => Len(s) > 0 /\ s[Len(s)] = "'"
    /\ Lex(s).mode = "dash" => Len(s) > 0 /\ s[Len(s)] = "-"
    /\ Lex(s).mode = "code" => Lex(s).cur = <<>>

(* This holds of every text.                                               *)
LEMMA Shapes ==
    ASSUME NEW s \in Seq(Char)
    PROVE  Shape(s)
<1> DEFINE S == {t \in Seq(Char) : Shape(t)}
<1>1. <<>> \in S
  <2>1. <<>> \in Seq(Char)
    OBVIOUS
  <2>2. Lex(<<>>).mode = "code" /\ Lex(<<>>).cur = <<>>
    BY LexLaws DEF LexStart, Lexed
  <2> QED BY <2>1, <2>2 DEF Shape
<1>2. ASSUME NEW t \in Seq(Char), NEW c \in Char, t \in S
      PROVE  Append(t, c) \in S
  <2>1. PICK u, m, x, w, n, y : Reading(t, c, u, m, x, w, n, y)
    BY ReadingExists
  <2>2. Tame(m, c, w, n, y) /\ Lex(Append(t, c)) = Lexed(u \o w, n, y)
    BY <2>1, Zenon DEF Reading
  <2>3. Lex(Append(t, c)).mode = n /\ Lex(Append(t, c)).cur = y
    BY <2>2 DEF Lexed
  <2>4. /\ Append(t, c) \in Seq(Char) /\ Len(Append(t, c)) > 0
        /\ Append(t, c)[Len(Append(t, c))] = c
    <3>1. /\ Append(t, c) \in Seq(Char) /\ Len(t) \in Nat
          /\ Len(Append(t, c)) = Len(t) + 1 /\ Append(t, c)[Len(t) + 1] = c
      BY Grown
    <3> QED BY <3>1
  <2>5. /\ n = "quote" => c = "'"
        /\ n = "dash" => c = "-"
        /\ n = "code" => y = <<>>
    BY <2>2 DEF Tame
  <2>6. Shape(Append(t, c))
    BY <2>3, <2>4, <2>5, Zenon DEF Shape
  <2> QED BY <2>4, <2>6
<1>3. \A t \in Seq(Char) : t \in S
  <2> HIDE DEF S
  <2> QED BY <1>1, <1>2, SequenceInduction
<1> QED BY <1>3

(* What Separate says about the neighbours of a placeholder.               *)
Apart(s) ==
    \A i \in 1..Len(s) : s[i] = "?" =>
      /\ i > 1 /\ s[i - 1] \notin {"'", "?"}
      /\ i < Len(s) => s[i + 1] # "'"

(* One character more.                                                     *)
LEMMA ApartAppend ==
    ASSUME NEW s \in Seq(Char), NEW c \in Char
    PROVE  /\ Apart(Append(s, c)) =>
                /\ Apart(s)
                /\ c = "?" => Len(s) > 0 /\ s[Len(s)] \notin {"'", "?"}
                /\ Len(s) > 0 /\ s[Len(s)] = "?" => c # "'"
           /\ Apart(s) /\ c # "?" /\ c # "'" => Apart(Append(s, c))
<1>1. PICK e, n : e = Append(s, c) /\ n = Len(s)
  OBVIOUS
<1>2. /\ n \in Nat /\ Len(e) = n + 1 /\ e[n + 1] = c
      /\ \A i \in 1..n : e[i] = s[i]
  <2>1. /\ Len(s) \in Nat /\ Len(Append(s, c)) = Len(s) + 1
        /\ Append(s, c)[Len(s) + 1] = c
        /\ \A i \in 1..Len(s) : Append(s, c)[i] = s[i]
    BY Grown
  <2> QED BY <1>1, <2>1, Zenon
<1>3. ASSUME Apart(e)
      PROVE  /\ Apart(s)
             /\ c = "?" => n > 0 /\ s[n] \notin {"'", "?"}
             /\ n > 0 /\ s[n] = "?" => c # "'"
  <2>1. \A i \in 1..(n + 1) : e[i] = "?" =>
          /\ i > 1 /\ e[i - 1] \notin {"'", "?"}
          /\ i < n + 1 => e[i + 1] # "'"
    BY <1>2, <1>3 DEF Apart
  <2>2. ASSUME NEW i \in 1..n, s[i] = "?"
        PROVE  /\ i > 1 /\ s[i - 1] \notin {"'", "?"}
               /\ i < n => s[i + 1] # "'"
    <3>1. i \in 1..(n + 1) /\ e[i] = "?" /\ i < n + 1
      BY <1>2, <2>2
    <3>2. i > 1 /\ e[i - 1] \notin {"'", "?"} /\ e[i + 1] # "'"
      BY <2>1, <3>1
    <3>3. e[i - 1] = s[i - 1] /\ (i < n => e[i + 1] = s[i + 1])
      BY <1>2, <3>2
    <3> QED BY <3>2, <3>3
  <2>3. Apart(s)
    BY <1>1, <2>2 DEF Apart
  <2>4. c = "?" => n > 0 /\ s[n] \notin {"'", "?"}
    <3> SUFFICES ASSUME c = "?" PROVE n > 0 /\ s[n] \notin {"'", "?"}
      OBVIOUS
    <3>1. n + 1 \in 1..(n + 1)
      BY <1>2
    <3>2. n + 1 > 1 /\ e[n + 1 - 1] \notin {"'", "?"}
      BY <2>1, <3>1, <1>2
    <3>3. n \in 1..n /\ n + 1 - 1 = n /\ n > 0
      BY <1>2, <3>2
    <3> QED BY <3>2, <3>3, <1>2
  <2>5. n > 0 /\ s[n] = "?" => c # "'"
    <3> SUFFICES ASSUME n > 0, s[n] = "?" PROVE c # "'"
      OBVIOUS
    <3>1. n \in 1..n /\ n \in 1..(n + 1) /\ n < n + 1
      BY <1>2
    <3>2. e[n] = "?"
      BY <3>1, <1>2
    <3> QED BY <3>1, <3>2, <2>1, <1>2
  <2> QED BY <2>3, <2>4, <2>5
<1>4. ASSUME Apart(s), c # "?", c # "'" PROVE Apart(e)
  <2>1. \A i \in 1..n : s[i] = "?" =>
          /\ i > 1 /\ s[i - 1] \notin {"'", "?"}
          /\ i < n => s[i + 1] # "'"
    BY <1>1, <1>4 DEF Apart
  <2>2. ASSUME NEW i \in 1..(n + 1), e[i] = "?"
        PROVE  /\ i > 1 /\ e[i - 1] \notin {"'", "?"}
               /\ i < n + 1 => e[i + 1] # "'"
    <3>1. i \in 1..n
      BY <1>2, <1>4, <2>2
    <3>2. s[i] = "?"
      BY <1>2, <2>2, <3>1
    <3>3. /\ i > 1 /\ s[i - 1] \notin {"'", "?"}
          /\ i < n => s[i + 1] # "'"
      BY <2>1, <3>1, <3>2
    <3>4. e[i - 1] = s[i - 1]
      BY <1>2, <3>1, <3>3
    <3>5. CASE i < n
      <4>1. e[i + 1] = s[i + 1]
        BY <1>2, <3>1, <3>5
      <4> QED BY <3>3, <3>4, <3>5, <4>1
    <3>6. CASE i = n
      <4>1. e[i + 1] = c
        BY <1>2, <3>6
      <4> QED BY <3>3, <3>4, <4>1, <1>4
    <3> QED BY <3>1, <3>5, <3>6, <1>2
  <2> QED BY <1>2, <2>2 DEF Apart
<1> QED BY <1>1, <1>3, <1>4, Zenon

(* No literal that begins with a minus sign goes behind one.               *)
Signs(s, ls) ==
    \A i \in 2..Len(s) :
      s[i - 1] = "-" /\ s[i] = "?" => ls[Count(s, "?", i)][1] # "-"

(* One character more.                                                     *)
LEMMA SignsAppend ==
    ASSUME NEW s \in Seq(Char), NEW c \in Char, NEW ls
    PROVE  /\ Signs(Append(s, c), ls) =>
                /\ Signs(s, ls)
                /\ c = "?" /\ Len(s) > 0 /\ s[Len(s)] = "-" =>
                     ls[Holes(Append(s, c), "?")][1] # "-"
           /\ Signs(s, ls) /\ c # "?" => Signs(Append(s, c), ls)
<1>1. PICK e, n : e = Append(s, c) /\ n = Len(s)
  OBVIOUS
<1>2. /\ n \in Nat /\ Len(e) = n + 1 /\ e[n + 1] = c
      /\ \A i \in 1..n : e[i] = s[i]
  <2>1. /\ Len(s) \in Nat /\ Len(Append(s, c)) = Len(s) + 1
        /\ Append(s, c)[Len(s) + 1] = c
        /\ \A i \in 1..Len(s) : Append(s, c)[i] = s[i]
    BY Grown
  <2> QED BY <1>1, <2>1, Zenon
<1>3. \A i \in 1..n : Count(e, "?", i) = Count(s, "?", i)
  <2>1. \A i \in 1..Len(s) : Count(Append(s, c), "?", i) = Count(s, "?", i)
    BY HolesAppend
  <2> QED BY <1>1, <2>1, Zenon
<1>4. ASSUME Signs(e, ls)
      PROVE  /\ Signs(s, ls)
             /\ c = "?" /\ n > 0 /\ s[n] = "-" => ls[Holes(e, "?")][1] # "-"
  <2>1. \A i \in 2..(n + 1) :
          e[i - 1] = "-" /\ e[i] = "?" => ls[Count(e, "?", i)][1] # "-"
    BY <1>2, <1>4 DEF Signs
  <2>2. ASSUME NEW i \in 2..n, s[i - 1] = "-", s[i] = "?"
        PROVE  ls[Count(s, "?", i)][1] # "-"
    <3>1. i \in 2..(n + 1) /\ i \in 1..n /\ i - 1 \in 1..n
      BY <1>2
    <3>2. e[i - 1] = "-" /\ e[i] = "?"
      BY <3>1, <2>2, <1>2
    <3>3. Count(e, "?", i) = Count(s, "?", i)
      BY <3>1, <1>3
    <3>4. ls[Count(e, "?", i)][1] # "-"
      BY <2>1, <3>1, <3>2, Zenon
    <3> QED BY <3>3, <3>4, Zenon
  <2>3. Signs(s, ls)
    BY <1>1, <2>2, Zenon DEF Signs
  <2>4. c = "?" /\ n > 0 /\ s[n] = "-" => ls[Holes(e, "?")][1] # "-"
    <3> SUFFICES ASSUME c = "?", n > 0, s[n] = "-"
                 PROVE  ls[Holes(e, "?")][1] # "-"
      OBVIOUS
    <3>1. PICK k : k = n + 1
      OBVIOUS
    <3>2. k \in 2..(n + 1) /\ e[k] = "?" /\ e[k - 1] = "-"
      BY <1>2, <3>1
    <3>3. ls[Count(e, "?", k)][1] # "-"
      BY <2>1, <3>2, Zenon
    <3>4. Len(e) = k
      BY <1>2, <3>1
    <3> QED BY <3>3, <3>4, Zenon DEF Holes
  <2> QED BY <2>3, <2>4
<1>5. ASSUME Signs(s, ls), c # "?" PROVE Signs(e, ls)
  <2>1. ASSUME NEW i \in 2..(n + 1), e[i - 1] = "-", e[i] = "?"
        PROVE  ls[Count(e, "?", i)][1] # "-"
    <3>1. i # n + 1
      BY <1>2, <1>5, <2>1
    <3>2. i \in 2..n /\ i \in 1..n /\ i - 1 \in 1..n
      BY <1>2, <3>1
    <3>3. s[i - 1] = "-" /\ s[i] = "?"
      BY <3>2, <2>1, <1>2
    <3>4. ls[Count(s, "?", i)][1] # "-"
      BY <1>1, <1>5, <3>2, <3>3, Zenon DEF Signs
    <3>5. Count(e, "?", i) = Count(s, "?", i)
      BY <3>2, <1>3
    <3> QED BY <3>4, <3>5, Zenon
  <2>2. Len(e) = n + 1
    BY <1>2
  <2> QED BY <2>1, <2>2, Zenon DEF Signs
<1> QED BY <1>1, <1>4, <1>5, Zenon

(* The literals of values, and their tokens.                               *)
Literals(b) == [k \in 1..Len(b) |-> add(b[k])]
Tokenized(b) == [k \in 1..Len(b) |-> TokensOf(b[k])]

(* Both are well formed.                                                   *)
LEMMA Parts ==
    ASSUME NEW b \in Seq(Bindable), NEW k \in 1..Len(b)
    PROVE  /\ b[k] \in Bindable
           /\ Literals(b)[k] = add(b[k]) /\ Literals(b)[k] \in Seq(Char)
           /\ Tokenized(b)[k] = TokensOf(b[k]) /\ Tokenized(b)[k] \in Seq(Tok)
<1>1. b[k] \in Bindable
  BY ElementOfSeq
<1>2. LexAt(<<>>, <<>>, "code", <<>>)
  <2>1. <<>> \in Seq(Char) /\ <<>> \in Seq(Tok)
    OBVIOUS
  <2>2. Lex(<<>>) = Lexed(<<>>, "code", <<>>)
    BY LexLaws DEF LexStart
  <2> QED BY <2>1, <2>2, Zenon DEF LexAt
<1>3. Arrived(<<>>, <<>>, b[k])
  BY <1>1, <1>2, ValueArrives, Zenon
<1>4. add(b[k]) \in Seq(Char) /\ TokensOf(b[k]) \in Seq(Tok)
  BY <1>3, Zenon DEF Arrived
<1>5. Literals(b)[k] = add(b[k]) /\ Tokenized(b)[k] = TokensOf(b[k])
  BY DEF Literals, Tokenized
<1> QED BY <1>1, <1>4, <1>5

(* There is a value for each placeholder, and so for each mark.            *)
LEMMA EnoughValues ==
    ASSUME NEW b \in Seq(Bindable), NEW s, NEW h, Holes(s, h) \in Nat,
           Holes(s, h) <= Len(b)
    PROVE  /\ Enough(s, h, Literals(b), Char)
           /\ Enough(s, h, Tokenized(b), Tok)
<1>1. Len(b) \in Nat
  BY LenProperties
<1>2. \A k \in 1..Holes(s, h) : k \in 1..Len(b)
  BY <1>1
<1> QED BY <1>2, Parts DEF Enough

(* Where the lexer on the filled text G is when the one on s is in that    *)
(* state and F are its tokens with the values for the marks: there too, or *)
(* behind a literal that ends in a quote.                                  *)
Along(s, m, x, G, F) ==
    \/ LexAt(G, F, m, x)
    \/ /\ m = "code" /\ Len(s) > 0 /\ s[Len(s)] = "?"
       /\ Pending(G, F)

(* A character that is not a placeholder is read in the same way.          *)
LEMMA OtherChar ==
    ASSUME NEW s \in Seq(Char), NEW c \in Char, NEW m \in Modes,
           NEW x \in Seq(Char), NEW w, NEW n, NEW y, Adds(m, x, c, w, n, y),
           NEW G, NEW F, F \in Seq(Tok), Along(s, m, x, G, F),
           Len(s) > 0 /\ s[Len(s)] = "?" => c # "'"
    PROVE  LexAt(Append(G, c), F \o w, n, y)
<1>1. /\ w \in Seq(Tok) /\ n \in Modes /\ y \in Seq(Char)
      /\ LexStep(Lexed(F, m, x), c) = Lexed(F \o w, n, y)
  BY Zenon DEF Adds
<1>2. F \o w \in Seq(Tok)
  BY <1>1
<1>3. CASE LexAt(G, F, m, x)
  BY <1>1, <1>2, <1>3, LexAtStep, Zenon
<1>4. CASE m = "code" /\ Len(s) > 0 /\ s[Len(s)] = "?" /\ Pending(G, F)
  <2>1. PICK v, z : LexAt(G, v, "quote", z) /\ F = Append(v, Token("str", z))
    BY <1>4 DEF Pending
  <2>2. v \in Seq(Tok) /\ z \in Seq(Char)
    BY <2>1 DEF LexAt
  <2>3. c # "'"
    BY <1>4
  <2>4. LexStep(Lexed(v, "quote", z), c) = InCode(F, c)
    BY <2>1, <2>2, <2>3, LexStepCases
  <2>5. LexStep(Lexed(F, "code", x), c) = InCode(F, c)
    BY LexStepCases
  <2>6. LexStep(Lexed(v, "quote", z), c) = Lexed(F \o w, n, y)
    BY <2>4, <2>5, <1>1, <1>4
  <2> QED BY <1>1, <1>2, <2>1, <2>6, LexAtStep, Zenon
<1> QED BY <1>3, <1>4 DEF Along

(* A placeholder is read as the value in its place.                        *)
LEMMA Placeholder ==
    ASSUME NEW s \in Seq(Char), NEW x, NEW G, NEW F, NEW v \in Bindable,
           Along(s, "code", x, G, F), x = <<>>,
           Len(s) > 0 /\ s[Len(s)] # "?"
    PROVE  Along(Append(s, "?"), "code", <<>>, G \o add(v), F \o TokensOf(v))
<1>1. LexAt(G, F, "code", <<>>)
  BY DEF Along
<1>2. Has(G \o add(v), F \o TokensOf(v))
  BY <1>1, ValueArrives, Zenon DEF Arrived
<1>3. Len(Append(s, "?")) > 0 /\ Append(s, "?")[Len(Append(s, "?"))] = "?"
  <2>1. "?" \in Char
    BY Named, Zenon
  <2>2. /\ Len(s) \in Nat /\ Len(Append(s, "?")) = Len(s) + 1
        /\ Append(s, "?")[Len(s) + 1] = "?"
    BY <2>1, Grown
  <2> QED BY <2>2
<1> QED BY <1>2, <1>3, Zenon DEF Has, Along

(* A literal is not empty: its tokens are there behind the empty text.     *)
LEMMA LiteralNonempty ==
    ASSUME NEW v \in Bindable
    PROVE  add(v) # <<>>
<1>1. CASE IsWord(v) \/ IsSigned(v)
  BY <1>1 DEF IsWord, IsSigned
<1>2. CASE IsLiteral(v)
  <2>1. PICK x \in Seq(Char) : add(v) = encode_string_literal(x)
    BY <1>2 DEF IsLiteral
  <2>2. PICK p : p = <<>>
    OBVIOUS
  <2>3. LexAt(p, <<>>, "code", <<>>)
    <3>1. <<>> \in Seq(Char) /\ <<>> \in Seq(Tok)
      OBVIOUS
    <3>2. Lex(<<>>) = Lexed(<<>>, "code", <<>>)
      BY LexLaws DEF LexStart
    <3> QED BY <2>2, <3>1, <3>2, Zenon DEF LexAt
  <2>4. LexAt(p \o add(v), <<>>, "quote", x)
    BY <2>1, <2>3, Quoted, Zenon
  <2>5. ASSUME add(v) = <<>> PROVE FALSE
    <3>1. p \o <<>> = p
      BY <2>2
    <3>2. Lexed(<<>>, "quote", x) = Lexed(<<>>, "code", <<>>)
      BY <2>3, <2>4, <2>5, <3>1, Zenon DEF LexAt
    <3> QED BY <3>2 DEF Lexed
  <2> QED BY <2>5
<1>3. CASE IsDated(v)
  <2>1. PICK k, c : add(v) = <<k, " ", "'">> \o <<c>> \o <<"'">>
    BY <1>3, Zenon DEF IsDated
  <2>2. PICK g, q : g = " " /\ q = "'"
    OBVIOUS
  <2>3. PICK T : T = {k, c, g, q}
    OBVIOUS
  <2>4. PICK l, m, r : l = <<k, g, q>> /\ m = <<c>> /\ r = <<q>>
    OBVIOUS
  <2>5. l \in Seq(T) /\ Len(l) = 3
    <3>1. k \in T /\ g \in T /\ q \in T
      BY <2>3
    <3> QED BY <2>4, <3>1
  <2>6. m \in Seq(T) /\ r \in Seq(T) /\ Len(m) = 1 /\ Len(r) = 1
    <3>1. c \in T /\ q \in T
      BY <2>3
    <3> QED BY <2>4, <3>1
  <2>7. (l \o m) \o r # <<>>
    BY <2>5, <2>6
  <2> QED BY <2>1, <2>2, <2>4, <2>7, Zenon
<1> QED BY <1>1, <1>2, <1>3, Forms

(* Behind a minus sign that the lexer waits at, a text that does not begin *)
(* with another is read as it is when a blank comes between.               *)
LEMMA BehindDash ==
    ASSUME NEW p, NEW u, NEW x, LexAt(p, u, "dash", x),
           NEW l \in Seq(Char), l # <<>>, l[1] # "-"
    PROVE  /\ LexAt(Append(p, " "), Append(u, Word("-")), "code", <<>>)
           /\ Lex(p \o l) = Lex(Append(p, " ") \o l)
<1>1. PICK g, a : g = Append(p, " ") /\ a = Append(u, Word("-"))
  OBVIOUS
<1>2. /\ p \in Seq(Char) /\ u \in Seq(Tok) /\ x \in Seq(Char)
      /\ Lex(p) = Lexed(u, "dash", x)
  BY DEF LexAt
<1>3. " " \in Char /\ "-" \in Char /\ " " # "-" /\ <<>> \in Seq(Char)
  <2>1. " " \in Char /\ "-" \in Char
    BY Named, Zenon
  <2>2. " " # "-" /\ <<>> \in Seq(Char)
    OBVIOUS
  <2> QED BY <2>1, <2>2
<1>4. a \in Seq(Tok)
  BY <1>1, <1>2, <1>3, Tokens, AppendProperties DEF Word
<1>5. \A c \in Char : c # "-" =>
        LexStep(Lexed(u, "dash", x), c) = InCode(a, c)
  BY <1>1, <1>2, LexStepCases DEF Word
<1>6. InCode(a, " ") = Lexed(a, "code", <<>>)
  BY <1>3, <1>4, InCodeCases
<1>7. LexAt(g, a, "code", <<>>)
  <2>1. LexStep(Lexed(u, "dash", x), " ") = Lexed(a, "code", <<>>)
    BY <1>3, <1>5, <1>6, Zenon
  <2> QED BY <2>1, <1>1, <1>3, <1>4, LexAtStep, Zenon
<1>8. g \in Seq(Char) /\ Lex(g) = Lexed(a, "code", <<>>)
  BY <1>7, Zenon DEF LexAt
<1>9. ASSUME NEW c \in Char, c # "-" PROVE Lex(Append(p, c)) = Lex(Append(g, c))
  <2>1. LexStep(Lexed(a, "code", <<>>), c) = InCode(a, c)
    BY <1>3, <1>4, LexStepCases
  <2>2. Lex(Append(p, c)) = LexStep(Lexed(u, "dash", x), c)
    BY <1>2, LexLaws, Zenon
  <2>3. Lex(Append(g, c)) = LexStep(Lexed(a, "code", <<>>), c)
    BY <1>8, LexLaws, Zenon
  <2> QED BY <1>5, <1>9, <2>1, <2>2, <2>3, Zenon
<1> DEFINE S == {t \in Seq(Char) :
                   t # <<>> /\ t[1] # "-" => Lex(p \o t) = Lex(g \o t)}
<1>10. <<>> \in S
  BY <1>3
<1>11. ASSUME NEW t \in Seq(Char), NEW c \in Char, t \in S
       PROVE  Append(t, c) \in S
  <2>1. PICK e : e = Append(t, c)
    OBVIOUS
  <2>2. /\ e \in Seq(Char) /\ Len(t) \in Nat /\ Len(e) = Len(t) + 1
        /\ e[Len(t) + 1] = c /\ \A i \in 1..Len(t) : e[i] = t[i]
    BY <2>1, Grown
  <2>3. CASE t = <<>>
    <3>1. e = <<c>> /\ e[1] = c
      BY <2>1, <2>3
    <3>2. p \o <<c>> = Append(p, c) /\ g \o <<c>> = Append(g, c)
      BY <1>2, <1>8, ConcatOne, Zenon DEF One
    <3>3. c # "-" => Lex(p \o e) = Lex(g \o e)
      BY <1>9, <3>1, <3>2, Zenon
    <3> QED BY <2>1, <2>2, <3>1, <3>3
  <2>4. CASE t # <<>>
    <3>1. Len(t) > 0
      BY <2>2, <2>4, EmptySeq
    <3>2. e[1] = t[1]
      BY <2>2, <3>1
    <3>3. ASSUME t[1] # "-" PROVE Lex(p \o e) = Lex(g \o e)
      <4>1. Lex(p \o t) = Lex(g \o t)
        BY <1>11, <2>4, <3>3
      <4>2. p \o e = Append(p \o t, c)
        BY <2>1, <1>2, ConcatAppend
      <4>3. g \o e = Append(g \o t, c)
        BY <2>1, <1>8, ConcatAppend
      <4>4. p \o t \in Seq(Char) /\ g \o t \in Seq(Char)
        BY <1>2, <1>8
      <4>5. /\ Lex(Append(p \o t, c)) = LexStep(Lex(p \o t), c)
            /\ Lex(Append(g \o t, c)) = LexStep(Lex(g \o t), c)
        BY <4>4, LexLaws, Zenon
      <4> QED BY <4>1, <4>2, <4>3, <4>5, Zenon
    <3> QED BY <2>1, <2>2, <3>2, <3>3
  <2> QED BY <2>3, <2>4
<1>12. \A t \in Seq(Char) : t \in S
  <2> HIDE DEF S
  <2> QED BY <1>10, <1>11, SequenceInduction
<1>13. Lex(p \o l) = Lex(g \o l)
  BY <1>12
<1> QED BY <1>1, <1>7, <1>13, Zenon

(* What the lexer has of a text, it has of one that it reads as the same.  *)
LEMMA HasSame ==
    ASSUME NEW p, NEW q \in Seq(Char), NEW w, Has(p, w), Lex(q) = Lex(p)
    PROVE  Has(q, w)
BY Zenon DEF Has, Pending, LexAt

(* A placeholder behind a minus sign is read as the value in its place,    *)
(* unless the two begin a comment.                                         *)
LEMMA PlaceholderBehindDash ==
    ASSUME NEW s \in Seq(Char), NEW x, NEW G, NEW F, NEW v \in Bindable,
           Along(s, "dash", x, G, F), add(v)[1] # "-"
    PROVE  Along(Append(s, "?"), "code", <<>>, G \o add(v),
             Append(F, Word("-")) \o TokensOf(v))
<1>1. LexAt(G, F, "dash", x)
  <2>1. "dash" # "code"
    OBVIOUS
  <2> QED BY <2>1, Zenon DEF Along
<1>2. PICK l, g, a : /\ l = add(v) /\ g = Append(G, " ")
                     /\ a = Append(F, Word("-"))
  OBVIOUS
<1>3. l # <<>> /\ l[1] # "-"
  BY <1>2, LiteralNonempty, Zenon
<1>4. l \in Seq(Char) /\ G \in Seq(Char)
  <2>1. LexAt(<<>>, <<>>, "code", <<>>)
    <3>1. <<>> \in Seq(Char) /\ <<>> \in Seq(Tok)
      OBVIOUS
    <3>2. Lex(<<>>) = Lexed(<<>>, "code", <<>>)
      BY LexLaws DEF LexStart
    <3> QED BY <3>1, <3>2, Zenon DEF LexAt
  <2> QED BY <1>1, <1>2, <2>1, ValueArrives, Zenon DEF Arrived, LexAt
<1>5. LexAt(g, a, "code", <<>>) /\ Lex(G \o l) = Lex(g \o l)
  BY <1>1, <1>2, <1>3, <1>4, BehindDash, Zenon
<1>6. Has(g \o l, a \o TokensOf(v))
  BY <1>2, <1>5, ValueArrives, Zenon DEF Arrived
<1>7. Has(G \o l, a \o TokensOf(v))
  <2>1. G \o l \in Seq(Char)
    BY <1>4
  <2> QED BY <2>1, <1>5, <1>6, HasSame, Zenon
<1>8. Len(Append(s, "?")) > 0 /\ Append(s, "?")[Len(Append(s, "?"))] = "?"
  <2>1. "?" \in Char
    BY Named, Zenon
  <2>2. /\ Len(s) \in Nat /\ Len(Append(s, "?")) = Len(s) + 1
        /\ Append(s, "?")[Len(s) + 1] = "?"
    BY <2>1, Grown
  <2> QED BY <2>2
<1> QED BY <1>2, <1>7, <1>8, Zenon DEF Has, Along

(* For a text with as many marks as placeholders.                          *)
Parallel(s, b) ==
    /\ Enough(s, "?", Literals(b), Char)
    /\ Enough(Lex(s).tokens, Mark, Tokenized(b), Tok)
    /\ Along(s, Lex(s).mode, Lex(s).cur, Fill(s, "?", Literals(b)),
             Fill(Lex(s).tokens, Mark, Tokenized(b)))

(* One character more.                                                     *)
LEMMA ParallelStep ==
    ASSUME NEW b \in Seq(Bindable), NEW s \in Seq(Char), NEW c \in Char,
           Parallel(s, b), Clean(s), Clean(Append(s, c)), Apart(Append(s, c)),
           Signs(Append(s, c), Literals(b)), Holes(Append(s, c), "?") <= Len(b)
    PROVE  Parallel(Append(s, c), b)
<1>1. PICK u, m, x, w, n, y : Reading(s, c, u, m, x, w, n, y)
  BY ReadingExists
<1>2. /\ u \in Seq(Tok) /\ m \in Modes /\ x \in Seq(Char)
      /\ w \in Seq(Tok) /\ n \in Modes /\ y \in Seq(Char)
      /\ Adds(m, x, c, w, n, y) /\ Tame(m, c, w, n, y)
      /\ Lex(s) = Lexed(u, m, x) /\ Lex(Append(s, c)) = Lexed(u \o w, n, y)
  BY <1>1, Zenon DEF Reading
<1>3. /\ Lex(s).tokens = u /\ Lex(s).mode = m /\ Lex(s).cur = x
      /\ Lex(Append(s, c)).tokens = u \o w /\ Lex(Append(s, c)).mode = n
      /\ Lex(Append(s, c)).cur = y
  BY <1>2 DEF Lexed
<1>4. /\ Holes(u, Mark) = Holes(s, "?")
      /\ Holes(u \o w, Mark) = Holes(Append(s, c), "?")
  BY <1>3, Zenon DEF Clean
<1>5. PICK t, ls, ts, G, F : /\ t = Append(s, c) /\ ls = Literals(b) /\
                                  ts = Tokenized(b)
                             /\ G = Fill(s, "?", ls) /\ F = Fill(u, Mark, ts)
  OBVIOUS
<1>6. /\ Enough(s, "?", ls, Char) /\ Enough(u, Mark, ts, Tok)
      /\ Along(s, m, x, G, F)
  BY <1>3, <1>5, Zenon DEF Parallel
<1>7. F \in Seq(Tok) /\ G \in Seq(Char)
  BY <1>2, <1>5, <1>6, FillType
<1>8. /\ Holes(s, "?") \in Nat
      /\ Holes(t, "?") = Holes(s, "?") + (IF c = "?" THEN 1 ELSE 0)
  BY <1>5, HolesAppend
<1>9. Enough(t, "?", ls, Char) /\ Enough(u \o w, Mark, ts, Tok)
  <2>1. Holes(t, "?") \in Nat /\ Holes(t, "?") <= Len(b)
    BY <1>5, <1>8
  <2>2. Holes(u \o w, Mark) \in Nat /\ Holes(u \o w, Mark) <= Len(b)
    BY <2>1, <1>4, <1>5
  <2> QED BY <2>1, <2>2, <1>5, EnoughValues, Zenon
<1>10. /\ c = "?" => Len(s) > 0 /\ s[Len(s)] \notin {"'", "?"}
       /\ Len(s) > 0 /\ s[Len(s)] = "?" => c # "'"
  BY ApartAppend
<1>11. Fill(t, "?", ls) = G \o Piece(s, c, "?", ls)
  <2>1. Enough(Append(s, c), "?", ls, Char)
    BY <1>5, <1>9
  <2>2. Fill(Append(s, c), "?", ls) = Fill(s, "?", ls) \o Piece(s, c, "?", ls)
    BY <2>1, FillAppend
  <2> QED BY <2>2, <1>5
<1>12. Along(t, n, y, Fill(t, "?", ls), Fill(u \o w, Mark, ts))
  <2>1. CASE c # "?"
    <3>1. NoHole(w, Mark)
      BY <1>2, <2>1 DEF Tame
    <3>2. Fill(u \o w, Mark, ts) = F \o w
      <4>1. Kept(Tok, u, w, Mark, ts)
        BY <1>2, <1>6, <3>1, FillKeeps, Zenon
      <4> QED BY <4>1, <1>5 DEF Kept
    <3>3. G \o Piece(s, c, "?", ls) = Append(G, c)
      <4>1. Piece(s, c, "?", ls) = <<c>>
        BY <2>1 DEF Piece
      <4>2. One(Char, G, c)
        BY <1>7, ConcatOne, Zenon
      <4> QED BY <4>1, <4>2 DEF One
    <3>4. LexAt(Append(G, c), F \o w, n, y)
      BY <1>2, <1>6, <1>7, <1>10, OtherChar, Zenon
    <3> QED BY <1>11, <3>2, <3>3, <3>4 DEF Along
  <2>2. CASE c = "?"
    <3>1. Holes(u \o w, Mark) = Holes(u, Mark) + 1
      BY <1>4, <1>5, <1>8, <2>2
    <3>2. m \notin {"str", "comment"}
      <4>1. /\ Holes(u, Mark) \in Nat
            /\ m \in {"str", "comment"} => Holes(u \o w, Mark) = Holes(u, Mark)
        BY <1>2, MarksAdded
      <4> QED BY <3>1, <4>1
    <3>3. /\ m # "quote" /\ (m = "code" => x = <<>>)
          /\ m = "dash" => s[Len(s)] = "-"
      <4>1. Shape(s)
        BY Shapes
      <4>2. s[Len(s)] # "'"
        BY <1>10, <2>2
      <4> QED BY <4>1, <4>2, <1>3 DEF Shape
    <3>4. m = "code" \/ m = "dash"
      BY <1>2, <3>2, <3>3 DEF Modes
    <3>5. PICK k : k = Holes(s, "?") + 1
      OBVIOUS
    <3>6. k \in 1..Len(b)
      <4>1. Len(b) \in Nat
        BY LenProperties
      <4>2. k = Holes(Append(s, c), "?")
        BY <1>5, <1>8, <2>2, <3>5
      <4> QED BY <1>8, <3>5, <4>1, <4>2
    <3>7. b[k] \in Bindable /\ ls[k] = add(b[k]) /\ ts[k] = TokensOf(b[k])
      BY <1>5, <3>6, Parts
    <3>8. Piece(s, c, "?", ls) = add(b[k])
      BY <2>2, <3>5, <3>7 DEF Piece
    <3>9. ASSUME NEW z \in Seq(Tok), Holes(z, Mark) = Holes(u, Mark),
                 u \o w = Append(z, Mark)
          PROVE  Fill(u \o w, Mark, ts) =
                   Fill(z, Mark, ts) \o TokensOf(b[k])
      <4>1. Mark \in Tok
        BY MarkFacts
      <4>2. Enough(Append(z, Mark), Mark, ts, Tok)
        BY <3>9, <1>9
      <4>3. Fill(Append(z, Mark), Mark, ts) =
              Fill(z, Mark, ts) \o Piece(z, Mark, Mark, ts)
        BY <4>1, <4>2, FillAppend
      <4>4. Piece(z, Mark, Mark, ts) = TokensOf(b[k])
        BY <1>4, <3>5, <3>7, <3>9 DEF Piece
      <4> QED BY <3>9, <4>3, <4>4
    <3>10. CASE m = "code"
      <4>1. w = <<Mark>> /\ n = "code" /\ y = <<>>
        BY <1>2, <2>2, <3>10 DEF Tame
      <4>2. u \o w = Append(u, Mark)
        <5>1. Mark \in Tok
          BY MarkFacts
        <5>2. One(Tok, u, Mark)
          BY <1>2, <5>1, ConcatOne, Zenon
        <5> QED BY <5>2, <4>1 DEF One
      <4>3. Fill(u \o w, Mark, ts) = F \o TokensOf(b[k])
        BY <1>2, <1>5, <3>9, <4>2
      <4>4. Along(s, "code", x, G, F) /\ x = <<>> /\ Len(s) > 0
            /\ s[Len(s)] # "?"
        BY <1>6, <1>10, <2>2, <3>3, <3>10
      <4>5. Along(Append(s, "?"), "code", <<>>, G \o add(b[k]),
              F \o TokensOf(b[k]))
        BY <4>4, <3>7, Placeholder, Zenon
      <4> QED BY <1>5, <1>11, <2>2, <3>8, <4>1, <4>3, <4>5
    <3>11. CASE m = "dash"
      <4>1. PICK z : z = Append(u, Word("-"))
        OBVIOUS
      <4>2. "-" \in Char /\ Word("-") \in Tok /\ Word("-") # Mark
        <5>1. "-" \in Char /\ "-" # "?"
          BY Named
        <5> QED BY <5>1, Tokens, MarkFacts, Zenon DEF Word
      <4>3. z \in Seq(Tok) /\ Holes(z, Mark) = Holes(u, Mark)
        <5>1. Append(u, Word("-")) \in Seq(Tok)
          BY <1>2, <4>2
        <5>2. /\ Holes(u, Mark) \in Nat
              /\ Holes(Append(u, Word("-")), Mark) =
                   Holes(u, Mark) + (IF Word("-") = Mark THEN 1 ELSE 0)
          BY <1>2, <4>2, HolesAppend
        <5> QED BY <4>1, <4>2, <5>1, <5>2
      <4>4. u \o w = Append(z, Mark) /\ n = "code" /\ y = <<>>
        <5>1. LexStep(Lexed(u, "dash", x), "?") = InCode(z, "?")
          BY <1>2, <2>2, <4>1, LexStepCases DEF Word
        <5>2. InCode(z, "?") = Lexed(Append(z, Mark), "code", <<>>)
          BY <1>2, <2>2, <4>3, InCodeCases DEF Mark
        <5>3. LexStep(Lexed(u, "dash", x), "?") = Lexed(u \o w, n, y)
          BY <1>2, <2>2, <3>11, Zenon DEF Adds
        <5>4. Lexed(u \o w, n, y) = Lexed(Append(z, Mark), "code", <<>>)
          BY <5>1, <5>2, <5>3, Zenon
        <5> QED BY <5>4 DEF Lexed
      <4>5. Fill(z, Mark, ts) = Append(F, Word("-"))
        <5>1. Enough(z, Mark, ts, Tok)
          <6>1. Enough(Append(z, Mark), Mark, ts, Tok)
            BY <1>9, <4>4
          <6> QED BY <6>1, <4>3, MarkFacts, FillAppend
        <5>2. Fill(Append(u, Word("-")), Mark, ts) =
                Fill(u, Mark, ts) \o Piece(u, Word("-"), Mark, ts)
          <6>1. Enough(Append(u, Word("-")), Mark, ts, Tok)
            BY <4>1, <5>1
          <6> QED BY <6>1, <1>2, <4>2, FillAppend
        <5>3. Piece(u, Word("-"), Mark, ts) = <<Word("-")>>
          BY <4>2 DEF Piece
        <5>4. F \o <<Word("-")>> = Append(F, Word("-"))
          BY <1>7, <4>2, ConcatOne, Zenon DEF One
        <5> QED BY <1>5, <4>1, <5>2, <5>3, <5>4, Zenon
      <4>6. Fill(u \o w, Mark, ts) =
              Append(F, Word("-")) \o TokensOf(b[k])
        BY <3>9, <4>3, <4>4, <4>5
      <4>7. add(b[k])[1] # "-"
        <5>1. Signs(Append(s, c), ls)
          BY <1>5
        <5>2. c = "?" /\ Len(s) > 0 /\ s[Len(s)] = "-"
          BY <1>10, <2>2, <3>3, <3>11
        <5>3. ls[Holes(Append(s, c), "?")][1] # "-"
          BY <5>1, <5>2, SignsAppend, Zenon
        <5>4. Holes(Append(s, c), "?") = k
          BY <1>5, <1>8, <2>2, <3>5
        <5> QED BY <5>3, <5>4, <3>7, Zenon
      <4>8. Along(Append(s, "?"), "code", <<>>, G \o add(b[k]),
              Append(F, Word("-")) \o TokensOf(b[k]))
        <5>1. Along(s, "dash", x, G, F)
          BY <1>6, <3>11
        <5> QED BY <5>1, <3>7, <4>7, PlaceholderBehindDash, Zenon
      <4> QED BY <1>5, <1>11, <2>2, <3>8, <4>4, <4>6, <4>8
    <3> QED BY <3>4, <3>10, <3>11
  <2> QED BY <2>1, <2>2
<1> QED BY <1>3, <1>5, <1>9, <1>12, Zenon DEF Parallel

(* The whole text.                                                         *)
LEMMA ParallelHolds ==
    ASSUME NEW b \in Seq(Bindable), NEW s \in Seq(Char), Clean(s), Apart(s),
           Signs(s, Literals(b)), Holes(s, "?") <= Len(b)
    PROVE  Parallel(s, b)
<1> DEFINE S == {t \in Seq(Char) :
                   Clean(t) /\ Apart(t) /\ Signs(t, Literals(b))
                     /\ Holes(t, "?") <= Len(b) => Parallel(t, b)}
<1>1. <<>> \in S
  <2>0. "?" \in Char
    BY Named, Zenon
  <2>1. /\ <<>> \in Seq(Char) /\ <<>> \in Seq(Tok) /\ "?" \in Char
        /\ Len(b) \in Nat
    BY <2>0, LenProperties
  <2>2. /\ Lex(<<>>).tokens = <<>> /\ Lex(<<>>).mode = "code"
        /\ Lex(<<>>).cur = <<>> /\ Lex(<<>>) = Lexed(<<>>, "code", <<>>)
    BY LexLaws DEF LexStart, Lexed
  <2>3. Holes(<<>>, Mark) = 0 /\ Holes(<<>>, "?") = 0
    BY <2>1, MarkFacts, HolesAppend
  <2>4. /\ Enough(<<>>, "?", Literals(b), Char)
        /\ Enough(<<>>, Mark, Tokenized(b), Tok)
    BY <2>3 DEF Enough
  <2>5. LexAt(<<>>, <<>>, "code", <<>>)
    BY <2>1, <2>2, Zenon DEF LexAt
  <2>6. /\ Fill(<<>>, "?", Literals(b)) = <<>>
        /\ Fill(<<>>, Mark, Tokenized(b)) = <<>>
    BY FillEmpty, Zenon
  <2>7. Parallel(<<>>, b)
    BY <2>2, <2>4, <2>5, <2>6, Zenon DEF Parallel, Along
  <2> QED BY <2>1, <2>7
<1>2. ASSUME NEW t \in Seq(Char), NEW c \in Char, t \in S
      PROVE  Append(t, c) \in S
  <2>1. Append(t, c) \in Seq(Char)
    OBVIOUS
  <2>2. ASSUME Clean(Append(t, c)), Apart(Append(t, c)),
               Signs(Append(t, c), Literals(b)),
               Holes(Append(t, c), "?") <= Len(b)
        PROVE  Parallel(Append(t, c), b)
    <3>1. Clean(t) /\ Apart(t) /\ Signs(t, Literals(b))
      BY <2>2, Marks, ApartAppend, SignsAppend
    <3>2. Holes(t, "?") <= Len(b)
      <4>1. /\ Holes(t, "?") \in Nat
            /\ Holes(Append(t, c), "?") =
                 Holes(t, "?") + (IF c = "?" THEN 1 ELSE 0)
        BY HolesAppend
      <4>2. Len(b) \in Nat
        BY LenProperties
      <4> QED BY <4>1, <4>2, <2>2
    <3>3. Parallel(t, b)
      BY <1>2, <3>1, <3>2
    <3> QED BY <2>2, <3>1, <3>3, ParallelStep, Zenon
  <2> QED BY <2>1, <2>2
<1>3. \A t \in Seq(Char) : t \in S
  <2> HIDE DEF S
  <2> QED BY <1>1, <1>2, SequenceInduction
<1> QED BY <1>3

(* The text that ends the statement, which has no placeholder and no quote.*)
Closed(q, n, m) == Append(Append(q, n), m)
Ended(q) == Closed(q, "\n", ";")

ClosedLaw(q, n, m) ==
    /\ Closed(q, n, m) \in Seq(Char) /\ q \o <<n, m>> = Closed(q, n, m)
    /\ Holes(Closed(q, n, m), "?") = Holes(q, "?")
    /\ Apart(q) => Apart(Closed(q, n, m))
    /\ \A ls : Signs(q, ls) => Signs(Closed(q, n, m), ls)
    /\ Len(Closed(q, n, m)) > 0
    /\ Closed(q, n, m)[Len(Closed(q, n, m))] = m

(* It holds of every query and of terminators that are no placeholders.    *)
LEMMA ClosedFacts ==
    ASSUME NEW q \in Seq(Char), NEW n \in Char, NEW m \in Char,
           n # "?", n # "'", m # "?", m # "'"
    PROVE  ClosedLaw(q, n, m)
<1>1. PICK e, f : e = Append(q, n) /\ f = Append(e, m)
  OBVIOUS
<1>2. e \in Seq(Char)
  BY <1>1
<1>3. q \o <<n, m>> = f
  <2>1. Two(Char, q, n, m)
    BY ConcatTwo, Zenon
  <2> QED BY <2>1, <1>1 DEF Two
<1>4. Holes(e, "?") = Holes(q, "?")
  <2>1. /\ Holes(q, "?") \in Nat
        /\ Holes(Append(q, n), "?") = Holes(q, "?") + (IF n = "?" THEN 1 ELSE 0)
    BY HolesAppend
  <2> QED BY <2>1, <1>1
<1>5. Holes(f, "?") = Holes(e, "?")
  <2>1. /\ Holes(e, "?") \in Nat
        /\ Holes(Append(e, m), "?") = Holes(e, "?") + (IF m = "?" THEN 1 ELSE 0)
    BY <1>2, HolesAppend
  <2> QED BY <2>1, <1>1
<1>6. Apart(q) => Apart(e)
  <2>1. Apart(q) => Apart(Append(q, n))
    BY ApartAppend
  <2> QED BY <2>1, <1>1
<1>7. Apart(e) => Apart(f)
  <2>1. Apart(e) => Apart(Append(e, m))
    BY <1>2, ApartAppend
  <2> QED BY <2>1, <1>1
<1>8. \A ls : Signs(q, ls) => Signs(f, ls)
  <2> TAKE ls
  <2>1. Signs(q, ls) => Signs(e, ls)
    BY <1>1, SignsAppend, Zenon
  <2>2. Signs(e, ls) => Signs(f, ls)
    BY <1>1, <1>2, SignsAppend, Zenon
  <2> QED BY <2>1, <2>2
<1>9. f \in Seq(Char) /\ Len(f) > 0 /\ f[Len(f)] = m
  <2>1. /\ Append(e, m) \in Seq(Char) /\ Len(e) \in Nat
        /\ Len(Append(e, m)) = Len(e) + 1 /\ Append(e, m)[Len(e) + 1] = m
    BY <1>2, Grown
  <2> QED BY <2>1, <1>1
<1>10. Closed(q, n, m) = f
  BY <1>1 DEF Closed
<1>11. Holes(f, "?") = Holes(q, "?") /\ (Apart(q) => Apart(f))
  BY <1>4, <1>5, <1>6, <1>7, Zenon
<1> QED BY <1>3, <1>8, <1>9, <1>10, <1>11, Zenon DEF ClosedLaw

(* So it holds of the driver's terminator.                                 *)
LEMMA EndedFacts ==
    ASSUME NEW q \in Seq(Char)
    PROVE  ClosedLaw(q, "\n", ";")
<1>1. "\n" \in Char /\ ";" \in Char
  BY Named, Zenon
<1>2. "\n" # "?" /\ "\n" # "'" /\ ";" # "?" /\ ";" # "'"
  OBVIOUS
<1> QED BY <1>1, <1>2, ClosedFacts, Zenon

(* What Separate says, in those terms.                                     *)
LEMMA SeparateFacts ==
    ASSUME NEW q \in Seq(Char), NEW ls, Separate(q, ls)
    PROVE  /\ Template(q) = Lex(Ended(q)) /\ Clean(Ended(q)) /\ Apart(Ended(q))
           /\ Signs(Ended(q), ls)
           /\ Template(q) \in LexStates /\ Template(q).mode = "code"
           /\ Template(q).cur = <<>>
           /\ Holes(Template(q).tokens, Mark) = Holes(q, "?")
<1>0. ClosedLaw(q, "\n", ";")
  BY EndedFacts, Zenon
<1>1. Template(q) = Lex(Ended(q))
  BY <1>0, Zenon DEF Template, ClosedLaw, Ended
<1>2. /\ Apart(q) /\ Holes(Template(q).tokens, Mark) = Holes(q, "?")
      /\ Signs(q, ls)
  <2>1. Apart(q) /\ Holes(Template(q).tokens, Mark) = Holes(q, "?")
    BY DEF Separate, Apart, Holes
  <2>2. \A i \in 2..Len(q) : i \in 1..Len(q)
    BY LenProperties
  <2>3. \A i \in 1..Len(q) : q[i - 1] = "-" /\ q[i] = "?" =>
          ls[Count(q, "?", i)][1] # "-"
    BY Zenon DEF Separate
  <2> QED BY <2>1, <2>2, <2>3, Zenon DEF Signs
<1>3. /\ Apart(Ended(q)) /\ Signs(Ended(q), ls)
      /\ Holes(Ended(q), "?") = Holes(q, "?")
  BY <1>0, <1>2, Zenon DEF ClosedLaw, Ended
<1>4. Clean(Ended(q))
  BY <1>1, <1>2, <1>3 DEF Clean
<1>5. Template(q) \in LexStates /\ Shape(Ended(q))
  <2>1. Ended(q) \in Seq(Char)
    BY <1>0, Zenon DEF ClosedLaw, Ended
  <2> QED BY <1>1, <2>1, LexLaws, Shapes, Zenon
<1>6. Template(q).mode = "code"
  BY DEF Separate
<1>7. Template(q).cur = <<>>
  BY <1>1, <1>5, <1>6 DEF Shape
<1> QED BY <1>1, <1>2, <1>3, <1>4, <1>5, <1>6, <1>7

(* The text that is sent, as the server reads it.                          *)
LEMMA Filled ==
    ASSUME NEW q \in Seq(Char), NEW b \in Seq(Bindable),
           Separate(q, Literals(b)), Len(b) = Holes(q, "?")
    PROVE  /\ substitute_into(Literals(b), q) \in Seq(Char)
           /\ Fill(Template(q).tokens, Mark, Tokenized(b)) \in Seq(Tok)
           /\ Lex(substitute_into(Literals(b), q) \o <<"\n", ";">>) =
                Lexed(Fill(Template(q).tokens, Mark, Tokenized(b)), "code",
                  <<>>)
<1>1. PICK ls, ts, n, m : /\ ls = Literals(b) /\ ts = Tokenized(b)
                          /\ n = "\n" /\ m = ";"
  OBVIOUS
<1>2. n \in Char /\ m \in Char /\ n # "?" /\ m # "?"
  <2>1. "\n" \in Char /\ ";" \in Char
    BY Named, Zenon
  <2>2. "\n" # "?" /\ ";" # "?"
    OBVIOUS
  <2> QED BY <1>1, <2>1, <2>2, Zenon
<1>3. PICK e, t : e = Append(q, n) /\ t = Append(e, m)
  OBVIOUS
<1>4. t = Ended(q)
  BY <1>1, <1>3, Zenon DEF Ended, Closed
<1>5. /\ t \in Seq(Char) /\ Holes(t, "?") = Holes(q, "?")
      /\ Len(t) > 0 /\ t[Len(t)] = m /\ e \in Seq(Char)
  <2>1. ClosedLaw(q, "\n", ";")
    BY EndedFacts, Zenon
  <2>2. ClosedLaw(q, n, m) /\ Closed(q, n, m) = t
    BY <2>1, <1>1, <1>3, Zenon DEF Closed
  <2>3. e \in Seq(Char)
    BY <1>2, <1>3
  <2> QED BY <2>2, <2>3, Zenon DEF ClosedLaw
<1>6. PICK tmpl : tmpl = Template(q)
  OBVIOUS
<1>7. /\ tmpl = Lex(t) /\ Clean(t) /\ Apart(t) /\ Signs(t, Literals(b))
      /\ tmpl \in LexStates /\ tmpl.mode = "code" /\ tmpl.cur = <<>>
  BY <1>4, <1>6, SeparateFacts, Zenon
<1>8. Parallel(t, b)
  <2>1. Len(b) \in Nat
    BY LenProperties
  <2>2. Holes(t, "?") <= Len(b)
    BY <2>1, <1>5
  <2> QED BY <2>2, <1>5, <1>7, ParallelHolds, Zenon
<1>9. /\ Enough(t, "?", ls, Char) /\ Enough(tmpl.tokens, Mark, ts, Tok)
      /\ Along(t, "code", <<>>, Fill(t, "?", ls), Fill(tmpl.tokens, Mark, ts))
  BY <1>1, <1>7, <1>8, Zenon DEF Parallel
<1>10. LexAt(Fill(t, "?", ls), Fill(tmpl.tokens, Mark, ts), "code", <<>>)
  <2>1. t[Len(t)] # "?"
    BY <1>2, <1>5
  <2> QED BY <1>9, <2>1, Zenon DEF Along
<1>11. /\ Enough(e, "?", ls, Char) /\ Fill(e, "?", ls) \in Seq(Char)
       /\ Fill(t, "?", ls) = Fill(e, "?", ls) \o <<m>>
  <2>1. Enough(Append(e, m), "?", ls, Char)
    BY <1>3, <1>9
  <2>2. /\ Enough(e, "?", ls, Char) /\ Fill(e, "?", ls) \in Seq(Char)
        /\ Fill(Append(e, m), "?", ls) =
             Fill(e, "?", ls) \o Piece(e, m, "?", ls)
    BY <2>1, <1>2, <1>5, FillAppend
  <2>3. Piece(e, m, "?", ls) = <<m>>
    BY <1>2 DEF Piece
  <2> QED BY <2>2, <2>3, <1>3
<1>12. /\ Fill(q, "?", ls) \in Seq(Char)
       /\ Fill(e, "?", ls) = Fill(q, "?", ls) \o <<n>>
  <2>1. Enough(Append(q, n), "?", ls, Char)
    BY <1>3, <1>11
  <2>2. /\ Fill(q, "?", ls) \in Seq(Char)
        /\ Fill(Append(q, n), "?", ls) =
             Fill(q, "?", ls) \o Piece(q, n, "?", ls)
    BY <2>1, <1>2, FillAppend
  <2>3. Piece(q, n, "?", ls) = <<n>>
    BY <1>2 DEF Piece
  <2> QED BY <2>2, <2>3, <1>3
<1>13. Fill(t, "?", ls) = Fill(q, "?", ls) \o <<n, m>>
  <2>1. PICK f : f = Fill(q, "?", ls) /\ f \in Seq(Char)
    BY <1>12
  <2>2. f \o <<n>> = Append(f, n) /\ Append(f, n) \in Seq(Char)
    <3>1. One(Char, f, n)
      BY <2>1, <1>2, ConcatOne, Zenon
    <3> QED BY <3>1, <1>2, <2>1 DEF One
  <2>3. Append(f, n) \o <<m>> = Append(Append(f, n), m)
    <3>1. One(Char, Append(f, n), m)
      BY <2>2, <1>2, ConcatOne, Zenon
    <3> QED BY <3>1 DEF One
  <2>4. f \o <<n, m>> = Append(Append(f, n), m)
    <3>1. Two(Char, f, n, m)
      BY <2>1, <1>2, ConcatTwo, Zenon
    <3> QED BY <3>1 DEF Two
  <2> QED BY <1>11, <1>12, <2>1, <2>2, <2>3, <2>4, Zenon
<1>14. Fill(q, "?", ls) = substitute_into(Literals(b), q)
  BY <1>1, Zenon DEF substitute_into
<1> QED BY <1>1, <1>6, <1>10, <1>12, <1>13, <1>14, Zenon DEF LexAt

-----------------------------------------------------------------------------
(* What has been bound, and what was made of it.                           *)

BindingInv ==
    /\ sql \in Queries
    /\ bound \in Seq(Bindable) /\ Len(bound) <= Len(Values)
    /\ \A k \in 1..Len(bound) : bound[k] \in Values[k]
    /\ literals = Literals(bound)
    /\ phase \in {"sent", "answered", "read"} /\ ~raw =>
         /\ Len(bound) = Holes(sql, "?")
         /\ request = encode_query(substitute_into(literals, sql))
    /\ phase \in {"answered", "read"} =>
         reply = TupleLine(Items(Lex(Tail(request)).tokens))
    /\ phase = "read" => row = parse_tuple_fields(reply)

(* Nothing is bound at first.                                              *)
LEMMA BindingInit == Init => BindingInv
<1> SUFFICES ASSUME Init PROVE BindingInv
  OBVIOUS
<1>1. /\ phase = "binding" /\ sql \in Queries /\ bound = <<>> /\ literals = <<>>
  BY DEF Init
<1>2. Len(Values) \in Nat
  BY QueryAssumption, LenProperties
<1>3. <<>> \in Seq(Bindable) /\ Len(<<>>) = 0
  OBVIOUS
<1>4. Literals(<<>>) = <<>>
  BY DEF Literals
<1> QED BY <1>1, <1>2, <1>3, <1>4 DEF BindingInv

(* A value that is bound joins both lists.                                 *)
LEMMA BindStep ==
    ASSUME BindingInv, Len(bound) < Len(Values),
           NEW v \in Values[Len(bound) + 1], Bind(v)
    PROVE  BindingInv'
<1>1. PICK b, n : b = bound /\ n = Len(b)
  OBVIOUS
<1>2. /\ b \in Seq(Bindable) /\ n < Len(Values) /\ v \in Values[n + 1]
      /\ \A k \in 1..n : b[k] \in Values[k]
  BY <1>1 DEF BindingInv
<1>3. n \in Nat /\ Len(Values) \in Nat
  BY <1>1, <1>2, QueryAssumption, LenProperties
<1>4. v \in Bindable
  <2>1. n + 1 \in 1..Len(Values)
    BY <1>2, <1>3
  <2>2. Values[n + 1] \in SUBSET Bindable
    BY <2>1, QueryAssumption, ElementOfSeq
  <2> QED BY <2>2, <1>2
<1>5. /\ Append(b, v) \in Seq(Bindable) /\ Len(Append(b, v)) = n + 1
      /\ \A k \in 1..n : Append(b, v)[k] = b[k]
      /\ Append(b, v)[n + 1] = v
  BY <1>1, <1>2, <1>4, Grown
<1>6. Append(Literals(b), add(v)) = Literals(Append(b, v))
  <2>1. PICK e : e = Append(b, v)
    OBVIOUS
  <2>2. PICK T : T = {add(w) : w \in Bindable}
    OBVIOUS
  <2>3. add(v) \in T /\ \A k \in 1..n : add(b[k]) \in T
    BY <1>1, <1>2, <1>4, <2>2, ElementOfSeq
  <2>4. Literals(b) = [k \in 1..n |-> add(b[k])]
    BY <1>1 DEF Literals
  <2>5. Literals(b) \in Seq(T) /\ Len(Literals(b)) = n
    BY <2>3, <2>4, <1>3
  <2>6. PICK l : l = Literals(b)
    OBVIOUS
  <2>7. /\ Append(l, add(v)) \in Seq(T) /\ Len(Append(l, add(v))) = n + 1
        /\ \A k \in 1..n : Append(l, add(v))[k] = l[k]
        /\ Append(l, add(v))[n + 1] = add(v)
    BY <2>3, <2>5, <2>6, Grown
  <2>8. \A k \in 1..n : l[k] = add(b[k])
    BY <2>4, <2>6
  <2>9. \A k \in 1..(n + 1) : Append(l, add(v))[k] = add(e[k])
    <3> TAKE k \in 1..(n + 1)
    <3>1. k \in 1..n \/ k = n + 1
      BY <1>3
    <3>2. CASE k \in 1..n
      BY <3>2, <1>5, <2>1, <2>7, <2>8
    <3>3. CASE k = n + 1
      BY <3>3, <1>5, <2>1, <2>7
    <3> QED BY <3>1, <3>2, <3>3
  <2>10. Append(l, add(v)) = [k \in 1..(n + 1) |-> add(e[k])]
    <3>1. PICK g : g = Append(l, add(v))
      OBVIOUS
    <3>2. g \in Seq(T) /\ Len(g) = n + 1
      BY <2>7, <3>1
    <3>3. g = [k \in 1..(n + 1) |-> g[k]]
      BY <3>2, LenProperties
    <3>4. \A k \in 1..(n + 1) : g[k] = add(e[k])
      BY <2>9, <3>1
    <3> QED BY <3>1, <3>3, <3>4
  <2>11. Literals(e) = [k \in 1..(n + 1) |-> add(e[k])]
    BY <1>5, <2>1 DEF Literals
  <2> QED BY <2>1, <2>6, <2>10, <2>11
<1>7. /\ phase' = "binding" /\ sql' = sql
      /\ bound' = Append(b, v) /\ literals' = Append(literals, add(v))
  BY <1>1 DEF Bind
<1>8. sql' \in Queries
  BY <1>7 DEF BindingInv
<1>9. literals' = Literals(bound')
  BY <1>1, <1>6, <1>7 DEF BindingInv
<1>10. \A k \in 1..Len(bound') : bound'[k] \in Values[k]
  <2> SUFFICES ASSUME NEW k \in 1..(n + 1)
               PROVE  Append(b, v)[k] \in Values[k]
    BY <1>5, <1>7
  <2>1. k \in 1..n \/ k = n + 1
    BY <1>3
  <2> QED BY <2>1, <1>2, <1>5
<1>11. bound' \in Seq(Bindable) /\ Len(bound') <= Len(Values)
  BY <1>2, <1>3, <1>5, <1>7
<1> QED BY <1>7, <1>8, <1>9, <1>10, <1>11 DEF BindingInv

(* What is sent is made from the list.                                     *)
LEMMA BoundRunStep ==
    ASSUME BindingInv, Run
    PROVE  BindingInv'
<1>1. /\ phase = "binding" /\ sql' = sql /\ bound' = bound
      /\ literals' = literals /\ raw' = raw
  BY DEF Run
<1>2. /\ sql' \in Queries
      /\ bound' \in Seq(Bindable) /\ Len(bound') <= Len(Values)
      /\ \A k \in 1..Len(bound') : bound'[k] \in Values[k]
      /\ literals' = Literals(bound')
  BY <1>1 DEF BindingInv
<1>3. phase' = "sent" \/ phase' = "failed"
  BY DEF Run
<1>4. ASSUME phase' = "sent", ~raw'
      PROVE  /\ Len(bound') = Holes(sql', "?")
             /\ request' = encode_query(substitute_into(literals', sql'))
  <2>1. ~raw
    BY <1>1, <1>4, Zenon
  <2>2. /\ Len(literals) = Count(sql, "?", Len(sql))
        /\ request' = encode_query(substitute_into(literals, sql))
    <3>1. phase' # "failed"
      BY <1>4
    <3> QED BY <2>1, <3>1, Zenon DEF Run
  <2>3. Len(literals) = Len(bound)
    <3>1. bound \in Seq(Bindable) /\ literals = Literals(bound)
      BY DEF BindingInv
    <3>2. Len(bound) \in Nat
      BY <3>1, LenProperties
    <3> QED BY <3>1, <3>2 DEF Literals
  <2> QED BY <2>2, <2>3, <1>1 DEF Holes
<1>5. phase' \notin {"answered", "read"}
  BY <1>3
<1>6. phase' \in {"sent", "answered", "read"} => phase' = "sent"
  BY <1>3
<1> QED BY <1>2, <1>4, <1>5, <1>6 DEF BindingInv

(* What comes back is made from it.                                        *)
LEMMA AnswerStep ==
    ASSUME BindingInv, Serve \/ Read \/ UNCHANGED vars
    PROVE  BindingInv'
<1>1. /\ sql' = sql /\ bound' = bound /\ literals' = literals /\ raw' = raw
      /\ request' = request
  BY DEF Serve, Read, vars
<1>2. /\ sql' \in Queries
      /\ bound' \in Seq(Bindable) /\ Len(bound') <= Len(Values)
      /\ \A k \in 1..Len(bound') : bound'[k] \in Values[k]
      /\ literals' = Literals(bound')
  BY <1>1 DEF BindingInv
<1>3. \/ phase = "sent" /\ phase' = "answered"
      \/ phase = "answered" /\ phase' = "read"
      \/ phase' = phase
  BY DEF Serve, Read, vars
<1>4. phase' \in {"sent", "answered", "read"} =>
        phase \in {"sent", "answered", "read"}
  BY <1>3
<1>5. phase' \in {"sent", "answered", "read"} /\ ~raw' =>
        /\ Len(bound') = Holes(sql', "?")
        /\ request' = encode_query(substitute_into(literals', sql'))
  BY <1>1, <1>4, Zenon DEF BindingInv
<1>6. phase' \in {"answered", "read"} =>
        reply' = TupleLine(Items(Lex(Tail(request')).tokens))
  <2>1. CASE Serve
    BY <2>1, <1>1 DEF Serve
  <2>2. CASE Read
    BY <2>2, <1>1 DEF Read, BindingInv
  <2>3. CASE UNCHANGED vars
    BY <2>3 DEF vars, BindingInv
  <2> QED BY <2>1, <2>2, <2>3
<1>7. phase' = "read" => row' = parse_tuple_fields(reply')
  <2>1. CASE Serve
    BY <2>1 DEF Serve
  <2>2. CASE Read
    BY <2>2 DEF Read
  <2>3. CASE UNCHANGED vars
    BY <2>3 DEF vars, BindingInv
  <2> QED BY <2>1, <2>2, <2>3
<1> QED BY <1>2, <1>5, <1>6, <1>7 DEF BindingInv

(* Every step keeps it.                                                    *)
LEMMA BindingStep == BindingInv /\ [Next]_vars => BindingInv'
<1> SUFFICES ASSUME BindingInv, [Next]_vars PROVE BindingInv'
  OBVIOUS
<1>1. CASE /\ Len(bound) < Len(Values)
           /\ \E v \in Values[Len(bound) + 1] : Bind(v)
  BY <1>1, BindStep
<1>2. CASE Run
  BY <1>2, BoundRunStep
<1>3. CASE Serve \/ Read \/ UNCHANGED vars
  BY <1>3, AnswerStep
<1> QED BY <1>1, <1>2, <1>3 DEF Next

(* What is sent was made from the values that are bound, what is answered  *)
(* from what was sent, and what is read from the answer.                   *)
THEOREM BindingInductive == Spec => []BindingInv
BY BindingInit, BindingStep, PTL DEF Spec

(* What the server reads of a filled query.                                *)
LEMMA SentText ==
    ASSUME BindingInv, phase \in {"sent", "answered", "read"}, ~raw,
           Separate(sql, literals)
    PROVE  /\ sql \in Seq(Char) /\ bound \in Seq(Bindable)
           /\ Len(bound) = Holes(Template(sql).tokens, Mark)
           /\ Template(sql) \in LexStates
           /\ Template(sql).mode = "code" /\ Template(sql).cur = <<>>
           /\ Lex(Tail(request)) =
                Lexed(Fill(Template(sql).tokens, Mark, Tokenized(bound)),
                  "code", <<>>)
<1>1. /\ sql \in Seq(Char) /\ bound \in Seq(Bindable)
      /\ Len(bound) = Holes(sql, "?")
      /\ request = encode_query(substitute_into(Literals(bound), sql))
      /\ Separate(sql, Literals(bound))
  <2>1. sql \in Seq(Char)
    BY QueryAssumption DEF BindingInv
  <2> QED BY <2>1, Zenon DEF BindingInv
<1>2. PICK t : t = substitute_into(Literals(bound), sql)
  OBVIOUS
<1>3. /\ t \in Seq(Char)
      /\ Lex(t \o <<"\n", ";">>) =
           Lexed(Fill(Template(sql).tokens, Mark, Tokenized(bound)), "code",
             <<>>)
  BY <1>1, <1>2, Filled, Zenon
<1>4. Tail(request) = t \o <<"\n", ";">>
  <2>1. request = <<"s">> \o t \o <<"\n", ";">>
    BY <1>1, <1>2, Zenon DEF encode_query
  <2>2. "s" \in Char /\ "\n" \in Char /\ ";" \in Char
    BY Named, Zenon
  <2>3. PICK e, h : e = <<"\n", ";">> /\ h = "s"
    OBVIOUS
  <2>4. e \in Seq(Char) /\ h \in Char
    <3>1. Two(Char, t, "\n", ";")
      BY <2>2, <1>3, ConcatTwo, Zenon
    <3>2. <<"\n", ";">> \in Seq(Char)
      BY <3>1, Zenon DEF Two
    <3> QED BY <3>2, <2>2, <2>3, Zenon
  <2>5. Tail(<<h>> \o t \o e) = t \o e
    BY <2>4, <1>3, TailOfConcat, Zenon
  <2> QED BY <2>1, <2>3, <2>5, Zenon
<1>5. /\ Template(sql) \in LexStates
      /\ Template(sql).mode = "code" /\ Template(sql).cur = <<>>
      /\ Holes(Template(sql).tokens, Mark) = Holes(sql, "?")
  BY <1>1, SeparateFacts, Zenon
<1> QED BY <1>1, <1>3, <1>4, <1>5, Zenon

(* The invariant ArgumentsArrive of the run "binding", for all queries and *)
(* values: the server reads every value where its placeholder was, and     *)
(* nothing else (MonetArguments::substitute_into, encode_string_literal).  *)
THEOREM ArgumentsAlwaysArrive == Spec => []ArgumentsArrive
<1>1. BindingInv => ArgumentsArrive
  <2> SUFFICES ASSUME BindingInv, phase = "sent", ~raw,
                      Separate(sql, literals)
               PROVE  /\ Count(Template(sql).tokens, Mark,
                           Len(Template(sql).tokens))
                           = Len(bound)
                      /\ Lex(Tail(request)) =
                           [Template(sql) EXCEPT !.tokens =
                              Fill(Template(sql).tokens, Mark,
                                   [k \in 1..Len(bound) |->
                                      TokensOf(bound[k])])]
    BY Zenon DEF ArgumentsArrive
  <2>0. phase \in {"sent", "answered", "read"}
    OBVIOUS
  <2>1. /\ Len(bound) = Holes(Template(sql).tokens, Mark)
        /\ Template(sql) \in LexStates
        /\ Template(sql).mode = "code" /\ Template(sql).cur = <<>>
        /\ Lex(Tail(request)) =
             Lexed(Fill(Template(sql).tokens, Mark, Tokenized(bound)), "code",
               <<>>)
    BY <2>0, SentText, Zenon
  <2>2. PICK t, f : /\ t = Template(sql)
                    /\ f = Fill(Template(sql).tokens, Mark, Tokenized(bound))
    OBVIOUS
  <2>3. t \in LexStates /\ t.mode = "code" /\ t.cur = <<>>
    BY <2>1, <2>2, Zenon
  <2>4. [t EXCEPT !.tokens = f] = Lexed(f, "code", <<>>)
    BY <2>3 DEF LexStates, Lexed
  <2> QED BY <2>1, <2>2, <2>4, Zenon DEF Tokenized, Holes
<1> QED BY <1>1, BindingInductive, PTL

-----------------------------------------------------------------------------
(* The server's select items.                                              *)

ItemStates == [done : Seq(Seq(Tok)), last : Seq(Tok)]
ItemStart == Divided(<<>>, <<>>)
ItemReader == [p \in ItemStates \X Tok |-> ItemStep(p[1], p[2])]

(* The state that Items ends in.                                           *)
Dividing(tokens) ==
    LET part[n \in 0..Len(tokens)] ==
          IF n = 0 THEN Divided(<<>>, <<>>)
          ELSE ItemStep(part[n - 1], tokens[n])
    IN  part[Len(tokens)]

(* What the items are made of.                                             *)
LEMMA ItemsState ==
    ASSUME NEW tokens
    PROVE  LET items == Append(Dividing(tokens).done, Dividing(tokens).last)
           IN  Items(tokens) = [k \in 1..Len(items) |-> Item(items[k])]
BY Zenon DEF Items, Dividing

(* The parts of a divided sequence.                                        *)
LEMMA DividedParts ==
    ASSUME NEW d, NEW l
    PROVE  Divided(d, l).done = d /\ Divided(d, l).last = l
BY DEF Divided

(* What a token does.                                                      *)
Frames == {Word(","), Word("SELECT"), Word(";")}

ItemMove(d, l, a) ==
    /\ a = Word(",") => ItemStep(Divided(d, l), a) = Divided(Append(d, l), <<>>)
    /\ a \in {Word("SELECT"), Word(";")} =>
         ItemStep(Divided(d, l), a) = Divided(d, l)
    /\ a \notin Frames => ItemStep(Divided(d, l), a) = Divided(d, Append(l, a))

(* This is what it does.                                                   *)
LEMMA ItemStepCases ==
    ASSUME NEW d, NEW l, NEW a
    PROVE  ItemMove(d, l, a)
<1>1. /\ Word(",").text[1] = "," /\ Word("SELECT").text[1] = "SELECT"
      /\ Word(";").text[1] = ";"
  BY DEF Word, Token
<1>2. "," # "SELECT" /\ "," # ";" /\ "SELECT" # ";"
  OBVIOUS
<1>3. Word(",") # Word("SELECT") /\ Word(",") # Word(";")
  BY <1>1, <1>2, Zenon
<1>4. a = Word(",") => ItemStep(Divided(d, l), a) = Divided(Append(d, l), <<>>)
  BY <1>3, DividedParts DEF ItemStep, Word
<1>5. a \in {Word("SELECT"), Word(";")} =>
        ItemStep(Divided(d, l), a) = Divided(d, l)
  BY <1>3, DividedParts DEF ItemStep, Word
<1>6. a \notin {Word(","), Word("SELECT"), Word(";")} =>
        ItemStep(Divided(d, l), a) = Divided(d, Append(l, a))
  BY DividedParts DEF ItemStep, Word
<1> QED BY <1>4, <1>5, <1>6, Zenon DEF ItemMove, Frames

(* The server's reading of the items is a reader.                          *)
LEMMA DividingIsReader ==
    /\ Automaton(ItemStates, Tok, ItemStart, ItemReader)
    /\ \A st \in ItemStates, a \in Tok : ItemReader[<<st, a>>] = ItemStep(st, a)
<1>1. \A d \in Seq(Seq(Tok)), l \in Seq(Tok) : Divided(d, l) \in ItemStates
  BY DEF Divided, ItemStates
<1>2. ItemStart \in ItemStates
  <2>1. <<>> \in Seq(Seq(Tok)) /\ <<>> \in Seq(Tok)
    OBVIOUS
  <2> QED BY <1>1, <2>1 DEF ItemStart
<1>3. ASSUME NEW st \in ItemStates, NEW a \in Tok
      PROVE  ItemStep(st, a) \in ItemStates
  <2>1. PICK d \in Seq(Seq(Tok)), l \in Seq(Tok) : st = Divided(d, l)
    BY DEF Divided, ItemStates
  <2>2. /\ Append(d, l) \in Seq(Seq(Tok)) /\ Append(l, a) \in Seq(Tok)
        /\ <<>> \in Seq(Tok)
    BY AppendProperties
  <2>3. /\ Divided(d, l) \in ItemStates
        /\ Divided(Append(d, l), <<>>) \in ItemStates
        /\ Divided(d, Append(l, a)) \in ItemStates
    BY <1>1, <2>2
  <2>4. \/ a = Word(",") \/ a \in {Word("SELECT"), Word(";")}
        \/ a \notin Frames
    BY DEF Frames
  <2>5. \/ ItemStep(Divided(d, l), a) = Divided(Append(d, l), <<>>)
        \/ ItemStep(Divided(d, l), a) = Divided(d, l)
        \/ ItemStep(Divided(d, l), a) = Divided(d, Append(l, a))
    BY <2>4, ItemStepCases, Zenon DEF ItemMove
  <2> QED BY <2>1, <2>3, <2>5
<1>4. ItemReader \in [ItemStates \X Tok -> ItemStates]
  <2>1. \A p \in ItemStates \X Tok : ItemStep(p[1], p[2]) \in ItemStates
    BY <1>3
  <2> QED BY <2>1 DEF ItemReader
<1>5. ASSUME NEW st \in ItemStates, NEW a \in Tok
      PROVE  ItemReader[<<st, a>>] = ItemStep(st, a)
  BY DEF ItemReader
<1> QED BY <1>2, <1>4, <1>5 DEF Automaton

(* What Dividing computes on the way.                                      *)
LEMMA DividingReads ==
    ASSUME NEW s \in Seq(Tok)
    PROVE  \E r : /\ RunsAs(r, ItemStates, ItemStart, ItemReader, s, Len(s))
                  /\ Dividing(s) = r[Len(s)]
<1> DEFINE D(f) == [n \in 0..Len(s) |->
                      IF n = 0 THEN Divided(<<>>, <<>>)
                      ELSE ItemStep(f[n - 1], s[n])]
           part == CHOOSE f : f = D(f)
<1>1. Len(s) \in Nat /\ \A i \in 1..Len(s) : s[i] \in Tok
  BY LenProperties, ElementOfSeq
<1>2. PICK g \in [0..Len(s) -> ItemStates] : Reads(g, ItemStart, ItemReader, s)
  BY DividingIsReader, ReadsExist, Zenon
<1>3. g = D(g)
  <2>1. \A n \in 1..Len(s) : g[n] = ItemStep(g[n - 1], s[n])
    <3> TAKE n \in 1..Len(s)
    <3>1. n - 1 \in 0..Len(s) /\ s[n] \in Tok
      BY <1>1
    <3>2. PICK a, c : a = g[n - 1] /\ c = s[n]
      OBVIOUS
    <3>3. a \in ItemStates /\ c \in Tok
      BY <3>1, <3>2
    <3>4. ItemReader[<<a, c>>] = ItemStep(a, c)
      BY <3>3, DividingIsReader, Zenon
    <3> QED BY <3>2, <3>4, <1>2, Zenon DEF Reads
  <2>2. g[0] = Divided(<<>>, <<>>)
    BY <1>2, Zenon DEF Reads, ItemStart
  <2>3. \A n \in 0..Len(s) : g[n] = D(g)[n]
    <3> TAKE n \in 0..Len(s)
    <3>1. CASE n = 0
      BY <3>1, <2>2
    <3>2. CASE n # 0
      <4>1. n \in 1..Len(s)
        BY <3>2, <1>1
      <4> QED BY <4>1, <3>2, <2>1
    <3> QED BY <3>1, <3>2
  <2> QED BY <2>3
<1>4. part = D(part)
  BY <1>3, Zenon
<1>5. RunsAs(part, ItemStates, ItemStart, ItemReader, s, Len(s))
  <2> HIDE DEF part
  <2>1. \A n \in 0..Len(s) : part[n] =
          IF n = 0 THEN Divided(<<>>, <<>>) ELSE ItemStep(part[n - 1], s[n])
    BY <1>4, Zenon
  <2>2. part[0] = ItemStart
    <3>1. 0 \in 0..Len(s)
      BY <1>1
    <3> QED BY <2>1, <3>1, Zenon DEF ItemStart
  <2>3. ASSUME NEW n \in 1..Len(s), part[n - 1] \in ItemStates
        PROVE  part[n] = ItemReader[<<part[n - 1], s[n]>>]
    <3>1. n \in 0..Len(s) /\ n # 0 /\ s[n] \in Tok
      BY <1>1
    <3>2. ItemReader[<<part[n - 1], s[n]>>] = ItemStep(part[n - 1], s[n])
      BY <3>1, <2>3, DividingIsReader, Zenon
    <3> QED BY <3>1, <3>2, <2>1, Zenon
  <2> QED BY <2>2, <2>3 DEF RunsAs
<1>6. Dividing(s) = part[Len(s)]
  BY Zenon DEF Dividing
<1> QED BY <1>5, <1>6, Zenon

(* It goes element by element.                                             *)
LEMMA DividingLaws ==
    /\ Dividing(<<>>) = ItemStart
    /\ \A s \in Seq(Tok) : Dividing(s) \in ItemStates
    /\ \A s \in Seq(Tok), c \in Tok :
         Dividing(Append(s, c)) = ItemStep(Dividing(s), c)
<1>1. Dividing(<<>>) = ItemStart
  <2>1. <<>> \in Seq(Tok) /\ Len(<<>>) = 0
    OBVIOUS
  <2>2. PICK r : /\ RunsAs(r, ItemStates, ItemStart, ItemReader, <<>>,
                      Len(<<>>))
                 /\ Dividing(<<>>) = r[Len(<<>>)]
    BY <2>1, DividingReads, Zenon
  <2> QED BY <2>1, <2>2 DEF RunsAs
<1>2. ASSUME NEW s \in Seq(Tok), NEW c \in Tok
      PROVE  Dividing(s) \in ItemStates /\
               Dividing(Append(s, c)) = ItemStep(Dividing(s), c)
  <2>1. Append(s, c) \in Seq(Tok) /\ Len(Append(s, c)) = Len(s) + 1
    BY AppendProperties
  <2>2. PICK r : /\ RunsAs(r, ItemStates, ItemStart, ItemReader, s, Len(s))
                 /\ Dividing(s) = r[Len(s)]
    BY DividingReads, Zenon
  <2>3. PICK q : /\ RunsAs(q, ItemStates, ItemStart, ItemReader, Append(s, c),
                      Len(Append(s, c)))
                 /\ Dividing(Append(s, c)) = q[Len(Append(s, c))]
    BY <2>1, DividingReads, Zenon
  <2>4. StepsOn(r, q, ItemStates, ItemReader, s, c)
    BY <2>1, <2>2, <2>3, DividingIsReader, RunsAppend, Zenon
  <2>5. /\ ItemReader[<<Dividing(s), c>>] = ItemStep(Dividing(s), c)
        /\ Dividing(s) \in ItemStates
    BY <2>2, <2>4, DividingIsReader, Zenon DEF StepsOn
  <2> QED BY <2>2, <2>3, <2>4, <2>5, Zenon DEF StepsOn
<1>3. Mark \in Tok
  BY MarkFacts
<1> QED BY <1>1, <1>2, <1>3

(* Tokens that are neither a separator nor a frame of the list.            *)
Inert(w) == w \in Seq(Tok) /\ \A i \in 1..Len(w) : w[i] \notin Frames

(* They join the current item.                                             *)
Joining(s, d, l, w) == Dividing(s \o w) = Divided(d, l \o w)

(* All such tokens do.                                                     *)
LEMMA DividingKeeps ==
    ASSUME NEW s \in Seq(Tok), NEW d, NEW l \in Seq(Tok),
           Dividing(s) = Divided(d, l), NEW w, Inert(w)
    PROVE  Joining(s, d, l, w)
<1> DEFINE S == {v \in Seq(Tok) :
                   Inert(v) => Dividing(s \o v) = Divided(d, l \o v)}
<1>1. <<>> \in S
  <2>1. <<>> \in Seq(Tok) /\ s \o <<>> = s /\ l \o <<>> = l
    OBVIOUS
  <2> QED BY <2>1
<1>2. ASSUME NEW v \in Seq(Tok), NEW a \in Tok, v \in S
      PROVE  Append(v, a) \in S
  <2>1. /\ Append(v, a) \in Seq(Tok) /\ Len(v) \in Nat
        /\ Len(Append(v, a)) = Len(v) + 1
        /\ \A i \in 1..Len(v) : Append(v, a)[i] = v[i]
        /\ Append(v, a)[Len(v) + 1] = a
    BY Grown
  <2>2. ASSUME Inert(Append(v, a))
        PROVE  Dividing(s \o Append(v, a)) = Divided(d, l \o Append(v, a))
    <3>1. Inert(v) /\ a \notin Frames
      <4>1. \A i \in 1..(Len(v) + 1) : Append(v, a)[i] \notin Frames
        BY <2>1, <2>2 DEF Inert
      <4>2. \A i \in 1..Len(v) : i \in 1..(Len(v) + 1)
        BY <2>1
      <4>3. Len(v) + 1 \in 1..(Len(v) + 1)
        BY <2>1
      <4>4. a \notin Frames
        BY <2>1, <4>1, <4>3, Zenon
      <4>5. \A i \in 1..Len(v) : v[i] \notin Frames
        BY <2>1, <4>1, <4>2, Zenon
      <4> QED BY <4>4, <4>5 DEF Inert
    <3>2. Dividing(s \o v) = Divided(d, l \o v)
      BY <1>2, <3>1
    <3>3. PICK e, f : e = s \o v /\ f = l \o v
      OBVIOUS
    <3>4. e \in Seq(Tok)
      BY <3>3
    <3>5. s \o Append(v, a) = Append(e, a) /\ l \o Append(v, a) = Append(f, a)
      BY <3>3, ConcatAppend
    <3>6. Dividing(Append(e, a)) = ItemStep(Divided(d, f), a)
      BY <3>2, <3>3, <3>4, DividingLaws, Zenon
    <3>7. ItemStep(Divided(d, f), a) = Divided(d, Append(f, a))
      <4>1. ItemMove(d, f, a)
        BY ItemStepCases, Zenon
      <4> QED BY <4>1, <3>1 DEF ItemMove
    <3> QED BY <3>5, <3>6, <3>7, Zenon
  <2> QED BY <2>1, <2>2
<1>3. \A v \in Seq(Tok) : v \in S
  <2> HIDE DEF S
  <2> QED BY <1>1, <1>2, SequenceInduction
<1> QED BY <1>3 DEF Inert, Joining

(* SELECT, and placeholders with commas between them.                      *)
Listed(s) ==
    \A i \in 1..Len(s) :
      s[i] = IF i = 1 THEN Word("SELECT")
             ELSE IF i % 2 = 0 THEN Mark ELSE Word(",")

(* What the server has of it: `h` values, the last of them before or       *)
(* behind its comma.                                                       *)
Collected(s, ts) ==
    LET h == Holes(s, Mark)
    IN  /\ h = Len(s) \div 2
        /\ Len(s) = 0 => Dividing(Fill(s, Mark, ts)) = Divided(<<>>, <<>>)
        /\ Len(s) % 2 = 1 =>
             Dividing(Fill(s, Mark, ts)) = Divided(First(ts, h), <<>>)
        /\ Len(s) % 2 = 0 /\ Len(s) > 0 =>
             Dividing(Fill(s, Mark, ts)) = Divided(First(ts, h - 1), ts[h])

(* One token more.                                                         *)
LEMMA ListedAppend ==
    ASSUME NEW s \in Seq(Tok), NEW a \in Tok, Listed(Append(s, a))
    PROVE  /\ Listed(s)
           /\ Len(s) = 0 => a = Word("SELECT")
           /\ Len(s) % 2 = 1 => a = Mark
           /\ Len(s) % 2 = 0 /\ Len(s) > 0 => a = Word(",")
<1>1. PICK e, n : e = Append(s, a) /\ n = Len(s)
  OBVIOUS
<1>2. /\ n \in Nat /\ Len(e) = n + 1 /\ e[n + 1] = a
      /\ \A i \in 1..n : e[i] = s[i]
  <2>1. /\ Len(s) \in Nat /\ Len(Append(s, a)) = Len(s) + 1
        /\ Append(s, a)[Len(s) + 1] = a
        /\ \A i \in 1..Len(s) : Append(s, a)[i] = s[i]
    BY Grown
  <2> QED BY <2>1, <1>1, Zenon
<1>3. \A i \in 1..(n + 1) :
        e[i] = IF i = 1 THEN Word("SELECT")
               ELSE IF i % 2 = 0 THEN Mark ELSE Word(",")
  BY <1>1, <1>2 DEF Listed
<1>4. \A i \in 1..n : i \in 1..(n + 1)
  BY <1>2
<1>5. \A i \in 1..n : s[i] = IF i = 1 THEN Word("SELECT")
                             ELSE IF i % 2 = 0 THEN Mark ELSE Word(",")
  BY <1>2, <1>3, <1>4, Zenon
<1>6. n + 1 \in 1..(n + 1)
  BY <1>2
<1>7. a = IF n + 1 = 1 THEN Word("SELECT")
          ELSE IF (n + 1) % 2 = 0 THEN Mark ELSE Word(",")
  BY <1>2, <1>3, <1>6, Zenon
<1>8. /\ n = 0 => a = Word("SELECT")
      /\ n % 2 = 1 => a = Mark
      /\ n % 2 = 0 /\ n > 0 => a = Word(",")
  <2>1. n % 2 = 1 => (n + 1) % 2 = 0 /\ n + 1 # 1
    BY <1>2
  <2>2. n % 2 = 0 /\ n > 0 => (n + 1) % 2 # 0 /\ n + 1 # 1
    BY <1>2
  <2>3. n = 0 => n + 1 = 1
    OBVIOUS
  <2> QED BY <1>7, <2>1, <2>2, <2>3, Zenon
<1>9. Listed(s)
  BY <1>1, <1>5, Zenon DEF Listed
<1> QED BY <1>1, <1>8, <1>9

(* The values' tokens are there, and none of them is a separator.          *)
Supplied(s, ts) ==
    /\ Enough(s, Mark, ts, Tok)
    /\ \A k \in 1..Holes(s, Mark) : Inert(ts[k])

(* The separators are tokens, and not marks.                               *)
LEMMA FrameFacts ==
    /\ Word(",") \in Tok /\ Word("SELECT") \in Tok /\ Word(";") \in Tok
    /\ Word(",") # Mark /\ Word("SELECT") # Mark /\ Word(";") # Mark
<1>1. "," \in Char /\ "SELECT" \in Char /\ ";" \in Char
  BY Named, Zenon
<1>2. "," # "?" /\ "SELECT" # "?" /\ ";" # "?"
  OBVIOUS
<1>3. Word(",") \in Tok /\ Word("SELECT") \in Tok /\ Word(";") \in Tok
  BY <1>1, Tokens, Zenon DEF Word
<1>4. Word(",") # Mark /\ Word("SELECT") # Mark /\ Word(";") # Mark
  BY <1>2, MarkFacts, Zenon
<1> QED BY <1>3, <1>4

(* A token that is no mark, behind a filled list.                          *)
WordLaw(s, a, ts, d, l) ==
    /\ Dividing(Fill(Append(s, a), Mark, ts)) = ItemStep(Divided(d, l), a)
    /\ Holes(Append(s, a), Mark) = Holes(s, Mark)

(* It does what it would do alone.                                         *)
LEMMA DividingWord ==
    ASSUME NEW s \in Seq(Tok), NEW a \in Tok, a # Mark, NEW ts,
           Enough(Append(s, a), Mark, ts, Tok), NEW d, NEW l,
           Dividing(Fill(s, Mark, ts)) = Divided(d, l)
    PROVE  WordLaw(s, a, ts, d, l)
<1>1. /\ Fill(s, Mark, ts) \in Seq(Tok)
      /\ Fill(Append(s, a), Mark, ts) =
           Fill(s, Mark, ts) \o Piece(s, a, Mark, ts)
  BY FillAppend
<1>2. PICK f : f = Fill(s, Mark, ts)
  OBVIOUS
<1>3. f \in Seq(Tok) /\ Dividing(f) = Divided(d, l)
  BY <1>1, <1>2
<1>4. f \o <<a>> = Append(f, a)
  <2>1. One(Tok, f, a)
    BY <1>3, ConcatOne, Zenon
  <2> QED BY <2>1 DEF One
<1>5. Piece(s, a, Mark, ts) = <<a>>
  BY DEF Piece
<1>6. Dividing(Append(f, a)) = ItemStep(Divided(d, l), a)
  BY <1>3, DividingLaws, Zenon
<1>7. /\ Holes(Append(s, a), Mark) =
           Holes(s, Mark) + (IF a = Mark THEN 1 ELSE 0)
      /\ Holes(s, Mark) \in Nat
  BY HolesAppend
<1>8. Holes(Append(s, a), Mark) = Holes(s, Mark)
  BY <1>7
<1> QED BY <1>1, <1>2, <1>4, <1>5, <1>6, <1>8, Zenon DEF WordLaw

(* A mark: the tokens of the value in its place.                           *)
LEMMA DividingMark ==
    ASSUME NEW s \in Seq(Tok), NEW ts, Supplied(Append(s, Mark), ts), NEW d,
           Dividing(Fill(s, Mark, ts)) = Divided(d, <<>>)
    PROVE  /\ Holes(s, Mark) \in Nat
           /\ Holes(Append(s, Mark), Mark) = Holes(s, Mark) + 1
           /\ Dividing(Fill(Append(s, Mark), Mark, ts)) =
                Divided(d, ts[Holes(s, Mark) + 1])
<1>1. Mark \in Tok
  BY MarkFacts
<1>2. /\ Holes(s, Mark) \in Nat
      /\ Holes(Append(s, Mark), Mark) = Holes(s, Mark) + 1
  BY <1>1, HolesAppend
<1>3. Enough(Append(s, Mark), Mark, ts, Tok)
  BY DEF Supplied
<1>4. /\ Fill(s, Mark, ts) \in Seq(Tok)
      /\ Fill(Append(s, Mark), Mark, ts) =
           Fill(s, Mark, ts) \o Piece(s, Mark, Mark, ts)
  BY <1>1, <1>3, FillAppend
<1>5. PICK f, p : f = Fill(s, Mark, ts) /\ p = ts[Holes(s, Mark) + 1]
  OBVIOUS
<1>6. f \in Seq(Tok) /\ Dividing(f) = Divided(d, <<>>)
  BY <1>4, <1>5
<1>7. Inert(p)
  <2>1. Holes(s, Mark) + 1 \in 1..Holes(Append(s, Mark), Mark)
    BY <1>2
  <2> QED BY <2>1, <1>5 DEF Supplied
<1>8. Piece(s, Mark, Mark, ts) = p
  BY <1>5 DEF Piece
<1>9. Dividing(f \o p) = Divided(d, <<>> \o p)
  <2>1. <<>> \in Seq(Tok)
    OBVIOUS
  <2>2. Joining(f, d, <<>>, p)
    BY <2>1, <1>6, <1>7, DividingKeeps, Zenon
  <2> QED BY <2>2 DEF Joining
<1>10. <<>> \o p = p
  BY <1>7 DEF Inert
<1> QED BY <1>2, <1>4, <1>5, <1>8, <1>9, <1>10, Zenon

(* All of the list.                                                        *)
LEMMA CollectedHolds ==
    ASSUME NEW ts, NEW s \in Seq(Tok), Listed(s), Supplied(s, ts)
    PROVE  Collected(s, ts)
<1> DEFINE S == {t \in Seq(Tok) :
                   Listed(t) /\ Supplied(t, ts) => Collected(t, ts)}
<1>1. <<>> \in S
  <2>1. <<>> \in Seq(Tok) /\ Len(<<>>) = 0
    OBVIOUS
  <2>2. Holes(<<>>, Mark) = 0
    BY MarkFacts, HolesAppend, <2>1
  <2>3. Dividing(Fill(<<>>, Mark, ts)) = Divided(<<>>, <<>>)
    BY FillEmpty, DividingLaws, Zenon DEF ItemStart
  <2>4. Collected(<<>>, ts)
    BY <2>1, <2>2, <2>3 DEF Collected
  <2> QED BY <2>1, <2>4
<1>2. ASSUME NEW t \in Seq(Tok), NEW a \in Tok, t \in S
      PROVE  Append(t, a) \in S
  <2>1. /\ Append(t, a) \in Seq(Tok) /\ Len(t) \in Nat
        /\ Len(Append(t, a)) = Len(t) + 1
    BY Grown
  <2>2. ASSUME Listed(Append(t, a)), Supplied(Append(t, a), ts)
        PROVE  Collected(Append(t, a), ts)
    <3>1. /\ Listed(t)
          /\ Len(t) = 0 => a = Word("SELECT")
          /\ Len(t) % 2 = 1 => a = Mark
          /\ Len(t) % 2 = 0 /\ Len(t) > 0 => a = Word(",")
      BY <2>2, ListedAppend
    <3>2. PICK n, h, e : n = Len(t) /\ h = Holes(t, Mark) /\ e = Append(t, a)
      OBVIOUS
    <3>3. /\ h \in Nat /\ Holes(e, Mark) = h + (IF a = Mark THEN 1 ELSE 0)
          /\ n \in Nat /\ Len(e) = n + 1
      BY <2>1, <3>2, HolesAppend
    <3>4. Enough(e, Mark, ts, Tok) /\ \A k \in 1..Holes(e, Mark) : Inert(ts[k])
      BY <2>2, <3>2 DEF Supplied
    <3>5. Supplied(t, ts)
      BY <3>2, <3>3, <3>4 DEF Supplied, Enough
    <3>6. Collected(t, ts)
      BY <1>2, <3>1, <3>5
    <3>7. /\ h = n \div 2
          /\ n = 0 => Dividing(Fill(t, Mark, ts)) = Divided(<<>>, <<>>)
          /\ n % 2 = 1 =>
               Dividing(Fill(t, Mark, ts)) = Divided(First(ts, h), <<>>)
          /\ n % 2 = 0 /\ n > 0 =>
               Dividing(Fill(t, Mark, ts)) = Divided(First(ts, h - 1), ts[h])
      BY <3>2, <3>6, Zenon DEF Collected
    <3>8. CASE n = 0
      <4>1. a = Word("SELECT") /\ a # Mark
        BY <3>1, <3>2, <3>8, FrameFacts
      <4>2. /\ Dividing(Fill(e, Mark, ts)) = ItemStep(Divided(<<>>, <<>>), a)
            /\ Holes(e, Mark) = h
        <5>1. WordLaw(t, a, ts, <<>>, <<>>)
          BY <3>2, <3>4, <3>7, <3>8, <4>1, DividingWord, Zenon
        <5> QED BY <5>1, <3>2, Zenon DEF WordLaw
      <4>3. ItemStep(Divided(<<>>, <<>>), a) = Divided(<<>>, <<>>)
        <5>1. ItemMove(<<>>, <<>>, a)
          BY ItemStepCases, Zenon
        <5> QED BY <5>1, <4>1 DEF ItemMove
      <4>4. h = 0 /\ Len(e) = 1
        BY <3>3, <3>7, <3>8
      <4>5. First(ts, 0) = <<>>
        BY DEF First
      <4>6. /\ Holes(e, Mark) = Len(e) \div 2 /\ Len(e) # 0 /\ Len(e) % 2 = 1
            /\ Holes(e, Mark) = 0
        BY <4>2, <4>4
      <4> QED BY <3>2, <4>2, <4>3, <4>5, <4>6 DEF Collected
    <3>9. CASE n % 2 = 1
      <4>1. a = Mark
        BY <3>1, <3>2, <3>9
      <4>2. /\ Holes(e, Mark) = h + 1
            /\ Dividing(Fill(e, Mark, ts)) = Divided(First(ts, h), ts[h + 1])
        BY <2>2, <3>2, <3>7, <3>9, <4>1, DividingMark, Zenon
      <4>3. /\ Holes(e, Mark) = Len(e) \div 2 /\ Len(e) % 2 = 0 /\ Len(e) > 0
            /\ Holes(e, Mark) - 1 = h
        BY <3>3, <3>7, <3>9, <4>2
      <4>4. Dividing(Fill(e, Mark, ts)) =
              Divided(First(ts, Holes(e, Mark) - 1), ts[Holes(e, Mark)])
        BY <4>2, <4>3, Zenon
      <4>5. Len(e) # 0 /\ Len(e) % 2 # 1
        BY <3>3, <4>3
      <4> QED BY <3>2, <4>3, <4>4, <4>5, Zenon DEF Collected
    <3>10. CASE n % 2 = 0 /\ n > 0
      <4>1. a = Word(",") /\ a # Mark
        BY <3>1, <3>2, <3>10, FrameFacts
      <4>2. /\ Dividing(Fill(e, Mark, ts)) =
                 ItemStep(Divided(First(ts, h - 1), ts[h]), a)
            /\ Holes(e, Mark) = h
        <5>1. WordLaw(t, a, ts, First(ts, h - 1), ts[h])
          BY <3>2, <3>4, <3>7, <3>10, <4>1, DividingWord, Zenon
        <5> QED BY <5>1, <3>2, Zenon DEF WordLaw
      <4>3. ItemStep(Divided(First(ts, h - 1), ts[h]), a) =
              Divided(Append(First(ts, h - 1), ts[h]), <<>>)
        <5>1. ItemMove(First(ts, h - 1), ts[h], a)
          BY ItemStepCases, Zenon
        <5> QED BY <5>1, <4>1 DEF ItemMove
      <4>4. Append(First(ts, h - 1), ts[h]) = First(ts, h)
        <5>1. PICK g : g = h - 1
          OBVIOUS
        <5>2. g \in Nat /\ g + 1 = h
          BY <3>3, <3>7, <3>10, <5>1
        <5>3. \A k \in 1..(g + 1) : ts[k] \in Seq(Tok)
          BY <3>4, <4>2, <5>2 DEF Enough
        <5>4. FirstLaw(Seq(Tok), ts, g)
          BY <5>2, <5>3, FirstAppend, Zenon
        <5> QED BY <5>1, <5>2, <5>4, Zenon DEF FirstLaw
      <4>5. /\ Holes(e, Mark) = Len(e) \div 2 /\ Len(e) % 2 = 1 /\ Len(e) # 0
            /\ Len(e) % 2 # 0
        BY <3>3, <3>7, <3>10, <4>2
      <4>6. Dividing(Fill(e, Mark, ts)) =
              Divided(First(ts, Holes(e, Mark)), <<>>)
        BY <4>2, <4>3, <4>4, Zenon
      <4> QED BY <3>2, <4>5, <4>6, Zenon DEF Collected
    <3>11. n = 0 \/ n % 2 = 1 \/ (n % 2 = 0 /\ n > 0)
      BY <3>3
    <3> QED BY <3>8, <3>9, <3>10, <3>11
  <2> QED BY <2>1, <2>2
<1>3. \A t \in Seq(Tok) : t \in S
  <2> HIDE DEF S
  <2> QED BY <1>1, <1>2, SequenceInduction
<1> QED BY <1>3

-----------------------------------------------------------------------------
(* A value's tokens are an item of their own, and show it.                 *)

(* One or two sequences behind each other.                                 *)
LEMMA FlattenFew ==
    ASSUME NEW T, NEW x \in Seq(T), NEW y \in Seq(T)
    PROVE  FlattenSeq(<<x>>) = x /\ FlattenSeq(<<x, y>>) = x \o y
<1>1. <<>> \in Seq(Seq(T)) /\ <<x>> \in Seq(Seq(T)) /\ <<>> \o x = x
  OBVIOUS
<1>2. <<x>> = Append(<<>>, x) /\ <<x, y>> = Append(<<x>>, y)
  OBVIOUS
<1>3. FlattenSeq(Append(<<>>, x)) = FlattenSeq(<<>>) \o x
  BY <1>1, FlattenAppend
<1>4. FlattenSeq(<<x>>) = x
  BY <1>1, <1>2, <1>3, FlattenEmpty
<1>5. FlattenSeq(Append(<<x>>, y)) = FlattenSeq(<<x>>) \o y
  BY <1>1, FlattenAppend
<1> QED BY <1>2, <1>4, <1>5

(* A pair.                                                                 *)
IsPair(T, x, y, e) ==
    /\ e \in Seq(T) /\ Len(e) = 2 /\ e[1] = x /\ e[2] = y
    /\ <<x>> \o <<y>> = e

(* This is what a pair is.                                                 *)
LEMMA Pairs ==
    ASSUME NEW T, NEW x \in T, NEW y \in T
    PROVE  IsPair(T, x, y, <<x, y>>)
<1>1. <<x>> \in Seq(T) /\ <<x, y>> = Append(<<x>>, y) /\ <<x, y>> \in Seq(T)
  OBVIOUS
<1>2. <<x>> \o <<y>> = Append(<<x>>, y)
  <2>1. One(T, <<x>>, y)
    BY <1>1, ConcatOne, Zenon
  <2> QED BY <2>1, Zenon DEF One
<1>3. Len(<<x, y>>) = 2 /\ <<x, y>>[1] = x /\ <<x, y>>[2] = y
  OBVIOUS
<1> QED BY <1>1, <1>2, <1>3 DEF IsPair

(* Words differ when their characters do, and are no literals.             *)
LEMMA WordFacts ==
    /\ \A c, d : Word(c) = Word(d) => c = d
    /\ \A c : Word(c).kind = "word" /\ Word(c).text = <<c>>
    /\ \A x : Token("str", x).kind = "str" /\ Token("str", x).text = x
    /\ \A c, x : Word(c) # Token("str", x)
<1>1. \A c : Word(c).kind = "word" /\ Word(c).text = <<c>>
  BY DEF Word, Token
<1>2. \A x : Token("str", x).kind = "str" /\ Token("str", x).text = x
  BY DEF Token
<1>3. ASSUME NEW c, NEW d, Word(c) = Word(d) PROVE c = d
  <2>1. <<c>> = <<d>>
    BY <1>1, <1>3
  <2>2. <<c>>[1] = c /\ <<d>>[1] = d
    OBVIOUS
  <2> QED BY <2>1, <2>2
<1>4. \A c, x : Word(c) # Token("str", x)
  <2>1. "word" # "str"
    OBVIOUS
  <2> QED BY <1>1, <1>2, <2>1
<1> QED BY <1>1, <1>2, <1>3, <1>4

(* What is no separator between items.                                     *)
LEMMA FreeTokens ==
    /\ \A c : c # "," /\ c # "SELECT" /\ c # ";" => Word(c) \notin Frames
    /\ \A x : Token("str", x) \notin Frames
BY WordFacts DEF Frames

(* The item of a word, a signed number, a string and a date.               *)
LEMMA ItemOfWord ==
    ASSUME NEW c \in Char
    PROVE  Field(Item(<<Word(c)>>)) = <<c>>
<1>1. PICK w : w = Word(c)
  OBVIOUS
<1>2. w.kind = "word" /\ w.text = <<c>>
  BY <1>1, WordFacts
<1>3. <<w>> = <<Word("NULL")>> => c = "NULL"
  <2>1. <<w>> = <<Word("NULL")>> => w = Word("NULL")
    OBVIOUS
  <2> QED BY <2>1, <1>1, WordFacts, Zenon
<1>4. CASE <<w>> = <<Word("NULL")>>
  <2>1. Item(<<w>>).type = "None"
    BY <1>4 DEF Item, Word
  <2> QED BY <1>1, <1>3, <1>4, <2>1 DEF Field
<1>5. CASE <<w>> # <<Word("NULL")>>
  <2>1. [i \in 1..Len(<<w>>) |-> <<w>>[i].text] = <<<<c>>>>
    BY <1>2
  <2>2. FlattenSeq(<<<<c>>>>) = <<c>>
    <3>1. <<c>> \in Seq(Char)
      OBVIOUS
    <3> QED BY <3>1, FlattenFew
  <2>3. Len(<<w>>) = 1 /\ <<w>>[1].kind # "str"
    BY <1>2
  <2>4. Item(<<w>>) = [type |-> "number",
                       text |-> FlattenSeq([i \in 1..Len(<<w>>) |->
                                              <<w>>[i].text])]
    BY <1>5, <2>3 DEF Item, Word
  <2>5. Item(<<w>>) = [type |-> "number", text |-> <<c>>]
    BY <2>1, <2>2, <2>4, Zenon
  <2>6. Item(<<w>>).type = "number" /\ Item(<<w>>).text = <<c>>
    BY <2>5
  <2> QED BY <1>1, <2>6 DEF Field
<1> QED BY <1>4, <1>5

(* A number with its sign is shown as both.                                *)
LEMMA ItemOfSigned ==
    ASSUME NEW c \in Char, NEW d \in Char
    PROVE  Field(Item(<<Word(c), Word(d)>>)) = <<c, d>>
<1>1. PICK t : t = <<Word(c), Word(d)>>
  OBVIOUS
<1>2. Len(t) = 2 /\ t[1].text = <<c>> /\ t[2].text = <<d>> /\ t[2].kind # "str"
  <2>1. Len(t) = 2 /\ t[1] = Word(c) /\ t[2] = Word(d)
    BY <1>1
  <2> QED BY <2>1, WordFacts
<1>3. [i \in 1..Len(t) |-> t[i].text] = <<<<c>>, <<d>>>>
  BY <1>2
<1>4. FlattenSeq(<<<<c>>, <<d>>>>) = <<c, d>>
  <2>1. <<c>> \in Seq(Char) /\ <<d>> \in Seq(Char)
    OBVIOUS
  <2>2. <<c>> \o <<d>> = <<c, d>>
    <3>1. IsPair(Char, c, d, <<c, d>>)
      BY Pairs, Zenon
    <3> QED BY <3>1, Zenon DEF IsPair
  <2> QED BY <2>1, <2>2, FlattenFew
<1>5. t # <<Word("NULL")>>
  BY <1>2
<1>6. Item(t) = [type |-> "number",
        text |-> FlattenSeq([i \in 1..Len(t) |-> t[i].text])]
  BY <1>2, <1>5 DEF Item, Word
<1>7. Item(t) = [type |-> "number", text |-> <<c, d>>]
  BY <1>3, <1>4, <1>6, Zenon
<1>8. Item(t).type = "number" /\ Item(t).text = <<c, d>>
  BY <1>7
<1> QED BY <1>1, <1>8 DEF Field

(* A string is shown between quotes, escaped.                              *)
LEMMA ItemOfString ==
    ASSUME NEW x
    PROVE  Field(Item(<<Token("str", x)>>)) = <<"\"">> \o Escape(x) \o <<"\"">>
<1>1. PICK t : t = <<Token("str", x)>>
  OBVIOUS
<1>2. Len(t) = 1 /\ t[1] = Token("str", x)
  BY <1>1
<1>3. t[1].kind = "str" /\ t[1].text = x
  BY <1>2, WordFacts
<1>4. t # <<Word("NULL")>>
  BY <1>2, WordFacts
<1>5. Item(t) = [type |-> "String", text |-> x]
  BY <1>2, <1>3, <1>4 DEF Item, Word
<1>6. Item(t).type = "String" /\ Item(t).text = x
  BY <1>5
<1> QED BY <1>1, <1>6 DEF Field

(* A date is shown without its keyword.                                    *)
LEMMA ItemOfDate ==
    ASSUME NEW k, NEW x
    PROVE  Field(Item(<<Word(k), Token("str", x)>>)) = x
<1>1. PICK t : t = <<Word(k), Token("str", x)>>
  OBVIOUS
<1>2. Len(t) = 2 /\ t[2] = Token("str", x)
  BY <1>1
<1>3. t[2].kind = "str" /\ t[2].text = x
  BY <1>2, WordFacts
<1>4. t # <<Word("NULL")>>
  BY <1>2
<1>5. Item(t) = [type |-> "temporal", text |-> x]
  BY <1>2, <1>3, <1>4 DEF Item, Word
<1>6. Item(t).type = "temporal" /\ Item(t).text = x
  BY <1>5
<1> QED BY <1>1, <1>6 DEF Field

(* A tuple line shows a value as what the server read of it.               *)
Shows(v) ==
    Inert(TokensOf(v)) /\ Field(Item(TokensOf(v))) = Field(v)

(* One or two tokens that are no separators.                               *)
LEMMA InertWords ==
    ASSUME NEW a \in Tok, a \notin Frames, NEW b \in Tok, b \notin Frames
    PROVE  Inert(<<a>>) /\ Inert(<<b, a>>)
<1>1. Inert(<<a>>)
  <2>1. PICK e : e = <<a>>
    OBVIOUS
  <2>2. e \in Seq(Tok)
    BY <2>1
  <2>3. Len(e) = 1 /\ e[1] = a
    BY <2>1
  <2>4. \A i \in 1..1 : i = 1
    OBVIOUS
  <2>5. \A i \in 1..Len(e) : e[i] \notin Frames
    BY <2>3, <2>4, Zenon
  <2> QED BY <2>1, <2>2, <2>5 DEF Inert
<1>2. Inert(<<b, a>>)
  <2>1. PICK e : e = <<b, a>>
    OBVIOUS
  <2>2. e \in Seq(Tok) /\ Len(e) = 2 /\ e[1] = b /\ e[2] = a
    <3>1. IsPair(Tok, b, a, <<b, a>>)
      BY Pairs, Zenon
    <3> QED BY <3>1, <2>1 DEF IsPair
  <2>3. \A i \in 1..2 : i = 1 \/ i = 2
    OBVIOUS
  <2>4. \A i \in 1..Len(e) : e[i] \notin Frames
    <3>1. e[1] \notin Frames /\ e[2] \notin Frames
      BY <2>2, Zenon
    <3> QED BY <2>2, <2>3, <3>1, Zenon
  <2> QED BY <2>1, <2>2, <2>4 DEF Inert
<1> QED BY <1>1, <1>2

(* A number, a bool or a NULL.                                             *)
LEMMA WordsShow ==
    ASSUME NEW v, NEW c \in Char, c # ",", c # "SELECT", c # ";"
    PROVE  /\ TokensOf(v) = <<Word(c)>> /\ Field(v) = <<c>> => Shows(v)
           /\ TokensOf(v) = <<Word("-"), Word(c)>> /\ Field(v) = <<"-", c>>
                => Shows(v)
<1>1. /\ "-" \in Char /\ "-" # "," /\ "-" # "SELECT" /\ "-" # ";"
  <2>1. "-" \in Char
    BY Named, Zenon
  <2> QED BY <2>1
<1>2. PICK d : d = "-"
  OBVIOUS
<1>3. d \in Char /\ d # "," /\ d # "SELECT" /\ d # ";"
  BY <1>1, <1>2, Zenon
<1>4. /\ Word(c) \in Tok /\ Word(d) \in Tok
      /\ Word(c) \notin Frames /\ Word(d) \notin Frames
  BY <1>3, FreeTokens, Tokens, Zenon DEF Word
<1>5. Inert(<<Word(c)>>) /\ Inert(<<Word(d), Word(c)>>)
  BY <1>4, InertWords, Zenon
<1>6. /\ Field(Item(<<Word(c)>>)) = <<c>>
      /\ Field(Item(<<Word(d), Word(c)>>)) = <<d, c>>
  BY <1>3, ItemOfWord, ItemOfSigned, Zenon
<1> QED BY <1>2, <1>5, <1>6, Zenon DEF Shows

(* Every value that can be bound.                                          *)
LEMMA ValuesShow ==
    ASSUME NEW v \in Bindable
    PROVE  Shows(v)
<1>1. CASE v.type = "None" /\ v.text = <<>>
  <2>1. TokensOf(v) = <<Word("NULL")>> /\ Field(v) = <<"NULL">>
    BY <1>1 DEF TokensOf, Word, Field, TemporalTypes
  <2>2. "NULL" # "," /\ "NULL" # "SELECT" /\ "NULL" # ";"
    OBVIOUS
  <2>3. "NULL" \in Char
    BY Named, Zenon
  <2> QED BY <2>1, <2>2, <2>3, WordsShow, Zenon
<1>2. CASE v.type = "String" /\ v.text \in Seq(Char)
  <2>1. PICK x \in Seq(Char) : x = v.text
    BY <1>2
  <2>2. TokensOf(v) = <<Token("str", x)>>
    BY <1>2, <2>1 DEF TokensOf, TemporalTypes
  <2>3. Field(v) = <<"\"">> \o Escape(x) \o <<"\"">>
    BY <1>2, <2>1 DEF Field
  <2>4. Inert(<<Token("str", x)>>)
    <3>1. Token("str", x) \in Tok /\ Token("str", x) \notin Frames
      BY FreeTokens, Tokens, Zenon
    <3> QED BY <3>1 DEF Inert
  <2> QED BY <2>2, <2>3, <2>4, ItemOfString, Zenon DEF Shows
<1>3. CASE v.type = "bool" /\ v.text \in {<<"true">>, <<"false">>}
  <2>1. PICK c : c \in {"true", "false"} /\ v.text = <<c>>
    BY <1>3
  <2>2. c \in Char /\ c # "," /\ c # "SELECT" /\ c # ";"
    <3>1. "true" \in Char /\ "false" \in Char
      BY Named, Zenon
    <3> QED BY <2>1, <3>1
  <2>3. v.type \notin {"None", "String"} /\ v.type \notin TemporalTypes
    BY <1>3 DEF TemporalTypes
  <2>4. /\ TokensOf(v) = [i \in 1..Len(v.text) |-> Word(v.text[i])]
        /\ Field(v) = <<c>>
    BY <2>1, <2>3 DEF TokensOf, Word, Field
  <2>5. [i \in 1..Len(v.text) |-> Word(v.text[i])] = <<Word(c)>>
    BY <2>1
  <2> QED BY <2>2, <2>4, <2>5, WordsShow, Zenon
<1>4. CASE /\ v.type \in IntTypes \cup FloatTypes \cup {"Decimal"}
           /\ \E c \in Plain : v.text = <<c>> \/ v.text = <<"-", c>>
  <2>1. PICK c \in Plain : v.text = <<c>> \/ v.text = <<"-", c>>
    BY <1>4
  <2>2. c \in Char /\ c # "," /\ c # "SELECT" /\ c # ";"
    BY PlainFacts
  <2>3. v.type \notin {"None", "String"} /\ v.type \notin TemporalTypes
    BY <1>4 DEF TemporalTypes, IntTypes, FloatTypes
  <2>4. /\ TokensOf(v) = [i \in 1..Len(v.text) |-> Word(v.text[i])]
        /\ Field(v) = v.text
    BY <2>3 DEF TokensOf, Word, Field
  <2>5. CASE v.text = <<c>>
    <3>1. [i \in 1..Len(v.text) |-> Word(v.text[i])] = <<Word(c)>>
      BY <2>5
    <3> QED BY <2>2, <2>4, <2>5, <3>1, WordsShow, Zenon
  <2>6. CASE v.text = <<"-", c>>
    <3>1. [i \in 1..Len(v.text) |-> Word(v.text[i])] = <<Word("-"), Word(c)>>
      BY <2>6
    <3> QED BY <2>2, <2>4, <2>6, <3>1, WordsShow, Zenon
  <2> QED BY <2>1, <2>5, <2>6
<1>5. CASE v.type \in TemporalTypes /\ \E c \in Plain : v.text = <<c>>
  <2>1. PICK c \in Plain : v.text = <<c>>
    BY <1>5
  <2>2. PICK k : k = Keyword[v.type]
    OBVIOUS
  <2>3. k \in {"DATE", "TIME", "TIMESTAMP"}
    BY <1>5, <2>2 DEF Keyword, TemporalTypes
  <2>4. k \in Char /\ k # "," /\ k # "SELECT" /\ k # ";"
    <3>1. "DATE" \in Char /\ "TIME" \in Char /\ "TIMESTAMP" \in Char
      BY Named, Zenon
    <3> QED BY <2>3, <3>1
  <2>5. v.type # "None" /\ v.type # "String"
    BY <1>5 DEF TemporalTypes
  <2>6. TokensOf(v) = <<Word(k), Token("str", <<c>>)>> /\ Field(v) = <<c>>
    BY <1>5, <2>1, <2>2, <2>5 DEF TokensOf, Word, Field
  <2>7. Inert(<<Word(k), Token("str", <<c>>)>>)
    <3>1. c \in Char
      BY PlainFacts
    <3>2. <<c>> \in Seq(Char)
      BY <3>1
    <3>3. /\ Token("str", <<c>>) \in Tok /\ Token("str", <<c>>) \notin Frames
          /\ Word(k) \in Tok /\ Word(k) \notin Frames
      BY <2>4, <3>2, FreeTokens, Tokens, Zenon DEF Word
    <3> QED BY <3>3 DEF Inert
  <2> QED BY <2>6, <2>7, ItemOfDate, Zenon DEF Shows
<1> QED BY <1>1, <1>2, <1>3, <1>4, <1>5, BindableCases

(* A text that ends in code ends in the word of its terminator.            *)
LEMMA EndWord ==
    ASSUME NEW q \in Seq(Char), NEW c \in Char, c \notin Breaks,
           Lex(Append(q, c)).mode = "code"
    PROVE  \E s \in Seq(Tok) : Lex(Append(q, c)).tokens = Append(s, Word(c))
<1>1. Lex(q) \in LexStates /\ Lex(Append(q, c)) = LexStep(Lex(q), c)
  BY LexLaws, Zenon
<1>2. PICK u, m, x : /\ u \in Seq(Tok) /\ m \in Modes /\ x \in Seq(Char)
                     /\ Lex(q) = Lexed(u, m, x)
  BY <1>1, StAll
<1>3. c # "'" /\ c # "-" /\ c # " " /\ c # "\n"
  BY DEF Breaks
<1>4. \A w \in Seq(Tok) : InCode(w, c) = Lexed(Append(w, Word(c)), "code", <<>>)
  BY <1>3, InCodeCases DEF Word
<1>5. /\ Append(u, Token("word", <<"-">>)) \in Seq(Tok)
      /\ Append(u, Token("str", x)) \in Seq(Tok)
  BY <1>2, Named, Tokens, AppendProperties
<1>6. PICK r : r = LexStep(Lexed(u, m, x), c)
  OBVIOUS
<1>7. r.mode = "code" => \E s \in Seq(Tok) : r.tokens = Append(s, Word(c))
  <2>1. CASE m = "str"
    <3>1. r = Lexed(u, "str", Append(x, c))
      BY <1>2, <1>3, <1>6, <2>1, LexStepCases, Zenon
    <3>2. r.mode = "str"
      BY <3>1 DEF Lexed
    <3> QED BY <3>2
  <2>2. CASE m = "quote"
    <3>1. r = Lexed(Append(Append(u, Token("str", x)), Word(c)), "code", <<>>)
      BY <1>2, <1>3, <1>4, <1>5, <1>6, <2>2, LexStepCases, Zenon
    <3>2. r.tokens = Append(Append(u, Token("str", x)), Word(c))
      BY <3>1 DEF Lexed
    <3> QED BY <1>5, <3>2, Zenon
  <2>3. CASE m = "dash"
    <3>1. r = Lexed(Append(Append(u, Token("word", <<"-">>)), Word(c)), "code",
            <<>>)
      BY <1>2, <1>3, <1>4, <1>5, <1>6, <2>3, LexStepCases, Zenon
    <3>2. r.tokens = Append(Append(u, Token("word", <<"-">>)), Word(c))
      BY <3>1 DEF Lexed
    <3> QED BY <1>5, <3>2, Zenon
  <2>4. CASE m = "comment"
    <3>1. r = Lexed(u, "comment", x)
      BY <1>2, <1>3, <1>6, <2>4, LexStepCases, Zenon
    <3>2. r.mode = "comment"
      BY <3>1 DEF Lexed
    <3> QED BY <3>2
  <2>5. CASE m = "code"
    <3>1. r = Lexed(Append(u, Word(c)), "code", <<>>)
      BY <1>2, <1>3, <1>4, <1>6, <2>5, LexStepCases, Zenon
    <3>2. r.tokens = Append(u, Word(c))
      BY <3>1 DEF Lexed
    <3> QED BY <1>2, <3>2, Zenon
  <2> QED BY <1>2, <2>1, <2>2, <2>3, <2>4, <2>5 DEF Modes
<1> QED BY <1>1, <1>2, <1>6, <1>7, Zenon

(* A query of placeholders, up to its terminator.                          *)
LEMMA EchoList ==
    ASSUME NEW q \in Seq(Char), NEW ls, Separate(q, ls), Echo(q)
    PROVE  \E s \in Seq(Tok) : /\ Template(q).tokens = Append(s, Word(";"))
                               /\ Listed(s) /\ Len(s) % 2 = 0 /\ Len(s) > 0
<1>1. PICK n, m : n = "\n" /\ m = ";"
  OBVIOUS
<1>a. PICK e : e = Append(q, n)
  OBVIOUS
<1>2. e \in Seq(Char) /\ m \in Char /\ m \notin Breaks
  <2>1. n \in Char /\ m \in Char
    BY <1>1, Named, Zenon
  <2>2. e \in Seq(Char)
    BY <1>a, <2>1
  <2>3. ";" \notin Breaks
    BY DEF Breaks
  <2> QED BY <1>1, <2>1, <2>2, <2>3, Zenon
<1>3. PICK L : L = Template(q)
  OBVIOUS
<1>4. L = Lex(Append(e, m)) /\ L.mode = "code"
  BY <1>1, <1>a, <1>3, SeparateFacts, Zenon DEF Ended, Closed
<1>5. PICK s \in Seq(Tok) : L.tokens = Append(s, Word(m))
  BY <1>2, <1>4, EndWord, Zenon
<1>6. PICK t, w, sel, com : /\ t = L.tokens /\ w = Word(m)
                            /\ sel = Word("SELECT") /\ com = Word(",")
  OBVIOUS
<1>7. /\ t = Append(s, w) /\ w \in Tok /\ sel # w
  <2>1. m # "SELECT"
    BY <1>1
  <2>2. w \in Tok
    BY <1>2, <1>6, Tokens, Zenon DEF Word
  <2>3. sel # w
    BY <1>6, <2>1, WordFacts, Zenon
  <2> QED BY <1>5, <1>6, <2>2, <2>3
<1>8. /\ t[1] = sel /\ Len(t) % 2 = 1
      /\ \A i \in 2..(Len(t) - 1) : t[i] = IF i % 2 = 0 THEN Mark ELSE com
  BY <1>3, <1>6, Zenon DEF Echo, Word
<1>9. /\ Len(s) \in Nat /\ Len(t) = Len(s) + 1 /\ t[Len(s) + 1] = w
      /\ \A i \in 1..Len(s) : t[i] = s[i]
  <2>1. s \in Seq(Tok) /\ w \in Tok
    BY <1>7
  <2>2. /\ Len(s) \in Nat /\ Len(Append(s, w)) = Len(s) + 1
        /\ \A i \in 1..Len(s) : Append(s, w)[i] = s[i]
        /\ Append(s, w)[Len(s) + 1] = w
    BY <2>1, Grown
  <2> QED BY <2>2, <1>7
<1>10. Len(s) % 2 = 0 /\ Len(s) > 0
  <2>1. PICK k : k = Len(s)
    OBVIOUS
  <2>2. k \in Nat /\ (k + 1) % 2 = 1
    BY <2>1, <1>8, <1>9
  <2>3. k # 0
    <3>1. k = 0 => t[1] = w
      BY <2>1, <1>9
    <3> QED BY <3>1, <1>7, <1>8, Zenon
  <2>4. k % 2 = 0 /\ k > 0
    BY <2>2, <2>3
  <2> QED BY <2>1, <2>4
<1>11. Listed(s)
  <2> SUFFICES ASSUME NEW i \in 1..Len(s)
               PROVE  s[i] = IF i = 1 THEN sel
                             ELSE IF i % 2 = 0 THEN Mark ELSE com
    BY <1>6, Zenon DEF Listed
  <2>1. CASE i = 1
    BY <2>1, <1>8, <1>9
  <2>2. CASE i # 1
    <3>1. i \in 2..(Len(t) - 1)
      BY <2>2, <1>9
    <3>2. t[i] = s[i]
      BY <1>9, Zenon
    <3>3. t[i] = IF i % 2 = 0 THEN Mark ELSE com
      BY <1>8, <3>1, Zenon
    <3> QED BY <2>2, <3>2, <3>3
  <2> QED BY <2>1, <2>2
<1>12. L.tokens = Append(s, Word(";"))
  BY <1>1, <1>5, Zenon
<1> QED BY <1>3, <1>10, <1>11, <1>12, Zenon

(* The tokens of values are supplied.                                      *)
LEMMA ValuesSupplied ==
    ASSUME NEW b \in Seq(Bindable), NEW s, Holes(s, Mark) \in Nat,
           Holes(s, Mark) = Len(b)
    PROVE  Supplied(s, Tokenized(b))
<1>1. Holes(s, Mark) <= Len(b)
  OBVIOUS
<1>2. Enough(s, Mark, Tokenized(b), Tok)
  BY <1>1, EnoughValues
<1>3. ASSUME NEW k \in 1..Holes(s, Mark) PROVE Inert(Tokenized(b)[k])
  <2>1. k \in 1..Len(b)
    OBVIOUS
  <2>2. b[k] \in Bindable /\ Tokenized(b)[k] = TokensOf(b[k])
    BY <2>1, Parts
  <2>3. Shows(b[k])
    BY <2>2, ValuesShow, Zenon
  <2> QED BY <2>2, <2>3 DEF Shows
<1> QED BY <1>2, <1>3 DEF Supplied

(* The terminator leaves the items as they are.                            *)
Neutral(w) ==
    /\ w \in Tok /\ w # Mark
    /\ \A d, l : ItemStep(Divided(d, l), w) = Divided(d, l)

(* The end of the statement is such a token.                               *)
LEMMA EndIsNeutral == Neutral(Word(";"))
<1>1. Word(";") \in Tok /\ Word(";") # Mark
  BY FrameFacts
<1>2. \A d, l : ItemMove(d, l, Word(";"))
  BY ItemStepCases, Zenon
<1>3. Word(";") \in {Word("SELECT"), Word(";")}
  OBVIOUS
<1>4. \A d, l : ItemStep(Divided(d, l), Word(";")) = Divided(d, l)
  BY <1>2, <1>3, Zenon DEF ItemMove
<1> QED BY <1>1, <1>4, Zenon DEF Neutral

(* The server reads the values as the items of the list.                   *)
Echoes(s, w, b) ==
    /\ Len(b) \in Nat \ {0}
    /\ Items(Fill(Append(s, w), Mark, Tokenized(b))) =
         [k \in 1..Len(b) |-> Item(TokensOf(b[k]))]

(* All lists that end in one are read this way.                            *)
LEMMA EchoedItems ==
    ASSUME NEW s \in Seq(Tok), Listed(s), Len(s) % 2 = 0, Len(s) > 0,
           NEW w, Neutral(w),
           NEW b \in Seq(Bindable), Len(b) = Holes(Append(s, w), Mark)
    PROVE  Echoes(s, w, b)
<1>1. PICK ts, h : ts = Tokenized(b) /\ h = Len(b)
  OBVIOUS
<1>2. /\ w \in Tok /\ w # Mark
      /\ \A d, l : ItemStep(Divided(d, l), w) = Divided(d, l)
  BY DEF Neutral
<1>3. PICK t : t = Append(s, w)
  OBVIOUS
<1>4. /\ Holes(s, Mark) \in Nat
      /\ Holes(t, Mark) = Holes(s, Mark) /\ Holes(t, Mark) = h
  <2>1. /\ Holes(s, Mark) \in Nat
        /\ Holes(Append(s, w), Mark) =
             Holes(s, Mark) + (IF w = Mark THEN 1 ELSE 0)
    BY <1>2, HolesAppend
  <2>2. Holes(Append(s, w), Mark) = Holes(s, Mark)
    BY <1>2, <2>1
  <2> QED BY <1>1, <1>3, <2>1, <2>2, Zenon
<1>5. Supplied(s, ts) /\ Supplied(t, ts)
  BY <1>1, <1>4, ValuesSupplied, Zenon
<1>6. Collected(s, ts)
  BY <1>5, CollectedHolds, Zenon
<1>7. /\ h = Len(s) \div 2
      /\ Dividing(Fill(s, Mark, ts)) = Divided(First(ts, h - 1), ts[h])
  BY <1>4, <1>6, Zenon DEF Collected
<1>8. h \in Nat \ {0}
  <2>1. Len(s) \in Nat
    BY LenProperties
  <2> QED BY <2>1, <1>7
<1>9. Dividing(Fill(t, Mark, ts)) = Divided(First(ts, h - 1), ts[h])
  <2>1. Enough(Append(s, w), Mark, ts, Tok)
    BY <1>3, <1>5, Zenon DEF Supplied
  <2>2. WordLaw(s, w, ts, First(ts, h - 1), ts[h])
    BY <2>1, <1>2, <1>7, DividingWord, Zenon
  <2> QED BY <1>2, <1>3, <2>2, Zenon DEF WordLaw
<1>10. Append(First(ts, h - 1), ts[h]) = First(ts, h)
  <2>1. PICK g : g = h - 1
    OBVIOUS
  <2>2. g \in Nat /\ g + 1 = h
    BY <1>8, <2>1
  <2>3. \A k \in 1..(g + 1) : ts[k] \in Seq(Tok)
    BY <1>4, <1>5, <2>2 DEF Supplied, Enough
  <2>4. FirstLaw(Seq(Tok), ts, g)
    BY <2>2, <2>3, FirstAppend, Zenon
  <2> QED BY <2>1, <2>2, <2>4, Zenon DEF FirstLaw
<1>11. PICK f, d : f = Fill(t, Mark, ts) /\ d = First(ts, h)
  OBVIOUS
<1>12. Items(f) = [k \in 1..Len(d) |-> Item(d[k])]
  <2>1. Dividing(f).done = First(ts, h - 1) /\ Dividing(f).last = ts[h]
    <3>1. PICK p, l : p = First(ts, h - 1) /\ l = ts[h]
      OBVIOUS
    <3>2. Dividing(f) = Divided(p, l)
      BY <1>9, <1>11, <3>1, Zenon
    <3>3. Divided(p, l).done = p /\ Divided(p, l).last = l
      BY DividedParts
    <3> QED BY <3>1, <3>2, <3>3, Zenon
  <2>2. Append(Dividing(f).done, Dividing(f).last) = d
    BY <1>10, <1>11, <2>1, Zenon
  <2>3. LET items == Append(Dividing(f).done, Dividing(f).last)
        IN  Items(f) = [k \in 1..Len(items) |-> Item(items[k])]
    BY ItemsState, Zenon
  <2> QED BY <2>2, <2>3, Zenon
<1>13. d = [k \in 1..h |-> ts[k]]
  BY <1>11 DEF First
<1>14. Len(d) = h /\ \A k \in 1..h : d[k] = ts[k]
  <2>1. \A k \in 1..h : ts[k] \in Seq(Tok)
    BY <1>4, <1>5 DEF Supplied, Enough
  <2>2. d \in Seq(Seq(Tok)) /\ Len(d) = h
    BY <2>1, <1>8, <1>13
  <2> QED BY <2>2, <1>13
<1>15. \A k \in 1..h : ts[k] = TokensOf(b[k])
  BY <1>1, Parts, Zenon
<1>16. Items(f) = [k \in 1..h |-> Item(TokensOf(b[k]))]
  <2>1. \A k \in 1..h : d[k] = TokensOf(b[k])
    BY <1>14, <1>15
  <2> QED BY <1>12, <1>14, <2>1
<1> QED BY <1>1, <1>3, <1>8, <1>11, <1>16, Zenon DEF Echoes

-----------------------------------------------------------------------------
(* The server's escapes, and unescape_field.                               *)

Escaping == [c \in Char |-> Escaped(c)]

(* A character stands for itself, or is escaped by one that stands for it. *)
Itself(c) == /\ Escaped(c) = <<c>> /\ c # "\\" /\ c # "\t"
ByCode(c, e, d) ==
    /\ e = "\\" /\ e \in Char /\ d \in Char /\ d # "\t" /\ Escaped(c) = <<e, d>>
    /\ Unescaped(d) = <<c>>

(* Every character is of one kind or the other.                            *)
LEMMA EscapeCases ==
    ASSUME NEW c \in Char
    PROVE  Itself(c) \/ \E e, d : ByCode(c, e, d)
<1>0. "\\" \in Char /\ "\"" \in Char /\ "n" \in Char /\ "t" \in Char
  BY Named, Zenon
<1>1. CASE c = "\n"
  <2>1. Escaped(c) = <<"\\", "n">>
    BY <1>1 DEF Escaped
  <2>2. Unescaped("n") = <<"\n">>
    BY DEF Unescaped
  <2>3. "n" # "\t"
    OBVIOUS
  <2>4. ByCode(c, "\\", "n")
    BY <1>0, <1>1, <2>1, <2>2, <2>3, Zenon DEF ByCode
  <2> QED BY <2>4, Zenon
<1>2. CASE c = "\t"
  <2>1. Escaped(c) = <<"\\", "t">>
    BY <1>2 DEF Escaped
  <2>2. Unescaped("t") = <<"\t">>
    BY DEF Unescaped
  <2>3. "t" # "\t"
    OBVIOUS
  <2>4. ByCode(c, "\\", "t")
    BY <1>0, <1>2, <2>1, <2>2, <2>3, Zenon DEF ByCode
  <2> QED BY <2>4, Zenon
<1>3. CASE c = "\\"
  <2>1. Escaped(c) = <<"\\", c>>
    BY <1>3 DEF Escaped
  <2>2. Unescaped(c) = <<c>>
    BY <1>3 DEF Unescaped
  <2>3. c # "\t"
    BY <1>3
  <2>4. ByCode(c, "\\", c)
    BY <1>0, <2>1, <2>2, <2>3, Zenon DEF ByCode
  <2> QED BY <2>4, Zenon
<1>4. CASE c = "\""
  <2>1. Escaped(c) = <<"\\", c>>
    BY <1>4 DEF Escaped
  <2>2. Unescaped(c) = <<c>>
    BY <1>4 DEF Unescaped
  <2>3. c # "\t"
    BY <1>4
  <2>4. ByCode(c, "\\", c)
    BY <1>0, <2>1, <2>2, <2>3, Zenon DEF ByCode
  <2> QED BY <2>4, Zenon
<1>5. CASE c # "\n" /\ c # "\t" /\ c # "\\" /\ c # "\""
  <2>1. Escaped(c) = <<c>>
    BY <1>5 DEF Escaped
  <2> QED BY <1>5, <2>1, Zenon DEF Itself
<1> QED BY <1>1, <1>2, <1>3, <1>4, <1>5

(* Both are texts.                                                         *)
LEMMA EscapingType == Escaping \in [Char -> Seq(Char)]
<1>1. ASSUME NEW c \in Char PROVE Escaped(c) \in Seq(Char)
  <2>1. CASE Itself(c)
    <3>1. <<c>> \in Seq(Char)
      OBVIOUS
    <3> QED BY <2>1, <3>1, Zenon DEF Itself
  <2>2. ASSUME NEW e, NEW d, ByCode(c, e, d) PROVE Escaped(c) \in Seq(Char)
    <3>1. IsPair(Char, e, d, <<e, d>>)
      BY <2>2, Pairs, Zenon DEF ByCode
    <3> QED BY <2>2, <3>1, Zenon DEF ByCode, IsPair
  <2> QED BY <2>1, <2>2, EscapeCases, Zenon
<1> QED BY <1>1 DEF Escaping

(* The escaped text is joined from them.                                   *)
LEMMA EscapeJoins ==
    ASSUME NEW x \in Seq(Char)
    PROVE  Escape(x) = Joined(Escaping, x)
<1>1. \A i \in 1..Len(x) : x[i] \in Char
  BY ElementOfSeq
<1>2. [i \in 1..Len(x) |-> Escaped(x[i])] = [i \in 1..Len(x) |-> Escaping[x[i]]]
  BY <1>1 DEF Escaping
<1> QED BY <1>2, Zenon DEF Escape, Joined

(* An escape sequence is no separator.                                     *)
LEMMA EscapeHasNoTab ==
    ASSUME NEW x \in Seq(Char)
    PROVE  Escape(x) \in Seq(Char) /\ NoHole(Escape(x), "\t")
<1>0. PICK tab : tab = "\t"
  OBVIOUS
<1> DEFINE S == {y \in Seq(Char) :
                   /\ Joined(Escaping, y) \in Seq(Char)
                   /\ NoHole(Joined(Escaping, y), tab)}
<1>1. <<>> \in S
  <2>1. <<>> \in Seq(Char) /\ "t" \in Char
    BY Named, Zenon, Tokens
  <2>2. JoinLaw(Escaping, <<>>, "t", Char)
    BY <2>1, EscapingType, JoinedAppend, Zenon
  <2>3. Joined(Escaping, <<>>) = <<>>
    BY <2>2, Zenon DEF JoinLaw
  <2>4. NoHole(<<>>, tab)
    BY DEF NoHole
  <2> QED BY <2>1, <2>3, <2>4
<1>2. ASSUME NEW y \in Seq(Char), NEW c \in Char, y \in S
      PROVE  Append(y, c) \in S
  <2>1. Append(y, c) \in Seq(Char)
    OBVIOUS
  <2>2. JoinLaw(Escaping, y, c, Char)
    BY EscapingType, JoinedAppend, Zenon
  <2>3. PICK j : j = Joined(Escaping, y)
    OBVIOUS
  <2>4. j \in Seq(Char) /\ NoHole(j, tab)
    BY <1>2, <2>3
  <2>5. Joined(Escaping, Append(y, c)) = j \o Escaped(c)
    <3>1. Escaping[c] = Escaped(c)
      BY DEF Escaping
    <3> QED BY <2>2, <2>3, <3>1, Zenon DEF JoinLaw
  <2>6. CASE Itself(c)
    <3>1. One(Char, j, c)
      BY <2>4, ConcatOne, Zenon
    <3>2. NoHole(Append(j, c), tab)
      <4>1. c # tab
        BY <1>0, <2>6, Zenon DEF Itself
      <4> QED BY <4>1, <2>4, NoHoleAppend, Zenon
    <3>3. /\ Joined(Escaping, Append(y, c)) = Append(j, c)
          /\ Append(j, c) \in Seq(Char)
      BY <2>5, <2>6, <3>1, Zenon DEF Itself, One
    <3> QED BY <2>1, <3>2, <3>3
  <2>7. ASSUME NEW e, NEW d, ByCode(c, e, d)
        PROVE  Append(y, c) \in S
    <3>1. /\ e \in Char /\ d \in Char /\ e # tab /\ d # tab
          /\ Escaped(c) = <<e, d>>
      <4>1. "\\" # "\t"
        OBVIOUS
      <4> QED BY <1>0, <2>7, <4>1, Zenon DEF ByCode
    <3>2. Two(Char, j, e, d)
      BY <2>4, <3>1, ConcatTwo, Zenon
    <3>3. PICK i : i = Append(j, e)
      OBVIOUS
    <3>4. i \in Seq(Char)
      BY <2>4, <3>1, <3>3
    <3>5. NoHole(i, tab)
      <4>1. NoHole(Append(j, e), tab)
        BY <2>4, <3>1, NoHoleAppend, Zenon
      <4> QED BY <4>1, <3>3
    <3>6. NoHole(Append(i, d), tab)
      BY <3>1, <3>4, <3>5, NoHoleAppend, Zenon
    <3>7. /\ Joined(Escaping, Append(y, c)) = Append(i, d)
          /\ Append(i, d) \in Seq(Char)
      BY <2>5, <3>1, <3>2, <3>3, Zenon DEF Two
    <3> QED BY <2>1, <3>6, <3>7
  <2> QED BY <2>6, <2>7, EscapeCases
<1>3. \A y \in Seq(Char) : y \in S
  <2> HIDE DEF S
  <2> QED BY <1>1, <1>2, SequenceInduction
<1>4. Joined(Escaping, x) \in Seq(Char) /\ NoHole(Joined(Escaping, x), tab)
  BY <1>3
<1> QED BY <1>0, <1>4, EscapeJoins, Zenon

(* What unescape returns, and the states it goes through.                  *)
OutChar == Char \cup {"\r"}
UnescapeStates == [out : Seq(OutChar), mode : {"plain", "escape"}]
UnescapeStart == Unquoted(<<>>, "plain")
UnescapeReader == [p \in UnescapeStates \X Char |-> UnescapeStep(p[1], p[2])]

Unescaping(s) ==
    LET part[n \in 0..Len(s)] == IF n = 0 THEN Unquoted(<<>>, "plain")
                                 ELSE UnescapeStep(part[n - 1], s[n])
    IN  part[Len(s)]

(* What unescape makes of the last state.                                  *)
LEMMA UnescapeState ==
    ASSUME NEW s
    PROVE  unescape(s) = IF Unescaping(s).mode = "escape"
                         THEN Append(Unescaping(s).out, "\\")
                         ELSE Unescaping(s).out
BY Zenon DEF unescape, Unescaping

(* What a character does.                                                  *)
UnescapeMove(o, c) ==
    /\ UnescapeStep(Unquoted(o, "escape"), c) =
         Unquoted(o \o Unescaped(c), "plain")
    /\ c = "\\" => UnescapeStep(Unquoted(o, "plain"), c) = Unquoted(o, "escape")
    /\ c # "\\" =>
         UnescapeStep(Unquoted(o, "plain"), c) = Unquoted(Append(o, c), "plain")

(* This is what it does.                                                   *)
LEMMA UnescapeStepCases ==
    ASSUME NEW o, NEW c
    PROVE  UnescapeMove(o, c)
<1>1. \A m : Unquoted(o, m).out = o /\ Unquoted(o, m).mode = m
  BY DEF Unquoted
<1>2. "plain" # "escape"
  OBVIOUS
<1> QED BY <1>1, <1>2, Zenon DEF UnescapeMove, UnescapeStep

(* What an escape stands for is a text.                                    *)
LEMMA UnescapedType ==
    ASSUME NEW c \in Char
    PROVE  Unescaped(c) \in Seq(OutChar)
<1>1. /\ c \in OutChar /\ "\n" \in OutChar /\ "\t" \in OutChar
      /\ "\r" \in OutChar /\ "\\" \in OutChar
  <2>1. /\ "\n" \in Char /\ "\t" \in Char /\ "\\" \in Char
    BY Named, Zenon
  <2>2. "\r" \in {"\r"}
    OBVIOUS
  <2> QED BY <2>1, <2>2, Zenon DEF OutChar
<1>2. \A d \in OutChar : <<d>> \in Seq(OutChar)
  OBVIOUS
<1>3. <<"\\", c>> \in Seq(OutChar)
  <2>1. IsPair(OutChar, "\\", c, <<"\\", c>>)
    BY <1>1, Pairs, Zenon
  <2> QED BY <2>1, Zenon DEF IsPair
<1>4. \/ Unescaped(c) = <<"\n">> \/ Unescaped(c) = <<"\t">>
      \/ Unescaped(c) = <<"\r">> \/ Unescaped(c) = <<c>>
      \/ Unescaped(c) = <<"\\", c>>
  BY DEF Unescaped
<1> QED BY <1>1, <1>2, <1>3, <1>4, Zenon

(* The unescaping is a reader.                                             *)
LEMMA UnescapingIsReader ==
    /\ Automaton(UnescapeStates, Char, UnescapeStart, UnescapeReader)
    /\ \A st \in UnescapeStates, c \in Char :
         UnescapeReader[<<st, c>>] = UnescapeStep(st, c)
<1>1. \A o \in Seq(OutChar), m \in {"plain", "escape"} :
        Unquoted(o, m) \in UnescapeStates
  BY DEF Unquoted, UnescapeStates
<1>2. UnescapeStart \in UnescapeStates
  <2>1. <<>> \in Seq(OutChar)
    OBVIOUS
  <2> QED BY <1>1, <2>1 DEF UnescapeStart
<1>3. ASSUME NEW st \in UnescapeStates, NEW c \in Char
      PROVE  UnescapeStep(st, c) \in UnescapeStates
  <2>1. PICK o \in Seq(OutChar), m \in {"plain", "escape"} : st = Unquoted(o, m)
    BY DEF Unquoted, UnescapeStates
  <2>2. Append(o, c) \in Seq(OutChar)
    <3>1. c \in OutChar
      BY DEF OutChar
    <3> QED BY <3>1, AppendProperties
  <2>3. o \o Unescaped(c) \in Seq(OutChar)
    BY UnescapedType, ConcatProperties
  <2>4. /\ Unquoted(o \o Unescaped(c), "plain") \in UnescapeStates
        /\ Unquoted(o, "escape") \in UnescapeStates
        /\ Unquoted(Append(o, c), "plain") \in UnescapeStates
    BY <1>1, <2>2, <2>3
  <2>5. UnescapeMove(o, c)
    BY UnescapeStepCases, Zenon
  <2>6. m = "plain" \/ m = "escape"
    OBVIOUS
  <2> QED BY <2>1, <2>4, <2>5, <2>6, Zenon DEF UnescapeMove
<1>4. UnescapeReader \in [UnescapeStates \X Char -> UnescapeStates]
  <2>1. \A p \in UnescapeStates \X Char :
          UnescapeStep(p[1], p[2]) \in UnescapeStates
    BY <1>3
  <2> QED BY <2>1 DEF UnescapeReader
<1>5. ASSUME NEW st \in UnescapeStates, NEW c \in Char
      PROVE  UnescapeReader[<<st, c>>] = UnescapeStep(st, c)
  BY DEF UnescapeReader
<1> QED BY <1>2, <1>4, <1>5 DEF Automaton

(* What Unescaping computes on the way.                                    *)
LEMMA UnescapingReads ==
    ASSUME NEW s \in Seq(Char)
    PROVE  \E r : /\ RunsAs(r, UnescapeStates, UnescapeStart, UnescapeReader, s,
                       Len(s))
                  /\ Unescaping(s) = r[Len(s)]
<1> DEFINE D(f) == [n \in 0..Len(s) |->
                      IF n = 0 THEN Unquoted(<<>>, "plain")
                      ELSE UnescapeStep(f[n - 1], s[n])]
           part == CHOOSE f : f = D(f)
<1>1. Len(s) \in Nat /\ \A i \in 1..Len(s) : s[i] \in Char
  BY LenProperties, ElementOfSeq
<1>2. PICK g \in [0..Len(s) -> UnescapeStates] :
             Reads(g, UnescapeStart, UnescapeReader, s)
  BY UnescapingIsReader, ReadsExist, Zenon
<1>3. g = D(g)
  <2>1. \A n \in 1..Len(s) : g[n] = UnescapeStep(g[n - 1], s[n])
    <3> TAKE n \in 1..Len(s)
    <3>1. n - 1 \in 0..Len(s) /\ s[n] \in Char
      BY <1>1
    <3>2. PICK a, c : a = g[n - 1] /\ c = s[n]
      OBVIOUS
    <3>3. a \in UnescapeStates /\ c \in Char
      BY <3>1, <3>2
    <3>4. UnescapeReader[<<a, c>>] = UnescapeStep(a, c)
      BY <3>3, UnescapingIsReader, Zenon
    <3> QED BY <3>2, <3>4, <1>2, Zenon DEF Reads
  <2>2. g[0] = Unquoted(<<>>, "plain")
    BY <1>2, Zenon DEF Reads, UnescapeStart
  <2>3. \A n \in 0..Len(s) : g[n] = D(g)[n]
    <3> TAKE n \in 0..Len(s)
    <3>1. CASE n = 0
      BY <3>1, <2>2
    <3>2. CASE n # 0
      <4>1. n \in 1..Len(s)
        BY <3>2, <1>1
      <4> QED BY <4>1, <3>2, <2>1
    <3> QED BY <3>1, <3>2
  <2> QED BY <2>3
<1>4. part = D(part)
  BY <1>3, Zenon
<1>5. RunsAs(part, UnescapeStates, UnescapeStart, UnescapeReader, s, Len(s))
  <2> HIDE DEF part
  <2>1. \A n \in 0..Len(s) : part[n] =
          IF n = 0 THEN Unquoted(<<>>, "plain")
          ELSE UnescapeStep(part[n - 1], s[n])
    BY <1>4, Zenon
  <2>2. part[0] = UnescapeStart
    <3>1. 0 \in 0..Len(s)
      BY <1>1
    <3> QED BY <2>1, <3>1, Zenon DEF UnescapeStart
  <2>3. ASSUME NEW n \in 1..Len(s), part[n - 1] \in UnescapeStates
        PROVE  part[n] = UnescapeReader[<<part[n - 1], s[n]>>]
    <3>1. n \in 0..Len(s) /\ n # 0 /\ s[n] \in Char
      BY <1>1
    <3>2. UnescapeReader[<<part[n - 1], s[n]>>] =
            UnescapeStep(part[n - 1], s[n])
      BY <3>1, <2>3, UnescapingIsReader, Zenon
    <3> QED BY <3>1, <3>2, <2>1, Zenon
  <2> QED BY <2>2, <2>3 DEF RunsAs
<1>6. Unescaping(s) = part[Len(s)]
  BY Zenon DEF Unescaping
<1> QED BY <1>5, <1>6, Zenon

(* It goes element by element.                                             *)
LEMMA UnescapingLaws ==
    /\ Unescaping(<<>>) = UnescapeStart
    /\ \A s \in Seq(Char) : Unescaping(s) \in UnescapeStates
    /\ \A s \in Seq(Char), c \in Char :
         Unescaping(Append(s, c)) = UnescapeStep(Unescaping(s), c)
<1>1. Unescaping(<<>>) = UnescapeStart
  <2>1. <<>> \in Seq(Char) /\ Len(<<>>) = 0
    OBVIOUS
  <2>2. PICK r : /\ RunsAs(r, UnescapeStates, UnescapeStart, UnescapeReader,
                      <<>>, Len(<<>>))
                 /\ Unescaping(<<>>) = r[Len(<<>>)]
    BY <2>1, UnescapingReads, Zenon
  <2> QED BY <2>1, <2>2 DEF RunsAs
<1>2. ASSUME NEW s \in Seq(Char), NEW c \in Char
      PROVE  Unescaping(s) \in UnescapeStates /\
               Unescaping(Append(s, c)) = UnescapeStep(Unescaping(s), c)
  <2>1. Append(s, c) \in Seq(Char) /\ Len(Append(s, c)) = Len(s) + 1
    BY AppendProperties
  <2>2. PICK r : /\ RunsAs(r, UnescapeStates, UnescapeStart, UnescapeReader, s,
                      Len(s))
                 /\ Unescaping(s) = r[Len(s)]
    BY UnescapingReads, Zenon
  <2>3. PICK q : /\ RunsAs(q, UnescapeStates, UnescapeStart, UnescapeReader,
                      Append(s, c), Len(Append(s, c)))
                 /\ Unescaping(Append(s, c)) = q[Len(Append(s, c))]
    BY <2>1, UnescapingReads, Zenon
  <2>4. StepsOn(r, q, UnescapeStates, UnescapeReader, s, c)
    BY <2>1, <2>2, <2>3, UnescapingIsReader, RunsAppend, Zenon
  <2>5. /\ UnescapeReader[<<Unescaping(s), c>>] = UnescapeStep(Unescaping(s), c)
        /\ Unescaping(s) \in UnescapeStates
    BY <2>2, <2>4, UnescapingIsReader, Zenon DEF StepsOn
  <2> QED BY <2>2, <2>3, <2>4, <2>5, Zenon DEF StepsOn
<1>3. "n" \in Char
  BY Named, Zenon
<1> QED BY <1>1, <1>2, <1>3

(* unescape undoes the server's escapes.                                   *)
LEMMA UnescapingEscaped ==
    ASSUME NEW x \in Seq(Char)
    PROVE  Unescaping(Joined(Escaping, x)) = Unquoted(x, "plain")
<1> DEFINE S == {y \in Seq(Char) :
                   /\ Joined(Escaping, y) \in Seq(Char)
                   /\ Unescaping(Joined(Escaping, y)) = Unquoted(y, "plain")}
<1>1. <<>> \in S
  <2>1. <<>> \in Seq(Char) /\ "t" \in Char
    BY Named, Zenon, Tokens
  <2>2. JoinLaw(Escaping, <<>>, "t", Char)
    BY <2>1, EscapingType, JoinedAppend, Zenon
  <2>3. Joined(Escaping, <<>>) = <<>>
    BY <2>2, Zenon DEF JoinLaw
  <2>4. Unescaping(<<>>) = Unquoted(<<>>, "plain")
    BY UnescapingLaws, Zenon DEF UnescapeStart
  <2> QED BY <2>1, <2>3, <2>4
<1>2. ASSUME NEW y \in Seq(Char), NEW c \in Char, y \in S
      PROVE  Append(y, c) \in S
  <2>1. Append(y, c) \in Seq(Char)
    OBVIOUS
  <2>2. JoinLaw(Escaping, y, c, Char)
    BY EscapingType, JoinedAppend, Zenon
  <2>3. PICK j : j = Joined(Escaping, y)
    OBVIOUS
  <2>4. j \in Seq(Char) /\ Unescaping(j) = Unquoted(y, "plain")
    BY <1>2, <2>3
  <2>5. Joined(Escaping, Append(y, c)) = j \o Escaped(c)
    <3>1. Escaping[c] = Escaped(c)
      BY DEF Escaping
    <3> QED BY <2>2, <2>3, <3>1, Zenon DEF JoinLaw
  <2>6. CASE Itself(c)
    <3>1. One(Char, j, c)
      BY <2>4, ConcatOne, Zenon
    <3>2. Unescaping(Append(j, c)) = Unquoted(Append(y, c), "plain")
      <4>1. Unescaping(Append(j, c)) = UnescapeStep(Unquoted(y, "plain"), c)
        BY <2>4, UnescapingLaws, Zenon
      <4>2. UnescapeMove(y, c)
        BY UnescapeStepCases, Zenon
      <4> QED BY <4>1, <4>2, <2>6, Zenon DEF Itself, UnescapeMove
    <3>3. /\ Joined(Escaping, Append(y, c)) = Append(j, c)
          /\ Append(j, c) \in Seq(Char)
      BY <2>5, <2>6, <3>1, Zenon DEF Itself, One
    <3> QED BY <2>1, <3>2, <3>3
  <2>7. ASSUME NEW e, NEW d, ByCode(c, e, d)
        PROVE  Append(y, c) \in S
    <3>1. /\ e = "\\" /\ e \in Char /\ d \in Char /\ Escaped(c) = <<e, d>>
          /\ Unescaped(d) = <<c>>
      BY <2>7, Zenon DEF ByCode
    <3>2. Two(Char, j, e, d)
      BY <2>4, <3>1, ConcatTwo, Zenon
    <3>3. PICK i : i = Append(j, e)
      OBVIOUS
    <3>4. i \in Seq(Char)
      BY <2>4, <3>1, <3>3
    <3>5. Unescaping(i) = Unquoted(y, "escape")
      <4>1. Unescaping(Append(j, e)) = UnescapeStep(Unquoted(y, "plain"), e)
        BY <2>4, <3>1, UnescapingLaws, Zenon
      <4>2. UnescapeMove(y, e)
        BY UnescapeStepCases, Zenon
      <4> QED BY <4>1, <4>2, <3>1, <3>3, Zenon DEF UnescapeMove
    <3>6. Unescaping(Append(i, d)) = Unquoted(y \o <<c>>, "plain")
      <4>1. Unescaping(Append(i, d)) = UnescapeStep(Unquoted(y, "escape"), d)
        BY <3>1, <3>4, <3>5, UnescapingLaws, Zenon
      <4>2. UnescapeMove(y, d)
        BY UnescapeStepCases, Zenon
      <4> QED BY <4>1, <4>2, <3>1, Zenon DEF UnescapeMove
    <3>7. One(Char, y, c)
      BY ConcatOne, Zenon
    <3>8. Unescaping(Append(i, d)) = Unquoted(Append(y, c), "plain")
      BY <3>6, <3>7, Zenon DEF One
    <3>9. /\ Joined(Escaping, Append(y, c)) = Append(i, d)
          /\ Append(i, d) \in Seq(Char)
      BY <2>5, <3>1, <3>2, <3>3, Zenon DEF Two
    <3> QED BY <2>1, <3>8, <3>9
  <2> QED BY <2>6, <2>7, EscapeCases
<1>3. \A y \in Seq(Char) : y \in S
  <2> HIDE DEF S
  <2> QED BY <1>1, <1>2, SequenceInduction
<1> QED BY <1>3

(* So unescape does.                                                       *)
LEMMA UnescapeEscape ==
    ASSUME NEW x \in Seq(Char)
    PROVE  unescape(Escape(x)) = x
<1>1. Unescaping(Escape(x)) = Unquoted(x, "plain")
  BY EscapeJoins, UnescapingEscaped, Zenon
<1>2. Unquoted(x, "plain").out = x /\ Unquoted(x, "plain").mode = "plain"
  BY DEF Unquoted
<1>3. "plain" # "escape"
  OBVIOUS
<1> QED BY <1>1, <1>2, <1>3, UnescapeState, Zenon

-----------------------------------------------------------------------------
(* What trim and unescape_field make of the field of a value.              *)

(* f is e with h before it and l behind it.                                *)
Wraps(T, f, h, e, l) ==
    /\ f \in Seq(T) /\ Len(e) \in Nat /\ Len(f) = Len(e) + 2
    /\ f[1] = h /\ f[Len(e) + 2] = l
    /\ \A i \in 1..Len(e) : f[i + 1] = e[i]
    /\ SubSeq(f, 2, Len(e) + 1) = e
    /\ f # <<>>

(* Concatenation wraps.                                                    *)
LEMMA Wrapped ==
    ASSUME NEW T, NEW h \in T, NEW e \in Seq(T), NEW l \in T
    PROVE  Wraps(T, <<h>> \o e \o <<l>>, h, e, l)
<1>1. PICK d, f, n : d = <<h>> \o e /\ f = d \o <<l>> /\ n = Len(e)
  OBVIOUS
<1>2. /\ d \in Seq(T) /\ n \in Nat /\ Len(d) = n + 1 /\ d[1] = h
      /\ \A i \in 1..n : d[i + 1] = e[i]
  <2>1. <<h>> \in Seq(T) /\ Len(<<h>>) = 1 /\ <<h>>[1] = h
    OBVIOUS
  <2>2. PICK g : g = <<h>>
    OBVIOUS
  <2>3. g \in Seq(T) /\ Len(g) = 1 /\ g[1] = h
    BY <2>1, <2>2
  <2>4. /\ g \o e \in Seq(T) /\ Len(g \o e) = Len(g) + Len(e)
        /\ \A i \in 1..(Len(g) + Len(e)) :
             (g \o e)[i] = IF i <= Len(g) THEN g[i] ELSE e[i - Len(g)]
    BY <2>3, ConcatProperties
  <2>5. n \in Nat
    BY <1>1, LenProperties
  <2>6. d = g \o e
    BY <1>1, <2>2
  <2>7. d \in Seq(T) /\ Len(d) = n + 1
    BY <1>1, <2>3, <2>4, <2>5, <2>6
  <2>8. \A i \in 1..(n + 1) : d[i] = IF i <= 1 THEN g[i] ELSE e[i - 1]
    BY <1>1, <2>3, <2>4, <2>5, <2>6
  <2>9. d[1] = h
    BY <2>3, <2>5, <2>8
  <2>10. \A i \in 1..n : d[i + 1] = e[i]
    <3> TAKE i \in 1..n
    <3>1. i + 1 \in 1..(n + 1) /\ ~(i + 1 <= 1) /\ (i + 1) - 1 = i
      BY <2>5
    <3> QED BY <3>1, <2>8
  <2> QED BY <2>5, <2>7, <2>9, <2>10
<1>3. f = Append(d, l)
  <2>1. One(T, d, l)
    BY <1>2, ConcatOne, Zenon
  <2> QED BY <2>1, <1>1 DEF One
<1>4. /\ f \in Seq(T) /\ Len(f) = n + 2 /\ f[n + 2] = l
      /\ \A i \in 1..(n + 1) : f[i] = d[i]
  <2>1. d \in Seq(T)
    BY <1>2
  <2>2. /\ Append(d, l) \in Seq(T) /\ Len(Append(d, l)) = Len(d) + 1
        /\ \A i \in 1..Len(d) : Append(d, l)[i] = d[i]
        /\ Append(d, l)[Len(d) + 1] = l
    BY <2>1, Grown
  <2>3. Len(d) = n + 1 /\ Len(d) + 1 = n + 2
    BY <1>2
  <2> QED BY <2>2, <2>3, <1>3
<1>5. f[1] = h
  <2>1. 1 \in 1..(n + 1)
    BY <1>2
  <2> QED BY <2>1, <1>2, <1>4
<1>6. \A i \in 1..n : f[i + 1] = e[i]
  <2> TAKE i \in 1..n
  <2>1. i + 1 \in 1..(n + 1)
    BY <1>2
  <2> QED BY <2>1, <1>2, <1>4
<1>7. SubSeq(f, 2, n + 1) = e
  <2>1. PICK g : g = SubSeq(f, 2, n + 1)
    OBVIOUS
  <2>2. /\ g \in Seq(T) /\ Len(g) = n /\ \A i \in 1..n : g[i] = f[i + 1]
    <3>1. g = [i \in 1..n |-> f[i + 1]]
      BY <2>1, <1>2, <1>4
    <3>2. \A i \in 1..n : f[i + 1] \in T
      BY <1>2, <1>4, ElementOfSeq
    <3> QED BY <3>1, <3>2, <1>2
  <2>3. \A i \in 1..n : g[i] = e[i]
    BY <2>2, <1>6
  <2>4. g = e
    <3>1. Len(e) = n /\ e \in Seq(T)
      BY <1>1
    <3> QED BY <3>1, <2>2, <2>3, <1>2
  <2> QED BY <2>1, <2>4
<1>8. f # <<>>
  BY <1>2, <1>4
<1> QED BY <1>1, <1>2, <1>4, <1>5, <1>6, <1>7, <1>8 DEF Wraps

(* trim takes the space at both ends off.                                  *)
LEMMA Trimmed ==
    ASSUME NEW s, NEW lo \in 1..Len(s), NEW hi \in 1..Len(s), Len(s) \in Nat,
           s[lo] \notin Space, s[hi] \notin Space,
           \A i \in 1..Len(s) : i < lo \/ hi < i => s[i] \in Space
    PROVE  trim(s) = SubSeq(s, lo, hi)
<1> DEFINE ink == {i \in 1..Len(s) : s[i] \notin Space}
<1>1. lo \in ink /\ hi \in ink /\ ink # {}
  OBVIOUS
<1>2. \A i \in ink : i \in Nat /\ lo <= i /\ i <= hi
  OBVIOUS
<1>3. lo \in Nat /\ hi \in Nat
  OBVIOUS
<1>4. trim(s) = SubSeq(s, Min(ink), Max(ink))
  BY <1>1 DEF trim
<1> HIDE DEF ink
<1>5. Min(ink) = lo
  <2>1. \A x \in ink : (\A y \in ink : x <= y) => x = lo
    BY <1>1, <1>2, <1>3
  <2>2. \A y \in ink : lo <= y
    BY <1>2
  <2> QED BY <1>1, <2>1, <2>2 DEF Min
<1>6. Max(ink) = hi
  <2>1. \A x \in ink : (\A y \in ink : x >= y) => x = hi
    BY <1>1, <1>2, <1>3
  <2>2. \A y \in ink : hi >= y
    BY <1>2, <1>3
  <2> QED BY <1>1, <2>1, <2>2 DEF Max
<1> QED BY <1>4, <1>5, <1>6

(* A text that starts and ends in something.                               *)
Inked(f) ==
    /\ f \in Seq(Char) /\ Len(f) > 0 /\ f[1] \notin Space
    /\ f[Len(f)] \notin Space

(* trim leaves it alone.                                                   *)
LEMMA InkedStays ==
    ASSUME NEW f, Inked(f)
    PROVE  trim(f) = f
<1>1. /\ f \in Seq(Char) /\ Len(f) \in Nat /\ Len(f) > 0
      /\ f[1] \notin Space /\ f[Len(f)] \notin Space
  BY LenProperties DEF Inked
<1>2. 1 \in 1..Len(f) /\ Len(f) \in 1..Len(f)
  BY <1>1
<1>3. \A i \in 1..Len(f) : i < 1 \/ Len(f) < i => f[i] \in Space
  BY <1>1
<1>4. trim(f) = SubSeq(f, 1, Len(f))
  BY <1>1, <1>2, <1>3, Trimmed
<1> QED BY <1>1, <1>4, PrefixGrows

(* trim takes what is around it off.                                       *)
LEMMA InkedBetween ==
    ASSUME NEW f, Inked(f), NEW h \in Char, NEW l \in Char, h \in Space,
           l \in Space
    PROVE  trim(<<h>> \o f \o <<l>>) = f
<1>1. /\ f \in Seq(Char) /\ Len(f) \in Nat /\ Len(f) > 0
      /\ f[1] \notin Space /\ f[Len(f)] \notin Space
  BY LenProperties DEF Inked
<1>2. PICK e : e = <<h>> \o f \o <<l>>
  OBVIOUS
<1>3. /\ Len(e) = Len(f) + 2 /\ e[1] = h /\ e[Len(f) + 2] = l
      /\ \A i \in 1..Len(f) : e[i + 1] = f[i]
      /\ SubSeq(e, 2, Len(f) + 1) = f
  <2>1. Wraps(Char, e, h, f, l)
    BY <1>1, <1>2, Wrapped, Zenon
  <2> QED BY <2>1, Zenon DEF Wraps
<1>4. 2 \in 1..Len(e) /\ Len(f) + 1 \in 1..Len(e) /\ Len(e) \in Nat
  BY <1>1, <1>3
<1>5. e[2] \notin Space /\ e[Len(f) + 1] \notin Space
  <2>1. 1 \in 1..Len(f) /\ Len(f) \in 1..Len(f) /\ 1 + 1 = 2
    BY <1>1
  <2>2. e[1 + 1] = f[1] /\ e[Len(f) + 1] = f[Len(f)]
    BY <1>3, <2>1, Zenon
  <2> QED BY <1>1, <2>1, <2>2
<1>6. \A i \in 1..Len(e) : i < 2 \/ Len(f) + 1 < i => e[i] \in Space
  <2> TAKE i \in 1..Len(e)
  <2>1. i < 2 \/ Len(f) + 1 < i => i = 1 \/ i = Len(f) + 2
    BY <1>1, <1>3
  <2> QED BY <2>1, <1>3
<1>7. trim(e) = SubSeq(e, 2, Len(f) + 1)
  BY <1>4, <1>5, <1>6, Trimmed
<1> QED BY <1>2, <1>3, <1>7

(* A field, and what is read of it.                                        *)
ReadAs(f, r) == Inked(f) /\ NoHole(f, "\t") /\ unescape_field(f) = r

(* Space is none of those that a field starts or ends with.                *)
LEMMA InkFacts ==
    /\ \A c \in Plain : c \notin Space
    /\ "\"" \notin Space /\ "-" \notin Space /\ "NULL" \notin Space
    /\ "true" \notin Space /\ "false" \notin Space /\ "\t" \in Space
    /\ " " \in Space
BY PlainFacts DEF Space

(* A field of one word.                                                    *)
LEMMA WordRead ==
    ASSUME NEW c \in Char, c \notin Space
    PROVE  ReadAs(<<c>>, IF c = "NULL" THEN Null ELSE Some(<<c>>))
<1>1. PICK f : f = <<c>>
  OBVIOUS
<1>2. f \in Seq(Char) /\ Len(f) = 1 /\ f[1] = c
  BY <1>1
<1>3. Inked(f)
  BY <1>2 DEF Inked
<1>4. NoHole(f, "\t")
  <2>1. c # "\t"
    BY InkFacts
  <2>2. \A i \in 1..1 : i = 1
    OBVIOUS
  <2> QED BY <1>2, <2>1, <2>2, Zenon DEF NoHole
<1>5. f = <<"NULL">> <=> c = "NULL"
  BY <1>1, <1>2
<1>6. ~(Len(f) >= 2)
  BY <1>2
<1>7. unescape_field(f) = IF c = "NULL" THEN Null ELSE Some(f)
  BY <1>5, <1>6, Zenon DEF unescape_field
<1> QED BY <1>1, <1>3, <1>4, <1>7, Zenon DEF ReadAs

(* No quote.                                                               *)
Bare(c) == c \notin {"'", "\""}

(* A field with a sign.                                                    *)
LEMMA SignedRead ==
    ASSUME NEW c \in Char, c \notin Space, NEW d \in Char, d \notin Space,
           Bare(c)
    PROVE  ReadAs(<<c, d>>, Some(<<c, d>>))
<1>1. PICK f : f = <<c, d>>
  OBVIOUS
<1>2. f \in Seq(Char) /\ Len(f) = 2 /\ f[1] = c /\ f[2] = d
  <2>1. IsPair(Char, c, d, <<c, d>>)
    BY Pairs, Zenon
  <2> QED BY <2>1, <1>1, Zenon DEF IsPair
<1>3. Inked(f)
  BY <1>2 DEF Inked
<1>4. NoHole(f, "\t")
  <2>1. c # "\t" /\ d # "\t"
    BY InkFacts
  <2>2. \A i \in 1..2 : i = 1 \/ i = 2
    OBVIOUS
  <2> QED BY <1>2, <2>1, <2>2, Zenon DEF NoHole
<1>5. f # <<"NULL">>
  BY <1>2
<1>6. f[1] \notin {"'", "\""}
  BY <1>2, Zenon DEF Bare
<1>7. unescape_field(f) = Some(f)
  BY <1>5, <1>6, Zenon DEF unescape_field
<1> QED BY <1>1, <1>3, <1>4, <1>7, Zenon DEF ReadAs

(* A string.                                                               *)
LEMMA StringRead ==
    ASSUME NEW x \in Seq(Char)
    PROVE  ReadAs(<<"\"">> \o Escape(x) \o <<"\"">>, Some(x))
<1>1. PICK e, h, t, f : /\ e = Escape(x) /\ h = "\"" /\ t = "\t"
                        /\ f = <<h>> \o e \o <<h>>
  OBVIOUS
<1>2. e \in Seq(Char) /\ NoHole(e, t) /\ unescape(e) = x
  BY <1>1, EscapeHasNoTab, UnescapeEscape, Zenon
<1>3. h \in Char /\ h \notin Space /\ h # t /\ h \in {"'", "\""}
  <2>1. "\"" # "\t"
    OBVIOUS
  <2> QED BY <1>1, <2>1, Named, InkFacts, Zenon
<1>4. /\ f \in Seq(Char) /\ Len(e) \in Nat /\ Len(f) = Len(e) + 2
      /\ f[1] = h /\ f[Len(e) + 2] = h
      /\ \A i \in 1..Len(e) : f[i + 1] = e[i]
      /\ SubSeq(f, 2, Len(e) + 1) = e
  <2>1. Wraps(Char, f, h, e, h)
    BY <1>1, <1>2, <1>3, Wrapped, Zenon
  <2> QED BY <2>1, Zenon DEF Wraps
<1>5. Inked(f)
  <2>1. Len(f) > 0
    BY <1>4
  <2> QED BY <2>1, <1>3, <1>4 DEF Inked
<1>6. NoHole(f, t)
  <2> SUFFICES ASSUME NEW i \in 1..Len(f) PROVE f[i] # t
    BY Zenon DEF NoHole
  <2>1. i = 1 \/ i = Len(e) + 2 \/ \E j \in 1..Len(e) : i = j + 1
    <3>1. i # 1 /\ i # Len(e) + 2 => i - 1 \in 1..Len(e) /\ i = (i - 1) + 1
      BY <1>4
    <3> QED BY <3>1
  <2>2. \A j \in 1..Len(e) : e[j] # t
    BY <1>2 DEF NoHole
  <2> QED BY <2>1, <2>2, <1>3, <1>4
<1>7. f # <<"NULL">>
  <2>1. Len(f) # 1
    BY <1>4
  <2> QED BY <2>1
<1>8. Len(f) >= 2 /\ f[Len(f)] = f[1] /\ f[1] \in {"'", "\""}
  <2>1. Len(f) >= 2 /\ f[Len(f)] = f[1]
    BY <1>4
  <2> QED BY <2>1, <1>3, <1>4, Zenon
<1>9. SubSeq(f, 2, Len(f) - 1) = e
  <2>1. Len(f) - 1 = Len(e) + 1
    BY <1>4
  <2> QED BY <2>1, <1>4
<1>10. unescape_field(f) = Some(x)
  BY <1>2, <1>7, <1>8, <1>9, Zenon DEF unescape_field
<1> QED BY <1>1, <1>5, <1>6, <1>10, Zenon DEF ReadAs

(* The field of a value, and what it should be read as.                    *)
Expectation(v) == IF v.type = "None" THEN Null ELSE Some(v.text)

(* It is read as that.                                                     *)
LEMMA FieldsRead ==
    ASSUME NEW v \in Bindable
    PROVE  ReadAs(Field(v), Expectation(v))
<1>1. CASE v.type = "None" /\ v.text = <<>>
  <2>1. Field(v) = <<"NULL">> /\ Expectation(v) = Null
    BY <1>1 DEF Field, Expectation
  <2>2. "NULL" \in Char /\ "NULL" \notin Space
    BY Named, InkFacts, Zenon
  <2>3. ReadAs(<<"NULL">>, IF "NULL" = "NULL" THEN Null ELSE Some(<<"NULL">>))
    BY <2>2, WordRead, Zenon
  <2> QED BY <2>1, <2>3, Zenon
<1>2. CASE v.type = "String" /\ v.text \in Seq(Char)
  <2>1. PICK x \in Seq(Char) : x = v.text
    BY <1>2
  <2>2. Field(v) = <<"\"">> \o Escape(x) \o <<"\"">> /\ Expectation(v) = Some(x)
    BY <1>2, <2>1 DEF Field, Expectation
  <2> QED BY <2>2, StringRead, Zenon
<1>3. CASE v.type = "bool" /\ v.text \in {<<"true">>, <<"false">>}
  <2>1. PICK c : c \in {"true", "false"} /\ v.text = <<c>>
    BY <1>3
  <2>2. Field(v) = <<c>> /\ Expectation(v) = Some(<<c>>)
    BY <1>3, <2>1 DEF Field, Expectation
  <2>3. c \in Char /\ c \notin Space /\ c # "NULL"
    <3>1. /\ "true" \in Char /\ "false" \in Char /\ "true" \notin Space
          /\ "false" \notin Space
      BY Named, InkFacts, Zenon
    <3> QED BY <2>1, <3>1
  <2>4. ReadAs(<<c>>, IF c = "NULL" THEN Null ELSE Some(<<c>>))
    BY <2>3, WordRead, Zenon
  <2> QED BY <2>2, <2>3, <2>4, Zenon
<1>4. CASE v.type \notin {"None", "String"} /\ \E c \in Plain : v.text = <<c>>
  <2>1. PICK c \in Plain : v.text = <<c>>
    BY <1>4
  <2>2. Field(v) = <<c>> /\ Expectation(v) = Some(<<c>>)
    BY <1>4, <2>1 DEF Field, Expectation
  <2>3. c \in Char /\ c \notin Space /\ c # "NULL"
    BY PlainFacts, InkFacts, Zenon
  <2>4. ReadAs(<<c>>, IF c = "NULL" THEN Null ELSE Some(<<c>>))
    BY <2>3, WordRead, Zenon
  <2> QED BY <2>2, <2>3, <2>4, Zenon
<1>5. CASE v.type \notin {"None", "String"} /\
             \E c \in Plain : v.text = <<"-", c>>
  <2>1. PICK d, c : d = "-" /\ c \in Plain /\ v.text = <<d, c>>
    BY <1>5
  <2>2. Field(v) = <<d, c>> /\ Expectation(v) = Some(<<d, c>>)
    BY <1>5, <2>1 DEF Field, Expectation
  <2>3. c \in Char /\ c \notin Space
    BY <2>1, PlainFacts, InkFacts, Zenon
  <2>4. d \in Char /\ d \notin Space /\ Bare(d)
    <3>1. "-" # "'" /\ "-" # "\""
      OBVIOUS
    <3> QED BY <2>1, <3>1, Named, InkFacts, Zenon DEF Bare
  <2>5. ReadAs(<<d, c>>, Some(<<d, c>>))
    BY <2>3, <2>4, SignedRead, Zenon
  <2> QED BY <2>2, <2>5, Zenon
<1>6. \/ v.type = "None" /\ v.text = <<>>
      \/ v.type = "String" /\ v.text \in Seq(Char)
      \/ v.type = "bool" /\ v.text \in {<<"true">>, <<"false">>}
      \/ v.type \notin {"None", "String"} /\ \E c \in Plain : v.text = <<c>>
      \/ /\ v.type \notin {"None", "String"}
         /\ \E c \in Plain : v.text = <<"-", c>>
  <2>1. "None" \notin TemporalTypes /\ "String" \notin TemporalTypes
    BY DEF TemporalTypes
  <2>2. /\ "None" \notin IntTypes \cup FloatTypes \cup {"Decimal"}
        /\ "String" \notin IntTypes \cup FloatTypes \cup {"Decimal"}
    BY DEF IntTypes, FloatTypes
  <2> QED BY <2>1, <2>2, BindableCases
<1> QED BY <1>1, <1>2, <1>3, <1>4, <1>5, <1>6

-----------------------------------------------------------------------------
(* split.                                                                  *)

SplitStates == [done : Seq(Seq(Char)), last : Seq(Char)]
SplitStart == Divided(<<>>, <<>>)
SplitReader == [p \in SplitStates \X Char |-> SplitStep(p[1], p[2])]

(* The state that split ends in.                                           *)
Splitting(s) ==
    LET part[n \in 0..Len(s)] == IF n = 0 THEN Divided(<<>>, <<>>)
                                 ELSE SplitStep(part[n - 1], s[n])
    IN  part[Len(s)]

(* What split makes of it.                                                 *)
LEMMA SplitState ==
    ASSUME NEW s
    PROVE  split(s) = Append(Splitting(s).done, Splitting(s).last)
BY Zenon DEF split, Splitting

(* What a character does.                                                  *)
SplitMove(d, l, c) ==
    \/ /\ l # <<>> /\ c = "\t" /\ Last(l) = ","
       /\ SplitStep(Divided(d, l), c) = Divided(Append(d, Front(l)), <<>>)
    \/ /\ ~(l # <<>> /\ c = "\t" /\ Last(l) = ",")
       /\ SplitStep(Divided(d, l), c) = Divided(d, Append(l, c))

(* This is what it does.                                                   *)
LEMMA SplitStepCases ==
    ASSUME NEW d, NEW l, NEW c
    PROVE  SplitMove(d, l, c)
BY DividedParts, Zenon DEF SplitStep, SplitMove

(* The splitting is a reader.                                              *)
LEMMA SplittingIsReader ==
    /\ Automaton(SplitStates, Char, SplitStart, SplitReader)
    /\ \A st \in SplitStates, c \in Char :
         SplitReader[<<st, c>>] = SplitStep(st, c)
<1>1. \A d \in Seq(Seq(Char)), l \in Seq(Char) : Divided(d, l) \in SplitStates
  BY DEF Divided, SplitStates
<1>2. SplitStart \in SplitStates
  <2>1. <<>> \in Seq(Seq(Char)) /\ <<>> \in Seq(Char)
    OBVIOUS
  <2> QED BY <1>1, <2>1 DEF SplitStart
<1>3. ASSUME NEW st \in SplitStates, NEW c \in Char
      PROVE  SplitStep(st, c) \in SplitStates
  <2>1. PICK d \in Seq(Seq(Char)), l \in Seq(Char) : st = Divided(d, l)
    BY DEF Divided, SplitStates
  <2>2. l # <<>> => Front(l) \in Seq(Char)
    BY DEF Front
  <2>3. <<>> \in Seq(Char) /\ Append(l, c) \in Seq(Char)
    OBVIOUS
  <2>4. l # <<>> => Append(d, Front(l)) \in Seq(Seq(Char))
    BY <2>2, AppendProperties
  <2>5. /\ Divided(d, Append(l, c)) \in SplitStates
        /\ l # <<>> => Divided(Append(d, Front(l)), <<>>) \in SplitStates
    BY <1>1, <2>3, <2>4
  <2>6. SplitMove(d, l, c)
    BY SplitStepCases, Zenon
  <2> QED BY <2>1, <2>5, <2>6, Zenon DEF SplitMove
<1>4. SplitReader \in [SplitStates \X Char -> SplitStates]
  <2>1. \A p \in SplitStates \X Char : SplitStep(p[1], p[2]) \in SplitStates
    BY <1>3
  <2> QED BY <2>1 DEF SplitReader
<1>5. ASSUME NEW st \in SplitStates, NEW c \in Char
      PROVE  SplitReader[<<st, c>>] = SplitStep(st, c)
  BY DEF SplitReader
<1> QED BY <1>2, <1>4, <1>5 DEF Automaton

(* What Splitting computes on the way.                                     *)
LEMMA SplittingReads ==
    ASSUME NEW s \in Seq(Char)
    PROVE  \E r : /\ RunsAs(r, SplitStates, SplitStart, SplitReader, s, Len(s))
                  /\ Splitting(s) = r[Len(s)]
<1> DEFINE D(f) == [n \in 0..Len(s) |->
                      IF n = 0 THEN Divided(<<>>, <<>>)
                      ELSE SplitStep(f[n - 1], s[n])]
           part == CHOOSE f : f = D(f)
<1>1. Len(s) \in Nat /\ \A i \in 1..Len(s) : s[i] \in Char
  BY LenProperties, ElementOfSeq
<1>2. PICK g \in [0..Len(s) -> SplitStates] :
             Reads(g, SplitStart, SplitReader, s)
  BY SplittingIsReader, ReadsExist, Zenon
<1>3. g = D(g)
  <2>1. \A n \in 1..Len(s) : g[n] = SplitStep(g[n - 1], s[n])
    <3> TAKE n \in 1..Len(s)
    <3>1. n - 1 \in 0..Len(s) /\ s[n] \in Char
      BY <1>1
    <3>2. PICK a, c : a = g[n - 1] /\ c = s[n]
      OBVIOUS
    <3>3. a \in SplitStates /\ c \in Char
      BY <3>1, <3>2
    <3>4. SplitReader[<<a, c>>] = SplitStep(a, c)
      BY <3>3, SplittingIsReader, Zenon
    <3> QED BY <3>2, <3>4, <1>2, Zenon DEF Reads
  <2>2. g[0] = Divided(<<>>, <<>>)
    BY <1>2, Zenon DEF Reads, SplitStart
  <2>3. \A n \in 0..Len(s) : g[n] = D(g)[n]
    <3> TAKE n \in 0..Len(s)
    <3>1. CASE n = 0
      BY <3>1, <2>2
    <3>2. CASE n # 0
      <4>1. n \in 1..Len(s)
        BY <3>2, <1>1
      <4> QED BY <4>1, <3>2, <2>1
    <3> QED BY <3>1, <3>2
  <2> QED BY <2>3
<1>4. part = D(part)
  BY <1>3, Zenon
<1>5. RunsAs(part, SplitStates, SplitStart, SplitReader, s, Len(s))
  <2> HIDE DEF part
  <2>1. \A n \in 0..Len(s) : part[n] =
          IF n = 0 THEN Divided(<<>>, <<>>) ELSE SplitStep(part[n - 1], s[n])
    BY <1>4, Zenon
  <2>2. part[0] = SplitStart
    <3>1. 0 \in 0..Len(s)
      BY <1>1
    <3> QED BY <2>1, <3>1, Zenon DEF SplitStart
  <2>3. ASSUME NEW n \in 1..Len(s), part[n - 1] \in SplitStates
        PROVE  part[n] = SplitReader[<<part[n - 1], s[n]>>]
    <3>1. n \in 0..Len(s) /\ n # 0 /\ s[n] \in Char
      BY <1>1
    <3>2. SplitReader[<<part[n - 1], s[n]>>] = SplitStep(part[n - 1], s[n])
      BY <3>1, <2>3, SplittingIsReader, Zenon
    <3> QED BY <3>1, <3>2, <2>1, Zenon
  <2> QED BY <2>2, <2>3 DEF RunsAs
<1>6. Splitting(s) = part[Len(s)]
  BY Zenon DEF Splitting
<1> QED BY <1>5, <1>6, Zenon

(* It goes element by element.                                             *)
LEMMA SplittingLaws ==
    /\ Splitting(<<>>) = SplitStart
    /\ \A s \in Seq(Char) : Splitting(s) \in SplitStates
    /\ \A s \in Seq(Char), c \in Char :
         Splitting(Append(s, c)) = SplitStep(Splitting(s), c)
<1>1. Splitting(<<>>) = SplitStart
  <2>1. <<>> \in Seq(Char) /\ Len(<<>>) = 0
    OBVIOUS
  <2>2. PICK r : /\ RunsAs(r, SplitStates, SplitStart, SplitReader, <<>>,
                      Len(<<>>))
                 /\ Splitting(<<>>) = r[Len(<<>>)]
    BY <2>1, SplittingReads, Zenon
  <2> QED BY <2>1, <2>2 DEF RunsAs
<1>2. ASSUME NEW s \in Seq(Char), NEW c \in Char
      PROVE  Splitting(s) \in SplitStates /\
               Splitting(Append(s, c)) = SplitStep(Splitting(s), c)
  <2>1. Append(s, c) \in Seq(Char) /\ Len(Append(s, c)) = Len(s) + 1
    BY AppendProperties
  <2>2. PICK r : /\ RunsAs(r, SplitStates, SplitStart, SplitReader, s, Len(s))
                 /\ Splitting(s) = r[Len(s)]
    BY SplittingReads, Zenon
  <2>3. PICK q : /\ RunsAs(q, SplitStates, SplitStart, SplitReader,
                      Append(s, c), Len(Append(s, c)))
                 /\ Splitting(Append(s, c)) = q[Len(Append(s, c))]
    BY <2>1, SplittingReads, Zenon
  <2>4. StepsOn(r, q, SplitStates, SplitReader, s, c)
    BY <2>1, <2>2, <2>3, SplittingIsReader, RunsAppend, Zenon
  <2>5. /\ SplitReader[<<Splitting(s), c>>] = SplitStep(Splitting(s), c)
        /\ Splitting(s) \in SplitStates
    BY <2>2, <2>4, SplittingIsReader, Zenon DEF StepsOn
  <2> QED BY <2>2, <2>3, <2>4, <2>5, Zenon DEF StepsOn
<1>3. "t" \in Char
  BY Named, Zenon
<1> QED BY <1>1, <1>2, <1>3

(* A text without a tab joins the part that has begun.                     *)
Growing(s, d, l, w) == Splitting(s \o w) = Divided(d, l \o w)

(* All of such a text does.                                                *)
LEMMA SplittingKeeps ==
    ASSUME NEW s \in Seq(Char), NEW d, NEW l \in Seq(Char),
           Splitting(s) = Divided(d, l), NEW w \in Seq(Char), NoHole(w, "\t")
    PROVE  Growing(s, d, l, w)
<1>0. PICK tab : tab = "\t"
  OBVIOUS
<1> DEFINE S == {v \in Seq(Char) :
                   NoHole(v, tab) => Splitting(s \o v) = Divided(d, l \o v)}
<1>1. <<>> \in S
  <2>1. <<>> \in Seq(Char) /\ s \o <<>> = s /\ l \o <<>> = l
    OBVIOUS
  <2> QED BY <2>1
<1>2. ASSUME NEW v \in Seq(Char), NEW c \in Char, v \in S
      PROVE  Append(v, c) \in S
  <2>1. /\ Append(v, c) \in Seq(Char) /\ Len(v) \in Nat
        /\ Len(Append(v, c)) = Len(v) + 1
        /\ \A i \in 1..Len(v) : Append(v, c)[i] = v[i]
        /\ Append(v, c)[Len(v) + 1] = c
    BY Grown
  <2>2. ASSUME NoHole(Append(v, c), tab)
        PROVE  Splitting(s \o Append(v, c)) = Divided(d, l \o Append(v, c))
    <3>1. NoHole(v, tab) /\ c # tab
      <4>1. \A i \in 1..(Len(v) + 1) : Append(v, c)[i] # tab
        BY <2>1, <2>2 DEF NoHole
      <4>2. \A i \in 1..Len(v) : i \in 1..(Len(v) + 1)
        BY <2>1
      <4>3. Len(v) + 1 \in 1..(Len(v) + 1)
        BY <2>1
      <4>4. c # tab
        BY <2>1, <4>1, <4>3, Zenon
      <4>5. \A i \in 1..Len(v) : v[i] # tab
        BY <2>1, <4>1, <4>2, Zenon
      <4> QED BY <4>4, <4>5 DEF NoHole
    <3>2. Splitting(s \o v) = Divided(d, l \o v)
      BY <1>2, <3>1
    <3>3. PICK e, f : e = s \o v /\ f = l \o v
      OBVIOUS
    <3>4. e \in Seq(Char)
      BY <3>3
    <3>5. s \o Append(v, c) = Append(e, c) /\ l \o Append(v, c) = Append(f, c)
      <4>1. s \o Append(v, c) = Append(s \o v, c)
        BY ConcatAppend
      <4>2. l \o Append(v, c) = Append(l \o v, c)
        BY ConcatAppend
      <4> QED BY <3>3, <4>1, <4>2, Zenon
    <3>6. Splitting(Append(e, c)) = SplitStep(Divided(d, f), c)
      BY <3>2, <3>3, <3>4, SplittingLaws, Zenon
    <3>7. SplitStep(Divided(d, f), c) = Divided(d, Append(f, c))
      <4>1. SplitMove(d, f, c)
        BY SplitStepCases, Zenon
      <4> QED BY <1>0, <4>1, <3>1, Zenon DEF SplitMove
    <3> QED BY <3>5, <3>6, <3>7, Zenon
  <2> QED BY <2>1, <2>2
<1>3. \A v \in Seq(Char) : v \in S
  <2> HIDE DEF S
  <2> QED BY <1>1, <1>2, SequenceInduction
<1>4. w \in S
  BY <1>3
<1> QED BY <1>0, <1>4 DEF Growing

(* A comma and a tab end it.                                               *)
LEMMA SplittingEnds ==
    ASSUME NEW s \in Seq(Char), NEW d, NEW f \in Seq(Char),
           Splitting(s) = Divided(d, f)
    PROVE  /\ s \o <<",", "\t">> \in Seq(Char)
           /\ Splitting(s \o <<",", "\t">>) = Divided(Append(d, f), <<>>)
<1>1. PICK com, tab : com = "," /\ tab = "\t"
  OBVIOUS
<1>2. com \in Char /\ tab \in Char /\ com # tab
  <2>1. "," # "\t"
    OBVIOUS
  <2> QED BY <1>1, <2>1, Named, Zenon
<1>3. Two(Char, s, com, tab)
  BY <1>2, ConcatTwo, Zenon
<1>4. PICK e, g : e = Append(s, com) /\ g = Append(f, com)
  OBVIOUS
<1>5. /\ e \in Seq(Char) /\ g \in Seq(Char) /\ Len(g) = Len(f) + 1
      /\ g # <<>> /\ Last(g) = com /\ Front(g) = f
  <2>1. /\ e \in Seq(Char) /\ g \in Seq(Char) /\ Len(f) \in Nat
        /\ Len(g) = Len(f) + 1 /\ g[Len(f) + 1] = com
        /\ \A i \in 1..Len(f) : g[i] = f[i]
    BY <1>2, <1>4, Grown
  <2>2. SubSeq(g, 1, Len(g) - 1) = f
    <3>1. g = Append(f, com) /\ Len(g) - 1 = Len(f)
      BY <1>4, <2>1
    <3>2. SubSeq(Append(f, com), 1, Len(f)) = f
      BY <1>2, AppendProperties
    <3> QED BY <3>1, <3>2
  <2>3. Last(g) = com
    BY <2>1 DEF Last
  <2>4. Front(g) = f
    BY <2>2 DEF Front
  <2>5. g # <<>>
    BY <2>1
  <2> QED BY <2>1, <2>3, <2>4, <2>5
<1>6. Splitting(e) = Divided(d, g)
  <2>1. Splitting(Append(s, com)) = SplitStep(Divided(d, f), com)
    BY <1>2, SplittingLaws, Zenon
  <2>2. SplitMove(d, f, com)
    BY SplitStepCases, Zenon
  <2> QED BY <1>1, <1>2, <1>4, <2>1, <2>2, Zenon DEF SplitMove
<1>7. Splitting(Append(e, tab)) = Divided(Append(d, f), <<>>)
  <2>1. Splitting(Append(e, tab)) = SplitStep(Divided(d, g), tab)
    BY <1>2, <1>5, <1>6, SplittingLaws, Zenon
  <2>2. SplitMove(d, g, tab)
    BY SplitStepCases, Zenon
  <2> QED BY <1>1, <1>5, <2>1, <2>2, Zenon DEF SplitMove
<1>8. s \o <<com, tab>> = Append(e, tab) /\ Append(e, tab) \in Seq(Char)
  BY <1>2, <1>3, <1>4, <1>5, AppendProperties, Zenon DEF Two
<1> QED BY <1>1, <1>7, <1>8, Zenon

-----------------------------------------------------------------------------
(* The tuple line.                                                         *)

(* A field that trim and split leave in one piece.                         *)
InOnePiece(f) == Inked(f) /\ NoHole(f, "\t")

(* Two texts behind a third, grouped either way.                           *)
Regroup(T, s, t, u) == s \o (t \o u) = (s \o t) \o u /\ s \o t \in Seq(T)

(* The groups do not matter.                                               *)
LEMMA Regrouping ==
    ASSUME NEW T, NEW s \in Seq(T), NEW t \in Seq(T), NEW u \in Seq(T)
    PROVE  Regroup(T, s, t, u)
<1>1. s \o (t \o u) = (s \o t) \o u
  OBVIOUS
<1>2. s \o t \in Seq(T)
  OBVIOUS
<1> QED BY <1>1, <1>2, Zenon DEF Regroup

(* A text that begins with something.                                      *)
Starts(f) == f \in Seq(Char) /\ Len(f) > 0 /\ f[1] \notin Space

(* So does what begins with it.                                            *)
LEMMA StartsStay ==
    ASSUME NEW f, Starts(f), NEW g \in Seq(Char)
    PROVE  Starts(f \o g)
<1>1. f \in Seq(Char) /\ Len(f) \in Nat /\ Len(f) > 0 /\ f[1] \notin Space
  BY LenProperties DEF Starts
<1>2. /\ f \o g \in Seq(Char) /\ Len(f \o g) = Len(f) + Len(g)
      /\ \A i \in 1..(Len(f) + Len(g)) :
           (f \o g)[i] = IF i <= Len(f) THEN f[i] ELSE g[i - Len(f)]
  BY <1>1, ConcatProperties
<1>3. Len(g) \in Nat
  BY LenProperties
<1>4. 1 \in 1..(Len(f) + Len(g)) /\ 1 <= Len(f) /\ Len(f) + Len(g) > 0
  BY <1>1, <1>3
<1> QED BY <1>1, <1>2, <1>4 DEF Starts

(* The last text decides how a concatenation ends.                         *)
LEMMA InkedEnds ==
    ASSUME NEW e \in Seq(Char), e = <<>> \/ Starts(e), NEW f, Inked(f)
    PROVE  Inked(e \o f)
<1>1. /\ f \in Seq(Char) /\ Len(f) \in Nat /\ Len(f) > 0
      /\ f[1] \notin Space /\ f[Len(f)] \notin Space
  BY LenProperties DEF Inked
<1>2. CASE e = <<>>
  <2>1. e \o f = f
    BY <1>1, <1>2
  <2> QED BY <2>1
<1>3. CASE Starts(e)
  <2>1. Starts(e \o f)
    BY <1>1, <1>3, StartsStay
  <2>2. /\ e \o f \in Seq(Char) /\ Len(e \o f) = Len(e) + Len(f)
        /\ \A i \in 1..(Len(e) + Len(f)) :
             (e \o f)[i] = IF i <= Len(e) THEN e[i] ELSE f[i - Len(e)]
    BY <1>1, ConcatProperties
  <2>3. Len(e) \in Nat
    BY LenProperties
  <2>4. /\ Len(e) + Len(f) \in 1..(Len(e) + Len(f))
        /\ ~(Len(e) + Len(f) <= Len(e))
        /\ (Len(e) + Len(f)) - Len(e) = Len(f)
    BY <1>1, <2>3
  <2>5. (e \o f)[Len(e \o f)] = f[Len(f)]
    BY <2>2, <2>4
  <2> QED BY <1>1, <2>1, <2>5 DEF Starts, Inked
<1> QED BY <1>2, <1>3

(* A field with its separator, and fields with theirs.                     *)
Comma == <<",", "\t">>
Parted == [f \in Seq(Char) |-> f \o Comma]

(* Both are texts.                                                         *)
LEMMA PartedType ==
    Comma \in Seq(Char) /\ Parted \in [Seq(Char) -> Seq(Char)]
<1>1. "," \in Char /\ "\t" \in Char
  BY Named, Zenon
<1>2. Comma \in Seq(Char)
  <2>1. IsPair(Char, ",", "\t", <<",", "\t">>)
    BY <1>1, Pairs, Zenon
  <2> QED BY <2>1, Zenon DEF IsPair, Comma
<1>3. \A f \in Seq(Char) : f \o Comma \in Seq(Char)
  BY <1>2, ConcatProperties
<1> QED BY <1>2, <1>3 DEF Parted

Begun(p, j) ==
    /\ j \in Seq(Char) /\ Splitting(j) = Divided(p, <<>>)
    /\ (j = <<>> \/ Starts(j))

(* split undoes the separators.                                            *)
LEMMA FieldsSplit ==
    ASSUME NEW p \in Seq(Seq(Char)), \A i \in 1..Len(p) : InOnePiece(p[i])
    PROVE  Begun(p, Joined(Parted, p))
<1> DEFINE Good(q) == \A i \in 1..Len(q) : InOnePiece(q[i])
           S == {q \in Seq(Seq(Char)) : Good(q) => Begun(q, Joined(Parted, q))}
<1>1. <<>> \in S
  <2>1. <<>> \in Seq(Seq(Char)) /\ <<>> \in Seq(Char)
    OBVIOUS
  <2>2. JoinLaw(Parted, <<>>, <<>>, Char)
    BY <2>1, PartedType, JoinedAppend, Zenon
  <2>3. Joined(Parted, <<>>) = <<>>
    BY <2>2, Zenon DEF JoinLaw
  <2>4. Splitting(<<>>) = Divided(<<>>, <<>>)
    BY SplittingLaws, Zenon DEF SplitStart
  <2>5. Begun(<<>>, Joined(Parted, <<>>))
    BY <2>1, <2>3, <2>4, Zenon DEF Begun
  <2> QED BY <2>1, <2>5
<1>2. ASSUME NEW q \in Seq(Seq(Char)), NEW f \in Seq(Char), q \in S
      PROVE  Append(q, f) \in S
  <2>1. /\ Append(q, f) \in Seq(Seq(Char)) /\ Len(q) \in Nat
        /\ Len(Append(q, f)) = Len(q) + 1
        /\ \A i \in 1..Len(q) : Append(q, f)[i] = q[i]
        /\ Append(q, f)[Len(q) + 1] = f
    BY Grown
  <2>2. ASSUME Good(Append(q, f))
        PROVE  Begun(Append(q, f), Joined(Parted, Append(q, f)))
    <3>1. Good(q) /\ InOnePiece(f)
      <4>1. \A i \in 1..(Len(q) + 1) : InOnePiece(Append(q, f)[i])
        BY <2>1, <2>2
      <4>2. \A i \in 1..Len(q) : i \in 1..(Len(q) + 1)
        BY <2>1
      <4>3. Len(q) + 1 \in 1..(Len(q) + 1)
        BY <2>1
      <4>4. InOnePiece(f)
        BY <2>1, <4>1, <4>3, Zenon
      <4>5. \A i \in 1..Len(q) : InOnePiece(q[i])
        BY <2>1, <4>1, <4>2, Zenon
      <4> QED BY <4>4, <4>5
    <3>2. PICK j, g, e : /\ j = Joined(Parted, q) /\ g = Comma /\ e = j \o f
      OBVIOUS
    <3>3. /\ j \in Seq(Char) /\ Splitting(j) = Divided(q, <<>>)
          /\ j = <<>> \/ Starts(j)
      BY <1>2, <3>1, <3>2 DEF Begun
    <3>4. Joined(Parted, Append(q, f)) = j \o (f \o g)
      <4>1. JoinLaw(Parted, q, f, Char)
        BY PartedType, JoinedAppend, Zenon
      <4>2. Parted[f] = f \o g
        BY <3>2 DEF Parted
      <4> QED BY <3>2, <4>1, <4>2, Zenon DEF JoinLaw
    <3>5. g \in Seq(Char)
      BY <3>2, PartedType, Zenon
    <3>6. j \o (f \o g) = e \o g /\ e \in Seq(Char)
      <4>1. Regroup(Char, j, f, g)
        BY <3>3, <3>5, Regrouping, Zenon
      <4> QED BY <3>2, <4>1, Zenon DEF Regroup
    <3>7. Splitting(e) = Divided(q, f)
      <4>1. NoHole(f, "\t") /\ <<>> \in Seq(Char)
        BY <3>1 DEF InOnePiece
      <4>2. Growing(j, q, <<>>, f)
        BY <3>3, <4>1, SplittingKeeps, Zenon
      <4>3. <<>> \o f = f
        OBVIOUS
      <4> QED BY <3>2, <4>2, <4>3, Zenon DEF Growing
    <3>8. /\ e \o g \in Seq(Char)
          /\ Splitting(e \o g) = Divided(Append(q, f), <<>>)
      BY <3>2, <3>6, <3>7, SplittingEnds, Zenon DEF Comma
    <3>9. Starts(e \o g)
      <4>1. Inked(e)
        BY <3>1, <3>2, <3>3, InkedEnds, Zenon DEF InOnePiece
      <4>2. Starts(e)
        BY <4>1 DEF Inked, Starts
      <4> QED BY <4>2, <3>5, StartsStay, Zenon
    <3> QED BY <3>4, <3>6, <3>8, <3>9, Zenon DEF Begun
  <2> QED BY <2>1, <2>2
<1>3. \A q \in Seq(Seq(Char)) : q \in S
  <2> HIDE DEF S
  <2> QED BY <1>1, <1>2, SequenceInduction
<1>4. p \in S
  BY <1>3
<1> QED BY <1>4

(* The fields of a line, and how they are joined.                          *)
Line(fs) ==
    FlattenSeq([i \in 1..Len(fs) |->
                  fs[i] \o (IF i < Len(fs) THEN Comma ELSE <<>>)])

(* The last field has no separator.                                        *)
LEMMA LineJoins ==
    ASSUME NEW p \in Seq(Seq(Char)), NEW f \in Seq(Char)
    PROVE  Line(Append(p, f)) = Joined(Parted, p) \o f
<1>1. PICK fs, n : fs = Append(p, f) /\ n = Len(p)
  OBVIOUS
<1>2. /\ n \in Nat /\ Len(fs) = n + 1 /\ fs[n + 1] = f
      /\ \A i \in 1..n : fs[i] = p[i]
  <2>1. /\ Len(p) \in Nat /\ Len(Append(p, f)) = Len(p) + 1
        /\ Append(p, f)[Len(p) + 1] = f
        /\ \A i \in 1..Len(p) : Append(p, f)[i] = p[i]
    BY Grown
  <2> QED BY <2>1, <1>1, Zenon
<1>3. \A i \in 1..n : p[i] \in Seq(Char)
  BY <1>1, ElementOfSeq
<1>4. PICK ps, ls : /\ ps = [i \in 1..n |-> Parted[p[i]]]
                    /\ ls = [i \in 1..(n + 1) |->
                               fs[i] \o (IF i < n + 1 THEN Comma ELSE <<>>)]
  OBVIOUS
<1>5. ps \in Seq(Seq(Char)) /\ Len(ps) = n
  <2>1. \A i \in 1..n : Parted[p[i]] \in Seq(Char)
    BY <1>3, PartedType
  <2> QED BY <2>1, <1>2, <1>4
<1>6. ls = Append(ps, f)
  <2>1. PICK e : e = Append(ps, f)
    OBVIOUS
  <2>2. /\ e \in Seq(Seq(Char)) /\ Len(e) = n + 1 /\ e[n + 1] = f
        /\ \A i \in 1..n : e[i] = ps[i]
    <3>1. /\ Append(ps, f) \in Seq(Seq(Char))
          /\ Len(Append(ps, f)) = Len(ps) + 1
          /\ Append(ps, f)[Len(ps) + 1] = f
          /\ \A i \in 1..Len(ps) : Append(ps, f)[i] = ps[i]
      BY <1>5, Grown
    <3> QED BY <3>1, <2>1, <1>5
  <2>3. \A i \in 1..n : ls[i] = e[i]
    <3> TAKE i \in 1..n
    <3>1. i \in 1..(n + 1) /\ i < n + 1
      BY <1>2
    <3>2. ls[i] = p[i] \o Comma
      BY <3>1, <1>2, <1>4
    <3>3. ps[i] = p[i] \o Comma
      BY <1>3, <1>4 DEF Parted
    <3> QED BY <3>2, <3>3, <2>2
  <2>4. ls[n + 1] = e[n + 1]
    <3>1. n + 1 \in 1..(n + 1) /\ ~(n + 1 < n + 1)
      BY <1>2
    <3>2. ls[n + 1] = f \o <<>>
      BY <3>1, <1>2, <1>4
    <3>3. f \o <<>> = f
      OBVIOUS
    <3> QED BY <3>2, <3>3, <2>2
  <2>5. \A i \in 1..(n + 1) : i \in 1..n \/ i = n + 1
    <3>1. n \in Nat
      BY <1>2
    <3> QED BY <3>1
  <2>6. \A i \in 1..(n + 1) : ls[i] = e[i]
    BY <2>3, <2>4, <2>5
  <2>7. e = [i \in 1..(n + 1) |-> e[i]]
    BY <2>2
  <2> QED BY <2>1, <2>6, <2>7, <1>4
<1>7. FlattenSeq(Append(ps, f)) = FlattenSeq(ps) \o f
  BY <1>5, FlattenAppend
<1>8. Line(fs) = FlattenSeq(ls)
  BY <1>2, <1>4, Zenon DEF Line
<1>9. Joined(Parted, p) = FlattenSeq(ps)
  BY <1>1, <1>4, Zenon DEF Joined
<1> QED BY <1>1, <1>6, <1>7, <1>8, <1>9, Zenon

(* A line is split into its fields.                                        *)
LEMMA LineSplits ==
    ASSUME NEW fs \in Seq(Seq(Char)), Len(fs) > 0,
           \A i \in 1..Len(fs) : InOnePiece(fs[i])
    PROVE  Inked(Line(fs)) /\ split(Line(fs)) = fs
<1>1. PICK n : n = Len(fs) - 1
  OBVIOUS
<1>2. n \in Nat /\ n + 1 = Len(fs)
  BY <1>1, LenProperties
<1>3. PICK p, f : p = SubSeq(fs, 1, n) /\ f = fs[n + 1]
  OBVIOUS
<1>4. /\ p \in Seq(Seq(Char)) /\ Len(p) = n
      /\ f \in Seq(Char) /\ fs = Append(p, f)
  <2>1. n \in 0..Len(fs) /\ n \in 0..(Len(fs) - 1) /\ n + 1 \in 1..Len(fs)
    BY <1>2
  <2>2. SubSeq(fs, 1, n + 1) = Append(SubSeq(fs, 1, n), fs[n + 1])
    BY <2>1, PrefixGrows, Zenon
  <2>3. SubSeq(fs, 1, n + 1) = fs
    BY <1>2, PrefixGrows, Zenon
  <2>4. SubSeq(fs, 1, n) \in Seq(Seq(Char)) /\ Len(SubSeq(fs, 1, n)) = n
    BY <2>1, PrefixGrows, Zenon
  <2>5. fs[n + 1] \in Seq(Char)
    BY <2>1, ElementOfSeq
  <2> QED BY <1>3, <2>2, <2>3, <2>4, <2>5, Zenon
<1>5. InOnePiece(f) /\ \A i \in 1..Len(p) : InOnePiece(p[i])
  <2>1. n + 1 \in 1..Len(fs)
    BY <1>2
  <2>2. \A i \in 1..n : i \in 1..Len(fs)
    BY <1>2
  <2>3. \A i \in 1..Len(p) : Append(p, f)[i] = p[i]
    BY <1>4, Grown
  <2> QED BY <1>3, <1>4, <2>1, <2>2, <2>3, Zenon
<1>6. PICK j : j = Joined(Parted, p)
  OBVIOUS
<1>7. /\ j \in Seq(Char) /\ Splitting(j) = Divided(p, <<>>)
      /\ (j = <<>> \/ Starts(j))
  <2>1. Begun(p, j)
    BY <1>4, <1>5, <1>6, FieldsSplit, Zenon
  <2> QED BY <2>1 DEF Begun
<1>8. Line(fs) = j \o f
  BY <1>4, <1>6, LineJoins, Zenon
<1>9. Inked(j \o f)
  BY <1>5, <1>7, InkedEnds, Zenon DEF InOnePiece
<1>10. Splitting(j \o f) = Divided(p, f)
  <2>1. NoHole(f, "\t") /\ <<>> \in Seq(Char)
    BY <1>5 DEF InOnePiece
  <2>2. Growing(j, p, <<>>, f)
    BY <1>4, <1>7, <2>1, SplittingKeeps, Zenon
  <2>3. <<>> \o f = f
    BY <1>4
  <2> QED BY <2>2, <2>3, Zenon DEF Growing
<1>11. split(j \o f) = Append(p, f)
  <2>1. PICK e : e = j \o f
    OBVIOUS
  <2>2. Splitting(e).done = p /\ Splitting(e).last = f
    <3>1. Splitting(e) = Divided(p, f)
      BY <1>10, <2>1, Zenon
    <3>2. Divided(p, f).done = p /\ Divided(p, f).last = f
      BY DividedParts, Zenon
    <3> QED BY <3>1, <3>2, Zenon
  <2>3. split(e) = Append(Splitting(e).done, Splitting(e).last)
    BY SplitState, Zenon
  <2> QED BY <2>1, <2>2, <2>3, Zenon
<1> QED BY <1>4, <1>8, <1>9, <1>11, Zenon

(* The frame of a line comes off.                                          *)
LEMMA FrameTrimmed ==
    ASSUME NEW m, Inked(m)
    PROVE  trim(Front(<<" ">> \o m \o <<"\t", "]">>)) = m
<1>1. PICK sp, tab, br : sp = " " /\ tab = "\t" /\ br = "]"
  OBVIOUS
<1>2. /\ sp \in Char /\ tab \in Char /\ br \in Char
      /\ sp \in Space /\ tab \in Space
  BY <1>1, Named, InkFacts, Zenon
<1>3. m \in Seq(Char)
  BY DEF Inked
<1>4. PICK d : d = <<sp>> \o m
  OBVIOUS
<1>5. d \in Seq(Char)
  BY <1>2, <1>3, <1>4
<1>6. PICK e : e = Append(d, tab)
  OBVIOUS
<1>7. e \in Seq(Char)
  BY <1>2, <1>5, <1>6
<1>8. d \o <<tab, br>> = Append(e, br)
  <2>1. Two(Char, d, tab, br)
    BY <1>2, <1>5, ConcatTwo, Zenon
  <2> QED BY <2>1, <1>6, Zenon DEF Two
<1>9. Front(Append(e, br)) = e
  <2>1. Len(Append(e, br)) - 1 = Len(e)
    BY <1>2, <1>7, AppendProperties, LenProperties
  <2>2. SubSeq(Append(e, br), 1, Len(e)) = e
    BY <1>2, <1>7, AppendProperties
  <2> QED BY <2>1, <2>2 DEF Front
<1>10. e = d \o <<tab>>
  <2>1. One(Char, d, tab)
    BY <1>2, <1>5, ConcatOne, Zenon
  <2> QED BY <2>1, <1>6, Zenon DEF One
<1>11. trim(<<sp>> \o m \o <<tab>>) = m
  BY <1>2, InkedBetween, Zenon
<1> QED BY <1>1, <1>4, <1>8, <1>9, <1>10, <1>11, Zenon

(* What is read of the line of some values.                                *)
LineIs(n, it, r) ==
    parse_tuple_fields(TupleLine(it)) = [i \in 1..n |-> r[i]]

(* It is what each field is read as.                                       *)
LEMMA LineRead ==
    ASSUME NEW n \in Nat \ {0}, NEW it, NEW r, Len(it) = n,
           \A i \in 1..n : ReadAs(Field(it[i]), r[i])
    PROVE  LineIs(n, it, r)
<1>1. PICK fs : fs = [i \in 1..n |-> Field(it[i])]
  OBVIOUS
<1>2. \A i \in 1..n : InOnePiece(Field(it[i]))
  BY Zenon DEF ReadAs, InOnePiece
<1>3. /\ fs \in Seq(Seq(Char)) /\ Len(fs) = n
      /\ \A i \in 1..n : fs[i] = Field(it[i])
  <2>1. \A i \in 1..n : Field(it[i]) \in Seq(Char)
    BY <1>2 DEF InOnePiece, Inked
  <2> QED BY <1>1, <2>1
<1>4. PICK m : m = Line(fs)
  OBVIOUS
<1>5. Inked(m) /\ split(m) = fs
  <2>1. Len(fs) > 0 /\ \A i \in 1..Len(fs) : InOnePiece(fs[i])
    BY <1>2, <1>3
  <2> QED BY <1>3, <1>4, <2>1, LineSplits, Zenon
<1>6. TupleLine(it) = <<" ">> \o m \o <<"\t", "]">>
  <2>1. [i \in 1..n |-> Field(it[i]) \o (IF i < n THEN Comma ELSE <<>>)] =
          [i \in 1..n |-> fs[i] \o (IF i < n THEN Comma ELSE <<>>)]
    BY <1>3, Zenon
  <2>2. m = FlattenSeq([i \in 1..n |->
                          Field(it[i]) \o (IF i < n THEN Comma ELSE <<>>)])
    BY <1>3, <1>4, <2>1, Zenon DEF Line
  <2> QED BY <2>2, Zenon DEF TupleLine, Comma
<1>7. trim(Front(TupleLine(it))) = m
  BY <1>5, <1>6, FrameTrimmed, Zenon
<1>8. m # <<>>
  BY <1>5 DEF Inked
<1>9. parse_tuple_fields(TupleLine(it)) =
        [i \in 1..Len(fs) |-> unescape_field(trim(fs[i]))]
  BY <1>5, <1>7, <1>8, Zenon DEF parse_tuple_fields
<1>10. ASSUME NEW i \in 1..n PROVE unescape_field(trim(fs[i])) = r[i]
  <2>1. Inked(fs[i]) /\ unescape_field(fs[i]) = r[i]
    BY <1>3, Zenon DEF ReadAs
  <2>2. trim(fs[i]) = fs[i]
    BY <2>1, InkedStays, Zenon
  <2> QED BY <2>1, <2>2, Zenon
<1> QED BY <1>3, <1>9, <1>10, Zenon DEF LineIs

(* What is read of a query of placeholders.                                *)
LEMMA RowRead ==
    ASSUME BindingInv, phase = "read", ~raw, Separate(sql, literals),
           Echo(sql)
    PROVE  row = [k \in 1..Len(bound) |-> Expectation(bound[k])]
<1>1. phase \in {"sent", "answered", "read"} /\ phase \in {"answered", "read"}
  OBVIOUS
<1>2. PICK b, t, f, n : /\ b = bound /\ t = Template(sql).tokens /\ n = Len(b)
                        /\ f = Fill(t, Mark, Tokenized(b))
  OBVIOUS
<1>3. /\ sql \in Seq(Char) /\ b \in Seq(Bindable) /\ n = Holes(t, Mark)
      /\ Lex(Tail(request)) = Lexed(f, "code", <<>>)
  BY <1>1, <1>2, SentText, Zenon
<1>4. PICK w : w = Word(";")
  OBVIOUS
<1>5. PICK s \in Seq(Tok) : /\ t = Append(s, w)
                            /\ Listed(s) /\ Len(s) % 2 = 0 /\ Len(s) > 0
  BY <1>2, <1>3, <1>4, EchoList, Zenon
<1>6. Neutral(w)
  BY <1>4, EndIsNeutral, Zenon
<1>7. n \in Nat \ {0} /\ Items(f) = [k \in 1..n |-> Item(TokensOf(b[k]))]
  <2>1. Len(b) = Holes(Append(s, w), Mark)
    BY <1>2, <1>3, <1>5, Zenon
  <2>2. Echoes(s, w, b)
    BY <1>3, <1>5, <1>6, <2>1, EchoedItems, Zenon
  <2> QED BY <1>2, <1>5, <2>2, Zenon DEF Echoes
<1>8. PICK it, r : it = Items(f) /\ r = [k \in 1..n |-> Expectation(b[k])]
  OBVIOUS
<1>9. reply = TupleLine(it)
  <2>1. Lexed(f, "code", <<>>).tokens = f
    BY DEF Lexed
  <2>2. reply = TupleLine(Items(Lex(Tail(request)).tokens))
    BY <1>1, Zenon DEF BindingInv
  <2> QED BY <1>3, <1>8, <2>1, <2>2, Zenon
<1>10. row = parse_tuple_fields(TupleLine(it))
  BY <1>9, Zenon DEF BindingInv
<1>11. ASSUME NEW k \in 1..n
       PROVE  ReadAs(Field(it[k]), r[k])
  <2>1. PICK v : v = b[k]
    OBVIOUS
  <2>2. v \in Bindable
    BY <1>2, <1>3, <2>1, ElementOfSeq
  <2>3. it[k] = Item(TokensOf(v)) /\ r[k] = Expectation(v)
    BY <1>7, <1>8, <2>1
  <2>4. Field(Item(TokensOf(v))) = Field(v)
    BY <2>2, ValuesShow, Zenon DEF Shows
  <2>5. ReadAs(Field(v), Expectation(v))
    BY <2>2, FieldsRead, Zenon
  <2> QED BY <2>3, <2>4, <2>5, Zenon
<1>12. Len(it) = n
  <2>1. it = [k \in 1..n |-> Item(TokensOf(b[k]))] /\ n \in Nat
    BY <1>7, <1>8
  <2> QED BY <2>1
<1>13. parse_tuple_fields(TupleLine(it)) = [k \in 1..n |-> r[k]]
  <2>1. LineIs(n, it, r)
    BY <1>7, <1>11, <1>12, LineRead, Zenon
  <2> QED BY <2>1, Zenon DEF LineIs
<1>14. [k \in 1..n |-> r[k]] = [k \in 1..n |-> Expectation(b[k])]
  BY <1>8
<1> QED BY <1>2, <1>10, <1>13, <1>14, Zenon

(* The invariant RoundTrip of the run "binding", for all queries and       *)
(* values: the row has the values' texts, and a NULL for a None            *)
(* (encode_string_literal, parse_tuple_fields, unescape_field).            *)
THEOREM ValuesRoundTrip == Spec => []RoundTrip
<1>1. BindingInv => RoundTrip
  BY RowRead, Zenon DEF RoundTrip, Expectation
<1> QED BY <1>1, BindingInductive, PTL

(* What decode makes of the text of a value.                               *)
Wanted(T, v) == IF T \in IntTypes THEN Number(v.text) ELSE v.text
Decodes(T, v) ==
    \/ decode(T, v.text) = Value(Wanted(T, v))
    \/ decode(T, v.text) = Error /\ v.type # T

(* No type is of two kinds.                                                *)
LEMMA KindsOfTypes ==
    /\ IntTypes \cap (FloatTypes \cup TemporalTypes) = {}
    /\ FloatTypes \cap TemporalTypes = {}
    /\ {"bool", "Decimal", "String", "None"}
         \cap (IntTypes \cup FloatTypes \cup TemporalTypes) = {}
BY DEF IntTypes, FloatTypes, TemporalTypes

(* It decodes any bound value as any type like that.                       *)
LEMMA ValuesDecode ==
    ASSUME NEW k \in 1..Len(Values), NEW v \in Values[k], v \in Bindable,
           NEW T \in Types
    PROVE  Decodes(T, v)
<1>1. PICK t : t = v.text
  OBVIOUS
<1>2. ASSUME NEW S, v.type \in S PROVE Written(S, t)
  <2>1. DOMAIN Values = 1..Len(Values)
    BY QueryAssumption, LenProperties
  <2>2. Values[k] \in Range(Values)
    BY <2>1 DEF Range
  <2>3. v \in UNION Range(Values)
    BY <2>2
  <2> QED BY <1>1, <1>2, <2>3, Zenon DEF Written
<1>3. CASE T \in IntTypes
  <2>1. decode(T, t) = decode_int(T, t)
    BY <1>3, KindsOfTypes DEF decode
  <2>2. v.type = T => IsNumber(t) /\ Fits(T, Number(t))
    <3>1. DOMAIN Values = 1..Len(Values)
      BY QueryAssumption, LenProperties
    <3> QED BY <3>1, <1>1, <1>3, QueryAssumption, Zenon
  <2>3. Wanted(T, v) = Number(t)
    BY <1>1, <1>3, Zenon DEF Wanted
  <2>4. \/ decode_int(T, t) = Value(Number(t))
        \/ decode_int(T, t) = Error /\ ~(IsNumber(t) /\ Fits(T, Number(t)))
    BY Zenon DEF decode_int
  <2> QED BY <1>1, <2>1, <2>2, <2>3, <2>4, Zenon DEF Decodes
<1>4. ASSUME T \notin IntTypes PROVE Wanted(T, v) = t
  BY <1>1, <1>4, Zenon DEF Wanted
<1>5. \/ decode_float(t) = Value(t)
      \/ decode_float(t) = Error /\ ~Written({"f32", "f64", "Decimal"}, t)
  BY Zenon DEF decode_float
<1>6. CASE T \in FloatTypes
  <2>1. decode(T, t) = decode_float(t) /\ T \notin IntTypes
    BY <1>6, KindsOfTypes DEF decode
  <2>2. v.type = T => v.type \in {"f32", "f64", "Decimal"}
    BY <1>6 DEF FloatTypes
  <2> QED BY <1>1, <1>2, <1>4, <1>5, <2>1, <2>2, Zenon DEF Decodes
<1>7. CASE T = "Decimal"
  <2>1. decode(T, t) = decode_float(t) /\ T \notin IntTypes
    BY <1>7, KindsOfTypes DEF decode, decode_decimal
  <2>2. v.type = T => v.type \in {"f32", "f64", "Decimal"}
    BY <1>7
  <2> QED BY <1>1, <1>2, <1>4, <1>5, <2>1, <2>2, Zenon DEF Decodes
<1>8. CASE T = "bool"
  <2>1. decode(T, t) = decode_bool(t) /\ T \notin IntTypes
    BY <1>8, KindsOfTypes DEF decode
  <2>2. v.type = T => t \in {<<"true">>, <<"false">>}
    <3>1. v.type = T => v.type = "bool"
      BY <1>8
    <3>2. v.type = "bool" => v.text \in {<<"true">>, <<"false">>}
      BY KindsOfTypes DEF Bindable
    <3> QED BY <1>1, <3>1, <3>2, Zenon
  <2>3. \/ decode_bool(t) = Value(t)
        \/ decode_bool(t) = Error /\ t \notin {<<"true">>, <<"false">>}
    BY Zenon DEF decode_bool
  <2> QED BY <1>1, <1>4, <2>1, <2>2, <2>3, Zenon DEF Decodes
<1>9. CASE T \in TemporalTypes
  <2>1. decode(T, t) = decode_temporal(T, t) /\ T \notin IntTypes
    BY <1>9, KindsOfTypes DEF decode
  <2>2. \/ decode_temporal(T, t) = Value(t)
        \/ decode_temporal(T, t) = Error /\ ~Written({T}, t)
    BY Zenon DEF decode_temporal
  <2>3. v.type = T => v.type \in {T}
    OBVIOUS
  <2> QED BY <1>1, <1>2, <1>4, <2>1, <2>2, <2>3, Zenon DEF Decodes
<1>10. CASE T = "String"
  <2>1. decode(T, t) = decode_string(t) /\ T \notin IntTypes
    BY <1>10, KindsOfTypes DEF decode
  <2> QED BY <1>1, <1>4, <2>1, Zenon DEF Decodes, decode_string
<1> QED BY <1>3, <1>6, <1>7, <1>8, <1>9, <1>10 DEF Types

(* The invariant ReadsBack of the run "binding", for all queries and       *)
(* values: what try_get returns is the value that was bound, and the type  *)
(* it was bound as is never refused (decode_int, decode_temporal, ...).    *)
THEOREM ValuesReadBack == Spec => []ReadsBack
<1>1. BindingInv => ReadsBack
  <2> SUFFICES ASSUME BindingInv, phase = "read", ~raw,
                      Separate(sql, literals), Echo(sql),
                      NEW k \in 1..Len(bound), NEW T \in Types,
                      NEW name \in TypeNames
               PROVE  LET got == try_get(T, name, row[k])
                          v == bound[k]
                      IN  /\ got.ok => /\ v.type # "None"
                                       /\ got.value = IF T \in IntTypes
                                                      THEN Number(v.text)
                                                      ELSE v.text
                          /\ v.type = T /\ compatible_with_names(name, T) =>
                               got.ok
    BY Zenon DEF ReadsBack
  <2>1. PICK v, x : v = bound[k] /\ x = row[k]
    OBVIOUS
  <2>2. x = Expectation(v)
    <3>1. row = [j \in 1..Len(bound) |-> Expectation(bound[j])]
      BY RowRead, Zenon
    <3> QED BY <2>1, <3>1
  <2>3. v \in Values[k] /\ v \in Bindable /\ k \in 1..Len(Values)
    <3>1. v \in Values[k]
      BY <2>1, Zenon DEF BindingInv
    <3>2. bound \in Seq(Bindable) /\ Len(bound) <= Len(Values)
      BY Zenon DEF BindingInv
    <3>3. v \in Bindable
      BY <2>1, <3>2, ElementOfSeq
    <3>4. Len(bound) \in Nat /\ Len(Values) \in Nat
      BY <3>2, QueryAssumption, LenProperties
    <3>5. k \in 1..Len(Values)
      BY <3>2, <3>4
    <3> QED BY <3>1, <3>3, <3>5
  <2>4. Decodes(T, v)
    BY <2>3, ValuesDecode, Zenon
  <2>5. Error.ok = FALSE /\ \A y : Value(y).ok = TRUE /\ Value(y).value = y
    BY DEF Error, Value
  <2>6. PICK got : got = try_get(T, name, x)
    OBVIOUS
  <2>7. CASE v.type = "None"
    <3>1. x.null = TRUE
      BY <2>2, <2>7 DEF Expectation, Null
    <3>2. got = Error
      BY <2>6, <3>1, Zenon DEF try_get
    <3>3. T # "None"
      BY KindsOfTypes DEF Types
    <3> QED BY <2>1, <2>5, <2>6, <2>7, <3>2, <3>3, Zenon
  <2>8. CASE v.type # "None"
    <3>1. x.null = FALSE /\ x.text = v.text
      BY <2>2, <2>8 DEF Expectation, Some
    <3>2. \/ got = Error /\ ~compatible_with_names(name, T)
          \/ got = decode(T, v.text)
      BY <2>6, <3>1, Zenon DEF try_get
    <3>3. \/ got = Value(Wanted(T, v))
          \/ got = Error /\ ~(v.type = T /\ compatible_with_names(name, T))
      BY <2>4, <3>2, Zenon DEF Decodes
    <3>4. CASE got = Value(Wanted(T, v))
      <4>1. got.ok = TRUE /\ got.value = Wanted(T, v)
        BY <2>5, <3>4, Zenon
      <4> QED BY <2>1, <2>6, <2>8, <4>1, Zenon DEF Wanted
    <3>5. CASE got = Error /\ ~(v.type = T /\ compatible_with_names(name, T))
      <4>1. got.ok = FALSE
        BY <2>5, <3>5, Zenon
      <4> QED BY <2>1, <2>6, <3>5, <4>1, Zenon
    <3> QED BY <3>3, <3>4, <3>5, Zenon
  <2> QED BY <2>7, <2>8, Zenon
<1> QED BY <1>1, BindingInductive, PTL
=============================================================================
