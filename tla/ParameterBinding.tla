-------------------------- MODULE ParameterBinding --------------------------
(***************************************************************************)
(* A bound query, from .bind() to the values read back (arguments.rs,      *)
(* types/, value.rs, protocol/response.rs).                                *)
(*                                                                         *)
(* MAPI has no parameters: every value is turned into SQL text when it is  *)
(* bound, put in the place of a `?` when the query runs, read by the       *)
(* server's lexer, sent back as text in a tuple line, split, unescaped and *)
(* decoded.  A text is a sequence of characters; a keyword, a numeral or a *)
(* date is one character, which a string may contain as well.  The server  *)
(* is external: it reads string literals as standard SQL has them (a       *)
(* quote is doubled, nothing else is special) and returns the values it    *)
(* read, strings between double quotes with C escapes.                     *)
(***************************************************************************)
EXTENDS Integers, FiniteSets, SequencesExt

CONSTANTS
    Char,      \* what texts are made of
    Queries,   \* SQL texts of queries
    Values,    \* bound: Values[k] is the set of values for the k-th .bind()
    Numeral    \* the integers that numerals stand for

VARIABLES
    phase,    \* "binding", "sent", "answered", "read" or "failed"
    raw,      \* no arguments at all: raw_sql() or a plain &str
    sql,      \* the query's text
    bound,    \* the values bound so far
    literals, \* MonetArguments.literals
    request,  \* the message sent to the server
    reply,    \* the tuple line it answers with, without its '['
    row       \* the fields of the row

vars == <<phase, raw, sql, bound, literals, request, reply, row>>

-----------------------------------------------------------------------------
(* What can be bound.                                                      *)

IntTypes == {"i8", "i16", "i32", "i64"}
FloatTypes == {"f32", "f64"}
TemporalTypes == {"NaiveDate", "NaiveTime", "NaiveDateTime"}
Types == IntTypes \cup FloatTypes \cup TemporalTypes
           \cup {"bool", "Decimal", "String"}

(* The characters that one of the steps gives a meaning to, and the others *)
(* that a numeral, a fraction or a date can be.                            *)
Marked == {"'", "\"", "\\", "?", "-", "\n", "\t", ",", ";", "]", " ",
           "NULL", "SELECT"}
Plain == Char \ Marked
Unsigned == {<<c>> : c \in Plain}
Signed == Unsigned \cup {<<"-", c>> : c \in Plain}

(* Number of a text that str::parse accepts for an integer.                *)
IsNumber(t) == \/ Len(t) = 1 /\ t[1] \in DOMAIN Numeral
               \/ Len(t) = 2 /\ t[1] = "-" /\ t[2] \in DOMAIN Numeral
Number(t) == IF Len(t) = 1 THEN Numeral[t[1]] ELSE -Numeral[t[2]]

(* What the model's numerals can exceed; i32 and i64 hold all of them.     *)
Fits(T, n) == /\ T = "i8" => n \in -128..127
              /\ T = "i16" => n \in -32768..32767

Bindable ==
    [type : {"None"}, text : {<<>>}]
      \cup [type : {"String"}, text : Seq(Char)]
      \cup [type : {"bool"}, text : {<<"true">>, <<"false">>}]
      \cup [type : IntTypes \cup FloatTypes \cup {"Decimal"}, text : Signed]
      \cup [type : TemporalTypes, text : Unsigned]

ASSUME CharAssumption ==
    Marked \cup {"n", "t", "s", "true", "false", "DATE", "TIME", "TIMESTAMP"}
      \subseteq Char

ASSUME NumeralAssumption ==
    /\ Numeral \in [DOMAIN Numeral -> 0..2147483647]
    /\ DOMAIN Numeral \subseteq Plain

ASSUME QueryAssumption ==
    /\ Queries \subseteq Seq(Char)
    /\ Values \in Seq(SUBSET Bindable)
    /\ \A k \in DOMAIN Values : \A v \in Values[k] :
         v.type \in IntTypes => IsNumber(v.text) /\ Fits(v.type, Number(v.text))

-----------------------------------------------------------------------------
(* Encode.                                                                 *)

Keyword == [T \in TemporalTypes |->
              CASE T = "NaiveDate" -> "DATE" [] T = "NaiveTime" -> "TIME"
                [] T = "NaiveDateTime" -> "TIMESTAMP"]

(* Every chunk between quotes is followed by two, the last one cut off.    *)
encode_string_literal(s) ==
    <<"'">> \o FlattenSeq([i \in 1..Len(s) |->
                              IF s[i] = "'" THEN <<"'", "'">> ELSE <<s[i]>>])
            \o <<"'">>

(* Encode::encode_by_ref of each type; a number and a bool are the text    *)
(* that to_string() writes.                                                *)
encode_temporal(v) == <<Keyword[v.type], " ", "'">> \o v.text \o <<"'">>

encode(v) == IF v.type = "String" THEN encode_string_literal(v.text)
             ELSE IF v.type \in TemporalTypes THEN encode_temporal(v)
             ELSE v.text

(* MonetArguments::add; None is IsNull::Yes.                               *)
add(v) == IF v.type = "None" THEN <<"NULL">> ELSE encode(v)

(* How often x occurs among the first i elements of s.                     *)
Count(s, x, i) == Cardinality({j \in 1..i : s[j] = x})

(* s with the k-th hole replaced by the k-th part.                         *)
Fill(s, hole, parts) ==
    FlattenSeq([i \in 1..Len(s) |->
        IF s[i] = hole THEN parts[Count(s, hole, i)] ELSE <<s[i]>>])

(* Mutant: replace the first `?` of the text once for every literal.       *)
substitute_into_again(ls, s) ==
    FoldLeft(LAMBDA out, l :
               LET i == SelectInSeq(out, LAMBDA c : c = "?")
               IN  SubSeq(out, 1, i - 1) \o l \o SubSeq(out, i + 1, Len(out)),
             s, ls)

(* MonetArguments::substitute_into, the counts having been compared: one   *)
(* pass over the parts between the placeholders.                           *)
substitute_into(ls, s) == Fill(s, "?", ls)

encode_query(text) == <<"s">> \o text \o <<"\n", ";">>

-----------------------------------------------------------------------------
(* The server: its lexer, and the tuple line it answers with.              *)

Token(k, t) == [kind |-> k, text |-> t]

(* In "str" the lexer is inside a literal, whose text so far is `cur`, in  *)
(* "quote" behind a quote that ends it or is the first of two, in "dash"   *)
(* behind one that may begin a comment.                                    *)
Lexed(tokens, mode, cur) == [tokens |-> tokens, mode |-> mode, cur |-> cur]

InCode(tokens, c) ==
    CASE c = "'" -> Lexed(tokens, "str", <<>>)
      [] c = "-" -> Lexed(tokens, "dash", <<>>)
      [] c \in {" ", "\n"} -> Lexed(tokens, "code", <<>>)
      [] OTHER -> Lexed(Append(tokens, Token("word", <<c>>)), "code", <<>>)

LexStep(st, c) ==
    CASE st.mode = "str" ->
           IF c = "'" THEN Lexed(st.tokens, "quote", st.cur)
           ELSE Lexed(st.tokens, "str", Append(st.cur, c))
      [] st.mode = "quote" ->
           IF c = "'" THEN Lexed(st.tokens, "str", Append(st.cur, c))
           ELSE InCode(Append(st.tokens, Token("str", st.cur)), c)
      [] st.mode = "dash" ->
           IF c = "-" THEN Lexed(st.tokens, "comment", <<>>)
           ELSE InCode(Append(st.tokens, Token("word", <<"-">>)), c)
      [] st.mode = "comment" -> IF c = "\n" THEN InCode(st.tokens, c) ELSE st
      [] st.mode = "code" -> InCode(st.tokens, c)

Lex(text) ==
    LET read[n \in 0..Len(text)] == IF n = 0 THEN Lexed(<<>>, "code", <<>>)
                                    ELSE LexStep(read[n - 1], text[n])
    IN  read[Len(text)]

(* The value of a select item: a literal, with its sign or its keyword.    *)
Item(tokens) ==
    LET texts == [i \in 1..Len(tokens) |-> tokens[i].text]
    IN  IF tokens = <<Token("word", <<"NULL">>)>>
        THEN [type |-> "None", text |-> <<>>]
        ELSE IF Len(tokens) = 1 /\ tokens[1].kind = "str"
        THEN [type |-> "String", text |-> tokens[1].text]
        ELSE IF Len(tokens) = 2 /\ tokens[2].kind = "str"
        THEN [type |-> "temporal", text |-> tokens[2].text]
        ELSE [type |-> "number", text |-> FlattenSeq(texts)]

(* A sequence that is being divided: the parts so far, and what follows    *)
(* the separator found last.                                               *)
Divided(done, last) == [done |-> done, last |-> last]

(* SELECT i1, i2 ;                                                         *)
ItemStep(st, token) ==
    CASE token = Token("word", <<",">>) ->
           Divided(Append(st.done, st.last), <<>>)
      [] token \in {Token("word", <<"SELECT">>), Token("word", <<";">>)} -> st
      [] OTHER -> Divided(st.done, Append(st.last, token))

Items(tokens) ==
    LET part[n \in 0..Len(tokens)] ==
          IF n = 0 THEN Divided(<<>>, <<>>)
          ELSE ItemStep(part[n - 1], tokens[n])
        st == part[Len(tokens)]
        items == Append(st.done, st.last)
    IN  [k \in 1..Len(items) |-> Item(items[k])]

Escaped(c) == CASE c = "\n" -> <<"\\", "n">> [] c = "\t" -> <<"\\", "t">>
                [] c \in {"\\", "\""} -> <<"\\", c>> [] OTHER -> <<c>>

Escape(s) == FlattenSeq([i \in 1..Len(s) |-> Escaped(s[i])])

Field(v) ==
    CASE v.type = "None" -> <<"NULL">>
      [] v.type = "String" -> <<"\"">> \o Escape(v.text) \o <<"\"">>
      [] OTHER -> v.text

(* [ f1,\tf2\t] without its '['.                                           *)
TupleLine(values) ==
    <<" ">> \o FlattenSeq([i \in 1..Len(values) |->
                   Field(values[i])
                     \o (IF i < Len(values) THEN <<",", "\t">> ELSE <<>>)])
            \o <<"\t", "]">>

-----------------------------------------------------------------------------
(* Decode.                                                                 *)

Space == {" ", "\t", "\n"}
trim(s) ==
    LET ink == {i \in 1..Len(s) : s[i] \notin Space}
    IN  IF ink = {} THEN <<>> ELSE SubSeq(s, Min(ink), Max(ink))

Null == [null |-> TRUE, text |-> <<>>]
Some(t) == [null |-> FALSE, text |-> t]

Unescaped(c) == CASE c = "n" -> <<"\n">> [] c = "t" -> <<"\t">>
                  [] c = "r" -> <<"\r">> [] c \in {"\\", "'", "\""} -> <<c>>
                  [] OTHER -> <<"\\", c>>

Unquoted(out, mode) == [out |-> out, mode |-> mode]

UnescapeStep(st, c) ==
    IF st.mode = "escape" THEN Unquoted(st.out \o Unescaped(c), "plain")
    ELSE IF c = "\\" THEN Unquoted(st.out, "escape")
    ELSE Unquoted(Append(st.out, c), "plain")

unescape(s) ==
    LET part[n \in 0..Len(s)] == IF n = 0 THEN Unquoted(<<>>, "plain")
                                 ELSE UnescapeStep(part[n - 1], s[n])
        st == part[Len(s)]
    IN  IF st.mode = "escape" THEN Append(st.out, "\\") ELSE st.out

(* Mutant: the quotes are taken off before the field is compared to NULL.  *)
unescape_field_late(field) ==
    LET n == Len(field)
        quoted == n >= 2 /\ field[1] \in {"'", "\""} /\ field[n] = field[1]
        text == IF quoted THEN unescape(SubSeq(field, 2, n - 1)) ELSE field
    IN  IF text = <<"NULL">> THEN Null ELSE Some(text)

(* A field without the same quote at both ends is taken as it is.          *)
unescape_field(field) ==
    LET n == Len(field)
        quoted == n >= 2 /\ field[1] \in {"'", "\""} /\ field[n] = field[1]
    IN  IF field = <<"NULL">> THEN Null
        ELSE IF quoted THEN Some(unescape(SubSeq(field, 2, n - 1)))
        ELSE Some(field)

(* split(",\t").                                                           *)
SplitStep(st, c) ==
    IF c = "\t" /\ st.last # <<>> /\ Last(st.last) = ","
    THEN Divided(Append(st.done, Front(st.last)), <<>>)
    ELSE Divided(st.done, Append(st.last, c))

split(s) ==
    LET part[n \in 0..Len(s)] == IF n = 0 THEN Divided(<<>>, <<>>)
                                 ELSE SplitStep(part[n - 1], s[n])
        st == part[Len(s)]
    IN  Append(st.done, st.last)

(* parse_tuple_fields; the line's ']' is there.                            *)
parse_tuple_fields(rest) ==
    LET inner == trim(Front(rest))
        fields == split(inner)
    IN  IF inner = <<>> THEN <<>>
        ELSE [i \in 1..Len(fields) |-> unescape_field(trim(fields[i]))]

(* The names of the column types each Rust type is compatible with.        *)
IntNames == [T \in IntTypes |->
    CASE T = "i8" -> {"tinyint"} [] T = "i16" -> {"smallint", "shortint"}
      [] T = "i32" -> {"int", "integer", "mediumint", "serial"}
      [] T = "i64" -> {"bigint", "longint"}]
FloatNames == [T \in FloatTypes |->
    IF T = "f32" THEN {"real", "float"} ELSE {"double"}]
BoolNames == {"boolean"}
DecimalNames == {"decimal", "numeric"}
STRING_TYPE_NAMES == {"char", "varchar", "clob", "str", "url", "json", "xml"}
TemporalNames == [T \in TemporalTypes |->
    CASE T = "NaiveDate" -> {"date"} [] T = "NaiveTime" -> {"time"}
      [] T = "NaiveDateTime" -> {"timestamp"}]

Names == [T \in Types |->
    CASE T \in IntTypes -> IntNames[T] [] T \in FloatTypes -> FloatNames[T]
      [] T = "bool" -> BoolNames [] T = "Decimal" -> DecimalNames
      [] T \in TemporalTypes -> TemporalNames[T]
      [] T = "String" -> STRING_TYPE_NAMES]

TypeNames == UNION Range(Names) \cup {"hugeint", "INT"}

(* The comparison ignores case.                                            *)
compatible_with_names(name, T) ==
    (IF name = "INT" THEN "int" ELSE name) \in Names[T]

Error == [ok |-> FALSE]
Value(x) == [ok |-> TRUE, value |-> x]

(* Mutant: parsed as an i64 and cast to the width asked for.               *)
decode_int_cast(T, t) ==
    IF IsNumber(t)
    THEN Value(IF T = "i8" THEN ((Number(t) + 128) % 256) - 128 ELSE Number(t))
    ELSE Error

decode_int(T, t) ==
    IF IsNumber(t) /\ Fits(T, Number(t)) THEN Value(Number(t)) ELSE Error

(* What str::parse and chrono's parse_from_str accept is external: the     *)
(* texts that values of the type are written as, for a float or a decimal  *)
(* an integer as well.                                                     *)
Written(S, t) == \E v \in UNION Range(Values) : v.type \in S /\ v.text = t

decode_float(t) == IF IsNumber(t) \/ Written({"f32", "f64", "Decimal"}, t)
                   THEN Value(t) ELSE Error
decode_decimal(t) == decode_float(t)
decode_bool(t) == IF t \in {<<"true">>, <<"false">>} THEN Value(t) ELSE Error
decode_temporal(T, t) == IF Written({T}, t) THEN Value(t) ELSE Error
decode_string(t) == Value(t)

decode(T, t) ==
    CASE T \in IntTypes -> decode_int(T, t)
      [] T \in FloatTypes -> decode_float(t)
      [] T = "Decimal" -> decode_decimal(t)
      [] T = "bool" -> decode_bool(t)
      [] T \in TemporalTypes -> decode_temporal(T, t)
      [] T = "String" -> decode_string(t)

(* Row::try_get::<T> on a column of the named type: a mismatch is reported *)
(* for a value, UnexpectedNull for a NULL (MonetValueRef::text).           *)
try_get(T, name, field) ==
    IF field.null \/ ~compatible_with_names(name, T) THEN Error
    ELSE decode(T, field.text)

-----------------------------------------------------------------------------
Init ==
    /\ phase = "binding"
    /\ raw \in BOOLEAN
    /\ sql \in Queries
    /\ bound = <<>> /\ literals = <<>>
    /\ request = <<>> /\ reply = <<>> /\ row = <<>>

(* Query::bind                                                             *)
Bind(v) ==
    /\ phase = "binding" /\ ~raw
    /\ bound' = Append(bound, v)
    /\ literals' = Append(literals, add(v))
    /\ UNCHANGED <<phase, raw, sql, request, reply, row>>

(* run_query up to the write: without arguments the text is sent as it is; *)
(* with them, a wrong count is an Encode error and nothing is sent.        *)
Run ==
    /\ phase = "binding"
    /\ \/ /\ raw
          /\ phase' = "sent" /\ request' = encode_query(sql)
       \/ /\ ~raw /\ Len(literals) = Count(sql, "?", Len(sql))
          /\ phase' = "sent"
          /\ request' = encode_query(substitute_into(literals, sql))
       \/ /\ ~raw /\ Len(literals) # Count(sql, "?", Len(sql))
          /\ phase' = "failed" /\ UNCHANGED request
    /\ UNCHANGED <<raw, sql, bound, literals, reply, row>>

(* The server answers a statement it has seen the end of.                  *)
Serve ==
    /\ phase = "sent"
    /\ LET st == Lex(Tail(request)) IN
         /\ st.mode = "code" /\ Last(st.tokens) = Token("word", <<";">>)
         /\ reply' = TupleLine(Items(st.tokens))
    /\ phase' = "answered"
    /\ UNCHANGED <<raw, sql, bound, literals, request, row>>

Read ==
    /\ phase = "answered"
    /\ row' = parse_tuple_fields(reply)
    /\ phase' = "read"
    /\ UNCHANGED <<raw, sql, bound, literals, request, reply>>

Next == \/ /\ Len(bound) < Len(Values)
           /\ \E v \in Values[Len(bound) + 1] : Bind(v)
        \/ Run \/ Serve \/ Read

Spec == Init /\ [][Next]_vars

-----------------------------------------------------------------------------
(* Properties.                                                             *)

(* A query on its own, as the server would read it.                        *)
Template(q) == Lex(q \o <<"\n", ";">>)
Mark == Token("word", <<"?">>)

(* Every `?` of the query is a token of its own, and stays one with these  *)
(* literals: it is outside strings and comments (the limitation that       *)
(* substitute_into documents), not glued to a quote or to another `?`,     *)
(* where two strings would become one, and no negative number is put       *)
(* directly behind a minus sign, where the two would begin a comment.      *)
Separate(q, ls) ==
    /\ Template(q).mode = "code"
    /\ Count(Template(q).tokens, Mark, Len(Template(q).tokens))
         = Count(q, "?", Len(q))
    /\ \A i \in 1..Len(q) : q[i] = "?" =>
         /\ i > 1 /\ q[i - 1] \notin {"'", "?"}
         /\ q[i - 1] = "-" => ls[Count(q, "?", i)][1] # "-"
         /\ i < Len(q) => q[i + 1] # "'"

TokensOf(v) ==
    CASE v.type = "None" -> <<Token("word", <<"NULL">>)>>
      [] v.type = "String" -> <<Token("str", v.text)>>
      [] v.type \in TemporalTypes ->
           <<Token("word", <<Keyword[v.type]>>), Token("str", v.text)>>
      [] OTHER -> [i \in 1..Len(v.text) |-> Token("word", <<v.text[i]>>)]

(* The server reads the query with the k-th value, and nothing else, at    *)
(* the k-th placeholder, whatever quotes, `?`, comment signs, line ends or *)
(* terminators the strings contain, and with a value for each of them; so  *)
(* it also sees exactly one end of statement, even behind a query that     *)
(* ends in a comment.                                                      *)
ArgumentsArrive ==
    phase = "sent" /\ ~raw /\ Separate(sql, literals) =>
        LET t == Template(sql).tokens
            parts == [k \in 1..Len(bound) |-> TokensOf(bound[k])]
        IN  /\ Count(t, Mark, Len(t)) = Len(bound)
            /\ Lex(Tail(request)) =
                 [Template(sql) EXCEPT !.tokens = Fill(t, Mark, parts)]

(* Whether the query is SELECT and a list of placeholders, nothing else.   *)
Echo(q) ==
    LET t == Template(q).tokens
    IN  /\ t[1] = Token("word", <<"SELECT">>) /\ Len(t) % 2 = 1
        /\ \A i \in 2..(Len(t) - 1) :
             t[i] = IF i % 2 = 0 THEN Mark ELSE Token("word", <<",">>)

(* A row of bound values has as many fields as values and each one is the  *)
(* value, through both encodings: a string with separators, brackets,      *)
(* quotes or escapes in it, the empty string, the string NULL beside a     *)
(* real NULL.                                                              *)
RoundTrip ==
    phase = "read" /\ ~raw /\ Separate(sql, literals) /\ Echo(sql) =>
        row = [k \in 1..Len(bound) |->
                 IF bound[k].type = "None" THEN Null ELSE Some(bound[k].text)]

(* A read that succeeds gives the value that was bound, whatever type is   *)
(* asked for and whatever type the column has, never a truncated or a      *)
(* wrapped one; and a value bound as T reads as T from every column type   *)
(* T claims to accept.                                                     *)
ReadsBack ==
    phase = "read" /\ ~raw /\ Separate(sql, literals) /\ Echo(sql) =>
        \A k \in 1..Len(bound), T \in Types, name \in TypeNames :
            LET got == try_get(T, name, row[k])
                v == bound[k]
            IN  /\ got.ok => /\ v.type # "None"
                             /\ got.value = IF T \in IntTypes
                                            THEN Number(v.text) ELSE v.text
                /\ v.type = T /\ compatible_with_names(name, T) => got.ok
=============================================================================
