------------------------- MODULE MCParameterBinding -------------------------
(***************************************************************************)
(* ParameterBinding for TLC: strings of the characters that mean something *)
(* to one of the steps on the way, up to two in the first argument and up  *)
(* to one in the second, and a value of each of the other types.           *)
(***************************************************************************)
EXTENDS ParameterBinding

MCNumeral == "1" :> 1 @@ "127" :> 127 @@ "128" :> 128

Characters == {"'", "\"", "\\", "?", "-", "\n", "\t", ",", ";", "]", "n",
               " ", "NULL"}

MCChar == Marked \cup {"n", "t", "s", "a", "1", "127", "128", "2.5", "9.99",
                        "2026-07-28", "13:45:30", "true", "false", "DATE",
                        "TIME", "TIMESTAMP"}

Of(T, t) == [type |-> T, text |-> t]

Others ==
    {Of("None", <<>>), Of("bool", <<"true">>), Of("i8", <<"127">>),
     Of("i8", <<"-", "128">>), Of("i16", <<"128">>), Of("i32", <<"1">>),
     Of("f64", <<"2.5">>), Of("Decimal", <<"-", "9.99">>),
     Of("NaiveDate", <<"2026-07-28">>), Of("NaiveTime", <<"13:45:30">>)}

Strings(n) == {Of("String", t) : t \in BoundedSeq(Characters, n)}

MCValues == <<Strings(2) \cup Others, Strings(1) \cup Others>>

MCQueries ==
    { <<"SELECT", " ", "1">>,
      <<"SELECT", " ", "?">>,
      <<"SELECT", " ", "?", ",", "?">>,
      <<"SELECT", " ", "?", ",", " ", "'", "a", "'", " ", "-", "-", "a">>,
      <<"SELECT", " ", "'", "?", "'", ",", "?">>,
      <<"SELECT", " ", "1", "-", "?">>,
      <<"SELECT", " ", "?", "?">>,
      <<"SELECT", " ", "?", ",">>,
      <<"1", " ", "?">> }
=============================================================================
