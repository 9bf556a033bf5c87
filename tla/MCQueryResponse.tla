--------------------------- MODULE MCQueryResponse ---------------------------
(***************************************************************************)
(* QueryResponse for TLC: every kind of line, accepted and rejected, and   *)
(* headers and tuples of one and of two fields.                            *)
(***************************************************************************)
EXTENDS QueryResponse

MCValues == {"", "NULL", "a", "b"}

Plain == [kind |-> "blank", good |-> TRUE, count |-> 0, width |-> 0,
          flag |-> TRUE, identity |-> "table_name", fields |-> <<>>]

Bad(k) == [Plain EXCEPT !.kind = k, !.good = FALSE]
TableOf(n, w) == [Plain EXCEPT !.kind = "table", !.count = n, !.width = w]
Header(id, vs) == [Plain EXCEPT !.kind = "header", !.identity = id, !.fields = vs]
Tuple(vs) == [Plain EXCEPT !.kind = "tuple", !.fields = vs]

Rejected == {Bad(k) : k \in {"table", "update", "transaction", "header", "tuple"}}

TableLines ==
    {TableOf(2, 1), TableOf(1, 2), Header("name", <<"a">>),
     Header("name", <<"b", "a">>), Header("name", <<"a", "a">>),
     Header("type", <<"a", "">>),
     Header("table_name", <<"a">>), Tuple(<<"a">>), Tuple(<<"b", "NULL">>)}

AllLines ==
    TableLines \cup Rejected
      \cup {[Plain EXCEPT !.kind = k] : k \in {"blank", "info", "error", "schema",
                                               "transaction", "other"}}
      \cup {[Plain EXCEPT !.kind = "update", !.count = 3]}
=============================================================================
