---------------------------- MODULE QueryResponse ----------------------------
(***************************************************************************)
(* From the text of one server message to what the caller sees:            *)
(* parse_response (protocol/response.rs), run_query and fetch_optional     *)
(* (connection.rs), MonetRow (row.rs).                                     *)
(*                                                                         *)
(* parse_response makes one pass over the lines with two accumulators,     *)
(* `table` and `result`, and returns early on the first line it cannot     *)
(* accept.  A line is a record of its prefix and the fields the code takes *)
(* from it, after splitting and unescaping; `good` is FALSE when the       *)
(* line's own parser (parse_table_header, parse_update_line, ...) fails.   *)
(***************************************************************************)
EXTENDS Integers, Sequences, FiniteSets

CONSTANTS
    Lines,     \* the lines a response may be made of
    MaxLines,  \* bound: lines in one response
    Values     \* field texts: values of tuples and headers

Attributes == {"name", "type", "length", "typesizes"}
Unset == ""    \* ColumnMeta::default() and an empty header value
Null == "NULL" \* None in a row

Kinds == {"blank", "info", "error", "table", "update", "schema",
          "transaction", "header", "tuple", "other"}

(* count: rowcount of a table line, affected of an update line; width: the *)
(* declared columns; flag: the autocommit flag; identity: the text after   *)
(* '#', "table_name" included; fields: header values or tuple fields.      *)
Line == [kind : Kinds, good : BOOLEAN, count : Nat, width : Nat,
         flag : BOOLEAN, identity : Attributes \cup {"table_name"},
         fields : Seq(Values)]

ASSUME LinesAssumption ==
    /\ Lines \subseteq Line
    /\ MaxLines \in Nat \ {0}
    /\ {Unset, Null} \subseteq Values

VARIABLES
    text,     \* the lines of the message; text.split('\n') yields at least one
    next,     \* index of the line the loop is at
    table,    \* the open TableResult, or NoTable
    result,   \* the last &2, &3 or &4 line's QueryResponse, or NoResult
    outcome   \* "parsing", an error, or the QueryResponse returned

vars == <<text, next, table, result, outcome>>

NoTable == [kind |-> "none"]
NoResult == [kind |-> "none"]
Ok == [kind |-> "ok"]
Parsing == [kind |-> "parsing"]

(* ResponseError::Database and ResponseError::Protocol *)
Database == [kind |-> "database"]
Protocol == [kind |-> "protocol"]

Column == [Attributes -> Values]

-----------------------------------------------------------------------------
Init ==
    /\ text \in UNION {[1..n -> Lines] : n \in 1..MaxLines}
    /\ next = 1
    /\ table = NoTable /\ result = NoResult
    /\ outcome = Parsing

(* The loop is at a line of kind k.                                        *)
At(k) == /\ outcome = Parsing /\ next <= Len(text)
         /\ text[next].kind = k

line == text[next]

(* Mutant: the line after an accepted one is passed over.                  *)
ContinueSkips == next' = next + 2 /\ UNCHANGED <<text, outcome>>

Continue == next' = next + 1 /\ UNCHANGED <<text, outcome>>

Return(value) == outcome' = value /\ UNCHANGED <<text, next, table, result>>

(* Empty lines, "=OK" and '#' lines.                                       *)
SkipLine ==
    /\ At("blank") \/ At("info")
    /\ Continue
    /\ UNCHANGED <<table, result>>

(* Mutant: an error line is remembered only if nothing was parsed before.  *)
ErrorLineLate ==
    /\ At("error")
    /\ IF table = NoTable /\ result = NoResult
       THEN Return(Database)
       ELSE Continue /\ UNCHANGED <<table, result>>

ErrorLine == At("error") /\ Return(Database)

(* Mutant: a second table header keeps the rows read so far.               *)
TableLineKeepsRows ==
    /\ At("table")
    /\ \/ ~line.good /\ Return(Protocol)
       \/ /\ line.good
          /\ table' = [kind |-> "table", count |-> line.count,
                       width |-> line.width,
                       columns |-> IF table = NoTable THEN <<>> ELSE table.columns,
                       rows |-> IF table = NoTable THEN <<>> ELSE table.rows]
          /\ Continue
          /\ UNCHANGED result

(* &1 and &5: parse_table_header opens a new, empty accumulator.           *)
TableLine ==
    /\ At("table")
    /\ \/ ~line.good /\ Return(Protocol)
       \/ /\ line.good
          /\ table' = [kind |-> "table", count |-> line.count,
                       width |-> line.width, columns |-> <<>>, rows |-> <<>>]
          /\ Continue
          /\ UNCHANGED result

(* Mutant: only the first result line counts.                              *)
UpdateLineFirst ==
    /\ At("update")
    /\ \/ ~line.good /\ Return(Protocol)
       \/ /\ line.good
          /\ result' = IF result = NoResult
                       THEN [kind |-> "update", affected |-> line.count]
                       ELSE result
          /\ Continue
          /\ UNCHANGED table

(* &2 *)
UpdateLine ==
    /\ At("update")
    /\ \/ ~line.good /\ Return(Protocol)
       \/ /\ line.good
          /\ result' = [kind |-> "update", affected |-> line.count]
          /\ Continue
          /\ UNCHANGED table

(* &3 *)
SchemaLine ==
    /\ At("schema")
    /\ result' = [kind |-> "schema"]
    /\ Continue
    /\ UNCHANGED table

(* &4 *)
TransactionLine ==
    /\ At("transaction")
    /\ \/ ~line.good /\ Return(Protocol)
       \/ /\ line.good
          /\ result' = [kind |-> "transaction", auto_commit |-> line.flag]
          /\ Continue
          /\ UNCHANGED table

DefaultColumn == [a \in Attributes |-> Unset]

(* Mutant: columns are not resized, so a wider second header is cut short. *)
apply_header_values_cut(columns, identity, values) ==
    IF columns = <<>>
    THEN [i \in 1..Len(values) |->
            IF identity \in Attributes
            THEN [DefaultColumn EXCEPT ![identity] = values[i]]
            ELSE DefaultColumn]
    ELSE [i \in 1..Len(columns) |->
            IF i <= Len(values) /\ identity \in Attributes
            THEN [columns[i] EXCEPT ![identity] = values[i]]
            ELSE columns[i]]

(* Grow the columns to the number of values, then set the attribute of     *)
(* each column that has a value (iter_mut().zip(values)).                  *)
apply_header_values(columns, identity, values) ==
    LET old == Len(columns)
        size == IF old < Len(values) THEN Len(values) ELSE old
        Resized(i) == IF i <= old THEN columns[i] ELSE DefaultColumn
    IN  [i \in 1..size |->
            IF i <= Len(values) /\ identity \in Attributes
            THEN [Resized(i) EXCEPT ![identity] = values[i]]
            ELSE Resized(i)]

(* %...# : parse_header_values comes first, then the check for a table,    *)
(* then apply_header_values; each of them may fail.                        *)
HeaderLine ==
    /\ At("header")
    /\ \/ (~line.good \/ table = NoTable) /\ Return(Protocol)
       \/ /\ line.good /\ table # NoTable
          /\ table' = [table EXCEPT !.columns =
                          apply_header_values(@, line.identity, line.fields)]
          /\ Continue
          /\ UNCHANGED result

(* Mutant: a tuple without a table is passed over instead of rejected.     *)
TupleLineOrphan ==
    /\ At("tuple")
    /\ \/ ~line.good /\ Return(Protocol)
       \/ /\ line.good
          /\ table' = IF table = NoTable THEN NoTable
                      ELSE [table EXCEPT !.rows = Append(@, line.fields)]
          /\ Continue
          /\ UNCHANGED result

(* [...] : parse_tuple_fields, then the check for a table.                 *)
TupleLine ==
    /\ At("tuple")
    /\ \/ (~line.good \/ table = NoTable) /\ Return(Protocol)
       \/ /\ line.good /\ table # NoTable
          /\ table' = [table EXCEPT !.rows = Append(@, line.fields)]
          /\ Continue
          /\ UNCHANGED result

(* Anything else, &6 included.                                             *)
OtherLine == At("other") /\ Return(Protocol)

(* After the last line: the table, else the last result, else Ok.          *)
Finish ==
    /\ outcome = Parsing /\ next > Len(text)
    /\ Return(IF table # NoTable THEN table
              ELSE IF result # NoResult THEN result ELSE Ok)

Next == SkipLine \/ ErrorLine \/ TableLine \/ UpdateLine \/ SchemaLine
          \/ TransactionLine \/ HeaderLine \/ TupleLine \/ OtherLine \/ Finish

Spec == Init /\ [][Next]_vars

-----------------------------------------------------------------------------
(* What the caller sees of the outcome.                                    *)

(* MonetRow::from_table_result: the rows share the table's columns.        *)
from_table_result(t) ==
    [i \in 1..Len(t.rows) |-> [columns |-> t.columns, values |-> t.rows[i]]]

Row(r) == [kind |-> "row", row |-> r]
Summary(n) == [kind |-> "summary", rows_affected |-> n]

(* Mutant: the summary counts the rows received.                           *)
run_query_counts_rows(o) ==
    CASE o.kind \in {"database", "protocol"} -> <<[kind |-> "failure"]>>
      [] o.kind = "table" ->
           [i \in 1..Len(o.rows) |-> Row(from_table_result(o)[i])]
             \o <<Summary(Len(o.rows))>>
      [] o.kind = "update" -> <<Summary(o.affected)>>
      [] OTHER -> <<Summary(0)>>

(* run_query: the items of the stream fetch_many returns.                  *)
run_query(o) ==
    CASE o.kind \in {"database", "protocol"} -> <<[kind |-> "failure"]>>
      [] o.kind = "table" ->
           [i \in 1..Len(o.rows) |-> Row(from_table_result(o)[i])]
             \o <<Summary(o.count)>>
      [] o.kind = "update" -> <<Summary(o.affected)>>
      [] OTHER -> <<Summary(0)>>

(* fetch_optional: the first row, unless an error comes before it.         *)
fetch_optional(o) ==
    LET items == run_query(o)
        Stops(i) == items[i].kind \in {"row", "failure"}
    IN  IF \E i \in DOMAIN items : Stops(i)
        THEN items[CHOOSE i \in DOMAIN items :
                     Stops(i) /\ \A j \in 1..(i - 1) : ~Stops(j)]
        ELSE [kind |-> "none"]

(* Mutant: the bound check is off by one.                                  *)
try_get_raw_short(row, index) ==
    IF index + 1 >= Len(row.columns) THEN "out of bounds"
    ELSE IF index >= Len(row.values) THEN "panic"
    ELSE row.values[index + 1]

(* MonetRow::try_get_raw for a zero-based index: the index is checked      *)
(* against the columns and then used on the values.                        *)
try_get_raw(row, index) ==
    IF index >= Len(row.columns) THEN "out of bounds"
    ELSE IF index >= Len(row.values) THEN "panic"
    ELSE row.values[index + 1]

(* The same by name: the ordinal of the first column that has it.          *)
try_get_by_name(row, name) ==
    LET Named(i) == row.columns[i]["name"] = name
        places == {i \in 1..Len(row.columns) : Named(i)}
    IN  IF places = {} THEN "not found"
        ELSE try_get_raw(row, (CHOOSE i \in places :
                                 \A j \in places : i <= j) - 1)

-----------------------------------------------------------------------------
(* Properties: the one-pass parser against definitions over the whole      *)
(* text.                                                                   *)

Done == outcome # Parsing
IsResult == {"update", "schema", "transaction"}
Indices == 1..Len(text)
OfKind(ks) == {k \in Indices : text[k].kind \in ks}
First(S) == CHOOSE k \in S : \A j \in S : k <= j
Last(S) == CHOOSE k \in S : \A j \in S : j <= k
LastTable == Last(OfKind({"table"}))
After(ks) == {k \in OfKind(ks) : k > LastTable}

Result == [kind : {"schema"}]
    \cup [kind : {"update"}, affected : Nat]
    \cup [kind : {"transaction"}, auto_commit : BOOLEAN]

Table == [kind : {"table"}, count : Nat, width : Nat,
          columns : Seq(Column), rows : Seq(Seq(Values))]

(* The two accumulators and the outcome are what their Rust types allow.   *)
TypeOK ==
    /\ text \in Seq(Lines) /\ text # <<>>
    /\ next \in 1..(Len(text) + 1)
    /\ table \in Table \cup {NoTable}
    /\ result \in Result \cup {NoResult}
    /\ outcome \in Result \cup Table \cup {Parsing, Ok, Database, Protocol}

(* A line parse_response cannot accept: an error line, an unknown line, a  *)
(* line its own parser rejects, a '%' or '[' line before any table.        *)
Fatal(k) ==
    \/ text[k].kind \in {"error", "other"}
    \/ text[k].kind \in {"table", "update", "transaction", "header", "tuple"}
         /\ ~text[k].good
    \/ text[k].kind \in {"header", "tuple"}
         /\ \A j \in 1..(k - 1) : text[j].kind # "table"

FatalLines == {k \in Indices : Fatal(k)}

(* The first fatal line decides: the response fails if and only if there   *)
(* is one, as a database error exactly when that line is a '!' line,       *)
(* wherever it stands among tables and results already parsed.             *)
FirstFatalDecides ==
    Done => IF FatalLines = {} THEN outcome.kind \notin {"database", "protocol"}
            ELSE outcome = IF text[First(FatalLines)].kind = "error"
                           THEN Database ELSE Protocol

(* Line k is the how-manieth of the lines S.                               *)
Rank(S, k) == Cardinality({j \in S : j <= k})

(* Of several tables in one response the caller gets the last, complete    *)
(* and alone: its own row count and exactly the tuples that follow it, in  *)
(* their order.                                                            *)
LastTableWins ==
    Done /\ FatalLines = {} /\ OfKind({"table"}) # {} =>
        LET tuples == After({"tuple"})
        IN  /\ outcome.kind = "table"
            /\ outcome.count = text[LastTable].count
            /\ Len(outcome.rows) = Cardinality(tuples)
            /\ \A k \in tuples :
                 outcome.rows[Rank(tuples, k)] = text[k].fields

(* What a &2, &3 or &4 line stands for.                                    *)
Means(r, l) ==
    /\ r.kind = l.kind
    /\ l.kind = "update" => r.affected = l.count
    /\ l.kind = "transaction" => r.auto_commit = l.flag

(* Without a table the last of the &2, &3 and &4 lines is the response.    *)
LastResultWins ==
    Done /\ FatalLines = {} /\ OfKind({"table"}) = {} =>
        IF OfKind(IsResult) = {} THEN outcome = Ok
        ELSE Means(outcome, text[Last(OfKind(IsResult))])

(* The columns are as many as the widest header line of the table has      *)
(* values, and each attribute of a column is what the last header line     *)
(* long enough to reach it says, in whatever order the headers come.       *)
ColumnsFromHeaders ==
    Done /\ outcome.kind = "table" =>
        LET headers == After({"header"})
            Sets(i, a) == {k \in headers : text[k].identity = a
                                           /\ i <= Len(text[k].fields)}
        IN  /\ \A k \in headers : Len(text[k].fields) <= Len(outcome.columns)
            /\ \A i \in 1..Len(outcome.columns) :
                 /\ \E k \in headers : i <= Len(text[k].fields)
                 /\ \A a \in Attributes :
                      outcome.columns[i][a] =
                        IF Sets(i, a) = {} THEN Unset
                        ELSE text[Last(Sets(i, a))].fields[i]

(* The stream of fetch_many is every row of the table in order and then    *)
(* one summary with the server's own count, or a single failure: an error  *)
(* found after some rows takes those rows back, and fetch_optional never   *)
(* returns a row of a response that fails.                                 *)
StreamWhole ==
    Done => LET items == run_query(outcome)
                n == Len(items)
            IN  /\ items[n].kind # "row"
                /\ \A i \in 1..(n - 1) :
                     items[i] = Row([columns |-> outcome.columns,
                                     values |-> outcome.rows[i]])
                /\ FatalLines # {} => n = 1 /\ fetch_optional(outcome).kind = "failure"
                /\ FatalLines = {} =>
                     /\ items[n].kind = "summary"
                     /\ OfKind({"table"}) # {} =>
                          /\ n = Cardinality(After({"tuple"})) + 1
                          /\ items[n].rows_affected = text[LastTable].count
                     /\ fetch_optional(outcome) =
                          IF n > 1 THEN items[1] ELSE [kind |-> "none"]

(* Every header and tuple line of the table has the declared width, as a   *)
(* server writes them when no column name contains a comma.                *)
WellFormed ==
    /\ After({"header"}) # {}
    /\ \A k \in After({"header", "tuple"}) :
         Len(text[k].fields) = text[LastTable].width

(* The name of column i, as the last header line that gives names has it.  *)
NameOf(i) ==
    LET lines == {k \in After({"header"}) : text[k].identity = "name"}
    IN  IF lines = {} THEN Unset ELSE text[Last(lines)].fields[i]

(* In a well-formed table each column of each row is the tuple's field,    *)
(* and only an index past the declared width is out of bounds; a name      *)
(* reads the field of the first column the server gave that name, however  *)
(* the header lines were ordered or repeated.                              *)
WellFormedReads ==
    Done /\ outcome.kind = "table" /\ WellFormed =>
        \A r \in 1..Len(outcome.rows) :
            LET row == from_table_result(outcome)[r]
                width == text[LastTable].width
            IN  /\ \A index \in 0..(width + 1) :
                     try_get_raw(row, index) =
                         IF index < width THEN outcome.rows[r][index + 1]
                         ELSE "out of bounds"
                /\ \A name \in Values :
                     LET named == {i \in 1..width : NameOf(i) = name}
                     IN  try_get_by_name(row, name) =
                           IF named = {} THEN "not found"
                           ELSE outcome.rows[r][First(named)]

(* "everything else that can go wrong in the driver itself (handshake      *)
(* failure, a malformed wire message, I/O failure) -- represented by       *)
(* [`MonetError`]" (error.rs:10-12): reading a column yields a value or an *)
(* error, never a panic.                                                   *)
NeverPanics ==
    Done /\ outcome.kind = "table" =>
        \A r \in 1..Len(outcome.rows), index \in 0..Len(outcome.columns) :
            try_get_raw(from_table_result(outcome)[r], index) # "panic"

-----------------------------------------------------------------------------
(* The inductive invariant behind FirstFatalDecides and LastResultWins.    *)

Before(ks) == {k \in 1..(next - 1) : text[k].kind \in ks}

Scanned == \A k \in 1..(next - 1) : ~Fatal(k)

TableSeen == (table = NoTable) <=> (Before({"table"}) = {})

ResultSeen ==
    \/ result = NoResult /\ Before(IsResult) = {}
    \/ /\ result # NoResult
       /\ \E k \in Before(IsResult) :
            /\ \A j \in Before(IsResult) : j <= k
            /\ Means(result, text[k])

Verdict ==
    \/ outcome = Parsing
    \/ /\ outcome = Database /\ next \in Indices
       /\ Fatal(next) /\ text[next].kind = "error"
    \/ /\ outcome = Protocol /\ next \in Indices
       /\ Fatal(next) /\ text[next].kind # "error"
    \/ /\ next = Len(text) + 1
       /\ outcome = IF table # NoTable THEN table
                    ELSE IF result # NoResult THEN result ELSE Ok

(* No line passed so far is fatal, the accumulators are what the lines     *)
(* passed so far make them, and an outcome is that of the current line or  *)
(* of the whole text: the state of parse_response between two lines.       *)
IndInv == TypeOK /\ Scanned /\ TableSeen /\ ResultSeen /\ Verdict
=============================================================================
