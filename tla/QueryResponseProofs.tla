------------------------- MODULE QueryResponseProofs -------------------------
(***************************************************************************)
(* Proofs about QueryResponse, for responses of any length over any lines: *)
(* IndInv is inductive; which line decides an error, and which result line *)
(* is returned, follow from it.  FilledInv adds the table parse_response   *)
(* builds and what the caller reads from it.                               *)
(***************************************************************************)
EXTENDS QueryResponse, SequenceTheorems, FiniteSetTheorems,
        WellFoundedInduction, TLAPS

-----------------------------------------------------------------------------
(* Type correctness.                                                       *)

(* The line the loop is at is one of the lines of the response.            *)
LEMMA CurrentLine ==
    ASSUME TypeOK, NEW k, At(k)
    PROVE  /\ next \in Indices /\ next \in Nat \ {0} /\ Len(text) \in Nat
           /\ line \in Line /\ line.kind = k
           /\ next + 1 \in 1..(Len(text) + 1)
  <1>1. text \in Seq(Lines) /\ Len(text) \in Nat
    BY LenProperties DEF TypeOK
  <1>2. next \in 1..Len(text)
    BY <1>1 DEF TypeOK, At
  <1>3. text[next] \in Lines
    BY <1>1, <1>2, ElementOfSeq
  <1> QED
    BY <1>1, <1>2, <1>3, LinesAssumption DEF At, line, Indices

(* apply_header_values turns columns into columns.                         *)
LEMMA ApplyType ==
    ASSUME NEW columns \in Seq(Column), NEW values \in Seq(Values),
           NEW identity
    PROVE  apply_header_values(columns, identity, values) \in Seq(Column)
  <1> DEFINE old == Len(columns)
             size == IF old < Len(values) THEN Len(values) ELSE old
             Resized(i) == IF i <= old THEN columns[i] ELSE DefaultColumn
             f(i) == IF i <= Len(values) /\ identity \in Attributes
                     THEN [Resized(i) EXCEPT ![identity] = values[i]]
                     ELSE Resized(i)
  <1>1. old \in Nat /\ Len(values) \in Nat /\ size \in Nat
    BY LenProperties
  <1>2. DefaultColumn \in Column
    BY LinesAssumption DEF DefaultColumn, Column
  <1>3. ASSUME NEW i \in 1..size PROVE f(i) \in Column
    <2>1. Resized(i) \in Column
      BY <1>1, <1>2, <1>3, ElementOfSeq
    <2>2. i <= Len(values) => values[i] \in Values
      BY <1>1, <1>3, ElementOfSeq
    <2> HIDE DEF Resized
    <2> QED
      BY <2>1, <2>2 DEF Column
  <1> HIDE DEF f, size, old
  <1>4. [i \in 1..size |-> f(i)] \in Seq(Column)
    BY <1>1, <1>3, IsASeq
  <1> QED
    BY <1>4 DEF apply_header_values, f, size, old

(* Every line, accepted or rejected, keeps the accumulators well typed.    *)
LEMMA TypeStep ==
    ASSUME TypeOK, [Next]_vars
    PROVE  TypeOK'
  <1>0. UNCHANGED vars => TypeOK'
    BY DEF TypeOK, vars
  <1>1. ASSUME NEW v \in {Database, Protocol}, Return(v) PROVE TypeOK'
    BY <1>1 DEF TypeOK, Return
  <1>2. ASSUME NEW k, At(k), Continue, UNCHANGED <<table, result>>
        PROVE  TypeOK'
    BY <1>2, CurrentLine DEF TypeOK, Continue
  <1>3. ASSUME NEW k, At(k), Continue, UNCHANGED table, result' \in Result
        PROVE  TypeOK'
    BY <1>3, CurrentLine DEF TypeOK, Continue
  <1>4. ASSUME NEW k, At(k), Continue, UNCHANGED result, table' \in Table
        PROVE  TypeOK'
    BY <1>4, CurrentLine DEF TypeOK, Continue
  <1>5. CASE SkipLine
    BY <1>2, <1>5 DEF SkipLine
  <1>6. CASE ErrorLine
    BY <1>1, <1>6 DEF ErrorLine
  <1>7. CASE TableLine
    <2>1. line.count \in Nat /\ line.width \in Nat
      BY <1>7, CurrentLine DEF TableLine, Line
    <2>2. [kind |-> "table", count |-> line.count, width |-> line.width,
           columns |-> <<>>, rows |-> <<>>] \in Table
      BY <2>1, EmptySeq DEF Table
    <2> QED
      BY <1>1, <1>4, <1>7, <2>2 DEF TableLine
  <1>8. CASE UpdateLine
    <2>1. line.count \in Nat
      BY <1>8, CurrentLine DEF UpdateLine, Line
    <2>2. [kind |-> "update", affected |-> line.count] \in Result
      BY <2>1 DEF Result
    <2> QED
      BY <1>1, <1>3, <1>8, <2>2 DEF UpdateLine
  <1>9. CASE SchemaLine
    <2>1. [kind |-> "schema"] \in Result
      BY DEF Result
    <2> QED
      BY <1>3, <1>9, <2>1 DEF SchemaLine
  <1>10. CASE TransactionLine
    <2>1. line.flag \in BOOLEAN
      BY <1>10, CurrentLine DEF TransactionLine, Line
    <2>2. [kind |-> "transaction", auto_commit |-> line.flag] \in Result
      BY <2>1 DEF Result
    <2> QED
      BY <1>1, <1>3, <1>10, <2>2 DEF TransactionLine
  <1>11. CASE HeaderLine
    <2>1. CASE Return(Protocol)
      BY <1>1, <2>1
    <2>2. CASE /\ table # NoTable /\ Continue /\ UNCHANGED result
               /\ table' = [table EXCEPT !.columns =
                              apply_header_values(@, line.identity, line.fields)]
      <3>1. table \in Table /\ table.columns \in Seq(Column)
        BY <2>2 DEF TypeOK, Table
      <3>2. line.fields \in Seq(Values)
        BY <1>11, CurrentLine DEF HeaderLine, Line
      <3>3. apply_header_values(table.columns, line.identity, line.fields)
                \in Seq(Column)
        BY <3>1, <3>2, ApplyType
      <3>4. table' \in Table
        BY <2>2, <3>1, <3>3 DEF Table
      <3> QED
        BY <1>4, <1>11, <2>2, <3>4 DEF HeaderLine
    <2> QED
      BY <1>11, <2>1, <2>2 DEF HeaderLine
  <1>12. CASE TupleLine
    <2>1. CASE Return(Protocol)
      BY <1>1, <2>1
    <2>2. CASE /\ table # NoTable /\ Continue /\ UNCHANGED result
               /\ table' = [table EXCEPT !.rows = Append(@, line.fields)]
      <3>1. table \in Table /\ table.rows \in Seq(Seq(Values))
        BY <2>2 DEF TypeOK, Table
      <3>2. line.fields \in Seq(Values)
        BY <1>12, CurrentLine DEF TupleLine, Line
      <3>3. Append(table.rows, line.fields) \in Seq(Seq(Values))
        BY <3>1, <3>2, AppendProperties
      <3>4. table' \in Table
        BY <2>2, <3>1, <3>3 DEF Table
      <3> QED
        BY <1>4, <1>12, <2>2, <3>4 DEF TupleLine
    <2> QED
      BY <1>12, <2>1, <2>2 DEF TupleLine
  <1>13. CASE OtherLine
    BY <1>1, <1>13 DEF OtherLine
  <1>14. CASE Finish
    BY <1>14 DEF Finish, Return, TypeOK
  <1> QED
    BY <1>0, <1>5, <1>6, <1>7, <1>8, <1>9, <1>10, <1>11, <1>12, <1>13, <1>14
       DEF Next

-----------------------------------------------------------------------------
(* The effect of one line on what the invariant says of the lines passed.  *)

(* Accepting a line adds it to the lines passed, and nothing else.         *)
LEMMA BeforeGrows ==
    ASSUME next \in Nat \ {0}, Continue, NEW ks
    PROVE  /\ text[next].kind \in ks => Before(ks)' = Before(ks) \cup {next}
           /\ text[next].kind \notin ks => Before(ks)' = Before(ks)
  <1>1. text' = text /\ next' - 1 = next
    BY DEF Continue
  <1>2. 1..(next' - 1) = 1..(next - 1) \cup {next}
    BY <1>1
  <1>3. Before(ks)' = {k \in 1..(next - 1) \cup {next} : text[k].kind \in ks}
    BY <1>1, <1>2 DEF Before
  <1> QED
    BY <1>3 DEF Before

(* A line that is not fatal and is passed leaves no fatal line behind.     *)
LEMMA AcceptScanned ==
    ASSUME next \in Nat \ {0}, Scanned, Continue, ~Fatal(next)
    PROVE  Scanned'
  <1>1. text' = text /\ next' - 1 = next
    BY DEF Continue
  <1>2. \A k \in 1..next : ~Fatal(k)
    BY DEF Scanned
  <1>3. \A k \in 1..next : Fatal(k)' = Fatal(k)
    BY <1>1 DEF Fatal
  <1> QED
    BY <1>1, <1>2, <1>3 DEF Scanned

(* The `table` accumulator is open exactly if some line passed opened it.  *)
LEMMA AcceptTable ==
    ASSUME next \in Nat \ {0}, TableSeen, Continue,
           IF text[next].kind = "table" THEN table' # NoTable
           ELSE table' = NoTable <=> table = NoTable
    PROVE  TableSeen'
  <1>1. CASE text[next].kind = "table"
    <2>1. next \in Before({"table"})'
      BY <1>1, BeforeGrows
    <2> QED
      BY <1>1, <2>1 DEF TableSeen, NoTable
  <1>2. CASE text[next].kind # "table"
    <2>1. Before({"table"})' = Before({"table"})
      BY <1>2, BeforeGrows
    <2> QED
      BY <1>2, <2>1 DEF TableSeen, NoTable
  <1> QED
    BY <1>1, <1>2

(* A line that is no &2, &3 or &4 line keeps the result of the last one.   *)
LEMMA KeepResult ==
    ASSUME next \in Nat \ {0}, ResultSeen, Continue, UNCHANGED result,
           text[next].kind \notin IsResult
    PROVE  ResultSeen'
  <1>1. Before(IsResult)' = Before(IsResult)
    BY BeforeGrows DEF IsResult
  <1>2. text' = text
    BY DEF Continue
  <1> QED
    BY <1>1, <1>2 DEF ResultSeen, Means, NoResult, IsResult

(* A &2, &3 or &4 line replaces it.                                        *)
LEMMA TakeResult ==
    ASSUME next \in Nat \ {0}, Continue, text[next].kind \in IsResult,
           result' # NoResult, Means(result', text[next])
    PROVE  ResultSeen'
  <1>1. Before(IsResult)' = Before(IsResult) \cup {next}
    BY BeforeGrows DEF IsResult
  <1>2. \A j \in Before(IsResult)' : j <= next
    BY <1>1 DEF Before
  <1>3. text' = text
    BY DEF Continue
  <1> QED
    BY <1>1, <1>2, <1>3 DEF ResultSeen, Means, NoResult, IsResult

(* Rejecting the current line, a fatal one, gives the verdict on it.       *)
LEMMA RejectStep ==
    ASSUME IndInv, NEW k, At(k), Fatal(next),
           Return(IF k = "error" THEN Database ELSE Protocol)
    PROVE  IndInv'
  <1>1. UNCHANGED <<text, next, table, result>>
    BY DEF Return
  <1>2. Scanned' /\ TableSeen' /\ ResultSeen'
    BY <1>1 DEF IndInv, Scanned, TableSeen, ResultSeen, Before, Fatal, Means,
                NoTable, NoResult, IsResult
  <1>3. next \in Indices /\ line.kind = k
    BY CurrentLine DEF IndInv
  <1>4. Fatal(next)' /\ Indices' = Indices
    BY <1>1 DEF Fatal, Indices
  <1>5. Verdict'
    BY <1>1, <1>3, <1>4 DEF Verdict, Return, line, Database, Protocol
  <1>6. outcome' \in {Database, Protocol}
    BY DEF Return, Database, Protocol
  <1>7. TypeOK'
    BY <1>1, <1>6 DEF IndInv, TypeOK
  <1> QED
    BY <1>2, <1>5, <1>7 DEF IndInv

(* Accepting the current line, given its effect on the two accumulators.   *)
LEMMA AcceptStep ==
    ASSUME IndInv, TypeOK', NEW k, At(k), ~Fatal(next), Continue,
           IF k = "table" THEN table' # NoTable
           ELSE table' = NoTable <=> table = NoTable,
           \/ k \notin IsResult /\ UNCHANGED result
           \/ /\ k \in IsResult /\ result' # NoResult
              /\ Means(result', line)
    PROVE  IndInv'
  <1>1. next \in Nat \ {0} /\ text[next].kind = k
    BY CurrentLine DEF IndInv, line
  <1>2. Scanned'
    BY <1>1, AcceptScanned DEF IndInv
  <1>3. TableSeen'
    BY <1>1, AcceptTable DEF IndInv
  <1>4. ResultSeen'
    <2>1. CASE k \notin IsResult /\ UNCHANGED result
      BY <1>1, <2>1, KeepResult DEF IndInv
    <2>2. CASE k \in IsResult /\ result' # NoResult /\ Means(result', line)
      BY <1>1, <2>2, TakeResult DEF line
    <2> QED
      BY <2>1, <2>2
  <1>5. Verdict'
    BY DEF Verdict, Continue, At, Parsing
  <1> QED
    BY <1>2, <1>3, <1>4, <1>5 DEF IndInv

(* Under the invariant, a '%' or '[' line is orphaned exactly while no     *)
(* table is open, so parse_response's check for a table is the test for a  *)
(* fatal line.                                                             *)
LEMMA OrphanIffNoTable ==
    ASSUME IndInv
    PROVE  (table = NoTable) <=> \A j \in 1..(next - 1) : text[j].kind # "table"
  BY DEF IndInv, TableSeen, Before

(* parse_response keeps IndInv: one step per kind of line, and the end.    *)
LEMMA IndStep ==
    ASSUME IndInv, [Next]_vars
    PROVE  IndInv'
  <1>0. TypeOK'
    BY TypeStep DEF IndInv
  <1>1. CASE UNCHANGED vars
    BY <1>0, <1>1 DEF vars, IndInv, Scanned, TableSeen, ResultSeen, Verdict,
                 Before, Fatal, Means, Indices
  <1>2. CASE SkipLine
    <2>1. PICK k \in {"blank", "info"} : At(k)
      BY <1>2 DEF SkipLine
    <2>2. ~Fatal(next)
      BY <2>1 DEF Fatal, At
    <2> QED
      BY <1>0, <1>2, <2>1, <2>2, AcceptStep DEF SkipLine, IsResult
  <1>3. CASE ErrorLine
    <2>1. Fatal(next)
      BY <1>3 DEF ErrorLine, At, Fatal
    <2> QED
      BY <1>3, <2>1, RejectStep DEF ErrorLine
  <1>4. CASE TableLine
    <2>1. CASE ~line.good /\ Return(Protocol)
      <3>1. Fatal(next)
        BY <1>4, <2>1 DEF TableLine, At, Fatal, line
      <3> QED
        BY <1>4, <2>1, <3>1, RejectStep DEF TableLine
    <2>2. CASE line.good /\ ~(~line.good /\ Return(Protocol))
      <3>1. ~Fatal(next)
        BY <1>4, <2>2 DEF TableLine, At, Fatal, line
      <3>2. table' # NoTable
        BY <1>4, <2>2 DEF TableLine, NoTable
      <3> QED
        BY <1>0, <1>4, <2>2, <3>1, <3>2, AcceptStep DEF TableLine, IsResult
    <2> QED
      BY <1>4, <2>1, <2>2 DEF TableLine
  <1>5. CASE UpdateLine
    <2>1. CASE ~line.good /\ Return(Protocol)
      <3>1. Fatal(next)
        BY <1>5, <2>1 DEF UpdateLine, At, Fatal, line
      <3> QED
        BY <1>5, <2>1, <3>1, RejectStep DEF UpdateLine
    <2>2. CASE line.good /\ ~(~line.good /\ Return(Protocol))
      <3>1. ~Fatal(next)
        BY <1>5, <2>2 DEF UpdateLine, At, Fatal, line
      <3>2. result' # NoResult /\ Means(result', line)
        BY <1>5, <2>2 DEF UpdateLine, NoResult, Means, At, line
      <3>3. UNCHANGED table
        BY <1>5, <2>2 DEF UpdateLine
      <3> QED
        BY <1>0, <1>5, <2>2, <3>1, <3>2, <3>3, AcceptStep
           DEF UpdateLine, IsResult
    <2> QED
      BY <1>5, <2>1, <2>2 DEF UpdateLine
  <1>6. CASE SchemaLine
    <2>1. ~Fatal(next)
      BY <1>6 DEF SchemaLine, At, Fatal
    <2>2. result' # NoResult /\ Means(result', line)
      BY <1>6 DEF SchemaLine, NoResult, Means, At, line
    <2> QED
      BY <1>0, <1>6, <2>1, <2>2, AcceptStep DEF SchemaLine, IsResult
  <1>7. CASE TransactionLine
    <2>1. CASE ~line.good /\ Return(Protocol)
      <3>1. Fatal(next)
        BY <1>7, <2>1 DEF TransactionLine, At, Fatal, line
      <3> QED
        BY <1>7, <2>1, <3>1, RejectStep DEF TransactionLine
    <2>2. CASE line.good /\ ~(~line.good /\ Return(Protocol))
      <3>1. ~Fatal(next)
        BY <1>7, <2>2 DEF TransactionLine, At, Fatal, line
      <3>2. result' # NoResult /\ Means(result', line)
        BY <1>7, <2>2 DEF TransactionLine, NoResult, Means, At, line
      <3>3. UNCHANGED table
        BY <1>7, <2>2 DEF TransactionLine
      <3> QED
        BY <1>0, <1>7, <2>2, <3>1, <3>2, <3>3, AcceptStep
           DEF TransactionLine, IsResult
    <2> QED
      BY <1>7, <2>1, <2>2 DEF TransactionLine
  <1>8. CASE HeaderLine
    <2>1. CASE (~line.good \/ table = NoTable) /\ Return(Protocol)
      <3>1. Fatal(next)
        BY <1>8, <2>1, OrphanIffNoTable DEF HeaderLine, At, Fatal, line
      <3> QED
        BY <1>8, <2>1, <3>1, RejectStep DEF HeaderLine
    <2>2. CASE /\ line.good /\ table # NoTable /\ Continue /\ UNCHANGED result
               /\ table' = [table EXCEPT !.columns =
                              apply_header_values(@, line.identity, line.fields)]
      <3>1. ~Fatal(next)
        BY <1>8, <2>2, OrphanIffNoTable DEF HeaderLine, At, Fatal, line
      <3>2. table' # NoTable
        BY <2>2 DEF IndInv, TypeOK, Table, NoTable
      <3> QED
        BY <1>0, <1>8, <2>2, <3>1, <3>2, AcceptStep DEF HeaderLine, IsResult
    <2> QED
      BY <1>8, <2>1, <2>2 DEF HeaderLine
  <1>9. CASE TupleLine
    <2>1. CASE (~line.good \/ table = NoTable) /\ Return(Protocol)
      <3>1. Fatal(next)
        BY <1>9, <2>1, OrphanIffNoTable DEF TupleLine, At, Fatal, line
      <3> QED
        BY <1>9, <2>1, <3>1, RejectStep DEF TupleLine
    <2>2. CASE /\ line.good /\ table # NoTable /\ Continue /\ UNCHANGED result
               /\ table' = [table EXCEPT !.rows = Append(@, line.fields)]
      <3>1. ~Fatal(next)
        BY <1>9, <2>2, OrphanIffNoTable DEF TupleLine, At, Fatal, line
      <3>2. table' # NoTable
        BY <2>2 DEF IndInv, TypeOK, Table, NoTable
      <3> QED
        BY <1>0, <1>9, <2>2, <3>1, <3>2, AcceptStep DEF TupleLine, IsResult
    <2> QED
      BY <1>9, <2>1, <2>2 DEF TupleLine
  <1>10. CASE OtherLine
    <2>1. Fatal(next)
      BY <1>10 DEF OtherLine, At, Fatal
    <2> QED
      BY <1>10, <2>1, RejectStep DEF OtherLine
  <1>11. CASE Finish
    <2>1. UNCHANGED <<text, next, table, result>>
      BY <1>11 DEF Finish, Return
    <2>2. Scanned' /\ TableSeen' /\ ResultSeen'
      BY <2>1 DEF IndInv, Scanned, TableSeen, ResultSeen, Before, Fatal, Means,
                  NoTable, NoResult, IsResult
    <2>3. Len(text) \in Nat /\ next \in 1..(Len(text) + 1)
      BY LenProperties DEF IndInv, TypeOK
    <2>4. next = Len(text) + 1
      BY <1>11, <2>3 DEF Finish
    <2>5. Verdict'
      BY <1>11, <2>1, <2>4 DEF Finish, Return, Verdict, NoTable, NoResult, Ok
    <2> QED
      BY <1>0, <2>2, <2>5 DEF IndInv
  <1> QED
    BY <1>1, <1>2, <1>3, <1>4, <1>5, <1>6, <1>7, <1>8, <1>9, <1>10, <1>11
       DEF Next

-----------------------------------------------------------------------------
(* The theorems.                                                           *)

(* parse_response starts with nothing passed and nothing accumulated.      *)
LEMMA IndInit ==
    ASSUME Init
    PROVE  IndInv
  <1>1. PICK n \in 1..MaxLines : text \in [1..n -> Lines]
    BY DEF Init
  <1>2. n \in Nat \ {0}
    BY <1>1, LinesAssumption
  <1>3. text \in Seq(Lines) /\ Len(text) = n
    BY <1>1, <1>2, LenProperties
  <1>4. text # <<>>
    BY <1>2, <1>3
  <1>5. next = 1 /\ table = NoTable /\ result = NoResult /\ outcome = Parsing
    BY DEF Init
  <1>6. TypeOK
    BY <1>2, <1>3, <1>4, <1>5 DEF TypeOK
  <1>7. 1..(next - 1) = {}
    BY <1>5
  <1>8. Scanned /\ TableSeen /\ ResultSeen /\ Verdict
    BY <1>5, <1>7 DEF Scanned, TableSeen, ResultSeen, Verdict, Before
  <1> QED
    BY <1>6, <1>8 DEF IndInv

(* Between any two lines of any response, whatever the lines and however   *)
(* many: no line passed is fatal, `table` is open exactly if a table line  *)
(* was passed, `result` is what the last result line passed stands for.    *)
THEOREM ParserInductive == Spec => []IndInv
  <1>1. Init => IndInv
    BY IndInit
  <1>2. IndInv /\ [Next]_vars => IndInv'
    BY IndStep
  <1> QED
    BY <1>1, <1>2, PTL DEF Spec

(* The accumulators and the outcome of parse_response are always well      *)
(* typed; in particular the index it is at never leaves the text.          *)
THEOREM ParserType == Spec => []TypeOK
  <1>1. IndInv => TypeOK
    BY DEF IndInv
  <1> QED
    BY <1>1, ParserInductive, PTL

(* When the loop stops at a fatal line, that line is the first fatal one.  *)
LEMMA StopsAtFirst ==
    ASSUME IndInv, next \in Indices, Fatal(next)
    PROVE  FatalLines # {} /\ First(FatalLines) = next
  <1>1. Len(text) \in Nat
    BY LenProperties DEF IndInv, TypeOK
  <1>2. next \in FatalLines
    BY DEF FatalLines
  <1>3. \A j \in FatalLines : j \in Nat /\ next <= j
    <2> TAKE j \in FatalLines
    <2>1. j \in 1..Len(text) /\ Fatal(j)
      BY DEF FatalLines, Indices
    <2>2. ~(j \in 1..(next - 1))
      BY <2>1 DEF IndInv, Scanned
    <2> QED
      BY <1>1, <2>1, <2>2 DEF Indices
  <1>4. \A k \in FatalLines : (\A j \in FatalLines : k <= j) => k = next
    BY <1>1, <1>2, <1>3 DEF Indices
  <1> QED
    BY <1>2, <1>3, <1>4 DEF First

(* A whole text that was passed has no fatal line.                         *)
LEMMA NoFatalAtEnd ==
    ASSUME IndInv, next = Len(text) + 1
    PROVE  FatalLines = {}
  <1>1. Len(text) \in Nat
    BY LenProperties DEF IndInv, TypeOK
  <1>2. 1..(next - 1) = Indices
    BY <1>1 DEF Indices
  <1> QED
    BY <1>2 DEF IndInv, Scanned, FatalLines

(* At the end the first fatal line has decided.                            *)
LEMMA FatalDecided ==
    ASSUME IndInv, Done
    PROVE  FirstFatalDecides
  <1>1. CASE /\ outcome = Database /\ next \in Indices
             /\ Fatal(next) /\ text[next].kind = "error"
    BY <1>1, StopsAtFirst DEF FirstFatalDecides
  <1>2. CASE /\ outcome = Protocol /\ next \in Indices
             /\ Fatal(next) /\ text[next].kind # "error"
    BY <1>2, StopsAtFirst DEF FirstFatalDecides
  <1>3. CASE /\ next = Len(text) + 1
             /\ outcome = IF table # NoTable THEN table
                          ELSE IF result # NoResult THEN result ELSE Ok
    <2>1. FatalLines = {}
      BY <1>3, NoFatalAtEnd
    <2>2. outcome \in Table \cup Result \cup {Ok}
      BY <1>3 DEF IndInv, TypeOK
    <2>3. outcome.kind \notin {"database", "protocol"}
      BY <2>2 DEF Table, Result, Ok
    <2> QED
      BY <2>1, <2>3 DEF FirstFatalDecides
  <1> QED
    BY <1>1, <1>2, <1>3 DEF IndInv, Verdict, Done

(* A response fails if and only if some line of it is fatal, and as a      *)
(* database error exactly if the first fatal line is a '!' line.           *)
THEOREM FirstFatal == Spec => []FirstFatalDecides
  <1>1. IndInv => FirstFatalDecides
    BY FatalDecided DEF FirstFatalDecides
  <1> QED
    BY <1>1, ParserInductive, PTL

(* Without a table and without a fatal line, the response is what the last *)
(* &2, &3 or &4 line stands for, and Ok if there is none.                  *)
THEOREM LastResult == Spec => []LastResultWins
  <1>1. ASSUME IndInv, Done, FatalLines = {}, OfKind({"table"}) = {}
        PROVE  IF OfKind(IsResult) = {} THEN outcome = Ok
               ELSE Means(outcome, text[Last(OfKind(IsResult))])
    <2>1. ~(next \in Indices /\ Fatal(next))
      BY <1>1 DEF FatalLines
    <2>2. /\ next = Len(text) + 1
          /\ outcome = IF table # NoTable THEN table
                       ELSE IF result # NoResult THEN result ELSE Ok
      BY <1>1, <2>1 DEF IndInv, Verdict, Done
    <2>3. Len(text) \in Nat
      BY <1>1, LenProperties DEF IndInv, TypeOK
    <2>4. 1..(next - 1) = Indices
      BY <2>2, <2>3 DEF Indices
    <2>5. Before({"table"}) = {} /\ Before(IsResult) = OfKind(IsResult)
      BY <1>1, <2>4 DEF Before, OfKind
    <2>6. table = NoTable
      BY <1>1, <2>5 DEF IndInv, TableSeen
    <2>7. CASE OfKind(IsResult) = {}
      BY <1>1, <2>2, <2>5, <2>6, <2>7 DEF IndInv, ResultSeen
    <2>8. CASE OfKind(IsResult) # {}
      <3>1. result # NoResult
        BY <1>1, <2>5, <2>8 DEF IndInv, ResultSeen
      <3>2. PICK k \in OfKind(IsResult) :
              (\A j \in OfKind(IsResult) : j <= k) /\ Means(result, text[k])
        BY <1>1, <2>5, <3>1 DEF IndInv, ResultSeen
      <3>3. \A j \in OfKind(IsResult) : j \in Nat
        BY <2>3 DEF OfKind, Indices
      <3>4. \A m \in OfKind(IsResult) :
              (\A j \in OfKind(IsResult) : j <= m) => m = k
        BY <3>2, <3>3
      <3>5. Last(OfKind(IsResult)) = k
        BY <3>2, <3>4 DEF Last
      <3> QED
        BY <2>2, <2>6, <2>8, <3>1, <3>2, <3>5
    <2> QED
      BY <2>7, <2>8
  <1>2. IndInv => LastResultWins
    BY <1>1 DEF LastResultWins
  <1> QED
    BY <1>2, ParserInductive, PTL

-----------------------------------------------------------------------------
(* The table being filled.                                                 *)

(* The lines of the given kinds passed since line t.                       *)
Since(t, ks) == {k \in Before(ks) : k > t}

(* Line t opened the table being filled.                                   *)
Opened(t) == /\ t \in Before({"table"})
             /\ \A j \in Before({"table"}) : j <= t

(* Its rows are the tuples passed since, one each, in order.               *)
RowsOf(t) ==
    LET tuples == Since(t, {"tuple"})
    IN  /\ Len(table.rows) = Cardinality(tuples)
        /\ \A k \in tuples : table.rows[Rank(tuples, k)] = text[k].fields
        /\ \A r \in 1..Len(table.rows) : \E k \in tuples : Rank(tuples, k) = r

(* The header lines passed since that give column i the attribute a.       *)
Giving(t, i, a) ==
    {k \in Since(t, {"header"}) : text[k].identity = a
                                    /\ i <= Len(text[k].fields)}

(* Its columns are as many as the longest header line passed since has     *)
(* values, and an attribute is what the last line giving it says.          *)
ColumnsOf(t) ==
    /\ \A k \in Since(t, {"header"}) :
         Len(text[k].fields) <= Len(table.columns)
    /\ \A i \in 1..Len(table.columns) :
         /\ \E k \in Since(t, {"header"}) : i <= Len(text[k].fields)
         /\ \A a \in Attributes :
              \/ Giving(t, i, a) = {} /\ table.columns[i][a] = Unset
              \/ \E k \in Giving(t, i, a) :
                   /\ \A j \in Giving(t, i, a) : j <= k
                   /\ table.columns[i][a] = text[k].fields[i]

(* The table being filled is that of the last table line passed.           *)
TableFilled ==
    table # NoTable =>
        \E t \in Before({"table"}) : /\ Opened(t)
                                     /\ table.count = text[t].count
                                     /\ RowsOf(t) /\ ColumnsOf(t)

FilledInv == IndInv /\ TableFilled

-----------------------------------------------------------------------------
(* Ranks.                                                                  *)

(* A line behind all of S takes the next rank and leaves the others.       *)
LEMMA RankGrows ==
    ASSUME NEW n \in Nat, NEW S \in SUBSET (1..(n - 1))
    PROVE  /\ IsFiniteSet(S) /\ Cardinality(S) \in Nat
           /\ Cardinality(S \cup {n}) = Cardinality(S) + 1
           /\ Rank(S \cup {n}, n) = Cardinality(S) + 1
           /\ \A k \in S : /\ Rank(S \cup {n}, k) = Rank(S, k)
                           /\ Rank(S, k) \in 1..Cardinality(S)
<1>1. IsFiniteSet(1..(n - 1))
  BY FS_Interval
<1>2. IsFiniteSet(S)
  BY <1>1, FS_Subset
<1>3. Cardinality(S) \in Nat
  BY <1>2, FS_CardinalityType
<1>4. n \notin S /\ \A j \in S : j \in Nat /\ j <= n
  OBVIOUS
<1>5. Cardinality(S \cup {n}) = Cardinality(S) + 1
  BY <1>2, <1>4, FS_AddElement
<1>6. {j \in S \cup {n} : j <= n} = S \cup {n}
  <2>1. \A j \in S \cup {n} : j <= n
    BY <1>4
  <2> QED BY <2>1
<1>7. Rank(S \cup {n}, n) = Cardinality(S) + 1
  BY <1>5, <1>6 DEF Rank
<1>8. ASSUME NEW k \in S
      PROVE  Rank(S \cup {n}, k) = Rank(S, k)
             /\ Rank(S, k) \in 1..Cardinality(S)
  <2> DEFINE T == {j \in S : j <= k}
  <2>1. {j \in S \cup {n} : j <= k} = T
    BY <1>8
  <2>2. T \in SUBSET S /\ k \in T
    BY <1>4, <1>8
  <2> HIDE DEF T
  <2>3. IsFiniteSet(T) /\ Cardinality(T) <= Cardinality(S)
    BY <1>2, <2>2, FS_Subset
  <2>4. Cardinality(T) \in Nat /\ Cardinality(T) # 0
    BY <2>2, <2>3, FS_CardinalityType, FS_EmptySet
  <2>5. Cardinality(T) \in 1..Cardinality(S)
    BY <1>3, <2>3, <2>4
  <2>6. Rank(S, k) = Cardinality(T)
    BY DEF Rank, T
  <2>7. Rank(S \cup {n}, k) = Cardinality(T)
    BY <2>1 DEF Rank
  <2> QED BY <2>5, <2>6, <2>7
<1> QED BY <1>2, <1>3, <1>5, <1>7, <1>8

-----------------------------------------------------------------------------
(* One line of the response.                                               *)

(* What TableFilled says of line t.                                        *)
FilledBy(t) == /\ Opened(t) /\ table.count = text[t].count
               /\ RowsOf(t) /\ ColumnsOf(t)

(* TableFilled in terms of the line that opened the table.                 *)
LEMMA FilledIff ==
    TableFilled <=>
        (table # NoTable => \E t \in Before({"table"}) : FilledBy(t))
  BY DEF TableFilled, FilledBy

(* And after a step.                                                       *)
LEMMA FilledNext ==
    (table' # NoTable => \E t \in Before({"table"})' : FilledBy(t)')
    => TableFilled'
  BY DEF TableFilled, FilledBy, NoTable

(* Accepting a line adds it to the lines passed since the table line.      *)
LEMMA SinceGrows ==
    ASSUME next \in Nat \ {0}, Continue, NEW t \in Before({"table"}), NEW ks
    PROVE  /\ text[next].kind \in ks =>
                Since(t, ks)' = Since(t, ks) \cup {next}
           /\ text[next].kind \notin ks => Since(t, ks)' = Since(t, ks)
           /\ Since(t, ks) \in SUBSET (1..(next - 1))
<1>1. t \in 1..(next - 1)
  BY DEF Before
<1>2. next > t
  BY <1>1
<1>3. /\ text[next].kind \in ks => Before(ks)' = Before(ks) \cup {next}
      /\ text[next].kind \notin ks => Before(ks)' = Before(ks)
  BY BeforeGrows
<1>4. Since(t, ks)' = {k \in Before(ks)' : k > t}
  BY DEF Since
<1> QED BY <1>2, <1>3, <1>4 DEF Since, Before

(* A table stays filled while nothing is passed that belongs to it.        *)
LEMMA FilledKept ==
    ASSUME TableFilled, UNCHANGED <<text, table>>,
           Before({"table"})' = Before({"table"}),
           \A t \in Before({"table"}) :
             /\ Since(t, {"tuple"})' = Since(t, {"tuple"})
             /\ Since(t, {"header"})' = Since(t, {"header"})
    PROVE  TableFilled'
<1> SUFFICES ASSUME table' # NoTable
             PROVE  \E t \in Before({"table"})' : FilledBy(t)'
  BY FilledNext
<1>1. PICK t \in Before({"table"}) : FilledBy(t)
  BY FilledIff
<1>2. Opened(t)' /\ table'.count = text'[t].count
  BY <1>1 DEF FilledBy, Opened
<1>3. RowsOf(t)'
  BY <1>1 DEF FilledBy, RowsOf
<1>4. \A i, a : Giving(t, i, a)' = Giving(t, i, a)
  BY DEF Giving
<1>5. ColumnsOf(t)'
  BY <1>1, <1>4 DEF FilledBy, ColumnsOf
<1> QED BY <1>2, <1>3, <1>5 DEF FilledBy

(* A table line opens a table of its own, with nothing passed since.       *)
LEMMA TableLineFills ==
    ASSUME FilledInv, At("table"), Continue,
           table' = [kind |-> "table", count |-> line.count,
                     width |-> line.width, columns |-> <<>>, rows |-> <<>>]
    PROVE  TableFilled'
<1>1. PICK n \in Nat \ {0} : n = next /\ text[n].kind = "table"
  BY CurrentLine DEF FilledInv, IndInv, line
<1>2. text' = text /\ next' - 1 = n
  BY <1>1 DEF Continue
<1>3. Before({"table"})' = Before({"table"}) \cup {n}
  BY <1>1, BeforeGrows
<1>4. Opened(n)' /\ n \in Before({"table"})'
  <2>1. \A j \in Before({"table"}) : j <= n
    BY <1>1 DEF Before
  <2>2. \A j \in Before({"table"})' : j <= n
    BY <1>1, <1>3, <2>1
  <2> QED BY <1>3, <2>2 DEF Opened
<1>5. \A ks : Since(n, ks)' = {}
  <2> TAKE ks
  <2>1. \A k \in Before(ks)' : k \in 1..n
    BY <1>2 DEF Before
  <2> QED BY <1>1, <2>1 DEF Since
<1>6. /\ table'.rows = <<>> /\ table'.columns = <<>>
      /\ table'.count = text'[n].count
  BY <1>1, <1>2 DEF line
<1>7. RowsOf(n)'
  <2>1. Since(n, {"tuple"})' = {} /\ Cardinality({}) = 0
    BY <1>5, FS_EmptySet
  <2>2. Len(table'.rows) = 0 /\ 1..Len(table'.rows) = {}
    BY <1>6
  <2> QED BY <2>1, <2>2 DEF RowsOf
<1>8. ColumnsOf(n)'
  BY <1>5, <1>6 DEF ColumnsOf
<1> QED BY <1>4, <1>6, <1>7, <1>8, FilledNext DEF FilledBy

(* A tuple line adds its fields as the row of the next rank.               *)
LEMMA TupleLineFills ==
    ASSUME FilledInv, At("tuple"), Continue, table # NoTable,
           table' = [table EXCEPT !.rows = Append(@, line.fields)]
    PROVE  TableFilled'
<1>1. PICK n \in Nat \ {0} : n = next /\ text[n].kind = "tuple"
  BY CurrentLine DEF FilledInv, IndInv, line
<1>2. text' = text
  BY DEF Continue
<1>3. PICK t \in Before({"table"}) : FilledBy(t)
  BY FilledIff DEF FilledInv
<1>4. table \in Table /\ table.rows \in Seq(Seq(Values))
  BY DEF FilledInv, IndInv, TypeOK, Table
<1>5. line.fields \in Seq(Values) /\ line.fields = text[n].fields
  BY <1>1, CurrentLine DEF FilledInv, IndInv, Line, line
<1>6. /\ table'.rows = Append(table.rows, text[n].fields)
      /\ table'.columns = table.columns /\ table'.count = table.count
  BY <1>4, <1>5 DEF Table
<1> DEFINE S == Since(t, {"tuple"})
           rows == table.rows
           fields == text[n].fields
<1>7. /\ S \in SUBSET (1..(n - 1))
      /\ Since(t, {"tuple"})' = S \cup {n}
      /\ Since(t, {"header"})' = Since(t, {"header"})
  BY <1>1, SinceGrows
<1>8. Before({"table"})' = Before({"table"})
  BY <1>1, BeforeGrows
<1>9. Opened(t)' /\ table'.count = text'[t].count
  BY <1>2, <1>3, <1>6, <1>8 DEF FilledBy, Opened
<1>10. /\ Len(rows) = Cardinality(S)
       /\ \A k \in S : rows[Rank(S, k)] = text[k].fields
       /\ \A r \in 1..Len(rows) : \E k \in S : Rank(S, k) = r
  BY <1>3 DEF FilledBy, RowsOf
<1>11. /\ Cardinality(S) \in Nat
       /\ Cardinality(S \cup {n}) = Cardinality(S) + 1
       /\ Rank(S \cup {n}, n) = Cardinality(S) + 1
       /\ \A k \in S : /\ Rank(S \cup {n}, k) = Rank(S, k)
                       /\ Rank(S, k) \in 1..Cardinality(S)
  BY <1>7, RankGrows
<1> DEFINE more == Append(rows, fields)
<1>12. /\ Len(more) = Len(rows) + 1 /\ more[Len(rows) + 1] = fields
       /\ \A i \in 1..Len(rows) : more[i] = rows[i]
  <2>1. rows \in Seq(Seq(Values)) /\ fields \in Seq(Values)
    BY <1>4, <1>5
  <2> HIDE DEF rows, fields
  <2>2. Len(more) = Len(rows) + 1
    BY <2>1, AppendProperties
  <2>3. more[Len(rows) + 1] = fields
    BY <2>1, AppendProperties
  <2>4. \A i \in 1..Len(rows) : more[i] = rows[i]
    BY <2>1, AppendProperties
  <2> QED BY <2>2, <2>3, <2>4
<1> HIDE DEF more, S, rows
<1>13. /\ Len(more) = Cardinality(S \cup {n})
       /\ \A k \in S \cup {n} : more[Rank(S \cup {n}, k)] = text[k].fields
  BY <1>10, <1>11, <1>12
<1>14. \A r \in 1..Len(more) : \E k \in S \cup {n} : Rank(S \cup {n}, k) = r
  <2> TAKE r \in 1..Len(more)
  <2>1. CASE r = Len(rows) + 1
    BY <1>10, <1>11, <2>1
  <2>2. CASE r \in 1..Len(rows)
    BY <1>10, <1>11, <2>2
  <2>3. r = Len(rows) + 1 \/ r \in 1..Len(rows)
    BY <1>10, <1>11, <1>12
  <2> QED BY <2>1, <2>2, <2>3
<1>15. RowsOf(t)'
  BY <1>2, <1>6, <1>7, <1>13, <1>14 DEF RowsOf, more, rows
<1>16. ColumnsOf(t)'
  <2>1. \A i, a : Giving(t, i, a)' = Giving(t, i, a)
    BY <1>2, <1>7 DEF Giving
  <2> QED BY <1>2, <1>3, <1>6, <1>7, <2>1 DEF FilledBy, ColumnsOf
<1> QED BY <1>3, <1>8, <1>9, <1>15, <1>16, FilledNext DEF FilledBy

(* apply_header_values: each column keeps what it has but for the one      *)
(* attribute, and new columns start unset.                                 *)
LEMMA ApplyFacts ==
    ASSUME NEW columns \in Seq(Column), NEW values \in Seq(Values),
           NEW identity
    PROVE  LET c == apply_header_values(columns, identity, values) IN
           /\ Len(c) \in Nat
           /\ Len(c) = IF Len(columns) < Len(values) THEN Len(values)
                       ELSE Len(columns)
           /\ \A i \in 1..Len(c), a \in Attributes :
                c[i][a] = IF i <= Len(values) /\ identity = a THEN values[i]
                          ELSE IF i <= Len(columns) THEN columns[i][a]
                          ELSE Unset
<1> DEFINE old == Len(columns)
           size == IF old < Len(values) THEN Len(values) ELSE old
           Resized(i) == IF i <= old THEN columns[i] ELSE DefaultColumn
           f(i) == IF i <= Len(values) /\ identity \in Attributes
                   THEN [Resized(i) EXCEPT ![identity] = values[i]]
                   ELSE Resized(i)
           c == [i \in 1..size |-> f(i)]
<1>1. c = apply_header_values(columns, identity, values)
  BY DEF apply_header_values
<1>2. old \in Nat /\ Len(values) \in Nat /\ size \in Nat
  BY LenProperties
<1>3. DefaultColumn \in Column
  BY LinesAssumption DEF DefaultColumn, Column
<1>4. ASSUME NEW i \in 1..size, NEW a \in Attributes
      PROVE  f(i)[a] = IF i <= Len(values) /\ identity = a THEN values[i]
                       ELSE Resized(i)[a]
  <2>1. Resized(i) \in Column
    BY <1>2, <1>3, <1>4, ElementOfSeq
  <2> HIDE DEF Resized
  <2> QED BY <1>4, <2>1 DEF Column
<1>5. \A i, a : a \in Attributes =>
        Resized(i)[a] = IF i <= old THEN columns[i][a] ELSE Unset
  BY DEF DefaultColumn
<1> HIDE DEF f, size, old, Resized
<1>6. Len(c) = size
  BY <1>2
<1>7. \A i \in 1..size : c[i] = f(i)
  OBVIOUS
<1> HIDE DEF c
<1>8. \A i \in 1..Len(c), a \in Attributes :
        c[i][a] = IF i <= Len(values) /\ identity = a THEN values[i]
                  ELSE IF i <= old THEN columns[i][a] ELSE Unset
  BY <1>4, <1>5, <1>6, <1>7
<1>9. Len(c) \in Nat /\ Len(c) = IF old < Len(values) THEN Len(values) ELSE old
  BY <1>2, <1>6 DEF size
<1> QED BY <1>1, <1>8, <1>9 DEF old

(* A header line gives its attribute to the columns it has values for.     *)
LEMMA HeaderLineFills ==
    ASSUME FilledInv, At("header"), Continue, table # NoTable,
           table' = [table EXCEPT !.columns =
                       apply_header_values(@, line.identity, line.fields)]
    PROVE  TableFilled'
<1>1. PICK n \in Nat \ {0} : n = next /\ text[n].kind = "header"
  BY CurrentLine DEF FilledInv, IndInv, line
<1>2. text' = text
  BY DEF Continue
<1>3. PICK t \in Before({"table"}) : FilledBy(t)
  BY FilledIff DEF FilledInv
<1>4. table \in Table /\ table.columns \in Seq(Column)
  BY DEF FilledInv, IndInv, TypeOK, Table
<1> DEFINE id == text[n].identity
           values == text[n].fields
           old == table.columns
           c == apply_header_values(old, id, values)
           H == Since(t, {"header"})
           G(i, a) == Giving(t, i, a)
<1>5. /\ values \in Seq(Values) /\ Len(values) \in Nat
      /\ line.fields = values /\ line.identity = id
  BY <1>1, CurrentLine, LenProperties DEF FilledInv, IndInv, Line, line
<1>6. /\ table'.rows = table.rows /\ table'.count = table.count
      /\ table'.columns = c
  BY <1>4, <1>5 DEF Table
<1>7. /\ H \in SUBSET (1..(n - 1))
      /\ Since(t, {"header"})' = H \cup {n}
      /\ Since(t, {"tuple"})' = Since(t, {"tuple"})
  BY <1>1, SinceGrows
<1>8. Before({"table"})' = Before({"table"})
  BY <1>1, BeforeGrows
<1>9. Opened(t)' /\ table'.count = text'[t].count
  BY <1>2, <1>3, <1>6, <1>8 DEF FilledBy, Opened
<1>10. RowsOf(t)'
  BY <1>2, <1>3, <1>6, <1>7 DEF FilledBy, RowsOf
<1>11. \A i, a : Giving(t, i, a)' =
         IF id = a /\ i <= Len(values) THEN G(i, a) \cup {n} ELSE G(i, a)
  BY <1>2, <1>7 DEF Giving
<1>12. /\ Len(old) \in Nat /\ Len(c) \in Nat
       /\ Len(c) = IF Len(old) < Len(values) THEN Len(values) ELSE Len(old)
       /\ \A i \in 1..Len(c), a \in Attributes :
            c[i][a] = IF i <= Len(values) /\ id = a THEN values[i]
                      ELSE IF i <= Len(old) THEN old[i][a] ELSE Unset
  <2>1. Len(old) \in Nat
    BY <1>4, LenProperties
  <2> HIDE DEF values, old, id
  <2> QED BY <1>4, <1>5, <2>1, ApplyFacts DEF old
<1>13. /\ \A k \in H : Len(text[k].fields) <= Len(old)
       /\ \A i \in 1..Len(old) :
            /\ \E k \in H : i <= Len(text[k].fields)
            /\ \A a \in Attributes :
                 \/ G(i, a) = {} /\ old[i][a] = Unset
                 \/ \E k \in G(i, a) : /\ \A j \in G(i, a) : j <= k
                                       /\ old[i][a] = text[k].fields[i]
  BY <1>3 DEF FilledBy, ColumnsOf
<1>14. \A k \in H : Len(text[k].fields) \in Nat
  <2>1. \A k \in 1..Len(text) : text[k] \in Line
    BY LinesAssumption, ElementOfSeq DEF FilledInv, IndInv, TypeOK
  <2>2. \A k \in H : k \in 1..Len(text)
    <3>1. Len(text) \in Nat /\ n \in 1..Len(text)
      BY <1>1, CurrentLine DEF FilledInv, IndInv, Indices
    <3> QED BY <1>7, <3>1
  <2> QED BY <2>1, <2>2, LenProperties DEF Line
<1>15. \A i, a : \A j \in G(i, a) : j \in H /\ i <= Len(text[j].fields)
  BY DEF Giving
<1> HIDE DEF id, values, old, c, H, G
<1>16. \A k \in H \cup {n} : Len(text[k].fields) <= Len(c)
  BY <1>5, <1>12, <1>13, <1>14 DEF values
<1>17. ASSUME NEW i \in 1..Len(c)
       PROVE  \E k \in H \cup {n} : i <= Len(text[k].fields)
  <2>1. i <= Len(values) \/ i \in 1..Len(old)
    BY <1>5, <1>12
  <2> QED BY <1>13, <2>1 DEF values
<1>18. ASSUME NEW i \in 1..Len(c), NEW a \in Attributes
       PROVE  \/ Giving(t, i, a)' = {} /\ c[i][a] = Unset
              \/ \E k \in Giving(t, i, a)' :
                   /\ \A j \in Giving(t, i, a)' : j <= k
                   /\ c[i][a] = text[k].fields[i]
  <2>1. CASE id = a /\ i <= Len(values)
    <3>1. Giving(t, i, a)' = G(i, a) \cup {n} /\ c[i][a] = values[i]
      BY <1>11, <1>12, <2>1
    <3>2. \A j \in G(i, a) : j <= n
      BY <1>7, <1>15
    <3> QED BY <3>1, <3>2 DEF values
  <2>2. CASE ~(id = a /\ i <= Len(values)) /\ i <= Len(old)
    <3>1. Giving(t, i, a)' = G(i, a) /\ c[i][a] = old[i][a]
      BY <1>11, <1>12, <2>2
    <3>2. i \in 1..Len(old)
      BY <1>12, <2>2
    <3> QED BY <1>13, <3>1, <3>2
  <2>3. CASE ~(id = a /\ i <= Len(values)) /\ ~(i <= Len(old))
    <3>1. Giving(t, i, a)' = G(i, a) /\ c[i][a] = Unset
      BY <1>11, <1>12, <2>3
    <3>2. G(i, a) = {}
      BY <1>12, <1>13, <1>14, <1>15, <2>3
    <3> QED BY <3>1, <3>2
  <2> QED BY <2>1, <2>2, <2>3
<1>19. ColumnsOf(t)'
  <2>1. Since(t, {"header"})' = H \cup {n} /\ table'.columns = c
    BY <1>6, <1>7
  <2> QED BY <1>2, <1>16, <1>17, <1>18, <2>1 DEF ColumnsOf
<1> QED BY <1>3, <1>8, <1>9, <1>10, <1>19, FilledNext DEF FilledBy

(* Every step of parse_response keeps the table that of its last line.     *)
LEMMA FilledStep ==
    ASSUME FilledInv, [Next]_vars
    PROVE  FilledInv'
<1>1. IndInv' /\ TableFilled /\ TypeOK
  BY IndStep DEF FilledInv, IndInv
<1> SUFFICES TableFilled'
  BY <1>1 DEF FilledInv
<1>2. ASSUME UNCHANGED <<text, next, table>> PROVE TableFilled'
  <2>1. \A ks : Before(ks)' = Before(ks)
    BY <1>2 DEF Before
  <2>2. \A t, ks : Since(t, ks)' = Since(t, ks)
    BY <2>1 DEF Since
  <2> QED BY <1>1, <1>2, <2>1, <2>2, FilledKept
<1>3. ASSUME NEW v, Return(v) PROVE TableFilled'
  BY <1>2, <1>3 DEF Return
<1>4. ASSUME NEW k, k \notin {"table", "tuple", "header"}, At(k), Continue,
             UNCHANGED table
      PROVE  TableFilled'
  <2>1. next \in Nat \ {0} /\ text[next].kind = k
    BY <1>1, <1>4, CurrentLine DEF line
  <2>2. Before({"table"})' = Before({"table"})
    BY <1>4, <2>1, BeforeGrows
  <2>3. \A t \in Before({"table"}) :
          /\ Since(t, {"tuple"})' = Since(t, {"tuple"})
          /\ Since(t, {"header"})' = Since(t, {"header"})
    BY <1>4, <2>1, SinceGrows
  <2> QED BY <1>1, <1>4, <2>2, <2>3, FilledKept DEF Continue
<1>5. CASE UNCHANGED vars
  BY <1>2, <1>5 DEF vars
<1>6. CASE SkipLine
  BY <1>4, <1>6 DEF SkipLine
<1>7. CASE ErrorLine \/ OtherLine \/ Finish
  BY <1>3, <1>7 DEF ErrorLine, OtherLine, Finish
<1>8. CASE TableLine
  BY <1>3, <1>8, TableLineFills DEF TableLine
<1>9. CASE UpdateLine
  BY <1>3, <1>4, <1>9 DEF UpdateLine
<1>10. CASE SchemaLine
  BY <1>4, <1>10 DEF SchemaLine
<1>11. CASE TransactionLine
  BY <1>3, <1>4, <1>11 DEF TransactionLine
<1>12. CASE HeaderLine
  BY <1>3, <1>12, HeaderLineFills DEF HeaderLine
<1>13. CASE TupleLine
  BY <1>3, <1>13, TupleLineFills DEF TupleLine
<1> QED
  BY <1>5, <1>6, <1>7, <1>8, <1>9, <1>10, <1>11, <1>12, <1>13 DEF Next

-----------------------------------------------------------------------------
(* The end of the text.                                                    *)

(* FilledInv holds between any two lines of any response: `table` is what  *)
(* the last table line passed and the header and tuple lines since make it.*)
THEOREM TableInductive == Spec => []FilledInv
<1>1. Init => FilledInv
  BY IndInit DEF Init, FilledInv, TableFilled
<1>2. FilledInv /\ [Next]_vars => FilledInv'
  BY FilledStep
<1> QED BY <1>1, <1>2, PTL DEF Spec

(* The greatest element is the last.                                       *)
LEMMA LastIs ==
    ASSUME NEW S \in SUBSET Nat, NEW k \in S, \A j \in S : j <= k
    PROVE  Last(S) = k
<1>1. \A m \in S : (\A j \in S : j <= m) => m = k
  OBVIOUS
<1> QED BY <1>1 DEF Last

(* The least element is the first.                                         *)
LEMMA FirstIs ==
    ASSUME NEW S \in SUBSET Nat, NEW k \in S, \A j \in S : k <= j
    PROVE  First(S) = k
<1>1. \A m \in S : (\A j \in S : m <= j) => m = k
  OBVIOUS
<1> QED BY <1>1 DEF First

(* A response is a table exactly if it has a table line and no fatal line. *)
LEMMA TableAtEnd ==
    ASSUME IndInv, Done
    PROVE  outcome.kind = "table" <=>
             FatalLines = {} /\ OfKind({"table"}) # {}
<1>1. CASE outcome \in {Database, Protocol} /\ next \in Indices /\ Fatal(next)
  <2>1. FatalLines # {}
    BY <1>1 DEF FatalLines
  <2> QED BY <1>1, <2>1 DEF Database, Protocol
<1>2. CASE /\ next = Len(text) + 1
           /\ outcome = IF table # NoTable THEN table
                        ELSE IF result # NoResult THEN result ELSE Ok
  <2>1. FatalLines = {}
    BY <1>2, NoFatalAtEnd
  <2>2. Len(text) \in Nat /\ Before({"table"}) = OfKind({"table"})
    BY <1>2, LenProperties DEF IndInv, TypeOK, Before, OfKind, Indices
  <2>3. table # NoTable => table.kind = "table"
    BY DEF IndInv, TypeOK, Table
  <2>4. result # NoResult => result.kind # "table"
    BY DEF IndInv, TypeOK, Result
  <2>5. OfKind({"table"}) # {} <=> table # NoTable
    BY <2>2 DEF IndInv, TableSeen
  <2> QED BY <1>2, <2>1, <2>3, <2>4, <2>5 DEF Ok
<1> QED BY <1>1, <1>2 DEF IndInv, Verdict, Done

(* Then it is the accumulated one, and all lines after the last table line *)
(* have gone into it.                                                      *)
LEMMA TableComplete ==
    ASSUME FilledInv, Done, outcome.kind = "table"
    PROVE  /\ outcome = table /\ table \in Table /\ FilledBy(LastTable)
           /\ LastTable \in Indices /\ Len(text) \in Nat
           /\ \A ks : Since(LastTable, ks) = After(ks)
<1>1. IndInv
  BY DEF FilledInv
<1>2. FatalLines = {}
  BY <1>1, TableAtEnd
<1>3. /\ next = Len(text) + 1
      /\ outcome = IF table # NoTable THEN table
                   ELSE IF result # NoResult THEN result ELSE Ok
  BY <1>1, <1>2 DEF IndInv, Verdict, Done, FatalLines
<1>4. table # NoTable /\ outcome = table /\ table \in Table
  BY <1>1, <1>3 DEF IndInv, TypeOK, Result, Ok
<1>5. Len(text) \in Nat
  BY <1>1, LenProperties DEF IndInv, TypeOK
<1>6. \A ks : Before(ks) = OfKind(ks)
  BY <1>3, <1>5 DEF Before, OfKind, Indices
<1>7. PICK t \in Before({"table"}) : FilledBy(t)
  BY <1>4, FilledIff DEF FilledInv
<1>8. LastTable = t
  <2>1. OfKind({"table"}) \in SUBSET Nat
    BY <1>5 DEF OfKind, Indices
  <2>2. t \in OfKind({"table"}) /\ \A j \in OfKind({"table"}) : j <= t
    BY <1>6, <1>7 DEF FilledBy, Opened
  <2> QED BY <2>1, <2>2, LastIs DEF LastTable
<1>9. \A ks : Since(LastTable, ks) = After(ks)
  BY <1>6 DEF Since, After
<1>10. LastTable \in Indices
  BY <1>6, <1>7, <1>8 DEF OfKind
<1> QED BY <1>4, <1>5, <1>7, <1>8, <1>9, <1>10

(* Whatever tables a response has, the caller gets the last one, with its  *)
(* own row count and a row for each tuple line after it, in their order.   *)
THEOREM LastTableReturned == Spec => []LastTableWins
<1>1. ASSUME FilledInv, Done, FatalLines = {}, OfKind({"table"}) # {}
      PROVE  /\ outcome.kind = "table"
             /\ outcome.count = text[LastTable].count
             /\ Len(outcome.rows) = Cardinality(After({"tuple"}))
             /\ \A k \in After({"tuple"}) :
                  outcome.rows[Rank(After({"tuple"}), k)] = text[k].fields
  <2>1. outcome.kind = "table"
    BY <1>1, TableAtEnd DEF FilledInv
  <2>2. outcome = table /\ FilledBy(LastTable)
        /\ Since(LastTable, {"tuple"}) = After({"tuple"})
    BY <1>1, <2>1, TableComplete
  <2> QED BY <2>1, <2>2 DEF FilledBy, RowsOf
<1>2. FilledInv => LastTableWins
  BY <1>1 DEF LastTableWins
<1> QED BY <1>2, TableInductive, PTL

(* The columns are as many as the longest header line after the last table *)
(* line has values, each attribute what the last line giving it says,      *)
(* whatever the order of the header lines.                                 *)
THEOREM HeadersMakeColumns == Spec => []ColumnsFromHeaders
<1>1. ASSUME FilledInv, Done, outcome.kind = "table"
      PROVE  ColumnsFromHeaders
  <2> DEFINE headers == After({"header"})
             Sets(i, a) == {k \in headers : text[k].identity = a
                                            /\ i <= Len(text[k].fields)}
  <2>1. outcome = table /\ ColumnsOf(LastTable)
        /\ Since(LastTable, {"header"}) = headers
    BY <1>1, TableComplete DEF FilledBy
  <2>2. \A i, a : Giving(LastTable, i, a) = Sets(i, a)
    BY <2>1 DEF Giving
  <2>3. headers \in SUBSET Nat
    BY <1>1, TableComplete DEF After, OfKind, Indices
  <2>4. \A i, a : Sets(i, a) \in SUBSET Nat
    BY <2>3
  <2> HIDE DEF Sets, headers
  <2>5. ASSUME NEW i \in 1..Len(table.columns), NEW a \in Attributes
        PROVE  table.columns[i][a] =
                 IF Sets(i, a) = {} THEN Unset
                 ELSE text[Last(Sets(i, a))].fields[i]
    <3>1. CASE Sets(i, a) = {} /\ table.columns[i][a] = Unset
      BY <3>1
    <3>2. CASE \E k \in Sets(i, a) :
                 /\ \A j \in Sets(i, a) : j <= k
                 /\ table.columns[i][a] = text[k].fields[i]
      BY <2>4, <3>2, LastIs
    <3> QED BY <2>1, <2>2, <2>5, <3>1, <3>2 DEF ColumnsOf
  <2>6. /\ \A k \in headers : Len(text[k].fields) <= Len(table.columns)
        /\ \A i \in 1..Len(table.columns) :
             \E k \in headers : i <= Len(text[k].fields)
    BY <2>1 DEF ColumnsOf
  <2> QED BY <2>1, <2>5, <2>6 DEF ColumnsFromHeaders, Sets, headers
<1>2. FilledInv => ColumnsFromHeaders
  BY <1>1 DEF ColumnsFromHeaders
<1> QED BY <1>2, TableInductive, PTL

-----------------------------------------------------------------------------
(* What the caller reads.                                                  *)

(* run_query on a table: its rows, then the summary.                       *)
LEMMA TableStream ==
    ASSUME NEW o \in Table
    PROVE  LET items == run_query(o)
               n == Len(o.rows)
           IN  /\ n \in Nat /\ Len(items) = n + 1
               /\ DOMAIN items = 1..(n + 1)
               /\ \A i \in 1..n :
                    items[i] = Row([columns |-> o.columns,
                                    values |-> o.rows[i]])
               /\ items[n + 1] = Summary(o.count)
<1> DEFINE n == Len(o.rows)
           R(i) == Row([columns |-> o.columns, values |-> o.rows[i]])
           rows == [i \in 1..n |-> R(i)]
           last == Summary(o.count)
           S == {R(i) : i \in 1..n} \cup {last}
<1>1. o.kind = "table" /\ n \in Nat
  BY LenProperties DEF Table
<1>2. \A i \in 1..n : from_table_result(o)[i] =
        [columns |-> o.columns, values |-> o.rows[i]]
  BY DEF from_table_result
<1>3. run_query(o) = [i \in 1..n |-> Row(from_table_result(o)[i])] \o <<last>>
  BY <1>1 DEF run_query
<1>4. [i \in 1..n |-> Row(from_table_result(o)[i])] = rows
  BY <1>2
<1>5. \A i \in 1..n : R(i) \in S
  OBVIOUS
<1>6. last \in S
  OBVIOUS
<1> HIDE DEF n, R, last, S
<1>7. rows \in Seq(S) /\ Len(rows) = n /\ \A i \in 1..n : rows[i] = R(i)
  BY <1>1, <1>5
<1> HIDE DEF rows
<1>8. <<last>> \in Seq(S) /\ Len(<<last>>) = 1 /\ <<last>>[1] = last
  BY <1>6
<1> DEFINE items == rows \o <<last>>
<1>9. /\ Len(items) = n + 1 /\ DOMAIN items = 1..(n + 1)
      /\ \A i \in 1..n : items[i] = R(i)
      /\ items[n + 1] = last
  BY <1>1, <1>7, <1>8
<1> HIDE DEF items
<1>10. run_query(o) = items
  BY <1>3, <1>4 DEF items
<1> QED BY <1>1, <1>9, <1>10 DEF n, R, last

(* run_query on anything else: a single item.                              *)
LEMMA ShortStream ==
    ASSUME NEW o, o.kind # "table"
    PROVE  LET items == run_query(o) IN
           /\ Len(items) = 1 /\ DOMAIN items = {1}
           /\ items[1].kind = IF o.kind \in {"database", "protocol"}
                              THEN "failure" ELSE "summary"
<1>1. CASE o.kind \in {"database", "protocol"}
  <2>1. run_query(o) = <<[kind |-> "failure"]>>
    BY <1>1 DEF run_query
  <2> QED BY <1>1, <2>1
<1>2. CASE o.kind \notin {"database", "protocol"}
  <2>1. PICK s : run_query(o) = <<s>> /\ s.kind = "summary"
    <3>1. \A x : Summary(x).kind = "summary"
      BY DEF Summary
    <3>2. \/ run_query(o) = <<Summary(o.affected)>>
          \/ run_query(o) = <<Summary(0)>>
      BY <1>2 DEF run_query
    <3> QED BY <3>1, <3>2
  <2> QED BY <1>2, <2>1
<1> QED BY <1>1, <1>2

(* fetch_optional stops at the first item when that is a row or a failure. *)
LEMMA OptionalFirst ==
    ASSUME NEW o, NEW n \in Nat, DOMAIN run_query(o) = 1..n, n > 0,
           run_query(o)[1].kind \in {"row", "failure"}
    PROVE  fetch_optional(o) = run_query(o)[1]
<1> DEFINE items == run_query(o)
           Stops(i) == items[i].kind \in {"row", "failure"}
           Stop(i) == Stops(i) /\ \A j \in 1..(i - 1) : ~Stops(j)
<1>1. 1 \in DOMAIN items /\ Stop(1)
  OBVIOUS
<1>2. \A i \in DOMAIN items : Stop(i) => i = 1
  BY <1>1
<1>3. (CHOOSE i \in DOMAIN items : Stop(i)) = 1
  BY <1>1, <1>2
<1>4. fetch_optional(o) = items[CHOOSE i \in DOMAIN items : Stop(i)]
  BY <1>1 DEF fetch_optional
<1> QED BY <1>3, <1>4

(* And yields nothing when there is none.                                  *)
LEMMA OptionalNone ==
    ASSUME NEW o, \A i \in DOMAIN run_query(o) :
                    run_query(o)[i].kind \notin {"row", "failure"}
    PROVE  fetch_optional(o) = [kind |-> "none"]
  BY DEF fetch_optional

(* fetch_many yields every row of the last table in order and then one     *)
(* summary with the server's count, or a single failure; fetch_optional    *)
(* never returns a row of a response that fails.                           *)
THEOREM StreamsWhole == Spec => []StreamWhole
<1> DEFINE items == run_query(outcome)
           n == Len(items)
<1>1. ASSUME FilledInv, Done PROVE StreamWhole
  <2>1. IndInv
    BY <1>1 DEF FilledInv
  <2>2. CASE outcome.kind = "table"
    <3>1. /\ outcome \in Table
          /\ Len(outcome.rows) = Cardinality(After({"tuple"}))
          /\ outcome.count = text[LastTable].count /\ FatalLines = {}
      BY <1>1, <2>1, <2>2, TableComplete, TableAtEnd DEF FilledBy, RowsOf
    <3> DEFINE m == Len(outcome.rows)
    <3>2. /\ m \in Nat /\ n = m + 1 /\ DOMAIN items = 1..(m + 1)
          /\ \A i \in 1..m : items[i] = Row([columns |-> outcome.columns,
                                             values |-> outcome.rows[i]])
          /\ items[m + 1] = Summary(outcome.count)
      BY <3>1, TableStream
    <3>3. /\ \A r : Row(r).kind = "row"
          /\ \A c : Summary(c).kind = "summary" /\ Summary(c).rows_affected = c
      BY DEF Row, Summary
    <3> HIDE DEF m, items
    <3>4. m > 0 => fetch_optional(outcome) = items[1]
      <4>1. m > 0 => items[1].kind = "row"
        <5>1. m > 0 => 1 \in 1..m
          BY <3>2
        <5> QED BY <3>2, <3>3, <5>1
      <4>2. m + 1 \in Nat /\ m + 1 > 0
        BY <3>2
      <4> QED BY <3>2, <4>1, <4>2, OptionalFirst DEF items
    <3>5. m = 0 => fetch_optional(outcome) = [kind |-> "none"]
      <4>1. m = 0 => \A i \in DOMAIN items :
                       items[i].kind \notin {"row", "failure"}
        BY <3>2, <3>3
      <4> QED BY <4>1, OptionalNone DEF items
    <3>6. fetch_optional(outcome) =
            IF n > 1 THEN items[1] ELSE [kind |-> "none"]
      BY <3>2, <3>4, <3>5
    <3>7. items[n].kind = "summary" /\ items[n].rows_affected = outcome.count
      BY <3>2, <3>3
    <3>8. n - 1 = m /\ n = Cardinality(After({"tuple"})) + 1
      BY <3>1, <3>2 DEF m
    <3> HIDE DEF n
    <3> QED BY <3>1, <3>2, <3>6, <3>7, <3>8 DEF StreamWhole, items, n
  <2>3. CASE outcome.kind # "table"
    <3>1. /\ n = 1 /\ DOMAIN items = {1}
          /\ items[1].kind = IF outcome.kind \in {"database", "protocol"}
                             THEN "failure" ELSE "summary"
      BY <2>3, ShortStream
    <3>2. outcome.kind \in {"database", "protocol"} <=> FatalLines # {}
      <4>1. FirstFatalDecides
        BY <1>1, <2>1, FatalDecided
      <4> QED BY <1>1, <4>1 DEF FirstFatalDecides, Database, Protocol
    <3>3. FatalLines = {} => OfKind({"table"}) = {}
      BY <1>1, <2>1, <2>3, TableAtEnd
    <3> HIDE DEF items
    <3>4. CASE FatalLines # {}
      <4>1. /\ items[1].kind = "failure"
            /\ \E k \in Nat : k > 0 /\ DOMAIN items = 1..k
        BY <3>1, <3>2, <3>4
      <4>2. fetch_optional(outcome) = items[1]
        BY <4>1, OptionalFirst DEF items
      <4> QED BY <3>1, <3>4, <4>1, <4>2 DEF StreamWhole, items
    <3>5. CASE FatalLines = {}
      <4>1. items[1].kind = "summary"
        BY <3>1, <3>2, <3>5
      <4>2. fetch_optional(outcome) = [kind |-> "none"]
        BY <3>1, <4>1, OptionalNone DEF items
      <4> QED BY <3>1, <3>3, <3>5, <4>1, <4>2 DEF StreamWhole, items
    <3> QED BY <3>4, <3>5
  <2> QED BY <2>2, <2>3
<1>2. FilledInv => StreamWhole
  BY <1>1 DEF StreamWhole
<1> QED BY <1>2, TableInductive, PTL

(* A nonempty set of numbers has a first element.                          *)
LEMMA FirstExists ==
    ASSUME NEW S \in SUBSET Nat, S # {}
    PROVE  First(S) \in S /\ \A j \in S : First(S) <= j
<1> DEFINE Less == OpToRel(<, Nat)
<1>1. IsWellFoundedOn(Less, Nat)
  BY NatLessThanWellFounded
<1>2. \A x, y \in Nat : x < y => <<x, y>> \in Less
  BY DEF OpToRel
<1> HIDE DEF Less
<1>3. PICK k \in S : \A j \in S : <<j, k>> \notin Less
  BY <1>1, WFMin
<1>4. \A j \in S : k <= j
  <2> TAKE j \in S
  <2>1. j \in Nat /\ k \in Nat /\ ~(j < k)
    BY <1>2, <1>3
  <2> QED BY <2>1
<1>5. First(S) = k
  BY <1>4, FirstIs
<1> QED BY <1>4, <1>5

(* A well-formed table is as wide as declared, in its columns and its rows,*)
(* and its columns have the names the last name line gives them.           *)
LEMMA WellFormedWidth ==
    ASSUME FilledInv, Done, outcome.kind = "table", WellFormed
    PROVE  LET width == text[LastTable].width IN
           /\ width \in Nat /\ Len(outcome.columns) = width
           /\ \A r \in 1..Len(outcome.rows) : Len(outcome.rows[r]) = width
           /\ \A i \in 1..width : outcome.columns[i]["name"] = NameOf(i)
<1> DEFINE width == text[LastTable].width
           headers == After({"header"})
           tuples == After({"tuple"})
<1>1. /\ outcome = table /\ table \in Table /\ Len(text) \in Nat
      /\ RowsOf(LastTable) /\ ColumnsOf(LastTable)
      /\ LastTable \in Indices
      /\ Since(LastTable, {"header"}) = headers
      /\ Since(LastTable, {"tuple"}) = tuples
  BY TableComplete DEF FilledBy
<1>2. width \in Nat
  <2>1. text[LastTable] \in Line
    BY <1>1, LinesAssumption, ElementOfSeq
    DEF FilledInv, IndInv, TypeOK, Indices
  <2> QED BY <2>1 DEF Line
<1>3. \A k \in headers \cup tuples : Len(text[k].fields) = width
  BY DEF WellFormed, After, OfKind
<1>4. headers # {} /\ headers \in SUBSET Nat
  BY <1>1 DEF WellFormed, After, OfKind, Indices
<1>5. Len(table.columns) \in Nat
  BY <1>1, LenProperties DEF Table
<1>6. /\ \A k \in headers : Len(text[k].fields) <= Len(table.columns)
      /\ \A i \in 1..Len(table.columns) :
           /\ \E k \in headers : i <= Len(text[k].fields)
           /\ \A a \in Attributes :
                \/ /\ Giving(LastTable, i, a) = {}
                   /\ table.columns[i][a] = Unset
                \/ \E k \in Giving(LastTable, i, a) :
                     /\ \A j \in Giving(LastTable, i, a) : j <= k
                     /\ table.columns[i][a] = text[k].fields[i]
  BY <1>1 DEF ColumnsOf
<1>7. /\ \A k \in tuples : table.rows[Rank(tuples, k)] = text[k].fields
      /\ \A r \in 1..Len(table.rows) : \E k \in tuples : Rank(tuples, k) = r
  BY <1>1 DEF RowsOf
<1> DEFINE lines == {k \in headers : text[k].identity = "name"}
<1>8. \A i : NameOf(i) = IF lines = {} THEN Unset
                         ELSE text[Last(lines)].fields[i]
  BY DEF NameOf
<1>9. \A i \in 1..width : Giving(LastTable, i, "name") = lines
  <2>1. \A k \in headers : Len(text[k].fields) = width
    BY <1>3
  <2> HIDE DEF width, headers
  <2> QED BY <1>1, <1>2, <2>1 DEF Giving
<1>10. lines \in SUBSET Nat
  BY <1>4
<1> HIDE DEF width, headers, tuples, lines
<1>11. Len(table.columns) = width
  <2>1. width <= Len(table.columns)
    <3>1. PICK k \in headers : Len(text[k].fields) <= Len(table.columns)
      BY <1>4, <1>6
    <3>2. Len(text[k].fields) = width
      BY <1>3
    <3> QED BY <3>1, <3>2
  <2>2. ~(width < Len(table.columns))
    <3> SUFFICES ASSUME width < Len(table.columns) PROVE FALSE
      OBVIOUS
    <3>1. Len(table.columns) \in 1..Len(table.columns)
      BY <1>2, <1>5
    <3>2. PICK k \in headers : Len(table.columns) <= Len(text[k].fields)
      BY <1>6, <3>1
    <3> QED BY <1>2, <1>3, <1>5, <3>2
  <2> QED BY <1>2, <1>5, <2>1, <2>2
<1>12. \A r \in 1..Len(table.rows) : Len(table.rows[r]) = width
  BY <1>3, <1>7
<1>13. ASSUME NEW i \in 1..width PROVE table.columns[i]["name"] = NameOf(i)
  <2>1. "name" \in Attributes
    BY DEF Attributes
  <2>2. \/ lines = {} /\ table.columns[i]["name"] = Unset
        \/ \E k \in lines : /\ \A j \in lines : j <= k
                            /\ table.columns[i]["name"] = text[k].fields[i]
    BY <1>6, <1>9, <1>11, <1>13, <2>1
  <2>3. CASE lines = {}
    BY <1>8, <2>2, <2>3
  <2>4. CASE lines # {}
    <3>1. PICK k \in lines : /\ \A j \in lines : j <= k
                             /\ table.columns[i]["name"] = text[k].fields[i]
      BY <2>2, <2>4
    <3>2. Last(lines) = k
      BY <1>10, <3>1, LastIs
    <3> QED BY <1>8, <2>4, <3>1, <3>2
  <2> QED BY <2>3, <2>4
<1> QED BY <1>1, <1>2, <1>11, <1>12, <1>13 DEF width

(* In a well-formed table every index below the declared width reads the   *)
(* tuple's field and every other is out of bounds; a name reads the first  *)
(* column of that name: try_get_raw's unchecked access never goes wrong.   *)
THEOREM WellFormedTablesRead == Spec => []WellFormedReads
<1>1. ASSUME FilledInv, Done, outcome.kind = "table", WellFormed,
             NEW r \in 1..Len(outcome.rows)
      PROVE  LET row == from_table_result(outcome)[r]
                 width == text[LastTable].width
             IN  /\ \A index \in 0..(width + 1) :
                      try_get_raw(row, index) =
                          IF index < width THEN outcome.rows[r][index + 1]
                          ELSE "out of bounds"
                 /\ \A name \in Values :
                      LET named == {i \in 1..width : NameOf(i) = name}
                      IN  try_get_by_name(row, name) =
                            IF named = {} THEN "not found"
                            ELSE outcome.rows[r][First(named)]
  <2> DEFINE row == from_table_result(outcome)[r]
             width == text[LastTable].width
  <2>1. /\ row.columns = outcome.columns /\ row.values = outcome.rows[r]
    BY <1>1 DEF from_table_result
  <2>2. /\ width \in Nat /\ Len(row.columns) = width
        /\ Len(row.values) = width
        /\ \A i \in 1..width : row.columns[i]["name"] = NameOf(i)
    BY <1>1, <2>1, WellFormedWidth
  <2> HIDE DEF row, width
  <2>3. \A index \in Nat :
          try_get_raw(row, index) = IF index < width THEN row.values[index + 1]
                                    ELSE "out of bounds"
    <3> TAKE index \in Nat
    <3>1. CASE index < width
      <4>1. ~(index >= Len(row.columns)) /\ ~(index >= Len(row.values))
        BY <2>2, <3>1
      <4> QED BY <3>1, <4>1 DEF try_get_raw
    <3>2. CASE ~(index < width)
      <4>1. index >= Len(row.columns)
        BY <2>2, <3>2
      <4> QED BY <3>2, <4>1 DEF try_get_raw
    <3> QED BY <3>1, <3>2
  <2>4. ASSUME NEW name \in Values
        PROVE  LET named == {i \in 1..width : NameOf(i) = name}
               IN  try_get_by_name(row, name) =
                     IF named = {} THEN "not found"
                     ELSE row.values[First(named)]
    <3> DEFINE named == {i \in 1..width : NameOf(i) = name}
               places == {i \in 1..Len(row.columns) :
                            row.columns[i]["name"] = name}
    <3>1. places = named
      BY <2>2
    <3>2. try_get_by_name(row, name) =
            IF places = {} THEN "not found"
            ELSE try_get_raw(row, First(places) - 1)
      BY DEF try_get_by_name, First
    <3>3. named \in SUBSET Nat /\ \A i \in named : i \in 1..width
      BY <2>2
    <3> HIDE DEF named, places
    <3>4. CASE named # {}
      <4>1. First(named) \in 1..width
        BY <3>3, <3>4, FirstExists
      <4> DEFINE k == First(named)
      <4>2. k - 1 \in Nat /\ k - 1 < width /\ (k - 1) + 1 = k
        BY <2>2, <4>1
      <4> HIDE DEF k
      <4>3. try_get_raw(row, k - 1) = row.values[k]
        BY <2>3, <4>2
      <4> QED BY <3>1, <3>2, <3>4, <4>3 DEF k, named
    <3>5. CASE named = {}
      BY <3>1, <3>2, <3>5 DEF named
    <3> QED BY <3>4, <3>5
  <2>5. \A index \in 0..(width + 1) :
          try_get_raw(row, index) =
              IF index < width THEN outcome.rows[r][index + 1]
              ELSE "out of bounds"
    <3>1. \A index \in 0..(width + 1) : index \in Nat
      BY <2>2
    <3> QED BY <2>1, <2>3, <3>1, Zenon
  <2>6. \A name \in Values :
          LET named == {i \in 1..width : NameOf(i) = name}
          IN  try_get_by_name(row, name) =
                IF named = {} THEN "not found"
                ELSE outcome.rows[r][First(named)]
    BY <2>1, <2>4, Zenon
  <2> QED BY <2>5, <2>6, Zenon DEF row, width
<1>2. FilledInv => WellFormedReads
  BY <1>1 DEF WellFormedReads
<1> QED BY <1>2, TableInductive, PTL
=============================================================================
