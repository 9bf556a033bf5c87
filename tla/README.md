# A TLA+ model of the MonetDB driver for sqlx

The driver speaks MAPI, MonetDB's text protocol, over one TCP stream per
connection and plugs into sqlx-core.  This directory holds TLA+ modules that
model its protocol engine, TLC configurations that check them on small
instances, and TLAPS proofs of the properties that matter most: from the bytes
of a block up to tasks that share connections through a pool.

To run: `tlc -config MCMonetConnection.cfg MCMonetConnection` (likewise for the
other configurations) and `tlapm M.tla` for each of the proof modules
`MonetConnectionProofs`, `MonetPoolProofs`, `MapiHandshakeProofs`,
`QueryResponseProofs`, `MapiFramingProofs`, `MessageQueueProofs`,
`ParameterBindingProofs` and `SequenceLemmas`.

## 1. The system

| component | source | state | operations |
|---|---|---|---|
| connection | `connection.rs`, `protocol/mod.rs` | the `BufferedSocket` (write buffer, read buffer) and nothing else | `run_query`, `ping`, `flush`, `close`, `close_hard` |
| handshake | `protocol/mod.rs`, `protocol/handshake.rs` | loop pass, current address, the stream and `reused_stream` | `perform_handshake`, `parse_challenge`, `compute_password_hash`, `build_login_response`, `parse_login_response`, `parse_redirect` |
| response parsing, rows | `protocol/response.rs`, `connection.rs`, `row.rs` | the accumulators `table` and `result` | `parse_response` and its line parsers, `from_table_result`, `try_get_raw` |
| block framing | `protocol/framing.rs` | none | `encode_message`, `decode_message`, header encoding |
| argument binding | `arguments.rs`, `types/str.rs` | the list of rendered literals | `add`, `substitute_into`, `encode_string_literal`, `encode_query` |
| connect options | `options.rs` | a record of settings | `from_url`, `connect` |
| scalar types | `types/*`, `value.rs`, `type_info.rs` | none | `Encode`, `Decode`, `compatible` of each type |
| pool | sqlx-core (external) | idle connections, waiting tasks | `acquire`, release; calls `connect`, `ping`, `close_hard` |
| transactions, prepared statements | `transaction.rs`, `statement.rs` | none | `unimplemented!()` |
| sqlx glue | `lib.rs`, `database.rs`, `column.rs`, `error.rs` | none | associated types, error kinds |

**Interaction.**  `connect` runs the handshake and hands its stream to a
`MonetConnection`.  A query renders its arguments into the SQL text, frames the
text into blocks, writes and flushes them, reads blocks up to the one with the
last bit, decodes the text with `parse_response` and turns a table into rows.
The connection is owned by one task at a time (`&mut self`); the server and the
network run concurrently with it, and a pool may pass the connection from one
owner to the next.

**What is hard.**

* *Cancellation.*  Every socket call is an await point and the caller may drop
  the future there (a timeout, a `select!`, a row stream not read to its end).
  Requests and answers are matched by position only, and nothing in the
  connection records that a request was left unanswered.
* *Partial I/O.*  A flush may take several writes and stop anywhere; a message
  comes in several blocks, each in two reads.
* *Failure.*  The peer may vanish with data in any of the four buffers between
  the two ends.
* *Redirect loops.*  A handshake may reuse its stream or open another one, up to
  a limit, with a fresh challenge each time.
* *Sharing.*  The pool decides with one `ping` whether a connection goes to the
  next task; what an earlier task left behind (unread answers, statements
  not executed yet, a dead socket) shows in that ping or not at all.
* *Text all the way.*  A bound value passes through two encodings and three
  readers (the server's lexer, the splitting of the tuple line, the decoder of
  the type asked for), each with characters of its own that it treats specially.
* *One-pass parsing* of a line protocol in which several tables, results and
  errors may follow each other.

The correctness questions per component: the connection gives each caller the
answer to its own request, sends statements in order and once, and ends; the
handshake answers the latest challenge, holds one socket, hands over a clean
stream and ends; the parser returns what the whole text says, and reading a row
yields a value or an error; a bound value reaches the server and comes back as
it was; a task that waits for a connection gets one, and gets no other task's
answers, errors or unexecuted statements beyond what the driver can tell.

## 2. Modules

| module | models | checked by | proved in |
|---|---|---|---|
| `MonetConnection` | the connection, its two buffers, the socket, the server | `MCMonetConnection` | `MonetConnectionProofs` |
| `MapiHandshake` | `perform_handshake` against any server the code distinguishes | `MCMapiHandshake` | `MapiHandshakeProofs` |
| `QueryResponse` | `parse_response`, the row stream and column reads | `MCQueryResponse` | `QueryResponseProofs` |
| `MapiFraming` | block headers, `encode_message`, `decode_message`, `read_message`, byte by byte | `MCMapiFraming` | `MapiFramingProofs` |
| `MessageQueue` | what writing and reading messages promise together: a queue | implemented by `MapiFraming` | `MessageQueueProofs` |
| `RequestReply` | what a connection promises its owner | implemented by `MonetConnection`, used by `MonetPool` | `MonetConnectionProofs` |
| `MonetPool` | tasks, the pool, and its connections as `RequestReply` links | `MCMonetPool` | `MonetPoolProofs` |
| `ParameterBinding` | a bound query from `.bind()` to the values read back | `MCParameterBinding` | `ParameterBindingProofs` |

### MonetConnection

`wbuf` is the write buffer (requests, each with the number of socket writes it
still needs), `up` the requests in the socket, `down` the responses in the
socket or the read buffer (each with the number of blocks left), `got` the
blocks in `read_message`'s local vector.  `issued`, `served` and `consumed`
count along that pipeline.  `phase` is the await the owner is at.  One action
per step between awaits:

* `Execute` is `run_query` or `ping` up to its first await.  (`run_query` returns
  before it touches the socket when the number of arguments is wrong: no change
  of state, so no action.)
* `FlushChunk`, `FlushError`, `FlushDone` are one socket write, its failure and
  the end of the flush, for requests, `flush()` and `close()`.
* `ReadHeader`, `ReadPayload` are the two reads of a block; the last bit ends the
  message in `FinishBlock`, which hands it to the caller in `Deliver`.
* `Cancel` drops the future at any of these awaits.  Only locals are lost.  If a
  header had been read, the next read takes payload for a header: `aligned`
  becomes FALSE and `ReadMisaligned` may return anything or never end.  If some
  blocks had been read, the rest of that message may parse as anything (`whole`).
* `Serve` and `Break` are the environment.

`abandoned` and `answers` are history variables.  `shrink_buffers` changes
capacities only and has no action.

### MapiHandshake

One action per await of `perform_handshake`; `attempt` is the pass of
`for _ in 0..10`.  Challenge lines are records of the fields the parser looks
at, redirect targets records of what `parse_redirect` tests.  A password hash is
the triple it is computed from, so two hashes agree exactly if algorithm,
prehash and salt do; the user and the password are constant throughout, and
whether the servers know them is `known`.  The server may answer with every kind
of line the code tells apart, close at any time, or send bytes that are not
UTF-8.

### QueryResponse

The state of the loop in `parse_response`: the index of the line, `table`,
`result`, and the outcome.  A line is a record of its kind and the fields the
code takes from it; `good` is FALSE when the line's own parser fails.  What the
caller gets is defined on the outcome by `run_query`, `fetch_optional`,
`from_table_result` and `try_get_raw`, with the panic of an index past the end
of the values as a value of its own.

### MapiFraming and MessageQueue

One direction of the stream: `out` is the writer's buffer and the socket, `in`
the reader's buffer, `block` and `message` the locals of `read_message`.  A
message is written by `encode_message` or by the server, which may use any
blocks, empty ones included: `Framed` takes the offsets at which the blocks of a
payload end.  Any number of bytes arrives at a time.  A byte has
`ByteBase` values, so that with 4 instead of 256 both bytes of a header are in
use while blocks stay short; arithmetic is modulo `Word`, as on a `u16`.
`MessageQueue` is the abstract specification; `IsQueue` maps the messages
written and not yet returned to its `pending`.  `DropRead` drops `read_message`
at either await.  The bytes of the blocks it had read are gone (`lost`), and the
next call returns the rest of that message as if it were a message; dropped
between a header and its payload, it leaves the stream out of step for good
(`aligned`).  These are the two effects that `MonetConnection` has in terms of
blocks as `whole` and `aligned`.

### RequestReply

The connection without its buffers: one operation at a time, ended by an answer,
an I/O error or by being dropped; `lag` counts the dropped ones, and an answer
is that of the request `lag` places back.  `served` counts the requests the
server has executed (`Execute`), in order and whether or not their operations
were dropped; an answer can be read once its request has been.  `IsRequestReply`
maps `MonetConnection` to it: `busy` is an operation under way, `dead` that no
answer can be read any more (`Exhausted`).  Links are records, so that
`MonetPool` has one per connection.

### MonetPool

The driver has no pool code; sqlx-core's pool is modelled as far as it calls the
driver.  Waiters are served in order, or give up.  A connection is pinged when
it is handed back and, with `test_before_acquire` (the default; the variable
`tests`), before it is handed out again; if the ping returns an error, or its
future is dropped, the connection is closed and its slot is free.  Tasks run
statements, drop them, see them fail, or call `begin` or `prepare`, whose panic
hands the connection back.  `Serve` executes the oldest statement that is not
executed yet, also one whose task has dropped it or has let go of the
connection. `asked`, `broken` and `got` are history.

Whether the server session is in a transaction is not modelled.  The driver
drops the flag of the `&4` line, nothing in it depends on the transaction, and a
connection handed back with one open goes to the next task with it.  No text of
the repository promises anything else.

### ParameterBinding

A text is a sequence of characters of the set `Char`; a keyword, a numeral or a
date is one character, which a string may contain as well.  `Bindable` says what
can be bound: `None`, any string, the two booleans, and numbers, with a sign or
without one, and dates that are written with characters no step gives a meaning
to (`Plain`).  `add`, `substitute_into` and
`encode_query` make the request; `Serve` is the server: it lexes the request,
takes the items of the select list for its row and writes a tuple line;
`parse_tuple_fields`, `unescape_field` and `try_get` read it.  The server is
assumed to read plain string literals as standard SQL has them (a doubled quote
is a quote and nothing else is special), which is what the comment on
`encode_string_literal` relies on, and to write strings between double quotes
with C escapes, as `unescape_field` reports of a live server.

`Separate` is the precondition of the properties: every `?` of the query is a
token by itself and stays one with the literals bound.  It excludes a `?` inside
a string or a comment of the query text, the limitation `substitute_into`
documents; a `?` next to a quote or directly behind another `?`, where two
string literals would be read as one with a quote in the middle; and a negative
number for a `?` directly behind a minus sign.  The last is a limit of the code
that its documentation does not name: in `SELECT 1-?` the sign of `-1` completes
`--`, and the rest of the line is lost in a comment.  With any other value such
a query is read as it should be, which the run checks and
`ArgumentsAlwaysArrive` proves.  `Echo`, of the last two properties, is a query
that is `SELECT` and a list of placeholders.  Neither is meant as more than what
the statements need: queries of the run have the shapes excluded, and without
the exclusion TLC finds the counterexample for each (`SELECT 1-?` with a
negative number, `SELECT ??` with two strings, a list that ends in a comma, a
query that does not begin with `SELECT`).

## 3. Runs

| run | instance | shows |
|---|---|---|
| `connection_safety` | 3 requests, 2 writes per flush, 2 blocks per answer (436k states), fair | `LaggedDelivery`, `NeverTwice`, `ExecutedInOrder`, `GracefulCloseFlushes`, `IndInv`, `OperationsEnd`, and the refinement `IsRequestReply` |
| `own_response` | 2 requests | violated: an answer may be that of an abandoned request |
| `unflushed_idle` | 2 requests | violated: an idle connection may hold unwritten bytes |
| `pool` | 2 tasks, 1 connection, 6 requests on it, with and without `test_before_acquire` (287k states), fair | `PingsAbsorb`, `BrokenNotShared`, `EarlierStatementsExecuted`, `EventuallyServed` |
| `handshake` | 3 passes, 2 hosts, 10 challenge lines, 6 redirect targets (22k states), fair | `SingleSocket`, `NeverMisjudged`, `LoginAnswersOffer`, `HandoverClean`, `RedirectsUsePasses`, `ReconnectFollowed`, `HandshakeEnds` |
| `ten_redirects` | 10 passes, one challenge, a proxy that says retry | violated: the tenth redirect is refused |
| `unlimited_rows` | 2 hosts, one challenge | violated: a refused `Xreply_size` goes unnoticed |
| `named_after_proxy` | a host named after the proxy | violated: the redirect is not followed |
| `response_parsing` | every text of up to 4 lines over 21 lines (530k states) | `FirstFatalDecides`, `LastTableWins`, `LastResultWins`, `ColumnsFromHeaders`, `StreamWhole`, `WellFormedReads`, and `IndInv` |
| `framing` | 2 messages of 0, 2 or 5 bytes, blocks of at most 2, 3 blocks per server message, 2 dropped reads (82k states), fair | `DecodeAgrees`, `FewestBlocks`, `IsQueue`, `AllReceived` |
| `never_panics` | as `response_parsing` | violated: a tuple shorter than the header panics when read |
| `binding` | 9 queries; strings of up to 2 of 13 special characters in the first argument and up to 1 in the second; 10 values of other types (117k states) | `ArgumentsArrive`, `RoundTrip`, `ReadsBack` |

**Bounds.**  Three requests are enough for an abandoned request, one that
receives its answer and one more that is out of step by two; two writes and two
blocks are enough to stop in the middle of each.  Three passes of the handshake
hold a reconnection followed by a retry and the refusal at the limit; the salt
counter wraps at 4, above the number of challenges of one handshake.  Four
lines hold two tables with their headers or tuples, or a table, a header, a
tuple and an error; the lines reach every early return and headers of different
widths.

Messages of no, two and five bytes in blocks of two are the empty message, an
exact multiple and one byte past two blocks, with headers of two digits; two
messages are enough for one to be behind the one being read, and two dropped
reads for a message that loses its front twice.

One pooled connection makes every task that wants one depend on what the other
left behind; six requests are enough for three dropped ones, the two pings
between two tasks and the statement that then gets the other's answer.

A string of two characters has every pair of special characters at its ends and
next to each other: two quotes, a backslash before a quote, a comma before a
tab, two minus signs.  The queries have no, one and two placeholders, a comment
at the end, a `?` in a string, one behind a minus sign and one behind another,
an empty item and a list without its `SELECT`.

**Deadlock** is not checked where a run may end: a closed connection, a finished
handshake, a parsed response, all messages read, a row read.

**Fairness.**  `WF(Client)`: an executor polls a woken future again, and the
kernel completes a read or write that can complete.  `WF(Serve)` / `WF(Server)`:
a live server answers the request it has.  `WF(Transfer)`, `WF(Reader)`: flushed
bytes arrive and a woken reader is polled.  In the pool: waiters are woken
(`TakeIdle`, `Connect`), idle connections expire, the server executes what has
been asked (`Serve`), operations on a connection whose reads are in step end
once their answer has arrived or none will, which is what `OperationsEnd` says
of them, and a task that can let go of its connection again and again does so in
the end (strong fairness of `Release`: it may run any number of statements
first). Nothing is assumed of the owner starting an operation or dropping one,
of the peer vanishing, or of a misframed read ever completing; `OperationsEnd`
therefore excepts connections on which a read was dropped between a header and
its payload, and `EventuallyServed` a pool one of whose connections hangs for
that reason.  The driver has no timeout of its own, so a server that never
answers blocks its caller.

## 4. Disagreements between code and documentation

The six runs marked as violated each state one sentence of the repository's
own comments or README, quoted above the property and in the findings, and TLC's
counterexample shows what the code does instead.  In short: a cancelled
operation shifts all later answers by one (`LaggedDelivery` says by exactly how
much); the write buffer may hold data between operations; nine redirects are
followed, not ten; a refused `Xreply_size` is not noticed; a redirect is
classified by a substring test; and a ragged table panics in `try_get_raw`.
The limit of negative numbers behind a minus sign (section 2) is stated as a
precondition of `ArgumentsArrive` and has no run of its own.

## 5. Proofs

All theorems hold for every value of the constants: any number of requests,
writes, blocks, tasks, connections, passes, hosts and messages, responses of any
length over any lines, bytes and blocks of any size, queries and strings of any
length over any characters.  The assumptions are
`BoundsAssumption`, `PoolAssumption`, `HandshakeAssumption`, `LinesAssumption`,
`FramingAssumption`, `CharAssumption`, `NumeralAssumption` and
`QueryAssumption`: bounds are natural numbers, lines, targets, payloads, queries
and values are of their kind, a challenge line with options has more than six
fields, the pool is no task, a redirect to the proxy
mentions it, a block's length and last bit fit in a header, the characters the
code names are characters, a numeral is none of them and stands for a number of
31 bits, and an integer fits the type it is bound as.  TLC
evaluates them on every run.

**MonetConnectionProofs.**  None of the safety properties is inductive by
itself: that an answer belongs to the request `lag` places earlier depends on
everything still in flight.  `IndInv` adds

* `Control`: which operation may be in which phase, and where the write buffer
  is empty;
* `Numbering`: requests and responses are numbered without a gap along write
  buffer, socket, server, socket, and there are responses only to requests that
  were executed;
* `Accounting`: while reads are in step, `issued - consumed` is the number of
  abandoned requests plus the one being awaited, unless no response can be read
  any more; reads fall out of step only when a request is abandoned;
* `Handed`: the answers given out so far, and that none is ahead of `consumed`.

`Inductive` proves `Spec => []IndInv` with one step per action; `TypeCorrect`,
`Lagged`, `InOrder`, `StatementsInOrder` and `CloseFlushes` follow.

The same module proves `Refinement`: `MonetConnection` implements
`RequestReply`.  `StepSimulation` takes a step from a state with `IndInv` to a
step of the abstract link, action by action: starting and dropping an operation
are themselves, the end of a message is `Reply` when it carries the last block,
errors under a request are `Fail`, `Serve` is `Execute`, and a broken socket is
the abstract `Die` exactly when it leaves nothing to read.  The lag of an answer
is where `Accounting` is needed; that its request has been executed comes from
`Numbering`.

**MonetPoolProofs.**  `PingsAbsorb` alone says nothing about connections nobody
is reading from.  `PoolInv` adds, for every connection: every request has an
issuer and no more operations were dropped than issued (`Counted`); a ping is
under way exactly while the pool has the connection between two tasks
(`Placed`); in every place, the requests of tasks other than the holder lie at
least so many requests back as pings were issued since (`Separated`); the server
is behind by no more than the dropped operations and the one under way
(`CaughtUp`), since every answer that was read had to be given; and a connection
that failed under a task is dead, and with that task or being returned
(`BrokenDead`).  `PoolInductive` is that invariant; `PoolTypeCorrect`,
`PoolAbsorbs` and `PoolIsolatesBroken` follow, and from `Separated` and
`CaughtUp` together `PoolSettles`: what the server has not executed yet lies
behind the pings.  The pool's links are those of `RequestReply`, so `Refinement`
carries these results over to the driver's own connection.

**MapiHandshakeProofs.**  `HandshakeInv` says what can be in the two directions
of the stream at each await (`Turns`), with the login line computed from the
challenge sent last (`Answering`; `OptionLevels` says which options that gives),
and which socket is open (`Sockets`).  Clean handover and never rejecting a
correct password are consequences of the client and the server taking turns, for
any interleaving with the server closing. `HandshakeInductive` is the invariant;
`HandshakeTypeCorrect`, `OneSocket`, `RedirectsBounded`, `PasswordJudged`,
`CleanHandover` and `LoginsAnswer` follow. `ReconnectFollowed` does not hold in
general (run `named_after_proxy`); `ReconnectsUnlessNamed` proves it when no
`monetdb` target contains the proxy's name, so that counterexample is the only
kind there is.

**QueryResponseProofs.**  `IndInv` says that no line passed is fatal, that
`table` is open exactly if a table line was passed, that `result` is what the
last result line passed stands for, and that an outcome is that of the current
line or of the whole text.  Accepting and rejecting a line are lemmas
(`AcceptStep`, `RejectStep`) that the cases of `IndStep` cite;
`OrphanIffNoTable` relates the code's check for a table to the definition of a
fatal line. `ParserInductive`, `ParserType`, `FirstFatal` and `LastResult` are
the results.

In the second half of the module, `FilledInv` adds to it what the open table
holds: the tuples since the last table line, one row each and in order
(`RowsOf`, by the rank of a tuple among them), as many columns as the longest
header since then, and in each attribute of a column what the last header that
reaches it says (`ColumnsOf`).  `TableInductive` is the invariant;
`LastTableReturned`, `HeadersMakeColumns`, `StreamsWhole` and
`WellFormedTablesRead` follow.

**MapiFramingProofs.**  `HeaderRoundTrip`: `decode_header` undoes
`encode_header` for every length a block can have.  `FramedBytes` says, for
payloads and splits of any length, at which place of the framed bytes each
header and each byte of the payload stands, and `ChunksSplit` that
`encode_message`'s chunks are such a split, rounded up.  Both are about
sequences of any length, by the induction of `SequenceLemmas`.  In the same way
`DecodeSolves` shows that the recursion in `decode_message` has a solution, from
the end of the data to its beginning.

**MessageQueueProofs.**  `QueueRefinement`: writing and reading blocks implement
`MessageQueue`.  The queue is not visible in the state: what is on its way is a
sequence of bytes.  `FramingInv` therefore says that there *are* a stream `W`
and marks `S` such that `W` is made of blocks standing at the marks, carrying
the messages written one behind the other (`Laid`), that `in \o out` is the rest
of it (`Carried`), and that the reader is at one of the marks with the message
up to there in its locals, but for what was lost (`Reading`).  Writing prolongs
the stream (`WriteLaid`), the arrival of bytes leaves it, a read moves one mark
on (`BlockRead`); a read dropped at a header keeps its mark, one dropped behind
a header ends `aligned`, and with it the claim.  The marks also tell what
`decode_message` does on any prefix of the stream: it follows the blocks of one
message up to the first with the last bit (`LastBlock`, `DecodeRun`).
`FramingInductive`, `FramingTypeCorrect`, `Fewest`, `QueueRefinement` and
`DecoderAgrees` are the results.

**SequenceLemmas.**  What the other modules need of sequences of any length.
The induction is done without the induction theorems: if a fact fails for some
number it fails for a least one (`LeastNumber`, from the well-foundedness of the
naturals), and that one is refuted; `SequenceInduction` is the form of it for a
set of sequences that has the empty one and, with a sequence, all that are
longer by one element.  `FlattenJoins` and `FlattenPlaces` say what `FlattenSeq`
returns and where each part stands in it, `FlattenAppend` and `JoinedAppend`
what one more part adds.  A recursive function that reads a sequence from left
to right is an automaton; `ReadsExist` shows that such a function exists for
every sequence, `RunsAgree` that there is only one, and `RunsAppend` that behind
one more element it is the step from where it was.

**ParameterBindingProofs.**  `BindingInv` (`BindingInductive`) ties the
variables of the pipeline together: the literals are those of the values bound,
a request sent with arguments has one for every placeholder, the answer is the
server's reading of the request, the row the driver's reading of the answer.
What remains is about texts, and the properties are compositions of five
round trips, each by induction over a sequence of any length:

* Each of the four recursive functions (`Lex`, `Items`, `split`, `unescape`) is
  shown to go element by element (`LexLaws`, `DividingLaws`, `SplittingLaws`,
  `UnescapingLaws`), which makes an induction possible.
* *Literals.*  From any place where a word may begin, the lexer reads the
  literal of a value as that value's tokens (`ValueArrives`).  For a string it
  goes through the doubled quotes character by character (`LexDoubled`) and
  stops in the mode "quote", where only the next character decides whether the
  string has ended.
* *Substitution.*  `Parallel` relates the lexer on the filled query to the
  lexer on the template: same mode, and the template's tokens with the marks
  filled in, but for a string whose end is still open.  `ParallelStep` takes
  both one character further, a placeholder or any other; `ParallelHolds` is the
  induction, `ArgumentsAlwaysArrive` its end.  This is where `Separate` is used:
  the character behind a placeholder ends the literal and does not prolong it,
  and behind a minus sign, which the lexer holds back to see whether a comment
  begins, the literal is read as behind a blank (`BehindDash`) because it does
  not begin with another.
* *The answer.*  The items of the filled list are the values (`EchoedItems`); an
  escaped string has no tab in it (`EscapeHasNoTab`), so the separators are the
  only places where the line is divided (`LineSplits`); the trimming takes off
  only what the server put round a field (`LineRead`), the quotes protecting the
  white space of a string; and `unescape` undoes `Escape` (`UnescapeEscape`).
  `ValuesRoundTrip` follows: no field is mistaken for NULL, or NULL for a field.
* *Decoding.*  `ValuesDecode` goes through the types asked for and the types
  bound; `ValuesReadBack` follows.

The proof found two preconditions that were too weak.  `Separate` allowed `??`
and a placeholder next to a quote, and `Echo` a list ending in a comma: the
first run's queries had neither, and `ParallelStep` and `EchoedItems` could not
be proved for them.  TLC confirms both with the queries added since.

The invariants were checked with TLC on the runs' instances before they were
proved (the two `IndInv`s still are; `PoolInv` on 287k states, `HandshakeInv` on
22k, `FilledInv` on 530k, `BindingInv` on 117k); `FramingInv` quantifies over
streams and cannot be.

**Only model-checked:** the liveness properties (`OperationsEnd`,
`EventuallyServed`, `HandshakeEnds`, `AllReceived`), which rest on fairness and
on which actions are enabled, and neither is in the prover's reach.

## 6. Not modelled

* Hash functions (an injective triple stands for them), logging, error wording.
* The digits of numbers, dates and times: `to_string`, `parse` and chrono are
  taken to read what they write.  NaN and infinities, which are written as
  words that SQL does not know, are left out.
* `from_url` and the builder methods of `MonetConnectOptions`: they fill a
  record field by field and keep no state.  `connect` is `MapiHandshake`.
* `statement.rs`: a `MonetStatement` is never constructed, since `prepare_with`
  panics.  The panics of `begin`, `prepare_with` and the transaction manager are
  in `MonetPool`; there is nothing else to model of them.
* `type_info.rs`, `column.rs`, `database.rs`, `lib.rs`: associated types,
  accessors and `Display`.
* Flow control: the socket buffers are unbounded, so a stall with both ends
  blocked on writing is not represented.
* The server session behind a pooled connection: open transactions, settings.
* The pool's own concurrency (its semaphore and idle queue) below the level of
  whole steps.

## 7. Plan

The model covers the parts that have behaviour.  Every safety property, every
action property and both refinements are proved for all values of the constants;
the four liveness properties are checked on the instances above.  What could be
added has little to say about the code as it is: prepared statements once
`prepare_with` exists, and the spelling of numbers and dates below the level of
whole literals.
