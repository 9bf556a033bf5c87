--------------------------- MODULE MonetConnection ---------------------------
(***************************************************************************)
(* One authenticated MAPI connection (connection.rs, protocol/mod.rs).     *)
(*                                                                         *)
(* MonetConnection holds a BufferedSocket and nothing else.  A query is    *)
(* write_message (copy the request into the write buffer, flush it) and    *)
(* then read_message (read blocks until one carries the last bit); the     *)
(* n-th message read is taken to be the answer to the n-th request only    *)
(* because requests and answers alternate.  Every socket call is an await  *)
(* point, and the caller may drop the future at any of them (a timeout, a  *)
(* select!, a dropped row stream): nothing in the connection remembers     *)
(* that a request was left unanswered.                                     *)
(*                                                                         *)
(* The owner has exclusive access (&mut self), so one operation runs at a  *)
(* time; the server and the network run concurrently with it.              *)
(***************************************************************************)
EXTENDS Integers, Sequences

CONSTANTS MaxRequests,  \* bound: requests issued on the connection
          MaxChunks,    \* socket writes that a flush of one request may take
          MaxBlocks     \* blocks in one response

ASSUME BoundsAssumption ==
    /\ MaxRequests \in Nat \ {0}
    /\ MaxChunks \in Nat \ {0}
    /\ MaxBlocks \in Nat \ {0}

VARIABLES
    phase,      \* where the connection's owner is: see Phases
    op,         \* the operation in progress: see Ops
    got,        \* blocks accumulated in read_message's local `message`
    wbuf,       \* BufferedSocket's write buffer: requests not fully written yet
    up,         \* requests wholly in the socket or the server's input
    served,     \* number of requests the server has executed
    down,       \* responses in the socket or in BufferedSocket's read buffer
    consumed,   \* number of responses taken off `down`
    issued,     \* number of requests copied into the write buffer
    aligned,    \* the next byte to read is the first byte of a block header
    peer,       \* the server's end of the socket: see Peers
    abandoned,  \* history: requests whose operation was dropped mid-await
    answers     \* history: what completed operations were handed, in order

vars == <<phase, op, got, wbuf, up, served, down, consumed, issued, aligned,
          peer, abandoned, answers>>

(* Nobody is reading or writing in "idle"; "shut" is a successful close(), *)
(* "dropped" any other end of the connection.                              *)
Phases == {"idle", "flush", "header", "payload", "shut", "dropped"}
Requesting == {"query", "ping"}
Ops == Requesting \cup {"flush", "close", "none"}

(* "half": the server's end is gone, a write may still be accepted by the  *)
(* kernel; "dead": a write has failed, so every later one fails.           *)
Peers == {"up", "half", "dead"}

(* What execute_query makes of the text of one message.                    *)
Parses == {"ok", "database", "protocol"}

Request == [req : Nat, left : Nat \ {0}]
Response == [req : Nat, blocks : Nat \ {0}, whole : BOOLEAN, parse : Parses]

(* `mine` is the number of the caller's own request, `of` the number of    *)
(* the request the bytes it was given answer, 0 when they were read out of *)
(* step with the block headers and may be anything; `lag` is `abandoned`   *)
(* at that moment.                                                         *)
Answer == [kind : Requesting, mine : Nat, of : Nat, lag : Nat, parse : Parses]

Init ==
    /\ phase = "idle" /\ op = "none" /\ got = 0
    /\ wbuf = <<>> /\ up = <<>> /\ served = 0
    /\ down = <<>> /\ consumed = 0 /\ issued = 0
    /\ aligned = TRUE /\ peer = "up"
    /\ abandoned = 0 /\ answers = <<>>

-----------------------------------------------------------------------------
(* The owner's operations.                                                 *)

(* Mutant: the request goes in front of what the buffer still holds.       *)
ExecutePrepends(kind) ==
    /\ phase = "idle"
    /\ issued < MaxRequests
    /\ phase' = "flush" /\ op' = kind
    /\ issued' = issued + 1
    /\ \E n \in 1..MaxChunks :
         wbuf' = <<[req |-> issued + 1, left |-> n]>> \o wbuf
    /\ UNCHANGED <<got, up, served, down, consumed, aligned, peer, abandoned,
                   answers>>

(* run_query / ping up to the first await of execute_query: the encoded    *)
(* request is appended to whatever the write buffer still holds.           *)
Execute(kind) ==
    /\ phase = "idle"
    /\ issued < MaxRequests
    /\ phase' = "flush" /\ op' = kind
    /\ issued' = issued + 1
    /\ \E n \in 1..MaxChunks :
         wbuf' = Append(wbuf, [req |-> issued + 1, left |-> n])
    /\ UNCHANGED <<got, up, served, down, consumed, aligned, peer, abandoned,
                   answers>>

(* Mutant: close() shuts the socket down without flushing it first.        *)
StartFlushCloseSkips(kind) ==
    /\ phase = "idle"
    /\ \/ kind = "flush" /\ phase' = "flush" /\ op' = kind
       \/ kind = "close" /\ phase' = "shut" /\ op' = "none"
    /\ UNCHANGED <<got, wbuf, up, served, down, consumed, issued, aligned,
                   peer, abandoned, answers>>

(* Connection::flush, which sqlx-core calls only when should_flush says    *)
(* so; and Connection::close, which flushes before it shuts down.          *)
StartFlush(kind) ==
    /\ phase = "idle"
    /\ phase' = "flush" /\ op' = kind
    /\ UNCHANGED <<got, wbuf, up, served, down, consumed, issued, aligned,
                   peer, abandoned, answers>>

(* Connection::close_hard, whether or not its shutdown succeeds, or the    *)
(* connection value simply being dropped.                                  *)
CloseHard ==
    /\ phase = "idle"
    /\ phase' = "dropped"
    /\ UNCHANGED <<op, got, wbuf, up, served, down, consumed, issued, aligned,
                   peer, abandoned, answers>>

(* One socket write inside BufferedSocket::flush.  Once the server's end   *)
(* is gone the kernel may take the bytes, but nobody receives them.        *)
FlushChunk ==
    /\ phase = "flush" /\ wbuf # <<>> /\ peer # "dead"
    /\ LET r == Head(wbuf) IN
         IF r.left = 1
         THEN /\ wbuf' = Tail(wbuf)
              /\ up' = IF peer = "up" THEN Append(up, r.req) ELSE up
         ELSE /\ wbuf' = [wbuf EXCEPT ![1].left = @ - 1]
              /\ up' = up
    /\ UNCHANGED <<phase, op, got, served, down, consumed, issued, aligned,
                   peer, abandoned, answers>>

(* Mutant: the error of a write is not looked at, and the answer awaited.  *)
FlushErrorIgnored ==
    /\ phase = "flush" /\ wbuf # <<>> /\ peer # "up"
    /\ peer' = "dead" /\ wbuf' = <<>>
    /\ phase' = IF op = "close" THEN "dropped"
                ELSE IF op = "flush" THEN "idle" ELSE "header"
    /\ op' = IF op \in Requesting THEN op ELSE "none"
    /\ UNCHANGED <<got, up, served, down, consumed, issued, aligned, abandoned,
                   answers>>

(* A write fails: `?` leaves flush before the buffer is consumed, so the   *)
(* unwritten bytes stay in it.  close() owns the connection and drops it.  *)
FlushError ==
    /\ phase = "flush" /\ wbuf # <<>> /\ peer # "up"
    /\ peer' = "dead"
    /\ phase' = IF op = "close" THEN "dropped" ELSE "idle"
    /\ op' = "none"
    /\ UNCHANGED <<got, wbuf, up, served, down, consumed, issued, aligned,
                   abandoned, answers>>

(* Mutant: write_message returns without flushing the write buffer.        *)
FlushDoneUnflushed ==
    /\ phase = "flush"
    /\ \/ /\ op \in Requesting
          /\ phase' = "header" /\ got' = 0 /\ op' = op
       \/ /\ op = "flush" /\ wbuf = <<>>
          /\ phase' = "idle" /\ op' = "none" /\ got' = got
       \/ /\ op = "close" /\ wbuf = <<>>
          /\ phase' = "shut" /\ op' = "none" /\ got' = got
    /\ UNCHANGED <<wbuf, up, served, down, consumed, issued, aligned, peer,
                   abandoned, answers>>

(* The write buffer is empty: a request goes on to read_message, flush()   *)
(* returns, close() awaits shutdown, which may fail or be dropped.         *)
FlushDone ==
    /\ phase = "flush" /\ wbuf = <<>>
    /\ \/ /\ op \in Requesting
          /\ phase' = "header" /\ got' = 0 /\ op' = op
       \/ /\ op = "flush"
          /\ phase' = "idle" /\ op' = "none" /\ got' = got
       \/ /\ op = "close"
          /\ phase' \in {"shut", "dropped"} /\ op' = "none" /\ got' = got
    /\ UNCHANGED <<wbuf, up, served, down, consumed, issued, aligned, peer,
                   abandoned, answers>>

(* The operation in progress hands its caller the message `of`.            *)
Deliver(of, parse) ==
    /\ answers' = Append(answers, [kind |-> op, mine |-> issued, of |-> of,
                                   lag |-> abandoned, parse |-> parse])
    /\ phase' = "idle" /\ op' = "none" /\ got' = 0

(* Mutant: the last bit is ignored and one more block is always read.      *)
FinishBlockIgnoresLast ==
    /\ down' = [down EXCEPT ![1].blocks = @ - 1]
    /\ got' = got + 1
    /\ phase' = "header"
    /\ UNCHANGED <<op, consumed, answers>>

(* Mutant: the message is parsed but its bytes stay in the read buffer.    *)
FinishBlockKeepsBytes ==
    LET r == Head(down) IN
    IF r.blocks = 1
    THEN /\ Deliver(r.req, r.parse)
         /\ UNCHANGED <<down, consumed>>
    ELSE /\ down' = [down EXCEPT ![1].blocks = @ - 1]
         /\ got' = got + 1
         /\ phase' = "header"
         /\ UNCHANGED <<op, consumed, answers>>

(* The last bit ends the message: the head of `down` is taken off and      *)
(* parsed.  What is left of a message whose beginning an abandoned read    *)
(* has swallowed may parse as anything.                                    *)
FinishBlock ==
    LET r == Head(down) IN
    IF r.blocks = 1
    THEN /\ down' = Tail(down)
         /\ consumed' = consumed + 1
         /\ \E p \in IF r.whole THEN {r.parse} ELSE Parses : Deliver(r.req, p)
    ELSE /\ down' = [down EXCEPT ![1].blocks = @ - 1]
         /\ got' = got + 1
         /\ phase' = "header"
         /\ UNCHANGED <<op, consumed, answers>>

(* read_buffered(2) completes; a block of length 0 has no payload to read. *)
ReadHeader ==
    /\ phase = "header" /\ aligned /\ down # <<>>
    /\ \/ FinishBlock
       \/ /\ phase' = "payload"
          /\ UNCHANGED <<op, got, down, consumed, answers>>
    /\ UNCHANGED <<wbuf, up, served, issued, aligned, peer, abandoned>>

(* read_buffered(len) completes.                                           *)
ReadPayload ==
    /\ phase = "payload" /\ aligned /\ down # <<>>
    /\ FinishBlock
    /\ UNCHANGED <<wbuf, up, served, issued, aligned, peer, abandoned>>

(* Payload bytes read as if they were a header: the length and the last    *)
(* bit are whatever the text decodes to, so any number of bytes is taken   *)
(* and any result can come out; the read may also wait for ever.           *)
ReadMisaligned ==
    /\ phase = "header" /\ ~aligned /\ down # <<>>
    /\ \E k \in 0..Len(down) :
         /\ down' = SubSeq(down, k + 1, Len(down))
         /\ consumed' = consumed + k
    /\ \E p \in Parses : Deliver(0, p)
    /\ UNCHANGED <<wbuf, up, served, issued, aligned, peer, abandoned>>

(* End of file or reset: the `?` of read_message ends the operation.       *)
ReadError ==
    /\ phase \in {"header", "payload"} /\ down = <<>> /\ peer # "up"
    /\ phase' = "idle" /\ op' = "none" /\ got' = 0
    /\ UNCHANGED <<wbuf, up, served, down, consumed, issued, aligned, peer,
                   abandoned, answers>>

(* Mutant: dropping the future also forgets what it had not yet written.   *)
CancelForgetsWrites ==
    /\ phase \in {"flush", "header", "payload"}
    /\ phase' = IF op = "close" THEN "dropped" ELSE "idle"
    /\ op' = "none" /\ got' = 0 /\ wbuf' = <<>>
    /\ abandoned' = IF op \in Requesting THEN abandoned + 1 ELSE abandoned
    /\ aligned' = (aligned /\ phase # "payload")
    /\ down' = IF got > 0 /\ down # <<>>
               THEN [down EXCEPT ![1].whole = FALSE] ELSE down
    /\ UNCHANGED <<up, served, consumed, issued, peer, answers>>

(* The caller drops the future at an await point.  Only locals are lost:   *)
(* the write buffer keeps what was not written, the socket what was not    *)
(* read.  close() owns the connection, which goes with the future.         *)
Cancel ==
    /\ phase \in {"flush", "header", "payload"}
    /\ phase' = IF op = "close" THEN "dropped" ELSE "idle"
    /\ op' = "none" /\ got' = 0
    /\ abandoned' = IF op \in Requesting THEN abandoned + 1 ELSE abandoned
    /\ aligned' = (aligned /\ phase # "payload")
    /\ down' = IF got > 0 /\ down # <<>>
               THEN [down EXCEPT ![1].whole = FALSE] ELSE down
    /\ UNCHANGED <<wbuf, up, served, consumed, issued, peer, answers>>

-----------------------------------------------------------------------------
(* The server and the network.                                             *)

(* The server executes the oldest request and answers it with one message. *)
Serve ==
    /\ peer = "up" /\ up # <<>>
    /\ up' = Tail(up)
    /\ served' = served + 1
    /\ \E n \in 1..MaxBlocks, p \in Parses :
         down' = Append(down, [req |-> Head(up), blocks |-> n, whole |-> TRUE,
                               parse |-> p])
    /\ UNCHANGED <<phase, op, got, wbuf, consumed, issued, aligned, peer,
                   abandoned, answers>>

(* The server's end goes away; what it sent last may not arrive.           *)
Break ==
    /\ peer = "up"
    /\ peer' = "half"
    /\ \E k \in 0..Len(down) : down' = SubSeq(down, 1, k)
    /\ UNCHANGED <<phase, op, got, wbuf, up, served, consumed, issued,
                   aligned, abandoned, answers>>

-----------------------------------------------------------------------------
Client == FlushChunk \/ FlushError \/ FlushDone \/ ReadHeader \/ ReadPayload
             \/ ReadError

Next ==
    \/ \E kind \in Requesting : Execute(kind)
    \/ \E kind \in {"flush", "close"} : StartFlush(kind)
    \/ CloseHard
    \/ Client
    \/ ReadMisaligned
    \/ Cancel
    \/ Serve
    \/ Break

Spec == Init /\ [][Next]_vars

(* An executor polls a woken future again, the kernel delivers what was    *)
(* written, and a live server answers.  Nothing obliges the owner to start *)
(* an operation, to drop one, or a misframed read to end.                  *)
Fairness == WF_vars(Client) /\ WF_vars(Serve)

FairSpec == Spec /\ Fairness

-----------------------------------------------------------------------------
(* Properties.                                                             *)

(* Every variable has its type; a request or response in flight still has  *)
(* a chunk to write or a block to read.                                    *)
TypeOK ==
    /\ phase \in Phases
    /\ op \in Ops
    /\ got \in Nat
    /\ wbuf \in Seq(Request)
    /\ up \in Seq(Nat)
    /\ served \in Nat
    /\ down \in Seq(Response)
    /\ consumed \in Nat
    /\ issued \in Nat
    /\ aligned \in BOOLEAN
    /\ peer \in Peers
    /\ abandoned \in Nat
    /\ answers \in Seq(Answer)

(* What execute_query hands back is the answer to the request issued       *)
(* exactly `lag` requests earlier, lag being the number of operations      *)
(* dropped mid-await so far: the caller's own answer as long as nobody     *)
(* dropped an operation, and out by that count for good afterwards,        *)
(* whatever the server and the socket do.  Only after a drop can it be     *)
(* bytes read out of step.                                                 *)
LaggedDelivery ==
    \A i \in 1..Len(answers) :
        \/ answers[i].of = answers[i].mine - answers[i].lag
        \/ answers[i].of = 0 /\ answers[i].lag > 0

(* read_message consumes what it returns: no two operations are handed     *)
(* the same response, and responses reach callers in the server's order,   *)
(* cancelled and partly read messages included.                            *)
NeverTwice ==
    \A i, j \in 1..Len(answers) :
        i < j /\ answers[i].of # 0 /\ answers[j].of # 0
            => answers[i].of < answers[j].of

(* The server is sent the statements in the order they were issued, each   *)
(* once, even when an abandoned request is completed by a later flush.     *)
ExecutedInOrder ==
    /\ \A i \in 1..Len(up) : up[i] = served + i
    /\ peer = "up" =>
         \A i \in 1..Len(wbuf) : wbuf[i].req = served + Len(up) + i

(* close() flushes before shutdown: when it succeeds on a live socket,     *)
(* every request ever issued, the abandoned ones too, has been written.    *)
GracefulCloseFlushes ==
    phase = "shut" /\ peer = "up" => wbuf = <<>> /\ served + Len(up) = issued

Busy == phase \in {"flush", "header", "payload"}

(* No operation hangs: it returns, fails or is dropped, unless an earlier  *)
(* read was dropped between a block's header and its payload.  An earlier  *)
(* request left unanswered delays nobody, it only shifts the answers.      *)
OperationsEnd == Busy ~> (~Busy \/ ~aligned)

(* "Send a SQL statement and return its fully-parsed response."            *)
(* (protocol/mod.rs:174): what an operation gets answers its own request.  *)
OwnResponse ==
    \A i \in 1..Len(answers) : answers[i].of = answers[i].mine

(* "there's never unflushed data sitting in the buffer between             *)
(* driver-visible operations" (connection.rs:92-94, should_flush).         *)
UnflushedNeverIdle == phase = "idle" /\ peer = "up" => wbuf = <<>>

-----------------------------------------------------------------------------
(* The inductive invariant behind the safety properties.                   *)

Pending == IF op \in Requesting THEN 1 ELSE 0

(* No response will ever be read from the socket again.                    *)
Exhausted == peer = "dead" \/ (peer = "half" /\ down = <<>>)

Control ==
    /\ phase \in {"idle", "shut", "dropped"} => op = "none"
    /\ phase = "flush" => op # "none"
    /\ phase \in {"header", "payload"} => op \in Requesting
    /\ phase \in {"header", "payload", "shut"} => wbuf = <<>>
    /\ peer = "dead" => wbuf # <<>>

(* Requests and responses are numbered consecutively along the pipeline    *)
(* write buffer -> socket -> server -> socket, with no gap.                *)
Numbering ==
    /\ ExecutedInOrder
    /\ \A i \in 1..Len(down) : down[i].req = consumed + i
    /\ peer = "up" => /\ consumed + Len(down) = served
                      /\ served + Len(up) + Len(wbuf) = issued
    /\ consumed + Len(down) <= served

(* While reads are in step, the responses not yet taken are those of the   *)
(* abandoned requests plus the one being waited for; they fall out of step *)
(* only when a request is abandoned.                                       *)
Accounting ==
    /\ aligned => issued - consumed = abandoned + Pending \/ Exhausted
    /\ ~aligned => abandoned > 0

Handed ==
    /\ LaggedDelivery
    /\ NeverTwice
    /\ \A i \in 1..Len(answers) : answers[i].of <= consumed

(* Every response still to be read, counted through each buffer on the     *)
(* way, belongs to a known request: what run_query, ping and close rely on *)
(* when they take the next message off the socket.                         *)
IndInv == TypeOK /\ Control /\ Numbering /\ Accounting /\ Handed
-----------------------------------------------------------------------------
(* The abstract connection.                                                *)

LinkView ==
    [open |-> phase \notin {"shut", "dropped"}, busy |-> op \in Requesting,
     issued |-> issued, served |-> served, lag |-> abandoned,
     aligned |-> aligned, dead |-> Exhausted]

ToldView ==
    [i \in 1..Len(answers) |-> [mine |-> answers[i].mine, of |-> answers[i].of]]

Abstract == INSTANCE RequestReply WITH link <- LinkView, told <- ToldView

(* Whatever the server, the network and the caller do, the connection is   *)
(* a RequestReply link: execute_query, ping, flush and close only ever     *)
(* start an operation, answer the request `lag` places back, fail for      *)
(* good, drop, die or close, and what they wrote is executed in order.     *)
IsRequestReply == Abstract!Spec
=============================================================================
