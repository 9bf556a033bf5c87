------------------------ MODULE MonetConnectionProofs ------------------------
(***************************************************************************)
(* Proofs about MonetConnection, for any number of requests, chunks and    *)
(* blocks: IndInv is inductive, and the safety properties follow from it;  *)
(* and MonetConnection implements RequestReply: every step of the          *)
(* connection, with its buffers and blocks, is a step of the abstract link *)
(* or leaves it as it is.                                                  *)
(***************************************************************************)
EXTENDS MonetConnection, SequenceTheorems, TLAPS

-----------------------------------------------------------------------------
(* Sequence facts the provers need spelled out.                            *)

(* Taking the first element off a queue shifts the others by one place:    *)
(* what Tail does to wbuf, up and down when their head is dealt with.      *)
LEMMA TailShift ==
    ASSUME NEW S, NEW s \in Seq(S), s # <<>>
    PROVE  /\ Head(s) \in S /\ Head(s) = s[1]
           /\ Tail(s) \in Seq(S)
           /\ Len(s) \in Nat \ {0}
           /\ Len(Tail(s)) = Len(s) - 1
           /\ \A i \in 1..Len(Tail(s)) : Tail(s)[i] = s[i + 1]
  BY HeadTailProperties, LenProperties, EmptySeq

(* Appending keeps the earlier elements: Execute, FlushChunk, Serve and    *)
(* Deliver only add at the end of their queue.                             *)
LEMMA AppendLast ==
    ASSUME NEW S, NEW s \in Seq(S), NEW e \in S
    PROVE  /\ Append(s, e) \in Seq(S)
           /\ Len(s) \in Nat
           /\ Len(Append(s, e)) = Len(s) + 1
           /\ \A i \in 1..Len(s) : Append(s, e)[i] = s[i]
           /\ Append(s, e)[Len(s) + 1] = e
           /\ Append(s, e) # <<>>
  BY AppendProperties, LenProperties

(* Dropping k elements shifts the rest by k places: a misaligned read may  *)
(* swallow any number of responses.                                        *)
LEMMA DropShift ==
    ASSUME NEW S, NEW s \in Seq(S), NEW k \in 0..Len(s)
    PROVE  /\ SubSeq(s, k + 1, Len(s)) \in Seq(S)
           /\ Len(SubSeq(s, k + 1, Len(s))) = Len(s) - k
           /\ \A i \in 1..(Len(s) - k) : SubSeq(s, k + 1, Len(s))[i] = s[i + k]
  BY SubSeqProperties, LenProperties

(* Keeping the first k elements changes none of them: a broken socket      *)
(* delivers a prefix of what the server sent.                              *)
LEMMA KeepPrefix ==
    ASSUME NEW S, NEW s \in Seq(S), NEW k \in 0..Len(s)
    PROVE  /\ SubSeq(s, 1, k) \in Seq(S)
           /\ Len(SubSeq(s, 1, k)) = k
           /\ \A i \in 1..k : SubSeq(s, 1, k)[i] = s[i]
  BY SubSeqProperties, LenProperties

-----------------------------------------------------------------------------
(* Type correctness.                                                       *)

(* Rewriting the head of `down` in place keeps it a sequence of responses  *)
(* and touches neither its length nor the requests it answers.             *)
LEMMA DownHeadUpdate ==
    ASSUME down \in Seq(Response), down # <<>>,
           NEW n \in Nat \ {0}, NEW w \in BOOLEAN,
           NEW d, d = [down EXCEPT ![1] = [down[1] EXCEPT !.blocks = n,
                                                          !.whole = w]]
    PROVE  /\ d \in Seq(Response)
           /\ Len(d) = Len(down)
           /\ \A i \in 1..Len(down) : d[i].req = down[i].req
  <1>1. Len(down) \in Nat \ {0} /\ 1 \in 1..Len(down)
    BY EmptySeq
  <1>2. down[1] \in Response
    BY <1>1, ElementOfSeq
  <1> DEFINE e == [down[1] EXCEPT !.blocks = n, !.whole = w]
  <1>3. e \in Response /\ e.req = down[1].req
    BY <1>2 DEF Response
  <1> HIDE DEF e
  <1>4. d = [down EXCEPT ![1] = e]
    BY DEF e
  <1> QED
    BY <1>1, <1>3, <1>4, ExceptSeq

(* FinishBlock either hands the head of `down` to the caller and takes it  *)
(* off, or consumes one of its blocks.                                     *)
LEMMA FinishBlockCases ==
    ASSUME TypeOK, down # <<>>, FinishBlock
    PROVE  \/ /\ down' = Tail(down) /\ consumed' = consumed + 1
              /\ \E p \in Parses : Deliver(down[1].req, p)
           \/ /\ down' \in Seq(Response) /\ Len(down') = Len(down)
              /\ \A i \in 1..Len(down) : down'[i].req = down[i].req
              /\ got' = got + 1 /\ phase' = "header"
              /\ UNCHANGED <<op, consumed, answers>>
  <1>1. down \in Seq(Response)
    BY DEF TypeOK
  <1>2. Head(down) = down[1] /\ down[1] \in Response
    BY <1>1, TailShift
  <1>3. CASE Head(down).blocks = 1
    BY <1>2, <1>3 DEF FinishBlock, Response
  <1>4. CASE Head(down).blocks # 1
    <2>1. /\ down' = [down EXCEPT ![1].blocks = @ - 1]
          /\ got' = got + 1 /\ phase' = "header"
          /\ UNCHANGED <<op, consumed, answers>>
      BY <1>4 DEF FinishBlock
    <2>2. down[1].blocks - 1 \in Nat \ {0} /\ down[1].whole \in BOOLEAN
      BY <1>2, <1>4 DEF Response
    <2>3. down' = [down EXCEPT ![1] = [down[1] EXCEPT
                        !.blocks = down[1].blocks - 1, !.whole = down[1].whole]]
      BY <1>2, <2>1 DEF Response
    <2>4. /\ down' \in Seq(Response) /\ Len(down') = Len(down)
          /\ \A i \in 1..Len(down) : down'[i].req = down[i].req
      BY <1>1, <2>2, <2>3, DownHeadUpdate
    <2> QED
      BY <2>1, <2>4
  <1> QED
    BY <1>3, <1>4

(* Marking the message an abandoned read had begun leaves `down` a queue   *)
(* of the same responses.                                                  *)
LEMMA CancelDown ==
    ASSUME TypeOK, Cancel
    PROVE  /\ down' \in Seq(Response) /\ Len(down') = Len(down)
           /\ \A i \in 1..Len(down) : down'[i].req = down[i].req
  <1>1. CASE got > 0 /\ down # <<>>
    <2>1. down[1] \in Response
      BY <1>1, TailShift DEF TypeOK
    <2>2. down' = [down EXCEPT ![1] = [down[1] EXCEPT
                        !.blocks = down[1].blocks, !.whole = FALSE]]
      BY <1>1, <2>1 DEF Cancel, Response
    <2>3. down[1].blocks \in Nat \ {0}
      BY <2>1 DEF Response
    <2> QED
      BY <1>1, <2>2, <2>3, DownHeadUpdate DEF TypeOK
  <1>2. CASE ~(got > 0 /\ down # <<>>)
    BY <1>2 DEF Cancel, TypeOK
  <1> QED
    BY <1>1, <1>2

(* Handing a message over appends one well-formed answer and ends the      *)
(* operation.                                                              *)
LEMMA DeliverType ==
    ASSUME TypeOK, op \in Requesting, NEW of \in Nat, NEW p \in Parses,
           Deliver(of, p)
    PROVE  /\ answers' \in Seq(Answer)
           /\ phase' \in Phases /\ op' \in Ops /\ got' \in Nat
  <1>1. [kind |-> op, mine |-> issued, of |-> of, lag |-> abandoned,
         parse |-> p] \in Answer
    BY DEF Answer, TypeOK
  <1> QED
    BY <1>1, AppendLast DEF Deliver, TypeOK, Phases, Ops

(* A new request goes in at the end of the write buffer.                   *)
LEMMA ExecuteWbuf ==
    ASSUME TypeOK, NEW kind \in Requesting, Execute(kind)
    PROVE  /\ wbuf' \in Seq(Request) /\ wbuf' # <<>>
           /\ Len(wbuf') = Len(wbuf) + 1 /\ Len(wbuf) \in Nat
           /\ \A i \in 1..Len(wbuf) : wbuf'[i] = wbuf[i]
           /\ wbuf'[Len(wbuf) + 1].req = issued + 1
  <1>1. PICK n \in 1..MaxChunks :
              wbuf' = Append(wbuf, [req |-> issued + 1, left |-> n])
    BY DEF Execute
  <1> DEFINE r == [req |-> issued + 1, left |-> n]
  <1>2. r \in Request /\ r.req = issued + 1
    BY BoundsAssumption DEF TypeOK, Request
  <1>3. wbuf \in Seq(Request) /\ wbuf' = Append(wbuf, r)
    BY <1>1 DEF TypeOK
  <1> HIDE DEF r
  <1> QED
    BY <1>2, <1>3, AppendLast

(* Updating what is left of a request changes nothing else of it.          *)
LEMMA LeftUpdate ==
    ASSUME NEW r \in Request, NEW n
    PROVE  [r EXCEPT !.left = n] = [req |-> r.req, left |-> n]
  BY DEF Request

(* One socket write either takes a byte run off the oldest buffered        *)
(* request or completes it, and then hands it to the server's end if that  *)
(* is still there.                                                         *)
LEMMA FlushChunkCases ==
    ASSUME TypeOK, FlushChunk
    PROVE  /\ wbuf[1].req \in Nat
           /\ Len(wbuf) \in Nat \ {0}
           /\ \/ /\ wbuf' \in Seq(Request) /\ Len(wbuf') = Len(wbuf)
                 /\ \A i \in 1..Len(wbuf) : wbuf'[i].req = wbuf[i].req
                 /\ up' = up
              \/ /\ wbuf' \in Seq(Request) /\ Len(wbuf') = Len(wbuf) - 1
                 /\ \A i \in 1..Len(wbuf') : wbuf'[i] = wbuf[i + 1]
                 /\ up' = IF peer = "up" THEN Append(up, wbuf[1].req) ELSE up
  <1>1. wbuf \in Seq(Request) /\ wbuf # <<>>
    BY DEF FlushChunk, TypeOK
  <1>2. /\ Head(wbuf) \in Request /\ Head(wbuf) = wbuf[1]
        /\ Tail(wbuf) \in Seq(Request) /\ 1 \in 1..Len(wbuf)
        /\ Len(wbuf) \in Nat \ {0} /\ Len(Tail(wbuf)) = Len(wbuf) - 1
        /\ \A i \in 1..Len(Tail(wbuf)) : Tail(wbuf)[i] = wbuf[i + 1]
    BY <1>1, TailShift
  <1>3. wbuf[1].req \in Nat /\ wbuf[1].left \in Nat \ {0}
    BY <1>2 DEF Request
  <1>4. CASE Head(wbuf).left = 1
    <2>1. /\ wbuf' = Tail(wbuf)
          /\ up' = IF peer = "up" THEN Append(up, wbuf[1].req) ELSE up
      BY <1>2, <1>4 DEF FlushChunk
    <2> QED
      BY <1>2, <1>3, <2>1
  <1>5. CASE Head(wbuf).left # 1
    <2> DEFINE e == [req |-> wbuf[1].req, left |-> wbuf[1].left - 1]
    <2>1. e \in Request /\ e.req = wbuf[1].req
      BY <1>2, <1>3, <1>5 DEF Request
    <2>2. wbuf' = [wbuf EXCEPT ![1] = e] /\ up' = up
      <3>1. /\ wbuf' = [wbuf EXCEPT ![1].left = @ - 1]
            /\ up' = up
        BY <1>5 DEF FlushChunk
      <3>2. [wbuf[1] EXCEPT !.left = wbuf[1].left - 1] = e
        BY <1>2, LeftUpdate
      <3> QED
        BY <3>1, <3>2
    <2> HIDE DEF e
    <2>3. /\ wbuf' \in Seq(Request) /\ Len(wbuf') = Len(wbuf)
          /\ \A i \in 1..Len(wbuf) : wbuf'[i].req = wbuf[i].req
      BY <1>1, <1>2, <2>1, <2>2, ExceptSeq
    <2> QED
      BY <1>2, <1>3, <2>2, <2>3
  <1> QED
    BY <1>4, <1>5

(* The response of the request just served goes in at the end of `down`.   *)
LEMMA ServeDown ==
    ASSUME TypeOK, Serve
    PROVE  /\ down' \in Seq(Response) /\ down' # <<>>
           /\ Len(down) \in Nat /\ Len(down') = Len(down) + 1
           /\ \A i \in 1..Len(down) : down'[i] = down[i]
           /\ down'[Len(down) + 1].req = Head(up)
  <1>1. PICK n \in 1..MaxBlocks, p \in Parses :
              down' = Append(down, [req |-> Head(up), blocks |-> n,
                                    whole |-> TRUE, parse |-> p])
    BY DEF Serve
  <1>2. Head(up) \in Nat
    BY TailShift DEF Serve, TypeOK
  <1> DEFINE r == [req |-> Head(up), blocks |-> n, whole |-> TRUE, parse |-> p]
  <1>3. r \in Response /\ r.req = Head(up)
    BY <1>2, BoundsAssumption DEF Response
  <1>4. down \in Seq(Response) /\ down' = Append(down, r)
    BY <1>1 DEF TypeOK
  <1> HIDE DEF r
  <1> QED
    BY <1>3, <1>4, AppendLast

(* Every step of the connection, the server or the network keeps TypeOK.   *)
LEMMA TypeStep ==
    ASSUME TypeOK, Control, [Next]_vars
    PROVE  TypeOK'
  <1>0. UNCHANGED vars => TypeOK'
    BY DEF TypeOK, vars
  <1>1. ASSUME NEW kind \in Requesting, Execute(kind) PROVE TypeOK'
    BY <1>1, ExecuteWbuf DEF Execute, TypeOK, Phases, Ops
  <1>2. ASSUME NEW kind \in {"flush", "close"}, StartFlush(kind) PROVE TypeOK'
    BY <1>2 DEF StartFlush, TypeOK, Phases, Ops
  <1>3. CASE CloseHard
    BY <1>3 DEF CloseHard, TypeOK, Phases
  <1>4. CASE FlushChunk
    <2>1. wbuf' \in Seq(Request)
      BY <1>4, FlushChunkCases
    <2>2. up' \in Seq(Nat)
      <3>1. up \in Seq(Nat) /\ wbuf[1].req \in Nat
        BY <1>4, FlushChunkCases DEF TypeOK
      <3>2. Append(up, wbuf[1].req) \in Seq(Nat)
        BY <3>1, AppendLast
      <3>3. up' = up \/ up' = Append(up, wbuf[1].req)
        BY <1>4, FlushChunkCases
      <3> QED
        BY <3>1, <3>2, <3>3
    <2> QED
      BY <1>4, <2>1, <2>2 DEF FlushChunk, TypeOK
  <1>5. CASE FlushError
    BY <1>5 DEF FlushError, TypeOK, Phases, Ops, Peers
  <1>6. CASE FlushDone
    BY <1>6 DEF FlushDone, TypeOK, Phases, Ops, Requesting
  <1>7. ASSUME op \in Requesting, down # <<>>, FinishBlock,
               UNCHANGED <<wbuf, up, served, issued, aligned, peer, abandoned>>
        PROVE  TypeOK'
    <2>1. CASE /\ down' = Tail(down) /\ consumed' = consumed + 1
               /\ \E p \in Parses : Deliver(down[1].req, p)
      <3>0. down[1] \in Response /\ Tail(down) \in Seq(Response)
        BY <1>7, TailShift DEF TypeOK
      <3>1. down[1].req \in Nat
        BY <3>0 DEF Response
      <3>2. /\ answers' \in Seq(Answer)
            /\ phase' \in Phases /\ op' \in Ops /\ got' \in Nat
        BY <1>7, <2>1, <3>1, DeliverType
      <3> QED
        BY <1>7, <2>1, <3>0, <3>2 DEF TypeOK
    <2>2. CASE /\ down' \in Seq(Response)
               /\ got' = got + 1 /\ phase' = "header"
               /\ UNCHANGED <<op, consumed, answers>>
      BY <1>7, <2>2 DEF TypeOK, Phases
    <2> QED
      BY <1>7, <2>1, <2>2, FinishBlockCases
  <1>8. CASE ReadHeader
    <2>1. CASE FinishBlock
      BY <1>7, <1>8, <2>1 DEF ReadHeader, Control
    <2>2. CASE phase' = "payload" /\ UNCHANGED <<op, got, down, consumed, answers>>
      BY <1>8, <2>2 DEF ReadHeader, TypeOK, Phases
    <2> QED
      BY <1>8, <2>1, <2>2 DEF ReadHeader
  <1>9. CASE ReadPayload
    BY <1>7, <1>9 DEF ReadPayload, Control
  <1>10. CASE ReadMisaligned
    <2>1. PICK k \in 0..Len(down) : /\ down' = SubSeq(down, k + 1, Len(down))
                                    /\ consumed' = consumed + k
      BY <1>10 DEF ReadMisaligned
    <2>2. down' \in Seq(Response) /\ consumed' \in Nat
      BY <2>1, DropShift DEF TypeOK
    <2>3. PICK p \in Parses : Deliver(0, p)
      BY <1>10 DEF ReadMisaligned
    <2>4. /\ answers' \in Seq(Answer)
          /\ phase' \in Phases /\ op' \in Ops /\ got' \in Nat
      BY <1>10, <2>3, DeliverType DEF ReadMisaligned, Control
    <2> QED
      BY <1>10, <2>2, <2>4 DEF ReadMisaligned, TypeOK
  <1>11. CASE ReadError
    BY <1>11 DEF ReadError, TypeOK, Phases, Ops
  <1>12. CASE Cancel
    BY <1>12, CancelDown DEF Cancel, TypeOK, Phases, Ops
  <1>13. CASE Serve
    <2>1. Tail(up) \in Seq(Nat)
      BY <1>13, TailShift DEF Serve, TypeOK
    <2>2. down' \in Seq(Response)
      BY <1>13, ServeDown
    <2> QED
      BY <1>13, <2>1, <2>2 DEF Serve, TypeOK
  <1>14. CASE Break
    <2>1. PICK k \in 0..Len(down) : down' = SubSeq(down, 1, k)
      BY <1>14 DEF Break
    <2>2. down' \in Seq(Response)
      BY <2>1, KeepPrefix DEF TypeOK
    <2> QED
      BY <1>14, <2>2 DEF Break, TypeOK, Peers
  <1> QED
    BY <1>0, <1>1, <1>2, <1>3, <1>4, <1>5, <1>6, <1>8, <1>9, <1>10, <1>11,
       <1>12, <1>13, <1>14 DEF Next, Client

(* The order of an operation's steps, and an empty write buffer whenever   *)
(* it reads or has closed, are kept by every step.                         *)
LEMMA ControlStep ==
    ASSUME TypeOK, Control, [Next]_vars
    PROVE  Control'
  <1>0. UNCHANGED vars => Control'
    BY DEF Control, vars
  <1>1. ASSUME NEW kind \in Requesting, Execute(kind) PROVE Control'
    <2>1. wbuf' # <<>>
      BY <1>1, ExecuteWbuf
    <2> QED
      BY <1>1, <2>1 DEF Execute, Control, Requesting
  <1>2. ASSUME NEW kind \in {"flush", "close"}, StartFlush(kind) PROVE Control'
    BY <1>2 DEF StartFlush, Control
  <1>3. CASE CloseHard
    BY <1>3 DEF CloseHard, Control
  <1>4. CASE FlushChunk
    BY <1>4 DEF FlushChunk, Control
  <1>5. CASE FlushError
    BY <1>5 DEF FlushError, Control
  <1>6. CASE FlushDone
    BY <1>6 DEF FlushDone, Control
  <1>7. CASE ReadHeader
    BY <1>7, FinishBlockCases DEF ReadHeader, Deliver, Control
  <1>8. CASE ReadPayload
    BY <1>8, FinishBlockCases DEF ReadPayload, Deliver, Control
  <1>9. CASE ReadMisaligned
    BY <1>9 DEF ReadMisaligned, Deliver, Control
  <1>10. CASE ReadError
    BY <1>10 DEF ReadError, Control
  <1>11. CASE Cancel
    BY <1>11 DEF Cancel, Control
  <1>12. CASE Serve
    BY <1>12 DEF Serve, Control
  <1>13. CASE Break
    BY <1>13 DEF Break, Control
  <1> QED
    BY <1>0, <1>1, <1>2, <1>3, <1>4, <1>5, <1>6, <1>7, <1>8, <1>9, <1>10,
       <1>11, <1>12, <1>13 DEF Next, Client

-----------------------------------------------------------------------------
(* Numbering: requests and responses stay consecutive along the pipeline.  *)

(* Every counter and every queue length is a natural number.              *)
LEMMA Counters ==
    ASSUME TypeOK
    PROVE  /\ served \in Nat /\ consumed \in Nat /\ issued \in Nat
           /\ abandoned \in Nat /\ Len(answers) \in Nat
           /\ Len(up) \in Nat /\ Len(wbuf) \in Nat /\ Len(down) \in Nat
  BY LenProperties DEF TypeOK

(* The facts about `down` that a read changes.                             *)
LEMMA ReadNumbering ==
    ASSUME TypeOK, Numbering, down # <<>>, FinishBlock,
           UNCHANGED <<wbuf, up, served, issued, peer>>
    PROVE  Numbering'
  <1>1. CASE down' = Tail(down) /\ consumed' = consumed + 1
    <2>1. /\ Len(down) \in Nat \ {0} /\ Len(down') = Len(down) - 1
          /\ \A i \in 1..Len(down') : down'[i] = down[i + 1]
      BY <1>1, TailShift DEF TypeOK
    <2>2. \A i \in 1..Len(down') : down'[i].req = consumed' + i
      <3> TAKE i \in 1..Len(down')
      <3>1. i + 1 \in 1..Len(down)
        BY <2>1
      <3>2. down[i + 1].req = consumed + (i + 1)
        BY <3>1 DEF Numbering
      <3> QED
        BY <1>1, <2>1, <3>2, Counters
    <2>3. /\ peer = "up" => consumed' + Len(down') = served
          /\ consumed' + Len(down') <= served
      BY <1>1, <2>1, Counters DEF Numbering
    <2> QED
      BY <1>1, <2>1, <2>2, <2>3 DEF Numbering, ExecutedInOrder
  <1>2. CASE /\ Len(down') = Len(down) /\ consumed' = consumed
             /\ \A i \in 1..Len(down) : down'[i].req = down[i].req
    BY <1>2 DEF Numbering, ExecutedInOrder, TypeOK
  <1> QED
    BY <1>1, <1>2, FinishBlockCases

(* No step leaves a gap or a repetition between the requests issued, sent, *)
(* served and the responses still to be read.                              *)
LEMMA NumberingStep ==
    ASSUME TypeOK, Control, Numbering, [Next]_vars
    PROVE  Numbering'
  <1> USE DEF ExecutedInOrder
  <1>0. UNCHANGED vars => Numbering'
    BY DEF Numbering, vars
  <1>1. ASSUME NEW kind \in Requesting, Execute(kind) PROVE Numbering'
    <2>1. Len(up) \in Nat
      BY LenProperties DEF TypeOK
    <2>2. CASE peer # "up"
      BY <1>1, <2>2 DEF Execute, Numbering
    <2>3. CASE peer = "up"
      <3>1. \A i \in 1..Len(wbuf') : wbuf'[i].req = served + Len(up) + i
        <4>1. \A i \in 1..Len(wbuf) : wbuf'[i].req = served + Len(up) + i
          BY <1>1, <2>3, ExecuteWbuf DEF Numbering
        <4>2. wbuf'[Len(wbuf) + 1].req = served + Len(up) + (Len(wbuf) + 1)
          BY <1>1, <2>3, ExecuteWbuf, Counters DEF Numbering
        <4>3. Len(wbuf') = Len(wbuf) + 1 /\ Len(wbuf) \in Nat
          BY <1>1, ExecuteWbuf
        <4> QED
          BY <4>1, <4>2, <4>3
      <3>2. served + Len(up) + Len(wbuf') = issued + 1
        <4>1. Len(wbuf') = Len(wbuf) + 1
          BY <1>1, ExecuteWbuf
        <4>2. served + Len(up) + Len(wbuf) = issued
          BY <2>3 DEF Numbering
        <4> QED
          BY <4>1, <4>2, Counters
      <3> QED
        BY <1>1, <2>3, <3>1, <3>2 DEF Execute, Numbering
    <2> QED
      BY <2>2, <2>3
  <1>2. ASSUME NEW kind \in {"flush", "close"}, StartFlush(kind)
        PROVE  Numbering'
    BY <1>2 DEF StartFlush, Numbering
  <1>3. CASE CloseHard
    BY <1>3 DEF CloseHard, Numbering
  <1>4. CASE FlushChunk
    <2>0. /\ peer' = peer /\ served' = served /\ issued' = issued
          /\ down' = down /\ consumed' = consumed
      BY <1>4 DEF FlushChunk
    <2>1. CASE peer # "up"
      <3>1. up' = up
        BY <1>4, <2>1, FlushChunkCases
      <3> QED
        BY <2>0, <2>1, <3>1 DEF Numbering
    <2>2. CASE /\ peer = "up" /\ Len(wbuf') = Len(wbuf) /\ up' = up
               /\ \A i \in 1..Len(wbuf) : wbuf'[i].req = wbuf[i].req
      BY <2>0, <2>2 DEF Numbering
    <2>3. CASE /\ peer = "up" /\ Len(wbuf') = Len(wbuf) - 1
               /\ \A i \in 1..Len(wbuf') : wbuf'[i] = wbuf[i + 1]
               /\ up' = Append(up, wbuf[1].req)
      <3>1. /\ wbuf[1].req \in Nat /\ Len(wbuf) \in Nat \ {0}
            /\ wbuf[1].req = served + Len(up) + 1
        BY <1>4, <2>3, FlushChunkCases DEF Numbering
      <3>2. /\ Len(up) \in Nat /\ Len(up') = Len(up) + 1
            /\ \A i \in 1..Len(up) : up'[i] = up[i]
            /\ up'[Len(up) + 1] = wbuf[1].req
        BY <2>3, <3>1, AppendLast DEF TypeOK
      <3>3. \A i \in 1..Len(up') : up'[i] = served + i
        <4>1. \A i \in 1..Len(up) : up'[i] = served + i
          BY <3>2 DEF Numbering
        <4>2. up'[Len(up) + 1] = served + (Len(up) + 1)
          BY <3>1, <3>2, Counters
        <4> QED
          BY <3>2, <4>1, <4>2
      <3>4. \A i \in 1..Len(wbuf') : wbuf'[i].req = served + Len(up') + i
        <4> TAKE i \in 1..Len(wbuf')
        <4>1. i + 1 \in 1..Len(wbuf)
          BY <2>3, <3>1
        <4>2. wbuf[i + 1].req = served + Len(up) + (i + 1)
          BY <2>3, <4>1 DEF Numbering
        <4> QED
          BY <2>3, <3>1, <3>2, <4>2, Counters
      <3>5. served + Len(up') + Len(wbuf') = issued
        BY <2>3, <3>1, <3>2, Counters DEF Numbering
      <3> QED
        BY <2>0, <2>3, <3>3, <3>4, <3>5 DEF Numbering
    <2> QED
      BY <1>4, <2>1, <2>2, <2>3, FlushChunkCases
  <1>5. CASE FlushError
    BY <1>5 DEF FlushError, Numbering
  <1>6. CASE FlushDone
    BY <1>6 DEF FlushDone, Numbering
  <1>7. CASE ReadHeader
    <2>1. CASE FinishBlock
      BY <1>7, <2>1, ReadNumbering DEF ReadHeader
    <2>2. CASE UNCHANGED <<op, got, down, consumed, answers>>
      BY <1>7, <2>2 DEF ReadHeader, Numbering
    <2> QED
      BY <1>7, <2>1, <2>2 DEF ReadHeader
  <1>8. CASE ReadPayload
    BY <1>8, ReadNumbering DEF ReadPayload
  <1>9. CASE ReadMisaligned
    <2>1. PICK k \in 0..Len(down) : /\ down' = SubSeq(down, k + 1, Len(down))
                                    /\ consumed' = consumed + k
      BY <1>9 DEF ReadMisaligned
    <2>2. /\ Len(down) \in Nat /\ Len(down') = Len(down) - k
          /\ \A i \in 1..Len(down') : down'[i] = down[i + k]
      BY <2>1, DropShift, LenProperties DEF TypeOK
    <2>3. k \in Nat /\ k <= Len(down) /\ consumed' = consumed + k
      BY <2>1, <2>2
    <2>4. \A i \in 1..Len(down') : down'[i].req = consumed' + i
      <3> TAKE i \in 1..Len(down')
      <3>1. i + k \in 1..Len(down)
        BY <2>2, <2>3
      <3>2. down[i + k].req = consumed + (i + k)
        BY <3>1 DEF Numbering
      <3> QED
        BY <2>2, <2>3, <3>2, Counters
    <2>5. /\ peer = "up" => consumed' + Len(down') = served
          /\ consumed' + Len(down') <= served
      BY <2>2, <2>3, Counters DEF Numbering
    <2> QED
      BY <1>9, <2>1, <2>2, <2>4, <2>5 DEF ReadMisaligned, Numbering
  <1>10. CASE ReadError
    BY <1>10 DEF ReadError, Numbering
  <1>11. CASE Cancel
    BY <1>11, CancelDown DEF Cancel, Numbering
  <1>12. CASE Serve
    <2>1. /\ Head(up) = up[1] /\ Head(up) \in Nat /\ Len(up) \in Nat \ {0}
          /\ up' = Tail(up) /\ Len(up') = Len(up) - 1
          /\ \A i \in 1..Len(up') : up'[i] = up[i + 1]
      BY <1>12, TailShift DEF Serve, TypeOK
    <2>2. Head(up) = served + 1
      BY <2>1 DEF Numbering
    <2>3. /\ Len(down) \in Nat /\ Len(down') = Len(down) + 1
          /\ \A i \in 1..Len(down) : down'[i] = down[i]
          /\ down'[Len(down) + 1].req = Head(up)
      BY <1>12, <2>1, ServeDown
    <2>4. \A i \in 1..Len(up') : up'[i] = served' + i
      BY <1>12, <2>1 DEF Serve, Numbering, TypeOK
    <2>5. \A i \in 1..Len(down') : down'[i].req = consumed + i
      <3>1. \A i \in 1..Len(down) : down'[i].req = consumed + i
        BY <2>3 DEF Numbering
      <3>2. down'[Len(down) + 1].req = consumed + (Len(down) + 1)
        BY <1>12, <2>2, <2>3, Counters DEF Serve, Numbering
      <3> QED
        BY <2>3, <3>1, <3>2
    <2>6. /\ served' = served + 1 /\ peer = "up" /\ peer' = "up"
          /\ UNCHANGED <<wbuf, consumed, issued>>
      BY <1>12 DEF Serve
    <2>7. consumed + Len(down') = served' /\ consumed + Len(down') <= served'
      BY <2>3, <2>6 DEF Numbering, TypeOK
    <2>8. /\ served' + Len(up') = served + Len(up)
      BY <2>1, <2>6 DEF TypeOK
    <2> QED
      BY <2>4, <2>5, <2>6, <2>7, <2>8 DEF Numbering
  <1>13. CASE Break
    <2>1. PICK k \in 0..Len(down) : down' = SubSeq(down, 1, k)
      BY <1>13 DEF Break
    <2>2. Len(down') = k /\ \A i \in 1..k : down'[i] = down[i]
      BY <2>1, KeepPrefix DEF TypeOK
    <2>3. Len(down) \in Nat
      BY LenProperties DEF TypeOK
    <2>4. consumed + Len(down') <= served
      BY <2>2, <2>3, Counters DEF Numbering
    <2> QED
      BY <1>13, <2>2, <2>3, <2>4 DEF Break, Numbering
  <1> QED
    BY <1>0, <1>1, <1>2, <1>3, <1>4, <1>5, <1>6, <1>7, <1>8, <1>9, <1>10,
       <1>11, <1>12, <1>13 DEF Next, Client

-----------------------------------------------------------------------------
(* Accounting: how many responses are still owed.                          *)

(* An operation that finds a response to read is not on an exhausted       *)
(* socket, so the count of responses owed is exact.                        *)
LEMMA OwedWhileReading ==
    ASSUME TypeOK, Control, Accounting, aligned, down # <<>>,
           phase \in {"header", "payload"}
    PROVE  issued - consumed = abandoned + 1
  <1>1. peer # "dead" /\ op \in Requesting
    BY DEF Control
  <1> QED
    BY <1>1 DEF Accounting, Exhausted, Pending

(* A block read either hands over one response, which settles one request, *)
(* or leaves the account alone.                                            *)
LEMMA ReadAccounting ==
    ASSUME TypeOK, Control, Accounting, aligned, down # <<>>,
           phase \in {"header", "payload"}, FinishBlock,
           UNCHANGED <<issued, aligned, peer, abandoned>>
    PROVE  Accounting'
  <1>1. issued - consumed = abandoned + 1
    BY OwedWhileReading
  <1>2. CASE consumed' = consumed + 1 /\ op' = "none"
    <2>1. issued' - consumed' = abandoned'
      BY <1>1, <1>2, Counters
    <2> QED
      BY <1>2, <2>1, Counters DEF Accounting, Pending, Requesting
  <1>3. CASE UNCHANGED <<op, consumed>>
    BY <1>1, <1>3 DEF Accounting, Pending, Control
  <1> QED
    BY <1>2, <1>3, FinishBlockCases DEF Deliver

(* Every step keeps the account: issuing a request owes one response more, *)
(* reading one settles it, dropping an operation moves it to `abandoned`.  *)
LEMMA AccountingStep ==
    ASSUME TypeOK, Control, Accounting, [Next]_vars
    PROVE  Accounting'
  <1> USE DEF Pending
  <1>0. UNCHANGED vars => Accounting'
    BY DEF Accounting, Exhausted, vars
  <1>1. ASSUME NEW kind \in Requesting, Execute(kind) PROVE Accounting'
    <2>1. op = "none" /\ op' \in Requesting /\ issued' = issued + 1
      BY <1>1 DEF Execute, Control
    <2>2. UNCHANGED <<down, peer, aligned, consumed, abandoned>>
      BY <1>1 DEF Execute
    <2> QED
      BY <2>1, <2>2, Counters DEF Accounting, Exhausted, Requesting
  <1>2. ASSUME NEW kind \in {"flush", "close"}, StartFlush(kind)
        PROVE  Accounting'
    BY <1>2 DEF StartFlush, Control, Accounting, Exhausted, Requesting
  <1>3. CASE CloseHard
    BY <1>3 DEF CloseHard, Accounting, Exhausted
  <1>4. CASE FlushChunk
    BY <1>4 DEF FlushChunk, Accounting, Exhausted
  <1>5. CASE FlushError
    BY <1>5 DEF FlushError, Accounting, Exhausted
  <1>6. CASE FlushDone
    BY <1>6 DEF FlushDone, Accounting, Exhausted, Requesting
  <1>7. CASE ReadHeader
    <2>1. CASE FinishBlock
      BY <1>7, <2>1, ReadAccounting DEF ReadHeader
    <2>2. CASE UNCHANGED <<op, got, down, consumed, answers>>
      BY <1>7, <2>2 DEF ReadHeader, Accounting, Exhausted
    <2> QED
      BY <1>7, <2>1, <2>2 DEF ReadHeader
  <1>8. CASE ReadPayload
    BY <1>8, ReadAccounting DEF ReadPayload
  <1>9. CASE ReadMisaligned
    BY <1>9 DEF ReadMisaligned, Accounting
  <1>10. CASE ReadError
    <2>1. Exhausted'
      BY <1>10 DEF ReadError, Exhausted, TypeOK, Peers
    <2> QED
      BY <1>10, <2>1 DEF ReadError, Accounting
  <1>11. CASE Cancel
    <2>1. Exhausted => Exhausted'
      BY <1>11 DEF Cancel, Exhausted
    <2>2. (aligned' => aligned) /\ (~aligned' => abandoned' > 0)
      <3>1. abandoned' \in {abandoned, abandoned + 1}
        BY <1>11 DEF Cancel
      <3>2. phase = "payload" => abandoned' = abandoned + 1
        BY <1>11 DEF Cancel, Control
      <3>3. aligned' = (aligned /\ phase # "payload")
        BY <1>11 DEF Cancel
      <3>4. ~aligned => abandoned > 0
        BY DEF Accounting
      <3>5. abandoned > 0 => abandoned' > 0
        BY <3>1, Counters
      <3>6. phase = "payload" => abandoned' > 0
        BY <3>2, Counters
      <3>7. aligned' => aligned
        BY <3>3
      <3>8. ~aligned' => ~aligned \/ phase = "payload"
        BY <3>3
      <3> QED
        BY <3>4, <3>5, <3>6, <3>7, <3>8
    <2>3. issued - consumed = abandoned + Pending
            => issued' - consumed' = abandoned' + Pending'
      BY <1>11, Counters DEF Cancel, Requesting
    <2> QED
      BY <2>1, <2>2, <2>3 DEF Accounting
  <1>12. CASE Serve
    BY <1>12 DEF Serve, Accounting, Exhausted
  <1>13. CASE Break
    BY <1>13 DEF Break, Accounting, Exhausted
  <1> QED
    BY <1>0, <1>1, <1>2, <1>3, <1>4, <1>5, <1>6, <1>7, <1>8, <1>9, <1>10,
       <1>11, <1>12, <1>13 DEF Next, Client

-----------------------------------------------------------------------------
(* Handed: what callers were given.                                        *)

(* Handing over either the next response, which is the one owed, or        *)
(* misframed bytes keeps the history of answers lagged and in order.       *)
LEMMA DeliverHanded ==
    ASSUME TypeOK, Handed, op \in Requesting,
           NEW of \in Nat, NEW p \in Parses, Deliver(of, p),
           consumed' \in Nat, consumed <= consumed', of <= consumed',
           \/ of = issued - abandoned /\ consumed < of
           \/ of = 0 /\ abandoned > 0
    PROVE  Handed'
  <1> DEFINE n == Len(answers)
             a == [kind |-> op, mine |-> issued, of |-> of,
                   lag |-> abandoned, parse |-> p]
  <1>1. a \in Answer /\ a.mine = issued /\ a.of = of /\ a.lag = abandoned
    BY DEF Answer, TypeOK
  <1>2. answers \in Seq(Answer) /\ answers' = Append(answers, a)
    BY DEF Deliver, TypeOK
  <1> HIDE DEF a
  <1>3. /\ n \in Nat /\ Len(answers') = n + 1
        /\ \A i \in 1..n : answers'[i] = answers[i]
        /\ answers'[n + 1] = a
    BY <1>1, <1>2, AppendLast
  <1>4. \A i \in 1..n : answers[i] \in Answer
    BY <1>2, ElementOfSeq
  <1>5. \A i \in 1..n : answers[i].of \in Nat /\ answers[i].of <= consumed
    BY <1>4 DEF Answer, Handed
  <1> HIDE DEF n
  <1>6. LaggedDelivery'
    BY <1>1, <1>3 DEF Handed, LaggedDelivery, n
  <1>7. NeverTwice'
    <2> SUFFICES ASSUME NEW i \in 1..(n + 1), NEW j \in 1..(n + 1), i < j,
                        answers'[i].of # 0, answers'[j].of # 0
                 PROVE  answers'[i].of < answers'[j].of
      BY <1>3 DEF NeverTwice, n
    <2>1. i \in 1..n
      BY <1>3
    <2>2. CASE j \in 1..n
      BY <1>3, <2>1, <2>2 DEF Handed, NeverTwice, n
    <2>3. CASE j = n + 1
      <3>1. answers'[j].of = of /\ of # 0 /\ consumed < of
        BY <1>1, <1>3, <2>3
      <3>2. answers'[i].of <= consumed /\ answers'[i].of \in Nat
        BY <1>3, <1>5, <2>1
      <3> QED
        BY <3>1, <3>2, Counters
    <2> QED
      BY <1>3, <2>2, <2>3
  <1>8. \A i \in 1..Len(answers') : answers'[i].of <= consumed'
    <2>1. ASSUME NEW i \in 1..n PROVE answers'[i].of <= consumed'
      <3>1. /\ answers'[i].of = answers[i].of
            /\ answers[i].of \in Nat /\ answers[i].of <= consumed
        BY <1>3, <1>5
      <3> QED
        BY <3>1, Counters
    <2> QED
      BY <1>1, <1>3, <2>1
  <1> QED
    BY <1>6, <1>7, <1>8 DEF Handed

(* A block read hands over nothing, or the response that is owed.          *)
LEMMA ReadHanded ==
    ASSUME TypeOK, Control, Numbering, Accounting, Handed, aligned,
           down # <<>>, phase \in {"header", "payload"}, FinishBlock
    PROVE  Handed'
  <1>1. CASE consumed' = consumed + 1 /\ \E p \in Parses : Deliver(down[1].req, p)
    <2>1. down[1].req = consumed + 1
      BY TailShift, Counters DEF Numbering, TypeOK
    <2>2. consumed + 1 = issued - abandoned
      BY OwedWhileReading, Counters
    <2> DEFINE of == down[1].req
    <2>3. /\ of \in Nat /\ of <= consumed' /\ consumed < of
          /\ of = issued - abandoned
          /\ consumed' \in Nat /\ consumed <= consumed'
      BY <1>1, <2>1, <2>2, Counters
    <2>4. PICK p \in Parses : Deliver(of, p)
      BY <1>1
    <2>5. op \in Requesting
      BY DEF Control
    <2> HIDE DEF of
    <2> QED
      BY <2>3, <2>4, <2>5, DeliverHanded
  <1>2. CASE UNCHANGED <<consumed, answers>>
    BY <1>2 DEF Handed, LaggedDelivery, NeverTwice
  <1> QED
    BY <1>1, <1>2, FinishBlockCases

(* Every step keeps the history of answers lagged and in order; only reads *)
(* touch it.                                                               *)
LEMMA HandedStep ==
    ASSUME TypeOK, Control, Numbering, Accounting, Handed, [Next]_vars
    PROVE  Handed'
  <1>1. ASSUME UNCHANGED <<answers, consumed>> PROVE Handed'
    BY <1>1 DEF Handed, LaggedDelivery, NeverTwice
  <1>2. CASE ReadHeader
    <2>1. CASE FinishBlock
      BY <1>2, <2>1, ReadHanded DEF ReadHeader
    <2>2. CASE UNCHANGED <<op, got, down, consumed, answers>>
      BY <1>1, <2>2
    <2> QED
      BY <1>2, <2>1, <2>2 DEF ReadHeader
  <1>3. CASE ReadPayload
    BY <1>3, ReadHanded DEF ReadPayload
  <1>4. CASE ReadMisaligned
    <2>1. PICK k \in 0..Len(down) : consumed' = consumed + k
      BY <1>4 DEF ReadMisaligned
    <2>2. consumed' \in Nat /\ consumed <= consumed' /\ 0 <= consumed'
      BY <2>1, Counters
    <2>3. PICK p \in Parses : Deliver(0, p)
      BY <1>4 DEF ReadMisaligned
    <2>4. op \in Requesting /\ abandoned > 0
      BY <1>4 DEF ReadMisaligned, Control, Accounting
    <2> QED
      BY <2>2, <2>3, <2>4, DeliverHanded
  <1>5. \/ ReadHeader \/ ReadPayload \/ ReadMisaligned
        \/ UNCHANGED <<answers, consumed>>
    BY DEF Next, Client, vars, Execute, StartFlush, CloseHard, FlushChunk,
           FlushError, FlushDone, ReadError, Cancel, Serve, Break
  <1> QED
    BY <1>1, <1>2, <1>3, <1>4, <1>5

-----------------------------------------------------------------------------
(* The theorems.                                                           *)

(* The inductive invariant holds of every behaviour: every response still  *)
(* to be read, through every buffer, belongs to a known request.           *)
THEOREM Inductive == Spec => []IndInv
  <1>1. Init => IndInv
    <2> SUFFICES ASSUME Init PROVE IndInv
      OBVIOUS
    <2>1. TypeOK
      BY EmptySeq DEF Init, TypeOK, Phases, Ops, Peers
    <2>2. Control
      BY DEF Init, Control
    <2>3. Numbering
      BY EmptySeq DEF Init, Numbering, ExecutedInOrder
    <2>4. Accounting
      BY DEF Init, Accounting, Pending, Requesting
    <2>5. Handed
      BY EmptySeq DEF Init, Handed, LaggedDelivery, NeverTwice
    <2> QED
      BY <2>1, <2>2, <2>3, <2>4, <2>5 DEF IndInv
  <1>2. IndInv /\ [Next]_vars => IndInv'
    BY TypeStep, ControlStep, NumberingStep, AccountingStep, HandedStep
       DEF IndInv
  <1> QED
    BY <1>1, <1>2, PTL DEF Spec

(* Type correctness of every reachable state, for any bounds.              *)
THEOREM TypeCorrect == Spec => []TypeOK
  BY Inductive, PTL DEF IndInv

(* execute_query hands back the response of the request issued `lag`       *)
(* requests earlier, whatever is cancelled, split or lost.                 *)
THEOREM Lagged == Spec => []LaggedDelivery
  BY Inductive, PTL DEF IndInv, Handed

(* No response reaches two callers, and they arrive in order.              *)
THEOREM InOrder == Spec => []NeverTwice
  BY Inductive, PTL DEF IndInv, Handed

(* Statements reach the server in the order issued, each once.             *)
THEOREM StatementsInOrder == Spec => []ExecutedInOrder
  BY Inductive, PTL DEF IndInv, Numbering

(* After a successful close() of a live socket nothing is left unwritten.  *)
THEOREM CloseFlushes == Spec => []GracefulCloseFlushes
  <1>1. IndInv => GracefulCloseFlushes
    <2> SUFFICES ASSUME IndInv, phase = "shut", peer = "up"
                 PROVE  wbuf = <<>> /\ served + Len(up) = issued
      BY DEF GracefulCloseFlushes
    <2>1. wbuf = <<>> /\ Len(wbuf) = 0
      BY EmptySeq DEF IndInv, Control
    <2>2. served \in Nat /\ Len(up) \in Nat
      BY Counters DEF IndInv
    <2> QED
      BY <2>1, <2>2 DEF IndInv, Numbering
  <1> QED
    BY <1>1, Inductive, PTL

-----------------------------------------------------------------------------
(* The refinement of RequestReply.                                         *)

(* What a caller has been told, after one more answer.                     *)
LEMMA ToldAppend ==
    ASSUME TypeOK, op \in Requesting, NEW of \in Nat, NEW p \in Parses,
           Deliver(of, p)
    PROVE  ToldView' = Append(ToldView, [mine |-> issued, of |-> of])
  <1> DEFINE a == [kind |-> op, mine |-> issued, of |-> of,
                   lag |-> abandoned, parse |-> p]
             t == [mine |-> issued, of |-> of]
             n == Len(answers)
  <1>1. a \in Answer /\ answers \in Seq(Answer) /\ issued \in Nat
    BY DEF TypeOK, Answer
  <1>2. answers' = Append(answers, a)
    BY DEF Deliver
  <1>3. /\ n \in Nat /\ Len(answers') = n + 1
        /\ \A i \in 1..n : answers'[i] = answers[i]
        /\ answers'[n + 1] = a
    BY <1>1, <1>2, AppendLast
  <1>4. ToldView \in Seq([mine : Nat, of : Nat]) /\ Len(ToldView) = n
    <2>1. \A i \in 1..n : answers[i] \in Answer
      BY <1>1
    <2>2. \A i \in 1..n : [mine |-> answers[i].mine, of |-> answers[i].of]
                            \in [mine : Nat, of : Nat]
      BY <2>1 DEF Answer
    <2> QED
      BY <1>3, <2>2 DEF ToldView
  <1>5. t \in [mine : Nat, of : Nat]
    BY <1>1
  <1>6. Append(ToldView, t) = [i \in 1..(n + 1) |->
                                 IF i = n + 1 THEN t ELSE ToldView[i]]
    BY <1>3, <1>4, <1>5
  <1>7. \A i \in 1..(n + 1) :
          [mine |-> answers'[i].mine, of |-> answers'[i].of] =
            IF i = n + 1 THEN t ELSE ToldView[i]
    BY <1>3 DEF ToldView
  <1> QED
    BY <1>3, <1>6, <1>7 DEF ToldView

-----------------------------------------------------------------------------
(* The link before and after a step.                                       *)

(* The truth values a field may have, as terms.                            *)
Yes == TRUE
No == FALSE

Open == phase \notin {"shut", "dropped"}
Rec(o, b, n, s, l, a, d) ==
    [open |-> o, busy |-> b, issued |-> n, served |-> s, lag |-> l,
     aligned |-> a, dead |-> d]

WithOpen(r, x) == [r EXCEPT !.open = x]
WithBusy(r, x) == [r EXCEPT !.busy = x]
WithIssued(r, x) == [r EXCEPT !.issued = x]
WithServed(r, x) == [r EXCEPT !.served = x]
WithLag(r, x) == [r EXCEPT !.lag = x]
WithAligned(r, x) == [r EXCEPT !.aligned = x]
WithDead(r, x) == [r EXCEPT !.dead = x]
Dropping(r, x) == [r EXCEPT !.busy = FALSE, !.lag = @ + 1, !.aligned = x]

(* Replacing one field of a link.                                          *)
LEMMA RecUpdate ==
    ASSUME NEW o, NEW b, NEW n, NEW s, NEW l, NEW a, NEW d, NEW x
    PROVE  LET r == Rec(o, b, n, s, l, a, d) IN
           /\ WithOpen(r, x) = Rec(x, b, n, s, l, a, d)
           /\ WithBusy(r, x) = Rec(o, x, n, s, l, a, d)
           /\ WithIssued(r, x) = Rec(o, b, x, s, l, a, d)
           /\ WithServed(r, x) = Rec(o, b, n, x, l, a, d)
           /\ WithLag(r, x) = Rec(o, b, n, s, x, a, d)
           /\ WithAligned(r, x) = Rec(o, b, n, s, l, x, d)
           /\ WithDead(r, x) = Rec(o, b, n, s, l, a, x)
  <1> DEFINE r == Rec(o, b, n, s, l, a, d)
             O == {o}  B == {b}  N == {n}  S == {s}
             L == {l}  A == {a}  D == {d}
  <1>1. r \in [open : O, busy : B, issued : N, served : S, lag : L,
               aligned : A, dead : D]
    BY DEF Rec
  <1>2. /\ r.open = o /\ r.busy = b /\ r.issued = n /\ r.served = s
        /\ r.lag = l /\ r.aligned = a /\ r.dead = d
    BY DEF Rec
  <1> HIDE DEF r, O, B, N, S, L, A, D
  <1>3. /\ WithOpen(r, x) = Rec(x, b, n, s, l, a, d)
           /\ WithBusy(r, x) = Rec(o, x, n, s, l, a, d)
           /\ WithIssued(r, x) = Rec(o, b, x, s, l, a, d)
           /\ WithServed(r, x) = Rec(o, b, n, x, l, a, d)
           /\ WithLag(r, x) = Rec(o, b, n, s, x, a, d)
           /\ WithAligned(r, x) = Rec(o, b, n, s, l, x, d)
           /\ WithDead(r, x) = Rec(o, b, n, s, l, a, x)
    BY <1>1, <1>2 DEF Rec, WithOpen, WithBusy, WithIssued, WithServed,
                      WithLag, WithAligned, WithDead
  <1> QED
    BY <1>3 DEF r

(* The operations of RequestReply on a link given by its fields.           *)
LEMMA LinkOperations ==
    \A o, b, n, s, l, a, d :
      /\ Abstract!Started(Rec(o, b, n, s, l, a, d)) =
           Rec(o, Yes, n + 1, s, l, a, d)
      /\ Abstract!Replied(Rec(o, b, n, s, l, a, d)) = Rec(o, No, n, s, l, a, d)
      /\ Abstract!Failed(Rec(o, b, n, s, l, a, d)) =
           Rec(o, No, n, s, l, a, Yes)
      /\ Abstract!Executed(Rec(o, b, n, s, l, a, d)) =
           Rec(o, b, n, s + 1, l, a, d)
      /\ Abstract!Died(Rec(o, b, n, s, l, a, d)) = Rec(o, b, n, s, l, a, Yes)
      /\ Abstract!Closed(Rec(o, b, n, s, l, a, d)) = Rec(No, b, n, s, l, a, d)
  <1> TAKE o, b, n, s, l, a, d
  <1> DEFINE r == Rec(o, b, n, s, l, a, d)
  <1>1. r.issued = n /\ r.served = s
    BY DEF Rec
  <1>2. Abstract!Started(r) = WithIssued(WithBusy(r, Yes), n + 1)
    BY <1>1 DEF WithIssued, WithBusy, Abstract!Started, Yes
  <1>3. Abstract!Replied(r) = WithBusy(r, No)
    BY DEF Abstract!Replied, WithBusy, No
  <1>4. Abstract!Failed(r) = WithDead(WithBusy(r, No), Yes)
    BY DEF Abstract!Failed, WithBusy, WithDead, Yes, No
  <1>5. Abstract!Died(r) = WithDead(r, Yes)
    BY DEF Abstract!Died, WithDead, Yes
  <1>6. Abstract!Closed(r) = WithOpen(r, No)
    BY DEF Abstract!Closed, WithOpen, No
  <1>7. Abstract!Executed(r) = WithServed(r, s + 1)
    BY <1>1 DEF Abstract!Executed, WithServed
  <1> QED
    BY <1>2, <1>3, <1>4, <1>5, <1>6, <1>7, RecUpdate

(* Dropping an operation of a link given by its fields.                    *)
LEMMA LinkDropping ==
    \A o, b, n, s, l, a, d, x :
      Dropping(Rec(o, b, n, s, l, a, d), x) = Rec(o, No, n, s, l + 1, x, d)
  <1> TAKE o, b, n, s, l, a, d, x
  <1> DEFINE r == Rec(o, b, n, s, l, a, d)
  <1>1. r.lag = l
    BY DEF Rec
  <1>2. Dropping(r, x) = WithAligned(WithLag(WithBusy(r, No), l + 1), x)
    BY <1>1 DEF Dropping, WithAligned, WithLag, WithBusy, No
  <1> QED
    BY <1>2, RecUpdate

(* LinkView, field by field.                                               *)
LEMMA LinkNow ==
    ASSUME NEW o, NEW b, NEW d,
           Open = o, (op \in Requesting) = b, Exhausted = d
    PROVE  LinkView = Rec(o, b, issued, served, abandoned, aligned, d)
  BY SMT DEF LinkView, Open, Rec

(* LinkView after the step, field by field.                                *)
LEMMA LinkNext ==
    ASSUME NEW o, NEW b, NEW d,
           Open' = o, (op' \in Requesting) = b, Exhausted' = d
    PROVE  LinkView' = Rec(o, b, issued', served', abandoned', aligned', d)
  BY SMT DEF LinkView, Open, Rec

(* Whether the socket is exhausted depends on the peer and on whether      *)
(* there is anything left to read.                                         *)
LEMMA ExhaustedBool ==
    /\ Exhausted \in BOOLEAN /\ Exhausted' \in BOOLEAN
    /\ Open \in BOOLEAN /\ Open' \in BOOLEAN
    /\ (op \in Requesting) \in BOOLEAN
  BY DEF Exhausted, Open

(* A step that neither empties nor fills `down` and leaves the peer alone  *)
(* does not change whether the socket is exhausted.                        *)
LEMMA ExhaustedSame ==
    ASSUME peer' = peer, down' = <<>> <=> down = <<>>
    PROVE  Exhausted' = Exhausted
  BY DEF Exhausted

(* A step that moves none of what LinkView and ToldView look at is a       *)
(* stuttering step of the link.                                            *)
LEMMA Stutters ==
    ASSUME Open' = Open, (op' \in Requesting) = (op \in Requesting),
           Exhausted' = Exhausted,
           UNCHANGED <<issued, served, abandoned, aligned, answers>>
    PROVE  UNCHANGED <<LinkView, ToldView>>
  <1>1. LinkView' = LinkView
    BY LinkNow, LinkNext
  <1>2. ToldView' = ToldView
    BY DEF ToldView
  <1> QED
    BY <1>1, <1>2

(* An operation that gets a message makes a Reply of the link, the last    *)
(* one if the socket is exhausted afterwards.                              *)
LEMMA DeliverReplies ==
    ASSUME TypeOK, op \in Requesting, ~Exhausted,
           phase \in {"header", "payload"},
           NEW of \in Nat, NEW p \in Parses, Deliver(of, p),
           of = IF aligned THEN issued - abandoned ELSE 0, of <= served,
           UNCHANGED <<issued, served, aligned, abandoned>>
    PROVE  Abstract!Reply
  <1>1. ToldView' = Append(ToldView, [mine |-> issued, of |-> of])
    BY ToldAppend
  <1>2. Open = Yes /\ Open' = Yes
    BY DEF Deliver, Open, Yes, No
  <1>3. (op \in Requesting) = Yes /\ (op' \in Requesting) = No
    BY DEF Deliver, Requesting, Yes, No
  <1>4. Exhausted = No /\ Exhausted' \in BOOLEAN /\ aligned \in BOOLEAN
    BY ExhaustedBool DEF TypeOK, Yes, No
  <1>5. LinkView = Rec(Yes, Yes, issued, served, abandoned, aligned, No)
    BY <1>2, <1>3, <1>4, LinkNow
  <1>6. LinkView' = Rec(Yes, No, issued, served, abandoned, aligned,
                        Exhausted')
    BY <1>2, <1>3, LinkNext
  <1>7. /\ Abstract!AnswerOf(LinkView) = of /\ LinkView.issued = issued
        /\ LinkView.served = served
    BY <1>4, <1>5 DEF Abstract!AnswerOf, Rec
  <1>8. Abstract!CanReply(LinkView)
    BY <1>5, <1>7 DEF Abstract!CanReply, Abstract!Arrived, Rec, Yes, No
  <1>9. Abstract!Replied(LinkView) =
          Rec(Yes, No, issued, served, abandoned, aligned, No)
    BY <1>5, LinkOperations
  <1>10. Abstract!Died(Abstract!Replied(LinkView)) =
           Rec(Yes, No, issued, served, abandoned, aligned, Yes)
    BY <1>9, LinkOperations
  <1>11. LinkView' \in {Abstract!Replied(LinkView),
                        Abstract!Died(Abstract!Replied(LinkView))}
    <2>1. Exhausted' = Yes \/ Exhausted' = No
      BY <1>4 DEF Yes, No
    <2> QED
      BY <1>6, <1>9, <1>10, <2>1
  <1> QED
    BY <1>1, <1>7, <1>8, <1>11 DEF Abstract!Reply

-----------------------------------------------------------------------------
(* One lemma per kind of step.                                             *)

(* run_query and ping start an operation of the link.                      *)
LEMMA ExecuteRequests ==
    ASSUME TypeOK, Control, NEW kind \in Requesting, Execute(kind)
    PROVE  Abstract!Request
  <1>1. Open = Yes /\ Open' = Yes
    BY DEF Execute, Open, Yes, No
  <1>2. (op \in Requesting) = No /\ (op' \in Requesting) = Yes
    BY DEF Execute, Control, Requesting, Yes, No
  <1>3. Exhausted' = Exhausted
    BY ExhaustedSame DEF Execute
  <1>4. LinkView = Rec(Yes, No, issued, served, abandoned, aligned, Exhausted)
    BY <1>1, <1>2, LinkNow
  <1>5. LinkView' = Rec(Yes, Yes, issued + 1, served, abandoned, aligned,
                        Exhausted)
    BY <1>1, <1>2, <1>3, LinkNext DEF Execute
  <1>6. ToldView' = ToldView
    BY DEF Execute, ToldView
  <1>7. Abstract!CanStart(LinkView)
    BY <1>4 DEF Abstract!CanStart, Rec, Yes, No
  <1>8. LinkView' = Abstract!Started(LinkView)
    BY <1>4, <1>5, LinkOperations
  <1> QED
    BY <1>6, <1>7, <1>8 DEF Abstract!Request

(* An I/O error under a request is a Fail: the socket is exhausted.        *)
LEMMA ErrorFails ==
    ASSUME op \in Requesting, op' = "none", Open, Open', Exhausted',
           UNCHANGED <<issued, served, abandoned, aligned, answers>>
    PROVE  Abstract!Fail
  <1>1. Open = Yes /\ Open' = Yes /\ Exhausted' = Yes
    BY ExhaustedBool DEF Yes, No
  <1>2. (op \in Requesting) = Yes /\ (op' \in Requesting) = No
    BY DEF Requesting, Yes, No
  <1>3. LinkView = Rec(Yes, Yes, issued, served, abandoned, aligned, Exhausted)
    BY <1>1, <1>2, LinkNow
  <1>4. LinkView' = Rec(Yes, No, issued, served, abandoned, aligned, Yes)
    BY <1>1, <1>2, LinkNext
  <1>5. ToldView' = ToldView
    BY DEF ToldView
  <1>6. Abstract!CanFail(LinkView)
    BY <1>3 DEF Abstract!CanFail, Rec, Yes
  <1>7. LinkView' = Abstract!Failed(LinkView)
    BY <1>3, <1>4, LinkOperations
  <1> QED
    BY <1>5, <1>6, <1>7 DEF Abstract!Fail

(* The connection ends, its socket still good, or found dead by close().   *)
LEMMA EndCloses ==
    ASSUME op \notin Requesting, op' \notin Requesting, Open, ~Open',
           Exhausted' = Exhausted \/ Exhausted',
           UNCHANGED <<issued, served, abandoned, aligned, answers>>
    PROVE  Abstract!Close
  <1>1. Open = Yes /\ Open' = No /\ Exhausted' \in BOOLEAN
    BY ExhaustedBool DEF Yes, No
  <1>2. (op \in Requesting) = No /\ (op' \in Requesting) = No
    BY DEF Yes, No
  <1>3. LinkView = Rec(Yes, No, issued, served, abandoned, aligned, Exhausted)
    BY <1>1, <1>2, LinkNow
  <1>4. LinkView' = Rec(No, No, issued, served, abandoned, aligned, Exhausted')
    BY <1>1, <1>2, LinkNext
  <1>5. ToldView' = ToldView
    BY DEF ToldView
  <1>6. Abstract!CanStart(LinkView)
    BY <1>3 DEF Abstract!CanStart, Rec, Yes, No
  <1>7. Abstract!Closed(LinkView) =
          Rec(No, No, issued, served, abandoned, aligned, Exhausted)
    BY <1>3, LinkOperations
  <1>8. Abstract!Died(Abstract!Closed(LinkView)) =
          Rec(No, No, issued, served, abandoned, aligned, Yes)
    BY <1>7, LinkOperations
  <1>9. LinkView' \in {Abstract!Closed(LinkView),
                       Abstract!Died(Abstract!Closed(LinkView))}
    BY <1>1, <1>4, <1>7, <1>8
  <1> QED
    BY <1>5, <1>6, <1>9 DEF Abstract!Close

(* Nobody is told, but no answer will come any more.                       *)
LEMMA ExhaustionDies ==
    ASSUME Open' = Open, (op' \in Requesting) = (op \in Requesting),
           Exhausted',
           UNCHANGED <<issued, served, abandoned, aligned, answers>>
    PROVE  Abstract!Die
  <1>1. LinkView = Rec(Open, op \in Requesting, issued, served, abandoned,
                       aligned, Exhausted)
    BY LinkNow
  <1>2. Exhausted' = Yes
    BY ExhaustedBool DEF Yes, No
  <1>3. LinkView' = Rec(Open, op \in Requesting, issued, served, abandoned,
                        aligned, Yes)
    BY <1>2, LinkNext
  <1>4. ToldView' = ToldView
    BY DEF ToldView
  <1>5. LinkView' = Abstract!Died(LinkView)
    BY <1>1, <1>3, LinkOperations
  <1> QED
    BY <1>4, <1>5 DEF Abstract!Die

(* A block read is a Reply when it completes the message, and invisible    *)
(* otherwise.                                                              *)
LEMMA BlockReplies ==
    ASSUME IndInv, aligned, down # <<>>, phase \in {"header", "payload"},
           FinishBlock,
           UNCHANGED <<wbuf, up, served, issued, aligned, peer, abandoned>>
    PROVE  Abstract!Reply \/ UNCHANGED <<LinkView, ToldView>>
  <1>1. TypeOK /\ op \in Requesting /\ peer # "dead"
    BY DEF IndInv, Control
  <1>2. CASE /\ down' = Tail(down) /\ consumed' = consumed + 1
             /\ \E p \in Parses : Deliver(down[1].req, p)
    <2>1. down[1].req = consumed + 1
      BY <1>1, TailShift DEF IndInv, Numbering, TypeOK
    <2>2. issued - consumed = abandoned + 1
      BY OwedWhileReading DEF IndInv
    <2>3. down[1].req = issued - abandoned /\ down[1].req \in Nat
      BY <1>1, <2>1, <2>2 DEF TypeOK
    <2>4. ~Exhausted
      BY <1>1 DEF Exhausted
    <2>5. down[1].req <= served
      BY <1>1, <2>1, TailShift, Counters DEF IndInv, Numbering, TypeOK
    <2> QED
      BY <1>1, <1>2, <2>3, <2>4, <2>5, DeliverReplies
  <1>3. CASE /\ down' \in Seq(Response) /\ Len(down') = Len(down)
             /\ got' = got + 1 /\ phase' = "header"
             /\ UNCHANGED <<op, consumed, answers>>
    <2>1. down' # <<>>
      BY <1>1, <1>3, EmptySeq DEF TypeOK
    <2>2. Exhausted' = Exhausted
      BY <2>1, ExhaustedSame
    <2>3. Open' = Open
      BY <1>3 DEF Open
    <2> QED
      BY <1>3, <2>2, <2>3, Stutters
  <1> QED
    BY <1>1, <1>2, <1>3, FinishBlockCases

(* A dropped request is a Drop, a dropped flush() nothing, a dropped       *)
(* close() the end of the connection.                                      *)
LEMMA CancelDrops ==
    ASSUME IndInv, Cancel
    PROVE  \/ Abstract!Drop \/ Abstract!Close
           \/ UNCHANGED <<LinkView, ToldView>>
  <1>1. TypeOK /\ op # "none" /\ op \in Ops /\ aligned \in BOOLEAN
    BY DEF IndInv, Control, TypeOK, Cancel, Requesting
  <1>2. Exhausted' = Exhausted
    <2>1. down' = <<>> <=> down = <<>>
      BY <1>1, CancelDown, EmptySeq DEF TypeOK
    <2> QED
      BY <2>1, ExhaustedSame DEF Cancel
  <1>3. Open = Yes /\ op' = "none" /\ UNCHANGED <<issued, served, answers>>
    BY DEF Cancel, Open, Yes, No
  <1>4. CASE op \in Requesting
    <2>1. Open' = Yes /\ abandoned' = abandoned + 1
      BY <1>4 DEF Cancel, Open, Requesting, Yes, No
    <2>2. (op \in Requesting) = Yes /\ (op' \in Requesting) = No
      BY <1>3, <1>4 DEF Requesting, Yes, No
    <2>3. aligned' \in {aligned, FALSE}
      BY <1>1 DEF Cancel
    <2>4. LinkView = Rec(Yes, Yes, issued, served, abandoned, aligned,
                         Exhausted)
      BY <1>3, <2>2, LinkNow
    <2>5. LinkView' = Rec(Yes, No, issued, served, abandoned + 1, aligned',
                          Exhausted)
      BY <1>2, <1>3, <2>1, <2>2, LinkNext
    <2>6. LinkView' = Dropping(LinkView, aligned')
      BY <2>4, <2>5, LinkDropping
    <2>7. LinkView.aligned = aligned /\ Abstract!CanFail(LinkView)
      BY <2>4 DEF Abstract!CanFail, Rec, Yes, No
    <2>8. LinkView' \in Abstract!Dropped(LinkView)
      BY <2>3, <2>6, <2>7 DEF Abstract!Dropped, Dropping
    <2>9. ToldView' = ToldView
      BY <1>3 DEF ToldView
    <2> QED
      BY <2>7, <2>8, <2>9 DEF Abstract!Drop
  <1>5. CASE op \notin Requesting
    <2>1. phase = "flush" /\ UNCHANGED <<abandoned, aligned>>
      BY <1>1, <1>5 DEF IndInv, Control, Cancel
    <2>2. CASE op = "close"
      <3>1. Open /\ ~Open' /\ op' \notin Requesting
        BY <1>3, <2>2 DEF Cancel, Open, Requesting
      <3> QED
        BY <1>2, <1>3, <1>5, <2>1, <3>1, EndCloses
    <2>3. CASE op # "close"
      <3>1. Open' = Open
        BY <1>3, <2>3 DEF Cancel, Open
      <3>2. (op' \in Requesting) = (op \in Requesting)
        BY <1>3, <1>5 DEF Requesting
      <3> QED
        BY <1>2, <1>3, <2>1, <3>1, <3>2, Stutters
    <2> QED
      BY <2>2, <2>3
  <1> QED
    BY <1>4, <1>5

(* A failed write fails a request, kills an idle link or ends close().     *)
LEMMA FlushErrorFails ==
    ASSUME IndInv, FlushError
    PROVE  Abstract!Fail \/ Abstract!Close \/ Abstract!Die
  <1>1. /\ Open /\ op' = "none" /\ Exhausted'
        /\ UNCHANGED <<issued, served, abandoned, aligned, answers>>
    BY DEF FlushError, Open, Exhausted
  <1>2. op' \notin Requesting
    BY <1>1 DEF Requesting
  <1>3. CASE op \in Requesting
    <2>1. Open'
      BY <1>3 DEF FlushError, Open, Requesting
    <2> QED
      BY <1>1, <1>3, <2>1, ErrorFails
  <1>4. CASE op = "close"
    <2>1. ~Open' /\ op \notin Requesting
      BY <1>4 DEF FlushError, Open, Requesting
    <2> QED
      BY <1>1, <1>2, <2>1, EndCloses
  <1>5. CASE op \notin Requesting /\ op # "close"
    <2>1. Open' = Open
      BY <1>5 DEF FlushError, Open
    <2>2. (op' \in Requesting) = (op \in Requesting)
      BY <1>2, <1>5
    <2> QED
      BY <1>1, <2>1, <2>2, ExhaustionDies
  <1> QED
    BY <1>3, <1>4, <1>5

(* Once everything is written a request is read on, flush() returns and    *)
(* close() ends the connection.                                            *)
LEMMA FlushDoneCloses ==
    ASSUME IndInv, FlushDone
    PROVE  Abstract!Close \/ UNCHANGED <<LinkView, ToldView>>
  <1>1. UNCHANGED <<issued, served, abandoned, aligned, answers>>
    BY DEF FlushDone
  <1>2. Exhausted' = Exhausted
    BY ExhaustedSame DEF FlushDone
  <1>3. CASE op = "close"
    <2>1. Open /\ ~Open' /\ op' \notin Requesting /\ op \notin Requesting
      BY <1>3 DEF FlushDone, Open, Requesting
    <2> QED
      BY <1>1, <1>2, <2>1, EndCloses
  <1>4. CASE op # "close"
    <2>1. Open' = Open
      BY <1>4 DEF FlushDone, Open
    <2>2. (op' \in Requesting) = (op \in Requesting)
      BY <1>4 DEF FlushDone, Requesting
    <2> QED
      BY <1>1, <1>2, <2>1, <2>2, Stutters
  <1> QED
    BY <1>3, <1>4

(* The server's step is an Execute: what it takes from its input has been  *)
(* issued.                                                                 *)
LEMMA ServeExecutes ==
    ASSUME IndInv, Serve
    PROVE  Abstract!Execute
  <1>1. TypeOK /\ peer = "up" /\ up # <<>> /\ served' = served + 1
    BY DEF IndInv, Serve
  <1>2. Open' = Open /\ op' = op /\ Exhausted' = Exhausted
    BY DEF Serve, Open, Exhausted
  <1>3. UNCHANGED <<issued, abandoned, aligned, answers>>
    BY DEF Serve
  <1>4. LinkView = Rec(Open, op \in Requesting, issued, served, abandoned,
                       aligned, Exhausted)
    BY LinkNow
  <1>5. LinkView' = Rec(Open, op \in Requesting, issued, served + 1, abandoned,
                        aligned, Exhausted)
    BY <1>1, <1>2, <1>3, LinkNext
  <1>6. LinkView' = Abstract!Executed(LinkView)
    BY <1>4, <1>5, LinkOperations
  <1>7. served < issued
    <2>1. Len(up) \in Nat \ {0}
      BY <1>1, TailShift DEF TypeOK
    <2>2. served + Len(up) + Len(wbuf) = issued
      BY <1>1 DEF IndInv, Numbering
    <2> QED
      BY <1>1, <2>1, <2>2, Counters
  <1>8. Abstract!CanExecute(LinkView)
    BY <1>4, <1>7 DEF Abstract!CanExecute, Rec
  <1>9. ToldView' = ToldView
    BY <1>3 DEF ToldView
  <1> QED
    BY <1>6, <1>8, <1>9 DEF Abstract!Execute

(* Every step of the connection, the server and the network is a step of   *)
(* the link or leaves it alone.                                            *)
LEMMA StepSimulation ==
    ASSUME IndInv, [Next]_vars
    PROVE  [Abstract!Next]_<<LinkView, ToldView>>
  <1> DEFINE Stutter == UNCHANGED <<LinkView, ToldView>>
  <1>0. TypeOK /\ Control
    BY DEF IndInv
  <1>1. CASE UNCHANGED vars
    <2>1. Open' = Open /\ Exhausted' = Exhausted
      BY <1>1 DEF vars, Open, Exhausted
    <2> QED
      BY <1>1, <2>1, Stutters DEF vars
  <1>2. ASSUME NEW kind \in Requesting, Execute(kind) PROVE Abstract!Next
    BY <1>0, <1>2, ExecuteRequests DEF Abstract!Next
  <1>3. ASSUME NEW kind \in {"flush", "close"}, StartFlush(kind) PROVE Stutter
    <2>1. Open' = Open /\ Exhausted' = Exhausted
      BY <1>3, ExhaustedSame DEF StartFlush, Open
    <2>2. (op' \in Requesting) = (op \in Requesting)
      BY <1>0, <1>3 DEF StartFlush, Control, Requesting
    <2> QED
      BY <1>3, <2>1, <2>2, Stutters DEF StartFlush
  <1>4. CASE CloseHard
    <2>1. Open /\ ~Open' /\ op' \notin Requesting /\ op \notin Requesting
      BY <1>0, <1>4 DEF CloseHard, Control, Open, Requesting
    <2>2. Exhausted' = Exhausted
      BY <1>4, ExhaustedSame DEF CloseHard
    <2>3. Abstract!Close
      BY <1>4, <2>1, <2>2, EndCloses DEF CloseHard
    <2> QED
      BY <2>3 DEF Abstract!Next
  <1>5. CASE FlushChunk
    <2>1. Open' = Open /\ Exhausted' = Exhausted
      BY <1>5, ExhaustedSame DEF FlushChunk, Open
    <2> QED
      BY <1>5, <2>1, Stutters DEF FlushChunk
  <1>6. CASE FlushError
    BY <1>6, FlushErrorFails DEF Abstract!Next
  <1>7. CASE FlushDone
    BY <1>7, FlushDoneCloses DEF Abstract!Next
  <1>8. CASE ReadHeader
    <2>1. CASE FinishBlock
      <3>1. Abstract!Reply \/ Stutter
        BY <1>8, <2>1, BlockReplies DEF ReadHeader
      <3> QED
        BY <3>1 DEF Abstract!Next
    <2>2. CASE /\ phase' = "payload"
               /\ UNCHANGED <<op, got, down, consumed, answers>>
      <3>1. Open' = Open /\ Exhausted' = Exhausted
        BY <1>8, <2>2, ExhaustedSame DEF ReadHeader, Open
      <3> QED
        BY <1>8, <2>2, <3>1, Stutters DEF ReadHeader
    <2> QED
      BY <1>8, <2>1, <2>2 DEF ReadHeader
  <1>9. CASE ReadPayload
    <2>1. Abstract!Reply \/ Stutter
      BY <1>9, BlockReplies DEF ReadPayload
    <2> QED
      BY <2>1 DEF Abstract!Next
  <1>10. CASE ReadMisaligned
    <2>1. op \in Requesting /\ ~Exhausted
      BY <1>0, <1>10 DEF ReadMisaligned, Control, Exhausted
    <2>2. PICK p \in Parses : Deliver(0, p)
      BY <1>10 DEF ReadMisaligned
    <2>3. 0 <= served
      BY <1>0, Counters
    <2>4. Abstract!Reply
      BY <1>0, <1>10, <2>1, <2>2, <2>3, DeliverReplies DEF ReadMisaligned
    <2> QED
      BY <2>4 DEF Abstract!Next
  <1>11. CASE ReadError
    <2>1. /\ op \in Requesting /\ op' = "none" /\ Open /\ Open'
          /\ UNCHANGED <<issued, served, abandoned, aligned, answers>>
      BY <1>0, <1>11 DEF ReadError, Control, Open
    <2>2. Exhausted'
      BY <1>0, <1>11 DEF ReadError, Exhausted, TypeOK, Peers
    <2>3. Abstract!Fail
      BY <2>1, <2>2, ErrorFails
    <2> QED
      BY <2>3 DEF Abstract!Next
  <1>12. CASE Cancel
    BY <1>12, CancelDrops DEF Abstract!Next
  <1>13. CASE Serve
    BY <1>13, ServeExecutes DEF Abstract!Next
  <1>14. CASE Break
    <2>1. /\ Open' = Open /\ op' = op
          /\ UNCHANGED <<issued, served, abandoned, aligned, answers>>
      BY <1>14 DEF Break, Open
    <2>2. CASE Exhausted'
      <3>1. Abstract!Die
        BY <2>1, <2>2, ExhaustionDies
      <3> QED
        BY <3>1 DEF Abstract!Next
    <2>3. CASE ~Exhausted'
      <3>1. Exhausted' = Exhausted
        BY <1>14, <2>3, ExhaustedBool DEF Break, Exhausted
      <3> QED
        BY <2>1, <3>1, Stutters
    <2> QED
      BY <2>2, <2>3
  <1> QED
    BY <1>1, <1>2, <1>3, <1>4, <1>5, <1>6, <1>7, <1>8, <1>9, <1>10, <1>11,
       <1>12, <1>13, <1>14 DEF Next, Client

(* The connection, with its buffers, blocks, cancellations and a socket    *)
(* that may break at any time, is a RequestReply link: this is what        *)
(* MonetPool relies on when it keeps links for connections.                *)
THEOREM Refinement == Spec => IsRequestReply
  <1>1. Init => Abstract!Init
    <2> SUFFICES ASSUME Init PROVE Abstract!Init
      OBVIOUS
    <2>1. Open = Yes /\ (op \in Requesting) = No /\ Exhausted = No
      BY DEF Init, Open, Requesting, Exhausted, Yes, No
    <2>2. LinkView = Rec(Yes, No, issued, served, abandoned, aligned, No)
      BY <2>1, LinkNow
    <2>3. LinkView = Abstract!Fresh
      <3>1. Abstract!Fresh = Rec(Yes, No, 0, 0, 0, Yes, No)
        BY Zenon DEF Abstract!Fresh, Rec, Yes, No
      <3>2. issued = 0 /\ served = 0 /\ abandoned = 0 /\ aligned = Yes
        BY DEF Init, Yes
      <3> QED
        BY <2>2, <3>1, <3>2
    <2>4. ToldView = <<>>
      BY DEF Init, ToldView
    <2> QED
      BY <2>3, <2>4 DEF Abstract!Init
  <1>2. IndInv /\ [Next]_vars => [Abstract!Next]_<<LinkView, ToldView>>
    BY StepSimulation
  <1> QED
    BY <1>1, <1>2, Inductive, PTL DEF Spec, IsRequestReply, Abstract!Spec
=============================================================================
