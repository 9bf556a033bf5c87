---------------------------- MODULE RequestReply ----------------------------
(***************************************************************************)
(* What a MonetConnection promises whoever holds it, without buffers,      *)
(* blocks or sockets: operations one at a time, each of them ended by an   *)
(* answer, by an I/O error or by being dropped.  Every dropped operation   *)
(* puts all later answers one further behind, and nothing but closing the  *)
(* connection ends that.  The server executes the requests in order, the   *)
(* dropped ones too, whenever they reach it.                               *)
(*                                                                         *)
(* A link is a record, so that MonetPool can keep several of them;         *)
(* MonetConnection is checked against Spec.                                *)
(***************************************************************************)
EXTENDS Integers, Sequences

(* issued: requests so far, the last of them pending while busy; served:   *)
(* those the server has executed; lag: dropped operations; aligned: reads  *)
(* start at a block header; dead: no answer will come any more.            *)
Link == [open : BOOLEAN, busy : BOOLEAN, issued : Nat, served : Nat, lag : Nat,
         aligned : BOOLEAN, dead : BOOLEAN]

Fresh == [open |-> TRUE, busy |-> FALSE, issued |-> 0, served |-> 0, lag |-> 0,
          aligned |-> TRUE, dead |-> FALSE]

CanStart(l) == l.open /\ ~l.busy
Started(l) == [l EXCEPT !.busy = TRUE, !.issued = @ + 1]

(* The request that the next message read answers; 0: bytes out of step.   *)
AnswerOf(l) == IF l.aligned THEN l.issued - l.lag ELSE 0

(* An answer is there to read once its request has been executed.          *)
Arrived(l) == AnswerOf(l) <= l.served
CanReply(l) == l.open /\ l.busy /\ ~l.dead /\ Arrived(l)
Replied(l) == [l EXCEPT !.busy = FALSE]

(* After an I/O error every later operation fails too.                     *)
CanFail(l) == l.open /\ l.busy
Failed(l) == [l EXCEPT !.busy = FALSE, !.dead = TRUE]

(* The future is dropped, perhaps between a header and its payload.        *)
Dropped(l) == {[l EXCEPT !.busy = FALSE, !.lag = @ + 1, !.aligned = a] :
                 a \in {l.aligned, FALSE}}

CanExecute(l) == l.served < l.issued
Executed(l) == [l EXCEPT !.served = @ + 1]

Died(l) == [l EXCEPT !.dead = TRUE]
Closed(l) == [l EXCEPT !.open = FALSE]

-----------------------------------------------------------------------------
VARIABLES link, told   \* told: the answers handed out, in order

Init == link = Fresh /\ told = <<>>

Request == CanStart(link) /\ link' = Started(link) /\ UNCHANGED told

(* An answer may be the last one a dying connection delivers.              *)
Reply ==
    /\ CanReply(link)
    /\ link' \in {Replied(link), Died(Replied(link))}
    /\ told' = Append(told, [mine |-> link.issued, of |-> AnswerOf(link)])

Fail == CanFail(link) /\ link' = Failed(link) /\ UNCHANGED told

Drop == CanFail(link) /\ link' \in Dropped(link) /\ UNCHANGED told

Execute == CanExecute(link) /\ link' = Executed(link) /\ UNCHANGED told

Die == link' = Died(link) /\ UNCHANGED told

Close == /\ CanStart(link)
         /\ link' \in {Closed(link), Died(Closed(link))}
         /\ UNCHANGED told

Next == Request \/ Reply \/ Fail \/ Drop \/ Execute \/ Die \/ Close

Spec == Init /\ [][Next]_<<link, told>>
=============================================================================
