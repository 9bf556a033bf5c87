------------------------------ MODULE MonetPool ------------------------------
(***************************************************************************)
(* Pool<Monet>: tasks that share connections through sqlx-core's pool.     *)
(*                                                                         *)
(* The driver writes no pool code; what the pool sees of it is connect,    *)
(* ping, close_hard, and the statements tasks run while they hold a        *)
(* connection.  Each connection is a RequestReply link, which              *)
(* MonetConnection implements.  The pool itself is external: waiters are   *)
(* served in turn, a connection is pinged when it is handed back and,      *)
(* with test_before_acquire, again before it is handed out; a ping that    *)
(* returns an error, or is dropped, ends the connection.                   *)
(***************************************************************************)
EXTENDS Integers, Sequences, FiniteSets

CONSTANTS Tasks, Conns,
          Pool,              \* issuer of the pings
          Nobody,
          MaxRequests        \* bound: requests on one connection

ASSUME PoolAssumption ==
    /\ Pool \notin Tasks /\ Nobody \notin Tasks /\ Pool # Nobody
    /\ MaxRequests \in Nat

VARIABLES
    tests,    \* PoolOptions::test_before_acquire
    link,     \* the RequestReply link of each connection
    place,    \* where the pool has it: see Places
    holder,   \* the task that has it, or for which it is being pinged
    asked,    \* who issued each of its requests
    broken,   \* history: the task that got an I/O error from it
    queue,    \* tasks waiting in acquire(), in order
    got       \* the last answer handed to a task that holds a connection

vars == <<tests, link, place, holder, asked, broken, queue, got>>

RR == INSTANCE RequestReply WITH link <- link, told <- got

Places == {"none", "idle", "acquiring", "held", "returning"}
NoAnswer == [from |-> Nobody, lag |-> 0]

Init ==
    /\ tests \in BOOLEAN
    /\ link = [c \in Conns |-> RR!Fresh]
    /\ place = [c \in Conns |-> "none"]
    /\ holder = [c \in Conns |-> Nobody]
    /\ asked = [c \in Conns |-> <<>>]
    /\ broken = [c \in Conns |-> Nobody]
    /\ queue = <<>>
    /\ got = [t \in Tasks |-> NoAnswer]

Holds(t, c) == place[c] = "held" /\ holder[c] = t
Away(t) == /\ \A i \in 1..Len(queue) : queue[i] # t
           /\ \A c \in Conns : holder[c] # t

-----------------------------------------------------------------------------
(* The pool.                                                               *)

(* The connection value is gone, its slot is free.                         *)
Vacate(c) ==
    /\ place' = [place EXCEPT ![c] = "none"]
    /\ holder' = [holder EXCEPT ![c] = Nobody]
    /\ link' = [link EXCEPT ![c] = RR!Fresh]
    /\ asked' = [asked EXCEPT ![c] = <<>>]
    /\ broken' = [broken EXCEPT ![c] = Nobody]

Move(c, p, t) ==
    /\ place' = [place EXCEPT ![c] = p]
    /\ holder' = [holder EXCEPT ![c] = t]

(* A request of `who` goes out on c.                                       *)
Issue(c, who) ==
    /\ RR!CanStart(link[c]) /\ link[c].issued < MaxRequests
    /\ link' = [link EXCEPT ![c] = RR!Started(@)]
    /\ asked' = [asked EXCEPT ![c] = Append(@, who)]

Wait(t) ==
    /\ Away(t)
    /\ queue' = Append(queue, t)
    /\ UNCHANGED <<tests, link, place, holder, asked, broken, got>>

(* acquire_timeout, or the acquire future is dropped.                      *)
GiveUp(t) ==
    /\ \E i \in 1..Len(queue) :
         /\ queue[i] = t
         /\ queue' = SubSeq(queue, 1, i - 1) \o SubSeq(queue, i + 1, Len(queue))
    /\ UNCHANGED <<tests, link, place, holder, asked, broken, got>>

(* An idle connection is taken for the first waiter, and pinged.           *)
TakeIdle(c) ==
    /\ queue # <<>> /\ place[c] = "idle"
    /\ \/ /\ tests
          /\ Move(c, "acquiring", Head(queue)) /\ Issue(c, Pool)
       \/ /\ ~tests
          /\ Move(c, "held", Head(queue)) /\ UNCHANGED <<link, asked>>
    /\ queue' = Tail(queue)
    /\ UNCHANGED <<tests, broken, got>>

(* No idle connection, but a free slot: MonetConnectOptions::connect.      *)
Connect(c) ==
    /\ queue # <<>> /\ place[c] = "none"
    /\ \A d \in Conns : place[d] # "idle"
    /\ Move(c, "held", Head(queue))
    /\ queue' = Tail(queue)
    /\ UNCHANGED <<tests, link, asked, broken, got>>

(* The connection is over its lifetime or idle timeout, or the pool closes.*)
Expire(c) == place[c] = "idle" /\ Vacate(c) /\ UNCHANGED <<tests, queue, got>>

(* Mutant: ping returns Ok without a round trip.                           *)
HandBackPingless(t, c) ==
    /\ Holds(t, c) /\ ~link[c].busy
    /\ Move(c, "idle", Nobody)
    /\ got' = [got EXCEPT ![t] = NoAnswer]
    /\ UNCHANGED <<tests, link, asked, broken, queue>>

(* The PoolConnection is dropped: the pool pings before it keeps it.       *)
HandBack(t, c) ==
    /\ Holds(t, c) /\ ~link[c].busy
    /\ \/ /\ Move(c, "returning", Nobody) /\ Issue(c, Pool)
          /\ UNCHANGED broken
       \/ link[c].issued = MaxRequests /\ Vacate(c)  \* max_lifetime
    /\ got' = [got EXCEPT ![t] = NoAnswer]
    /\ UNCHANGED <<tests, queue>>

-----------------------------------------------------------------------------
(* The driver, as the pool and the tasks see it.                           *)

(* Mutant: ping does not look at what execute_query returns.               *)
PingIgnoresError(c) ==
    /\ place[c] \in {"acquiring", "returning"}
    /\ RR!CanFail(link[c])
    /\ link' = [link EXCEPT ![c] = RR!Failed(@)]
    /\ IF place[c] = "returning" THEN Move(c, "idle", Nobody)
                                 ELSE Move(c, "held", holder[c])
    /\ UNCHANGED <<tests, asked, broken, queue, got>>

(* Mutant: while stale answers are due ping retries, on a dead socket too. *)
PingRetries(c) ==
    /\ place[c] \in {"acquiring", "returning"}
    /\ RR!CanFail(link[c]) /\ link[c].lag = 0
    /\ Vacate(c)
    /\ UNCHANGED <<tests, queue, got>>

(* ping returns an error: the socket failed, or the message it took for    *)
(* its answer was an error or did not parse.  close_hard follows.          *)
PingErr(c) ==
    /\ place[c] \in {"acquiring", "returning"}
    /\ RR!CanFail(link[c])
    /\ Vacate(c)
    /\ UNCHANGED <<tests, queue, got>>

(* ping reads one message, whichever it is, and it parses: the connection  *)
(* is handed out or kept.                                                  *)
PingOk(c) ==
    /\ place[c] \in {"acquiring", "returning"}
    /\ RR!CanReply(link[c])
    /\ link' = [link EXCEPT ![c] = RR!Replied(@)]
    /\ IF place[c] = "returning" THEN Move(c, "idle", Nobody)
                                 ELSE Move(c, "held", holder[c])
    /\ UNCHANGED <<tests, asked, broken, queue, got>>

(* The acquire future is dropped while it pings; the connection with it.   *)
PingDropped(c) ==
    /\ place[c] = "acquiring"
    /\ Vacate(c)
    /\ UNCHANGED <<tests, queue, got>>

(* run_query.  What was written is executed in the order issued, the       *)
(* dropped statements too, whoever has the connection by then.             *)
Run(t, c) ==
    /\ Holds(t, c)
    /\ Issue(c, t)
    /\ UNCHANGED <<tests, place, holder, broken, queue, got>>

(* Mutant: every answer is taken to make up for a dropped operation.       *)
AnsweredCatchesUp(t, c) ==
    /\ Holds(t, c) /\ RR!CanReply(link[c])
    /\ got' = [got EXCEPT ![t] = [from |-> t, lag |-> link[c].lag]]
    /\ link' = [link EXCEPT ![c].busy = FALSE, ![c].lag = @ - 1]
    /\ UNCHANGED <<tests, place, holder, asked, broken, queue>>

(* The answer is the next message, an error line included.                 *)
Answered(t, c) ==
    /\ Holds(t, c) /\ RR!CanReply(link[c])
    /\ LET of == RR!AnswerOf(link[c]) IN
         got' = [got EXCEPT ![t] =
                   [from |-> IF of = 0 THEN Nobody ELSE asked[c][of],
                    lag |-> link[c].lag]]
    /\ link' = [link EXCEPT ![c] = RR!Replied(@)]
    /\ UNCHANGED <<tests, place, holder, asked, broken, queue>>

Errored(t, c) ==
    /\ Holds(t, c) /\ RR!CanFail(link[c])
    /\ link' = [link EXCEPT ![c] = RR!Failed(@)]
    /\ broken' = [broken EXCEPT ![c] = t]
    /\ UNCHANGED <<tests, place, holder, asked, queue, got>>

Abandoned(t, c) ==
    /\ Holds(t, c) /\ RR!CanFail(link[c])
    /\ \E l \in RR!Dropped(link[c]) : link' = [link EXCEPT ![c] = l]
    /\ UNCHANGED <<tests, place, holder, asked, broken, queue, got>>

Release(t, c) == HandBack(t, c)

(* begin and the transaction manager are unimplemented!(): the task        *)
(* unwinds before anything is written and drops its connection.            *)
Begin(t, c) == HandBack(t, c)

(* So is prepare_with.                                                     *)
Prepare(t, c) == HandBack(t, c)

(* The server executes the oldest statement it has not executed yet.       *)
Serve(c) ==
    /\ place[c] # "none" /\ RR!CanExecute(link[c])
    /\ link' = [link EXCEPT ![c] = RR!Executed(@)]
    /\ UNCHANGED <<tests, place, holder, asked, broken, queue, got>>

(* The server or the network goes away.                                    *)
Die(c) ==
    /\ place[c] # "none" /\ ~link[c].dead
    /\ link' = [link EXCEPT ![c] = RR!Died(@)]
    /\ UNCHANGED <<tests, place, holder, asked, broken, queue, got>>

-----------------------------------------------------------------------------
(* An operation returns as long as reads are in step, once its answer has  *)
(* arrived or none will (OperationsEnd of MonetConnection).                *)
Due(l) == l.aligned /\ (RR!Arrived(l) \/ l.dead)
PingEnds(c) == Due(link[c]) /\ (PingOk(c) \/ PingErr(c))
RunEnds(c) == Due(link[c]) /\ \E t \in Tasks : Answered(t, c) \/ Errored(t, c)

Next ==
    \/ \E t \in Tasks : Wait(t) \/ GiveUp(t)
    \/ \E c \in Conns : TakeIdle(c) \/ Connect(c) \/ Expire(c)
                        \/ PingOk(c) \/ PingErr(c) \/ PingDropped(c)
                        \/ Serve(c) \/ Die(c)
    \/ \E t \in Tasks, c \in Conns :
         \/ Run(t, c) \/ Answered(t, c) \/ Errored(t, c) \/ Abandoned(t, c)
         \/ Release(t, c) \/ Begin(t, c) \/ Prepare(t, c)

Spec == Init /\ [][Next]_vars

(* The pool acts, the server executes, operations end, and a task that has *)
(* its answer lets go of the connection sooner or later.                   *)
Fairness ==
    \A c \in Conns :
        /\ WF_vars(TakeIdle(c)) /\ WF_vars(Connect(c)) /\ WF_vars(Expire(c))
        /\ WF_vars(PingEnds(c)) /\ WF_vars(RunEnds(c))
        /\ WF_vars(Serve(c))
        /\ SF_vars(\E t \in Tasks : Release(t, c))

FairSpec == Spec /\ Fairness

-----------------------------------------------------------------------------
(* Properties.                                                             *)

(* Every variable has its type, and a link is never read past what was     *)
(* asked of it.                                                            *)
TypeOK ==
    /\ tests \in BOOLEAN
    /\ link \in [Conns -> RR!Link]
    /\ place \in [Conns -> Places]
    /\ holder \in [Conns -> Tasks \cup {Nobody}]
    /\ asked \in [Conns -> Seq(Tasks \cup {Pool})]
    /\ broken \in [Conns -> Tasks \cup {Nobody}]
    /\ queue \in Seq(Tasks)
    /\ got \in [Tasks -> [from : Tasks \cup {Pool, Nobody}, lag : Nat]]

(* Pings between one task's last statement and the next task's first.      *)
PingsBetween == IF tests THEN 2 ELSE 1

(* ping accepts whatever message comes next, so a connection that is       *)
(* behind passes for healthy; but each ping also takes one of the stale    *)
(* answers.  A task is handed the answer to another task's statement only  *)
(* if more operations were dropped on that connection than there are pings *)
(* between two tasks: three with the default options.  With fewer drops it *)
(* gets the pings' answers and its own earlier ones.  Bytes read out of    *)
(* step are nobody's answer and are left to LaggedDelivery.                *)
PingsAbsorb ==
    \A t \in Tasks :
        got[t].from \in Tasks \ {t} => got[t].lag > PingsBetween

(* ping reports a dead socket: a connection whose socket failed under one  *)
(* task is never handed to another, however often the task dropped         *)
(* operations on it before.                                                *)
BrokenNotShared ==
    \A c \in Conns :
        broken[c] # Nobody =>
            \/ place[c] = "held" /\ holder[c] = broken[c]
            \/ place[c] = "returning"

(* A dropped run_query may leave its statement unwritten or unexecuted,    *)
(* and the server still executes it when it gets there: an INSERT, or a    *)
(* START TRANSACTION after which everything else is uncommitted.  That     *)
(* never happens under another task: on a connection that can still answer *)
(* and on which no more operations were dropped than there are pings       *)
(* between two tasks, the server has executed all that earlier tasks asked *)
(* before the next task issues a statement.                                *)
EarlierStatementsExecuted ==
    \A c \in Conns :
        /\ place[c] = "held" /\ link[c].aligned /\ ~link[c].dead
        /\ link[c].lag <= PingsBetween
        => \A i \in (link[c].served + 1)..link[c].issued :
             asked[c][i] \in {holder[c], Pool}

(* A task waiting for a connection gets one or gives up, as long as no     *)
(* operation hangs on a connection that is read out of step: dropped       *)
(* operations, dead sockets, panics and pings that fail cost no slot.      *)
Hung(c) == link[c].busy /\ ~link[c].aligned
EventuallyServed ==
    \A t \in Tasks :
        (\E i \in 1..Len(queue) : queue[i] = t)
            ~> \/ \A i \in 1..Len(queue) : queue[i] # t
               \/ \E c \in Conns : Hung(c)
=============================================================================
