--------------------------- MODULE MonetPoolProofs ---------------------------
(***************************************************************************)
(* Proofs about MonetPool, for any sets of tasks and connections and any   *)
(* number of requests.                                                     *)
(***************************************************************************)
EXTENDS MonetPool, SequenceTheorems, TLAPS

(* Every request on a connection has an issuer, and there were no more     *)
(* dropped operations than requests, the pending one not counted.          *)
Pending(c) == IF link[c].busy THEN 1 ELSE 0

Counted(c) == /\ Len(asked[c]) = link[c].issued
              /\ link[c].lag + Pending(c) <= link[c].issued

(* A ping is under way exactly while the pool has the connection between   *)
(* two tasks, and a task has it when it is held or pinged for one.         *)
Placed(c) ==
    /\ place[c] \in {"acquiring", "returning"} => link[c].busy
    /\ place[c] \in {"none", "idle"} => ~link[c].busy
    /\ place[c] \in {"acquiring", "held"} => holder[c] \in Tasks
    /\ place[c] = "acquiring" => tests
    /\ place[c] = "none" => asked[c] = <<>>

(* The pings issued since a statement of a task other than the holder,     *)
(* plus the holder's own pending request.                                  *)
Separation(c) ==
    CASE place[c] = "held" -> PingsBetween + Pending(c)
      [] place[c] = "acquiring" -> 2
      [] place[c] \in {"returning", "idle"} -> 1
      [] OTHER -> 0

Separated(c) ==
    \A i \in 1..Len(asked[c]) :
        asked[c][i] \in Tasks /\ ~Holds(asked[c][i], c)
            => i + Separation(c) <= link[c].issued

(* A connection that failed under a task has no more answers to give.      *)
BrokenDead(c) ==
    broken[c] # Nobody => /\ link[c].dead
                          /\ \/ place[c] = "held" /\ holder[c] = broken[c]
                             \/ place[c] = "returning"

(* Every answer that was read, and every answer the dropped operations put *)
(* in its place, belongs to a request the server has executed.             *)
CaughtUp(c) ==
    link[c].aligned /\ ~link[c].dead
        => link[c].issued <= link[c].served + link[c].lag + Pending(c)

ConnInv(c) == /\ Counted(c) /\ Placed(c) /\ Separated(c)
              /\ BrokenDead(c) /\ CaughtUp(c)

PoolInv ==
    /\ TypeOK
    /\ \A c \in Conns : ConnInv(c)
    /\ PingsAbsorb

-----------------------------------------------------------------------------
(* What the operations of a link do to its fields.                         *)

(* The counters of a link are natural numbers.                             *)
LEMMA LinkFields ==
    ASSUME NEW l \in RR!Link
    PROVE  /\ l.issued \in Nat /\ l.served \in Nat /\ l.lag \in Nat
           /\ l.busy \in BOOLEAN
  BY DEF RR!Link

(* Starting an operation makes the link busy and counts one request more.  *)
LEMMA StartedFields ==
    ASSUME NEW l \in RR!Link
    PROVE  /\ RR!Started(l) \in RR!Link
           /\ RR!Started(l).busy /\ (RR!Started(l).dead <=> l.dead)
           /\ RR!Started(l).issued = l.issued + 1
           /\ RR!Started(l).lag = l.lag /\ RR!Started(l).served = l.served
           /\ RR!Started(l).aligned <=> l.aligned
  <1>1. RR!Started(l) \in RR!Link
    <2> DEFINE q == [l EXCEPT !.busy = TRUE]
    <2>0. l.issued + 1 \in Nat
      BY LinkFields
    <2>1. q \in RR!Link
      BY DEF RR!Link
    <2>2. RR!Started(l) = [q EXCEPT !.issued = l.issued + 1]
      BY DEF RR!Started
    <2> HIDE DEF q
    <2> QED
      BY <2>0, <2>1, <2>2 DEF RR!Link
  <1>2. RR!Started(l).busy /\ (RR!Started(l).dead <=> l.dead)
    BY DEF RR!Started, RR!Link
  <1>3. /\ RR!Started(l).issued = l.issued + 1 /\ RR!Started(l).lag = l.lag
        /\ RR!Started(l).served = l.served
        /\ RR!Started(l).aligned <=> l.aligned
    BY DEF RR!Started, RR!Link
  <1> QED
    BY <1>1, <1>2, <1>3

(* An answer ends the operation and changes nothing else.                  *)
LEMMA RepliedFields ==
    ASSUME NEW l \in RR!Link
    PROVE  /\ RR!Replied(l) \in RR!Link
           /\ ~RR!Replied(l).busy /\ (RR!Replied(l).dead <=> l.dead)
           /\ RR!Replied(l).issued = l.issued
           /\ RR!Replied(l).lag = l.lag /\ RR!Replied(l).served = l.served
           /\ RR!Replied(l).aligned <=> l.aligned
  BY DEF RR!Replied, RR!Link

(* An I/O error ends the operation and the link's last hope of an answer.  *)
LEMMA FailedFields ==
    ASSUME NEW l \in RR!Link
    PROVE  /\ RR!Failed(l) \in RR!Link
           /\ ~RR!Failed(l).busy /\ RR!Failed(l).dead
           /\ RR!Failed(l).issued = l.issued
           /\ RR!Failed(l).lag = l.lag
  BY DEF RR!Failed, RR!Link

(* A dropped operation leaves the link free, but one answer further        *)
(* behind.                                                                 *)
LEMMA DroppedFields ==
    ASSUME NEW l \in RR!Link, NEW m \in RR!Dropped(l)
    PROVE  /\ m \in RR!Link
           /\ ~m.busy /\ (m.dead <=> l.dead)
           /\ m.issued = l.issued /\ m.served = l.served
           /\ m.lag = l.lag + 1
           /\ m.aligned => l.aligned
  <1>1. PICK a \in {l.aligned, FALSE} :
          m = [l EXCEPT !.busy = FALSE, !.lag = @ + 1, !.aligned = a]
    BY DEF RR!Dropped
  <1>2. a \in BOOLEAN
    BY <1>1 DEF RR!Link
  <1>3. m \in RR!Link
    <2> DEFINE p == [l EXCEPT !.busy = FALSE]
               q == [p EXCEPT !.lag = l.lag + 1]
    <2>0. l.lag + 1 \in Nat
      BY LinkFields
    <2>1. p \in RR!Link
      BY DEF RR!Link
    <2>2. m = [q EXCEPT !.aligned = a]
      BY <1>1
    <2> HIDE DEF p
    <2>3. q \in RR!Link
      BY <2>0, <2>1 DEF RR!Link
    <2> HIDE DEF q
    <2> QED
      BY <1>2, <2>2, <2>3 DEF RR!Link
  <1>4. ~m.busy /\ (m.dead <=> l.dead)
    BY <1>1 DEF RR!Link
  <1>5. m.issued = l.issued /\ m.served = l.served /\ m.lag = l.lag + 1
    BY <1>1 DEF RR!Link
  <1>6. m.aligned => l.aligned
    BY <1>1 DEF RR!Link
  <1> QED
    BY <1>3, <1>4, <1>5, <1>6

(* A link that dies keeps its operation and its counters.                  *)
LEMMA DiedFields ==
    ASSUME NEW l \in RR!Link
    PROVE  /\ RR!Died(l) \in RR!Link
           /\ (RR!Died(l).busy <=> l.busy) /\ RR!Died(l).dead
           /\ RR!Died(l).issued = l.issued
           /\ RR!Died(l).lag = l.lag
  BY DEF RR!Died, RR!Link

(* The server executing a request changes nothing the client sees.         *)
LEMMA ExecutedFields ==
    ASSUME NEW l \in RR!Link
    PROVE  /\ RR!Executed(l) \in RR!Link
           /\ RR!Executed(l).busy <=> l.busy
           /\ RR!Executed(l).dead <=> l.dead
           /\ RR!Executed(l).aligned <=> l.aligned
           /\ RR!Executed(l).issued = l.issued
           /\ RR!Executed(l).lag = l.lag
           /\ RR!Executed(l).served = l.served + 1
  <1>1. l.served + 1 \in Nat
    BY LinkFields
  <1> QED
    BY <1>1 DEF RR!Executed, RR!Link

(* A new connection has no operation, no request and no lag.               *)
LEMMA FreshFields ==
    /\ RR!Fresh \in RR!Link
    /\ ~RR!Fresh.busy /\ RR!Fresh.issued = 0 /\ RR!Fresh.lag = 0
    /\ RR!Fresh.served = 0
  BY DEF RR!Fresh, RR!Link

-----------------------------------------------------------------------------
(* Steps on one connection.                                                *)

(* A step on one connection leaves the others as they were.                *)
Others(c) ==
    \A d \in Conns \ {c} :
        UNCHANGED <<link[d], place[d], holder[d], asked[d], broken[d]>>

(* A step on one connection keeps the invariant of all of them if it keeps *)
(* that connection's.                                                      *)
LEMMA OneConnection ==
    ASSUME \A d \in Conns : ConnInv(d), NEW c \in Conns, tests' = tests,
           Others(c), ConnInv(c)'
    PROVE  \A d \in Conns : ConnInv(d)'
  <1> SUFFICES ASSUME NEW d \in Conns, d # c PROVE ConnInv(d)'
    OBVIOUS
  <1>1. UNCHANGED <<link[d], place[d], holder[d], asked[d], broken[d]>>
    BY DEF Others
  <1>2. ConnInv(d)
    OBVIOUS
  <1> QED
    BY <1>1, <1>2 DEF ConnInv, Counted, Placed, Separated, Separation,
                      BrokenDead, CaughtUp, Pending, Holds,
                      PingsBetween

(* A closed connection leaves an empty slot.                               *)
LEMMA VacateFacts ==
    ASSUME TypeOK, NEW c \in Conns, Vacate(c)
    PROVE  /\ link' \in [Conns -> RR!Link] /\ place' \in [Conns -> Places]
           /\ holder' \in [Conns -> Tasks \cup {Nobody}]
           /\ asked' \in [Conns -> Seq(Tasks \cup {Pool})]
           /\ broken' \in [Conns -> Tasks \cup {Nobody}]
           /\ Others(c) /\ broken'[c] = Nobody /\ place'[c] = "none"
           /\ ConnInv(c)'
  <1>1. RR!Fresh \in RR!Link /\ <<>> \in Seq(Tasks \cup {Pool})
    BY FreshFields, EmptySeq
  <1>2. /\ link' \in [Conns -> RR!Link] /\ place' \in [Conns -> Places]
        /\ holder' \in [Conns -> Tasks \cup {Nobody}]
        /\ asked' \in [Conns -> Seq(Tasks \cup {Pool})]
        /\ broken' \in [Conns -> Tasks \cup {Nobody}]
    BY <1>1 DEF Vacate, TypeOK, Places
  <1>3. Others(c)
    BY DEF Vacate, Others, TypeOK
  <1>4. /\ link'[c] = RR!Fresh /\ place'[c] = "none" /\ holder'[c] = Nobody
        /\ asked'[c] = <<>> /\ broken'[c] = Nobody
    BY DEF Vacate, TypeOK
  <1>5. Len(asked'[c]) = 0
    BY <1>4, EmptySeq
  <1>6. ConnInv(c)'
    BY <1>4, <1>5, FreshFields
       DEF ConnInv, Counted, Placed, Separated, BrokenDead, CaughtUp,
           Pending
  <1> QED
    BY <1>2, <1>3, <1>4, <1>6

(* A request adds its issuer to the end of `asked`.                        *)
LEMMA IssueFacts ==
    ASSUME TypeOK, NEW c \in Conns, NEW who \in Tasks \cup {Pool},
           Counted(c), Issue(c, who)
    PROVE  /\ link' \in [Conns -> RR!Link]
           /\ asked' \in [Conns -> Seq(Tasks \cup {Pool})]
           /\ \A d \in Conns \ {c} : UNCHANGED <<link[d], asked[d]>>
           /\ ~link[c].busy /\ link'[c].busy
           /\ link'[c].dead <=> link[c].dead
           /\ link[c].issued \in Nat /\ link'[c].issued = link[c].issued + 1
           /\ Counted(c)' /\ (CaughtUp(c) => CaughtUp(c)')
           /\ \A i \in 1..link[c].issued : asked'[c][i] = asked[c][i]
           /\ asked'[c][link'[c].issued] = who
  <1>1. /\ link[c] \in RR!Link /\ asked[c] \in Seq(Tasks \cup {Pool})
        /\ link'[c] = RR!Started(link[c])
        /\ asked'[c] = Append(asked[c], who)
        /\ \A d \in Conns \ {c} : UNCHANGED <<link[d], asked[d]>>
    BY DEF Issue, TypeOK
  <1>2. /\ Append(asked[c], who) \in Seq(Tasks \cup {Pool})
        /\ Len(asked'[c]) = Len(asked[c]) + 1
        /\ \A i \in 1..Len(asked[c]) : asked'[c][i] = asked[c][i]
        /\ asked'[c][Len(asked[c]) + 1] = who
    BY <1>1, AppendProperties, LenProperties
  <1>3. /\ link' \in [Conns -> RR!Link]
        /\ asked' \in [Conns -> Seq(Tasks \cup {Pool})]
    BY <1>1, <1>2, StartedFields DEF Issue, TypeOK
  <1>4. /\ link'[c].busy /\ (link'[c].dead <=> link[c].dead)
        /\ link'[c].issued = link[c].issued + 1 /\ link'[c].lag = link[c].lag
        /\ link'[c].served = link[c].served
        /\ link'[c].aligned <=> link[c].aligned
    BY <1>1, StartedFields
  <1>5. ~link[c].busy
    BY DEF Issue, RR!CanStart
  <1>6. /\ link[c].issued \in Nat /\ link[c].lag \in Nat
        /\ link[c].served \in Nat
    BY <1>1, LinkFields
  <1>7. Len(asked[c]) = link[c].issued /\ link[c].lag <= link[c].issued
    BY <1>5, <1>6 DEF Counted, Pending
  <1>8. Counted(c)'
    BY <1>2, <1>4, <1>6, <1>7 DEF Counted, Pending
  <1>9. CaughtUp(c) => CaughtUp(c)'
    BY <1>4, <1>5, <1>6 DEF CaughtUp, Pending
  <1> QED
    BY <1>1, <1>2, <1>3, <1>4, <1>5, <1>6, <1>7, <1>8, <1>9

(* Moving a connection within the pool touches only its place and holder.  *)
LEMMA MoveFacts ==
    ASSUME TypeOK, NEW c \in Conns, NEW p \in Places,
           NEW t \in Tasks \cup {Nobody}, Move(c, p, t)
    PROVE  /\ place' \in [Conns -> Places]
           /\ holder' \in [Conns -> Tasks \cup {Nobody}]
           /\ place'[c] = p /\ holder'[c] = t
           /\ \A d \in Conns \ {c} : UNCHANGED <<place[d], holder[d]>>
  BY DEF Move, TypeOK

-----------------------------------------------------------------------------
(* One lemma per action.                                                   *)

(* A queue of tasks without one of its entries is a queue of tasks.        *)
LEMMA QueueRemove ==
    ASSUME NEW S, NEW s \in Seq(S), NEW i \in 1..Len(s)
    PROVE  SubSeq(s, 1, i - 1) \o SubSeq(s, i + 1, Len(s)) \in Seq(S)
  <1>1. Len(s) \in Nat
    BY LenProperties
  <1>2. SubSeq(s, 1, i - 1) \in Seq(S)
    BY <1>1, SubSeqProperties
  <1>3. SubSeq(s, i + 1, Len(s)) \in Seq(S)
    BY <1>1, SubSeqProperties
  <1> QED
    BY <1>2, <1>3, ConcatProperties

(* acquire() and giving up on it move no connection.                       *)
LEMMA QueueStep ==
    ASSUME PoolInv, NEW t \in Tasks, Wait(t) \/ GiveUp(t)
    PROVE  TypeOK' /\ \A d \in Conns : ConnInv(d)'
  <1>1. queue \in Seq(Tasks)
    BY DEF PoolInv, TypeOK
  <1>2. queue' \in Seq(Tasks)
    <2>1. CASE Wait(t)
      BY <1>1, <2>1, AppendProperties DEF Wait
    <2>2. CASE GiveUp(t)
      <3>1. PICK i \in 1..Len(queue) :
              queue' = SubSeq(queue, 1, i - 1)
                          \o SubSeq(queue, i + 1, Len(queue))
        BY <2>2 DEF GiveUp
      <3> QED
        BY <1>1, <3>1, QueueRemove
    <2> QED
      BY <2>1, <2>2
  <1>3. UNCHANGED <<tests, link, place, holder, asked, broken, got>>
    BY DEF Wait, GiveUp
  <1>4. TypeOK'
    BY <1>2, <1>3 DEF PoolInv, TypeOK
  <1>5. \A d \in Conns : ConnInv(d)'
    BY <1>3 DEF PoolInv, ConnInv, Counted, Placed, Separated, Separation,
                BrokenDead, CaughtUp, Pending, Holds,
                      PingsBetween
  <1> QED
    BY <1>4, <1>5

(* The head of the queue is served.                                        *)
LEMMA Served ==
    ASSUME TypeOK, queue # <<>>
    PROVE  Head(queue) \in Tasks /\ Tail(queue) \in Seq(Tasks)
  BY HeadTailProperties DEF TypeOK

(* An idle connection is taken: with test_before_acquire a second ping     *)
(* separates it from the task before.                                      *)
LEMMA TakeIdleStep ==
    ASSUME PoolInv, NEW c \in Conns, TakeIdle(c)
    PROVE  TypeOK' /\ \A d \in Conns : ConnInv(d)'
  <1> DEFINE t == Head(queue)
  <1>1. /\ TypeOK /\ ConnInv(c) /\ t \in Tasks /\ queue' \in Seq(Tasks)
        /\ place[c] = "idle" /\ broken[c] = Nobody
    BY Served DEF TakeIdle, PoolInv, ConnInv, BrokenDead
  <1>2. /\ tests' = tests /\ broken' = broken /\ got' = got
    BY DEF TakeIdle
  <1>3. /\ t \in Tasks \cup {Nobody} /\ Pool \in Tasks \cup {Pool}
        /\ "acquiring" \in Places /\ "held" \in Places
    BY <1>1 DEF Places
  <1> HIDE DEF t
  <1>4. CASE tests /\ Move(c, "acquiring", t) /\ Issue(c, Pool)
    <2>1. /\ place' \in [Conns -> Places]
          /\ holder' \in [Conns -> Tasks \cup {Nobody}]
          /\ place'[c] = "acquiring" /\ holder'[c] = t
          /\ \A d \in Conns \ {c} : UNCHANGED <<place[d], holder[d]>>
      BY <1>1, <1>3, <1>4, MoveFacts
    <2>2. Counted(c)
      BY <1>1 DEF ConnInv
    <2>3. /\ link' \in [Conns -> RR!Link]
          /\ asked' \in [Conns -> Seq(Tasks \cup {Pool})]
          /\ \A d \in Conns \ {c} : UNCHANGED <<link[d], asked[d]>>
          /\ link'[c].busy
          /\ link[c].issued \in Nat /\ link'[c].issued = link[c].issued + 1
          /\ Counted(c)' /\ (CaughtUp(c) => CaughtUp(c)')
          /\ \A i \in 1..link[c].issued : asked'[c][i] = asked[c][i]
          /\ asked'[c][link'[c].issued] = Pool
      BY <1>1, <1>3, <1>4, <2>2, IssueFacts
    <2>4. TypeOK'
      BY <1>1, <1>2, <2>1, <2>3 DEF TypeOK
    <2>5. Others(c)
      BY <1>2, <2>1, <2>3 DEF Others
    <2>6. Separated(c)'
      <3>1. \A i \in 1..link[c].issued :
              asked[c][i] \in Tasks => i + 1 <= link[c].issued
        BY <1>1, <2>2 DEF ConnInv, Separated, Separation, Holds, Counted
      <3>2. Len(asked'[c]) = link[c].issued + 1
        BY <2>3 DEF Counted
      <3>3. \A i \in 1..(link[c].issued + 1) :
              asked'[c][i] \in Tasks => i + 2 <= link[c].issued + 1
        <4> SUFFICES ASSUME NEW i \in 1..(link[c].issued + 1),
                            asked'[c][i] \in Tasks
                     PROVE  i + 2 <= link[c].issued + 1
          OBVIOUS
        <4>1. i # link[c].issued + 1
          BY <2>3, PoolAssumption
        <4>2. i \in 1..link[c].issued
          BY <2>3, <4>1
        <4>3. asked'[c][i] = asked[c][i]
          BY <2>3, <4>2
        <4>4. i + 1 <= link[c].issued
          BY <3>1, <4>2, <4>3
        <4>5. link[c].issued \in Nat
          BY <2>3
        <4> QED
          BY <4>4, <4>5
      <3> QED
        BY <2>1, <2>3, <3>2, <3>3 DEF Separated, Separation
    <2>7. ConnInv(c)'
      BY <1>1, <1>2, <1>4, <2>1, <2>3, <2>6 DEF ConnInv, Placed, BrokenDead
    <2> QED
      BY <1>2, <2>4, <2>5, <2>7, OneConnection DEF PoolInv
  <1>5. CASE ~tests /\ Move(c, "held", t) /\ UNCHANGED <<link, asked>>
    <2>1. /\ place' \in [Conns -> Places]
          /\ holder' \in [Conns -> Tasks \cup {Nobody}]
          /\ place'[c] = "held" /\ holder'[c] = t
          /\ \A d \in Conns \ {c} : UNCHANGED <<place[d], holder[d]>>
      BY <1>1, <1>3, <1>5, MoveFacts
    <2>2. TypeOK'
      BY <1>1, <1>2, <1>5, <2>1 DEF TypeOK
    <2>3. Others(c)
      BY <1>2, <1>5, <2>1 DEF Others
    <2>4. /\ ~link[c].busy /\ Counted(c)' /\ CaughtUp(c)'
          /\ link[c].issued \in Nat
      BY <1>1, <1>5, LinkFields
         DEF ConnInv, Placed, Counted, CaughtUp, Pending, TypeOK
    <2>5. Separated(c)'
      <3>1. \A i \in 1..Len(asked[c]) :
              asked[c][i] \in Tasks => i + 1 <= link[c].issued
        BY <1>1 DEF ConnInv, Separated, Separation, Holds
      <3>2. Separation(c)' = 1
        BY <1>2, <1>5, <2>1, <2>4 DEF Separation, PingsBetween, Pending
      <3> QED
        BY <1>5, <3>1, <3>2 DEF Separated
    <2>6. ConnInv(c)'
      BY <1>1, <1>2, <1>5, <2>1, <2>4, <2>5 DEF ConnInv, Placed, BrokenDead
    <2> QED
      BY <1>2, <2>2, <2>3, <2>6, OneConnection DEF PoolInv
  <1> QED
    BY <1>4, <1>5 DEF TakeIdle, t

(* A new connection has nobody else's statements on it.                    *)
LEMMA ConnectStep ==
    ASSUME PoolInv, NEW c \in Conns, Connect(c)
    PROVE  TypeOK' /\ \A d \in Conns : ConnInv(d)'
  <1> DEFINE t == Head(queue)
  <1>1. /\ TypeOK /\ ConnInv(c) /\ t \in Tasks /\ queue' \in Seq(Tasks)
        /\ place[c] = "none" /\ broken[c] = Nobody
        /\ asked[c] = <<>> /\ ~link[c].busy
    BY Served DEF Connect, PoolInv, ConnInv, BrokenDead, Placed
  <1>2. UNCHANGED <<tests, link, asked, broken, got>>
    BY DEF Connect
  <1>3. t \in Tasks \cup {Nobody} /\ "held" \in Places
    BY <1>1 DEF Places
  <1> HIDE DEF t
  <1>4. /\ place' \in [Conns -> Places]
        /\ holder' \in [Conns -> Tasks \cup {Nobody}]
        /\ place'[c] = "held" /\ holder'[c] = t
        /\ \A d \in Conns \ {c} : UNCHANGED <<place[d], holder[d]>>
    BY <1>1, <1>3, MoveFacts DEF Connect, t
  <1>5. TypeOK'
    BY <1>1, <1>2, <1>4 DEF TypeOK
  <1>6. Others(c)
    BY <1>2, <1>4 DEF Others
  <1>7. Counted(c)' /\ CaughtUp(c)'
    BY <1>1, <1>2 DEF ConnInv, Counted, CaughtUp, Pending
  <1>8. Separated(c)'
    BY <1>1, <1>2, EmptySeq DEF Separated
  <1>9. ConnInv(c)'
    BY <1>1, <1>2, <1>4, <1>7, <1>8 DEF ConnInv, Placed, BrokenDead
  <1> QED
    BY <1>2, <1>5, <1>6, <1>9, OneConnection DEF PoolInv

(* The connection is closed: Expire, PingErr, PingDropped.                 *)
LEMMA VacateStep ==
    ASSUME PoolInv, NEW c \in Conns, Vacate(c), UNCHANGED <<tests, queue>>,
           got' \in [Tasks -> [from : Tasks \cup {Pool, Nobody}, lag : Nat]]
    PROVE  TypeOK' /\ \A d \in Conns : ConnInv(d)'
  <1>1. TypeOK
    BY DEF PoolInv
  <1>2. /\ link' \in [Conns -> RR!Link] /\ place' \in [Conns -> Places]
        /\ holder' \in [Conns -> Tasks \cup {Nobody}]
        /\ asked' \in [Conns -> Seq(Tasks \cup {Pool})]
        /\ broken' \in [Conns -> Tasks \cup {Nobody}]
        /\ Others(c) /\ ConnInv(c)'
    BY <1>1, VacateFacts
  <1>3. TypeOK'
    BY <1>1, <1>2 DEF TypeOK
  <1> QED
    BY <1>2, <1>3, OneConnection DEF PoolInv

(* The task lets go of the connection: Release, Begin, Prepare.            *)
LEMMA HandBackStep ==
    ASSUME PoolInv, NEW t \in Tasks, NEW c \in Conns, HandBack(t, c)
    PROVE  TypeOK' /\ \A d \in Conns : ConnInv(d)'
  <1>1. TypeOK /\ ConnInv(c) /\ place[c] = "held"
    BY DEF PoolInv, HandBack, Holds
  <1>2. UNCHANGED <<tests, queue>>
    BY DEF HandBack
  <1>3. got' \in [Tasks -> [from : Tasks \cup {Pool, Nobody}, lag : Nat]]
    BY <1>1 DEF HandBack, NoAnswer, TypeOK
  <1>4. CASE Vacate(c)
    BY <1>2, <1>3, <1>4, VacateStep
  <1>5. CASE /\ Move(c, "returning", Nobody) /\ Issue(c, Pool)
             /\ UNCHANGED broken
    <2>1. /\ place' \in [Conns -> Places]
          /\ holder' \in [Conns -> Tasks \cup {Nobody}]
          /\ place'[c] = "returning" /\ holder'[c] = Nobody
          /\ \A d \in Conns \ {c} : UNCHANGED <<place[d], holder[d]>>
      BY <1>1, <1>5, MoveFacts DEF Places
    <2>2. Counted(c) /\ Pool \in Tasks \cup {Pool}
      BY <1>1 DEF ConnInv
    <2>3. /\ link' \in [Conns -> RR!Link]
          /\ asked' \in [Conns -> Seq(Tasks \cup {Pool})]
          /\ \A d \in Conns \ {c} : UNCHANGED <<link[d], asked[d]>>
          /\ link'[c].busy /\ (link'[c].dead <=> link[c].dead)
          /\ link[c].issued \in Nat /\ link'[c].issued = link[c].issued + 1
          /\ Counted(c)' /\ (CaughtUp(c) => CaughtUp(c)')
          /\ asked'[c][link'[c].issued] = Pool
      BY <1>1, <1>5, <2>2, IssueFacts
    <2>4. TypeOK'
      BY <1>1, <1>2, <1>3, <1>5, <2>1, <2>3 DEF TypeOK
    <2>5. Others(c)
      BY <1>5, <2>1, <2>3 DEF Others
    <2>6. Separated(c)'
      <3>1. Len(asked'[c]) = link'[c].issued /\ link'[c].issued \in Nat
        BY <2>3 DEF Counted
      <3>2. \A i \in 1..Len(asked'[c]) :
              asked'[c][i] \in Tasks => i + 1 <= link'[c].issued
        BY <2>3, <3>1, PoolAssumption
      <3> QED
        BY <2>1, <3>2 DEF Separated, Separation
    <2>7. ConnInv(c)'
      BY <1>1, <1>5, <2>1, <2>3, <2>6 DEF ConnInv, Placed, BrokenDead
    <2> QED
      BY <1>2, <2>4, <2>5, <2>7, OneConnection DEF PoolInv
  <1> QED
    BY <1>4, <1>5 DEF HandBack

(* A step that changes the link of c only, and ends what was pending.      *)
LEMMA EndedFacts ==
    ASSUME TypeOK, NEW c \in Conns, ConnInv(c), link[c].busy,
           NEW l \in RR!Link, link' = [link EXCEPT ![c] = l],
           ~l.busy, l.issued = link[c].issued,
           l.lag \in {link[c].lag, link[c].lag + 1}, asked' = asked,
           l.aligned /\ ~l.dead => l.issued <= l.served + l.lag
    PROVE  /\ link' \in [Conns -> RR!Link] /\ link'[c] = l
           /\ \A d \in Conns \ {c} : link'[d] = link[d]
           /\ Counted(c)' /\ CaughtUp(c)'
           /\ link[c].issued \in Nat
  <1>1. /\ link' \in [Conns -> RR!Link] /\ link'[c] = l
        /\ \A d \in Conns \ {c} : link'[d] = link[d]
    BY DEF TypeOK
  <1>2. link[c].issued \in Nat /\ link[c].lag \in Nat
    BY LinkFields DEF TypeOK
  <1>3. Counted(c)'
    BY <1>1, <1>2 DEF ConnInv, Counted, Pending
  <1>4. l.served \in Nat /\ l.lag \in Nat
    BY LinkFields
  <1>5. CaughtUp(c)'
    BY <1>1, <1>4 DEF CaughtUp, Pending
  <1> QED
    BY <1>1, <1>2, <1>3, <1>5

(* An answer can only be read once its request has been executed.          *)
LEMMA RepliedCatchesUp ==
    ASSUME NEW l \in RR!Link, RR!CanReply(l)
    PROVE  LET m == RR!Replied(l)
           IN  m.aligned /\ ~m.dead => m.issued <= m.served + m.lag
  <1> DEFINE m == RR!Replied(l)
  <1>1. /\ m.issued = l.issued /\ m.lag = l.lag /\ m.served = l.served
        /\ m.aligned <=> l.aligned
    BY RepliedFields
  <1>2. l.issued \in Nat /\ l.lag \in Nat /\ l.served \in Nat
    BY LinkFields
  <1>3. l.aligned => l.issued - l.lag <= l.served
    BY DEF RR!CanReply, RR!Arrived, RR!AnswerOf
  <1> HIDE DEF m
  <1>4. m.aligned => m.issued <= m.served + m.lag
    BY <1>1, <1>2, <1>3
  <1> QED
    BY <1>4 DEF m

(* A ping that gets an answer, stale or not, passes the connection on; a   *)
(* connection that failed under a task does not get that far.              *)
LEMMA PingOkStep ==
    ASSUME PoolInv, NEW c \in Conns, PingOk(c)
    PROVE  TypeOK' /\ \A d \in Conns : ConnInv(d)'
  <1>1. /\ TypeOK /\ ConnInv(c) /\ link[c] \in RR!Link
        /\ link[c].busy /\ ~link[c].dead
        /\ place[c] \in {"acquiring", "returning"}
        /\ holder[c] \in Tasks \cup {Nobody} /\ RR!CanReply(link[c])
    BY DEF PoolInv, PingOk, RR!CanReply, TypeOK
  <1>2. UNCHANGED <<tests, asked, broken, queue, got>>
    BY DEF PingOk
  <1> DEFINE l == RR!Replied(link[c])
             p == IF place[c] = "returning" THEN "idle" ELSE "held"
             h == IF place[c] = "returning" THEN Nobody ELSE holder[c]
  <1>3. /\ l \in RR!Link /\ ~l.busy /\ l.issued = link[c].issued
        /\ l.lag \in {link[c].lag, link[c].lag + 1}
        /\ l.aligned /\ ~l.dead => l.issued <= l.served + l.lag
    BY <1>1, RepliedFields, RepliedCatchesUp
  <1>4. link' = [link EXCEPT ![c] = l]
    BY DEF PingOk
  <1>5. p \in Places /\ h \in Tasks \cup {Nobody} /\ Move(c, p, h)
    BY <1>1 DEF PingOk, Places
  <1> HIDE DEF l
  <1>6. /\ link' \in [Conns -> RR!Link] /\ link'[c] = l
        /\ \A d \in Conns \ {c} : link'[d] = link[d]
        /\ Counted(c)' /\ CaughtUp(c)'
        /\ link[c].issued \in Nat
    BY <1>1, <1>2, <1>3, <1>4, EndedFacts
  <1>7. /\ place' \in [Conns -> Places]
        /\ holder' \in [Conns -> Tasks \cup {Nobody}]
        /\ place'[c] = p /\ holder'[c] = h
        /\ \A d \in Conns \ {c} : UNCHANGED <<place[d], holder[d]>>
    BY <1>1, <1>5, MoveFacts
  <1>8. TypeOK'
    BY <1>1, <1>2, <1>6, <1>7 DEF TypeOK
  <1>9. Others(c)
    BY <1>2, <1>6, <1>7 DEF Others
  <1>10. broken'[c] = Nobody
    BY <1>1, <1>2 DEF ConnInv, BrokenDead
  <1>11. Separated(c)'
    <2>1. Separation(c)' = Separation(c)
      BY <1>1, <1>2, <1>3, <1>6, <1>7
         DEF Separation, PingsBetween, Pending, ConnInv, Placed
    <2>2. Separation(c) \in Nat
      BY <1>1 DEF Separation
    <2>3. \A i \in 1..Len(asked[c]) :
            asked[c][i] \in Tasks => i + Separation(c) <= link[c].issued
      BY <1>1 DEF ConnInv, Separated, Holds
    <2> QED
      BY <1>2, <1>3, <1>6, <2>1, <2>3 DEF Separated
  <1>12. ConnInv(c)'
    BY <1>1, <1>2, <1>3, <1>6, <1>7, <1>10, <1>11
       DEF ConnInv, Placed, BrokenDead
  <1> QED
    BY <1>2, <1>8, <1>9, <1>12, OneConnection DEF PoolInv

(* run_query by the holder.                                                *)
LEMMA RunStep ==
    ASSUME PoolInv, NEW t \in Tasks, NEW c \in Conns, Run(t, c)
    PROVE  TypeOK' /\ \A d \in Conns : ConnInv(d)'
  <1>1. /\ TypeOK /\ ConnInv(c) /\ Counted(c) /\ CaughtUp(c)
        /\ t \in Tasks \cup {Pool}
        /\ place[c] = "held" /\ holder[c] = t /\ Issue(c, t)
    BY DEF PoolInv, Run, Holds, ConnInv
  <1>2. UNCHANGED <<tests, place, holder, broken, queue, got>>
    BY DEF Run
  <1>3. /\ link' \in [Conns -> RR!Link]
        /\ asked' \in [Conns -> Seq(Tasks \cup {Pool})]
        /\ \A d \in Conns \ {c} : UNCHANGED <<link[d], asked[d]>>
        /\ ~link[c].busy /\ link'[c].busy
        /\ link'[c].dead <=> link[c].dead
        /\ link[c].issued \in Nat /\ link'[c].issued = link[c].issued + 1
        /\ Counted(c)' /\ (CaughtUp(c) => CaughtUp(c)')
        /\ \A i \in 1..link[c].issued : asked'[c][i] = asked[c][i]
        /\ asked'[c][link'[c].issued] = t
    BY <1>1, IssueFacts
  <1>5. TypeOK'
    BY <1>1, <1>2, <1>3 DEF TypeOK
  <1>6. Others(c)
    BY <1>2, <1>3 DEF Others
  <1>7. Separated(c)'
    <2>1. /\ Len(asked[c]) = link[c].issued
          /\ Len(asked'[c]) = link[c].issued + 1
      BY <1>1, <1>3 DEF Counted
    <2>2. Separation(c)' = Separation(c) + 1 /\ Separation(c) \in Nat
      BY <1>1, <1>2, <1>3 DEF Separation, Pending, PingsBetween
    <2> SUFFICES ASSUME NEW i \in 1..(link[c].issued + 1),
                        asked'[c][i] \in Tasks, asked'[c][i] # t
                 PROVE  i + Separation(c)' <= link[c].issued + 1
      BY <1>1, <1>2, <1>3, <2>1 DEF Separated, Holds
    <2>3. i \in 1..link[c].issued
      <3>1. i # link[c].issued + 1
        BY <1>3
      <3>2. link[c].issued \in Nat
        BY <1>3
      <3> QED
        BY <3>1, <3>2
    <2>4. i + Separation(c) <= link[c].issued
      BY <1>1, <1>3, <2>1, <2>3 DEF ConnInv, Separated, Holds
    <2> QED
      BY <1>3, <2>2, <2>3, <2>4
  <1>8. ConnInv(c)'
    BY <1>1, <1>2, <1>3, <1>7 DEF ConnInv, Placed, BrokenDead
  <1> QED
    BY <1>2, <1>5, <1>6, <1>8, OneConnection DEF PoolInv

(* The holder's operation ends, in an answer, an error or by being         *)
(* dropped.                                                                *)
LEMMA EndedStep ==
    ASSUME PoolInv, NEW t \in Tasks, NEW c \in Conns, Holds(t, c),
           link[c].busy,
           NEW l \in RR!Link, link' = [link EXCEPT ![c] = l],
           ~l.busy, l.issued = link[c].issued,
           l.lag \in {link[c].lag, link[c].lag + 1},
           l.aligned /\ ~l.dead => l.issued <= l.served + l.lag,
           UNCHANGED <<tests, place, holder, asked, queue>>,
           \/ broken' = broken /\ (link[c].dead => l.dead)
           \/ broken' = [broken EXCEPT ![c] = t] /\ l.dead,
           got' \in [Tasks -> [from : Tasks \cup {Pool, Nobody}, lag : Nat]]
    PROVE  TypeOK' /\ \A d \in Conns : ConnInv(d)'
  <1>1. /\ TypeOK /\ ConnInv(c) /\ place[c] = "held" /\ holder[c] = t
    BY DEF PoolInv, Holds
  <1>2. /\ link' \in [Conns -> RR!Link] /\ link'[c] = l
        /\ \A d \in Conns \ {c} : link'[d] = link[d]
        /\ Counted(c)' /\ CaughtUp(c)'
        /\ link[c].issued \in Nat
    BY <1>1, EndedFacts
  <1>3. /\ broken' \in [Conns -> Tasks \cup {Nobody}]
        /\ \A d \in Conns \ {c} : broken'[d] = broken[d]
        /\ broken'[c] \in {broken[c], t}
    BY <1>1 DEF TypeOK
  <1>4. TypeOK'
    BY <1>1, <1>2, <1>3 DEF TypeOK
  <1>5. Others(c)
    BY <1>2, <1>3 DEF Others
  <1>6. Separated(c)'
    <2>1. Separation(c) = Separation(c)' + 1 /\ Separation(c)' \in Nat
      BY <1>1, <1>2 DEF Separation, Pending, PingsBetween
    <2> SUFFICES ASSUME NEW i \in 1..Len(asked[c]), asked[c][i] \in Tasks,
                        asked[c][i] # t
                 PROVE  i + Separation(c)' <= link[c].issued
      BY <1>1, <1>2 DEF Separated, Holds
    <2>2. i + Separation(c) <= link[c].issued
      BY <1>1 DEF ConnInv, Separated, Holds
    <2>3. i \in Nat
      BY LenProperties
    <2> QED
      BY <1>2, <2>1, <2>2, <2>3
  <1>7. BrokenDead(c)'
    <2>1. CASE broken' = broken /\ (link[c].dead => l.dead)
      BY <1>1, <1>2, <2>1 DEF ConnInv, BrokenDead
    <2>2. CASE broken' = [broken EXCEPT ![c] = t] /\ l.dead
      BY <1>1, <1>2, <2>2 DEF BrokenDead, TypeOK
    <2> QED
      BY <2>1, <2>2
  <1>8. ConnInv(c)'
    BY <1>1, <1>2, <1>6, <1>7 DEF ConnInv, Placed
  <1> QED
    BY <1>4, <1>5, <1>8, OneConnection DEF PoolInv

(* The answer a task is handed is one of the requests issued on the        *)
(* connection, and another task's only if the connection is further behind *)
(* than there are pings between two tasks.                                 *)
LEMMA AnswerOfAnother ==
    ASSUME PoolInv, NEW t \in Tasks, NEW c \in Conns, Holds(t, c),
           RR!CanReply(link[c])
    PROVE  LET of == RR!AnswerOf(link[c])
               from == IF of = 0 THEN Nobody ELSE asked[c][of]
           IN  /\ from \in Tasks \cup {Pool, Nobody}
               /\ from \in Tasks \ {t} => link[c].lag > PingsBetween
               /\ link[c].lag \in Nat
  <1> DEFINE of == RR!AnswerOf(link[c])
             from == IF of = 0 THEN Nobody ELSE asked[c][of]
             n == link[c].issued
             lag == link[c].lag
  <1>1. /\ link[c] \in RR!Link /\ link[c].busy
        /\ asked[c] \in Seq(Tasks \cup {Pool})
        /\ ConnInv(c) /\ place[c] = "held" /\ holder[c] = t
    BY DEF PoolInv, TypeOK, RR!CanReply, Holds
  <1>2. n \in Nat /\ lag \in Nat
    BY <1>1, LinkFields
  <1>3. lag + 1 <= n /\ Len(asked[c]) = n
    BY <1>1 DEF ConnInv, Counted, Pending
  <1>4. of = 0 \/ of = n - lag
    BY DEF RR!AnswerOf
  <1>5. CASE of = 0
    BY <1>2, <1>5, PoolAssumption
  <1>6. CASE of # 0
    <2>1. of \in 1..n /\ of = n - lag
      BY <1>2, <1>3, <1>4, <1>6
    <2>2. asked[c][of] \in Tasks \cup {Pool}
      BY <1>1, <1>3, <2>1, ElementOfSeq
    <2>3. ASSUME asked[c][of] \in Tasks \ {t} PROVE lag > PingsBetween
      <3>1. Separation(c) = PingsBetween + 1 /\ PingsBetween \in Nat
        BY <1>1 DEF Separation, Pending, PingsBetween
      <3>2. of + Separation(c) <= n
        BY <1>1, <1>3, <2>1, <2>3 DEF ConnInv, Separated, Holds
      <3> QED
        BY <1>2, <2>1, <3>1, <3>2
    <2> QED
      BY <1>2, <1>6, <2>2, <2>3
  <1> QED
    BY <1>5, <1>6

(* The holder is handed the next message.                                  *)
LEMMA AnsweredStep ==
    ASSUME PoolInv, NEW t \in Tasks, NEW c \in Conns, Answered(t, c)
    PROVE  TypeOK' /\ (\A d \in Conns : ConnInv(d)') /\ PingsAbsorb'
  <1> DEFINE of == RR!AnswerOf(link[c])
             from == IF of = 0 THEN Nobody ELSE asked[c][of]
             l == RR!Replied(link[c])
  <1>1. /\ Holds(t, c) /\ RR!CanReply(link[c])
        /\ got' = [got EXCEPT ![t] = [from |-> from, lag |-> link[c].lag]]
        /\ link' = [link EXCEPT ![c] = l]
        /\ UNCHANGED <<tests, place, holder, asked, broken, queue>>
    BY DEF Answered
  <1>2. /\ from \in Tasks \cup {Pool, Nobody}
        /\ from \in Tasks \ {t} => link[c].lag > PingsBetween
        /\ link[c].lag \in Nat
    BY <1>1, AnswerOfAnother
  <1> HIDE DEF from, of
  <1>3. TypeOK /\ link[c] \in RR!Link /\ link[c].busy
    BY <1>1 DEF PoolInv, TypeOK, RR!CanReply
  <1>4. /\ got' \in [Tasks -> [from : Tasks \cup {Pool, Nobody}, lag : Nat]]
        /\ got'[t] = [from |-> from, lag |-> link[c].lag]
        /\ \A u \in Tasks \ {t} : got'[u] = got[u]
    BY <1>1, <1>2, <1>3 DEF TypeOK
  <1>5. PingsAbsorb'
    BY <1>1, <1>2, <1>4 DEF PoolInv, PingsAbsorb, PingsBetween
  <1>6. /\ l \in RR!Link /\ ~l.busy /\ l.issued = link[c].issued
        /\ l.lag \in {link[c].lag, link[c].lag + 1}
        /\ link[c].dead => l.dead
        /\ l.aligned /\ ~l.dead => l.issued <= l.served + l.lag
    BY <1>1, <1>3, RepliedFields, RepliedCatchesUp
  <1> HIDE DEF l
  <1>7. TypeOK' /\ \A d \in Conns : ConnInv(d)'
    BY <1>1, <1>3, <1>4, <1>6, EndedStep
  <1> QED
    BY <1>5, <1>7

(* The holder gets an I/O error, and the connection is marked broken.      *)
LEMMA ErroredStep ==
    ASSUME PoolInv, NEW t \in Tasks, NEW c \in Conns, Errored(t, c)
    PROVE  TypeOK' /\ \A d \in Conns : ConnInv(d)'
  <1> DEFINE l == RR!Failed(link[c])
  <1>1. /\ Holds(t, c) /\ link[c].busy /\ link[c] \in RR!Link
        /\ link' = [link EXCEPT ![c] = l]
        /\ broken' = [broken EXCEPT ![c] = t]
        /\ UNCHANGED <<tests, place, holder, asked, queue, got>>
    BY DEF Errored, RR!CanFail, PoolInv, TypeOK
  <1>2. /\ l \in RR!Link /\ ~l.busy /\ l.issued = link[c].issued
        /\ l.lag \in {link[c].lag, link[c].lag + 1} /\ l.dead
    BY <1>1, FailedFields
  <1>3. got' \in [Tasks -> [from : Tasks \cup {Pool, Nobody}, lag : Nat]]
    BY <1>1 DEF PoolInv, TypeOK
  <1> HIDE DEF l
  <1> QED
    BY <1>1, <1>2, <1>3, EndedStep

(* The holder drops its operation.                                         *)
LEMMA AbandonedStep ==
    ASSUME PoolInv, NEW t \in Tasks, NEW c \in Conns, Abandoned(t, c)
    PROVE  TypeOK' /\ \A d \in Conns : ConnInv(d)'
  <1>1. /\ Holds(t, c) /\ link[c].busy /\ link[c] \in RR!Link
        /\ UNCHANGED <<tests, place, holder, asked, broken, queue,
                       got>>
    BY DEF Abandoned, RR!CanFail, PoolInv, TypeOK
  <1>2. PICK l \in RR!Dropped(link[c]) : link' = [link EXCEPT ![c] = l]
    BY DEF Abandoned
  <1>3. /\ l \in RR!Link /\ ~l.busy /\ l.issued = link[c].issued
        /\ l.lag \in {link[c].lag, link[c].lag + 1}
        /\ l.lag = link[c].lag + 1 /\ l.served = link[c].served
        /\ (l.dead <=> link[c].dead) /\ (l.aligned => link[c].aligned)
    BY <1>1, DroppedFields
  <1>4. got' \in [Tasks -> [from : Tasks \cup {Pool, Nobody}, lag : Nat]]
    BY <1>1 DEF PoolInv, TypeOK
  <1>5. l.aligned /\ ~l.dead => l.issued <= l.served + l.lag
    <2>1. CaughtUp(c) /\ Pending(c) = 1
      BY <1>1 DEF PoolInv, ConnInv, Pending
    <2>2. /\ link[c].issued \in Nat /\ link[c].lag \in Nat
          /\ link[c].served \in Nat
      BY <1>1, LinkFields
    <2> QED
      BY <1>3, <2>1, <2>2 DEF CaughtUp
  <1> QED
    BY <1>1, <1>2, <1>3, <1>4, <1>5, EndedStep

(* The server goes away under a connection, whoever has it.                *)
LEMMA DieStep ==
    ASSUME PoolInv, NEW c \in Conns, Die(c)
    PROVE  TypeOK' /\ \A d \in Conns : ConnInv(d)'
  <1> DEFINE l == RR!Died(link[c])
  <1>1. /\ TypeOK /\ ConnInv(c) /\ link[c] \in RR!Link
        /\ link' = [link EXCEPT ![c] = l]
        /\ UNCHANGED <<tests, place, holder, asked, broken, queue,
                       got>>
    BY DEF Die, PoolInv, TypeOK
  <1>2. /\ l \in RR!Link /\ (l.busy <=> link[c].busy) /\ l.dead
        /\ l.issued = link[c].issued /\ l.lag = link[c].lag
    BY <1>1, DiedFields
  <1> HIDE DEF l
  <1>3. /\ link' \in [Conns -> RR!Link] /\ link'[c] = l
        /\ \A d \in Conns \ {c} : link'[d] = link[d]
    BY <1>1, <1>2 DEF TypeOK
  <1>4. TypeOK'
    BY <1>1, <1>3 DEF TypeOK
  <1>5. Others(c)
    BY <1>1, <1>3 DEF Others
  <1>6. Pending(c)' = Pending(c) /\ Separation(c)' = Separation(c)
    BY <1>1, <1>2, <1>3 DEF Pending, Separation, PingsBetween
  <1>7. ConnInv(c)'
    BY <1>1, <1>2, <1>3, <1>6
       DEF ConnInv, Counted, Placed, Separated, BrokenDead, CaughtUp, Holds
  <1> QED
    BY <1>1, <1>4, <1>5, <1>7, OneConnection DEF PoolInv

(* The server executes what was asked of it, whoever has the connection.   *)
LEMMA ServeStep ==
    ASSUME PoolInv, NEW c \in Conns, Serve(c)
    PROVE  TypeOK' /\ \A d \in Conns : ConnInv(d)'
  <1> DEFINE l == RR!Executed(link[c])
  <1>1. /\ TypeOK /\ ConnInv(c) /\ link[c] \in RR!Link
        /\ link' = [link EXCEPT ![c] = l]
        /\ UNCHANGED <<tests, place, holder, asked, broken, queue, got>>
    BY DEF Serve, PoolInv, TypeOK
  <1>2. /\ l \in RR!Link /\ (l.busy <=> link[c].busy)
        /\ (l.dead <=> link[c].dead) /\ (l.aligned <=> link[c].aligned)
        /\ l.issued = link[c].issued /\ l.lag = link[c].lag
        /\ l.served = link[c].served + 1
    BY <1>1, ExecutedFields
  <1> HIDE DEF l
  <1>3. /\ link' \in [Conns -> RR!Link] /\ link'[c] = l
        /\ \A d \in Conns \ {c} : link'[d] = link[d]
    BY <1>1, <1>2 DEF TypeOK
  <1>4. TypeOK'
    BY <1>1, <1>3 DEF TypeOK
  <1>5. Others(c)
    BY <1>1, <1>3 DEF Others
  <1>6. Pending(c)' = Pending(c) /\ Separation(c)' = Separation(c)
    BY <1>1, <1>2, <1>3 DEF Pending, Separation, PingsBetween
  <1>7. Counted(c)' /\ Placed(c)' /\ Separated(c)' /\ BrokenDead(c)'
    BY <1>1, <1>2, <1>3, <1>6
       DEF ConnInv, Counted, Placed, Separated, BrokenDead, Holds
  <1>8. CaughtUp(c)'
    <2>1. /\ link[c].issued \in Nat /\ link[c].lag \in Nat
          /\ link[c].served \in Nat /\ Pending(c) \in Nat
      BY <1>1, LinkFields DEF Pending
    <2> QED
      BY <1>1, <1>2, <1>3, <1>6, <2>1 DEF ConnInv, CaughtUp
  <1>9. ConnInv(c)'
    BY <1>7, <1>8 DEF ConnInv
  <1> QED
    BY <1>1, <1>4, <1>5, <1>9, OneConnection DEF PoolInv

-----------------------------------------------------------------------------
(* Only Answered and letting go of a connection change what tasks have.    *)
LEMMA AbsorbStep ==
    ASSUME PoolInv, tests' = tests,
           \/ got' = got
           \/ \E t \in Tasks : got' = [got EXCEPT ![t] = NoAnswer]
    PROVE  PingsAbsorb'
  <1>1. got \in [Tasks -> [from : Tasks \cup {Pool, Nobody}, lag : Nat]]
    BY DEF PoolInv, TypeOK
  <1>2. \A u \in Tasks : got'[u] = got[u] \/ got'[u] = NoAnswer
    BY <1>1
  <1>3. NoAnswer.from \notin Tasks
    BY PoolAssumption DEF NoAnswer
  <1> QED
    BY <1>2, <1>3 DEF PoolInv, PingsAbsorb, PingsBetween

(* Every step of the pool, its tasks and the network keeps the invariant.  *)
LEMMA PoolStep ==
    ASSUME PoolInv, [Next]_vars
    PROVE  PoolInv'
  <1>0. CASE UNCHANGED vars
    <2>1. UNCHANGED <<tests, link, place, holder, asked, broken,
                      queue, got>>
      BY <1>0 DEF vars
    <2>2. TypeOK' /\ PingsAbsorb'
      BY <2>1 DEF PoolInv, TypeOK, PingsAbsorb, PingsBetween
    <2>3. \A d \in Conns : ConnInv(d)'
      BY <2>1 DEF PoolInv, ConnInv, Counted, Placed, Separated, Separation,
                  BrokenDead, CaughtUp, Pending, Holds,
                      PingsBetween
    <2> QED
      BY <2>2, <2>3 DEF PoolInv
  <1>g. got \in [Tasks -> [from : Tasks \cup {Pool, Nobody}, lag : Nat]]
    BY DEF PoolInv, TypeOK
  <1>1. ASSUME NEW t \in Tasks, Wait(t) \/ GiveUp(t) PROVE PoolInv'
    <2>1. got' = got /\ tests' = tests
      BY <1>1 DEF Wait, GiveUp
    <2> QED
      BY <1>1, <2>1, QueueStep, AbsorbStep DEF PoolInv
  <1>2. ASSUME NEW c \in Conns, TakeIdle(c) PROVE PoolInv'
    <2>1. got' = got /\ tests' = tests
      BY <1>2 DEF TakeIdle
    <2> QED
      BY <1>2, <2>1, TakeIdleStep, AbsorbStep DEF PoolInv
  <1>3. ASSUME NEW c \in Conns, Connect(c) PROVE PoolInv'
    <2>1. got' = got /\ tests' = tests
      BY <1>3 DEF Connect
    <2> QED
      BY <1>3, <2>1, ConnectStep, AbsorbStep DEF PoolInv
  <1>4. ASSUME NEW c \in Conns, Expire(c) \/ PingErr(c) \/ PingDropped(c)
        PROVE  PoolInv'
    <2>1. Vacate(c) /\ UNCHANGED <<tests, queue, got>>
      BY <1>4 DEF Expire, PingErr, PingDropped
    <2>2. TypeOK' /\ \A d \in Conns : ConnInv(d)'
      BY <1>g, <2>1, VacateStep
    <2> QED
      BY <2>1, <2>2, AbsorbStep DEF PoolInv
  <1>5. ASSUME NEW c \in Conns, PingOk(c) PROVE PoolInv'
    <2>1. got' = got /\ tests' = tests
      BY <1>5 DEF PingOk
    <2> QED
      BY <1>5, <2>1, PingOkStep, AbsorbStep DEF PoolInv
  <1>6. ASSUME NEW c \in Conns, Die(c) PROVE PoolInv'
    <2>1. got' = got /\ tests' = tests
      BY <1>6 DEF Die
    <2> QED
      BY <1>6, <2>1, DieStep, AbsorbStep DEF PoolInv
  <1>7. ASSUME NEW t \in Tasks, NEW c \in Conns, Run(t, c) PROVE PoolInv'
    <2>1. got' = got /\ tests' = tests
      BY <1>7 DEF Run
    <2> QED
      BY <1>7, <2>1, RunStep, AbsorbStep DEF PoolInv
  <1>8. ASSUME NEW t \in Tasks, NEW c \in Conns, Answered(t, c)
        PROVE  PoolInv'
    BY <1>8, AnsweredStep DEF PoolInv
  <1>9. ASSUME NEW t \in Tasks, NEW c \in Conns,
               Errored(t, c) \/ Abandoned(t, c)
        PROVE  PoolInv'
    <2>1. got' = got /\ tests' = tests
      BY <1>9 DEF Errored, Abandoned
    <2> QED
      BY <1>9, <2>1, ErroredStep, AbandonedStep, AbsorbStep DEF PoolInv
  <1>10. ASSUME NEW t \in Tasks, NEW c \in Conns, HandBack(t, c)
         PROVE  PoolInv'
    <2>1. got' = [got EXCEPT ![t] = NoAnswer] /\ tests' = tests
      BY <1>10 DEF HandBack
    <2> QED
      BY <1>10, <2>1, HandBackStep, AbsorbStep DEF PoolInv
  <1>11. ASSUME NEW c \in Conns, Serve(c) PROVE PoolInv'
    <2>1. got' = got /\ tests' = tests
      BY <1>11 DEF Serve
    <2> QED
      BY <1>11, <2>1, ServeStep, AbsorbStep DEF PoolInv
  <1> QED
    BY <1>0, <1>1, <1>2, <1>3, <1>4, <1>5, <1>6, <1>7, <1>8, <1>9, <1>10,
       <1>11 DEF Next, Release, Begin, Prepare

(* The bookkeeping behind the pool's properties, for any number of tasks   *)
(* and connections: between two tasks' statements on a connection there    *)
(* are always as many pings as PingsBetween says.                          *)
THEOREM PoolInductive == Spec => []PoolInv
  <1>1. Init => PoolInv
    <2> SUFFICES ASSUME Init PROVE PoolInv
      OBVIOUS
    <2>1. TypeOK
      BY FreshFields, EmptySeq DEF Init, TypeOK, Places, NoAnswer
    <2>2. ASSUME NEW c \in Conns PROVE ConnInv(c)
      <3>1. /\ link[c] = RR!Fresh /\ place[c] = "none" /\ asked[c] = <<>>
            /\ broken[c] = Nobody /\ Len(asked[c]) = 0
        BY EmptySeq DEF Init
      <3> QED
        BY <3>1, FreshFields
           DEF ConnInv, Counted, Placed, Separated, BrokenDead, CaughtUp,
           Pending
    <2>3. PingsAbsorb
      BY PoolAssumption DEF Init, PingsAbsorb, NoAnswer
    <2> QED
      BY <2>1, <2>2, <2>3 DEF PoolInv
  <1>2. PoolInv /\ [Next]_vars => PoolInv'
    BY PoolStep
  <1> QED
    BY <1>1, <1>2, PTL DEF Spec

(* Type correctness of the pool's state and of every link in it.           *)
THEOREM PoolTypeCorrect == Spec => []TypeOK
  BY PoolInductive, PTL DEF PoolInv

(* ping absorbs as many stale answers as there are pings between two       *)
(* tasks: it takes more dropped operations than that before a task is      *)
(* handed the answer to another task's statement.                          *)
THEOREM PoolAbsorbs == Spec => []PingsAbsorb
  BY PoolInductive, PTL DEF PoolInv

(* A connection whose socket failed under a task is never handed out       *)
(* again: ping's error makes the pool close it.                            *)
THEOREM PoolIsolatesBroken == Spec => []BrokenNotShared
  <1>1. PoolInv => BrokenNotShared
    BY DEF PoolInv, ConnInv, BrokenDead, BrokenNotShared
  <1> QED
    BY <1>1, PoolInductive, PTL

(* As many pings as operations were dropped let the server catch up with   *)
(* all that earlier tasks wrote: no statement a task abandoned takes       *)
(* effect under the next one, unless more were dropped than that.          *)
THEOREM PoolSettles == Spec => []EarlierStatementsExecuted
  <1>1. PoolInv => EarlierStatementsExecuted
    <2> SUFFICES ASSUME PoolInv, NEW c \in Conns,
                        place[c] = "held", link[c].aligned, ~link[c].dead,
                        link[c].lag <= PingsBetween,
                        NEW i \in (link[c].served + 1)..link[c].issued
                 PROVE  asked[c][i] \in {holder[c], Pool}
      BY DEF EarlierStatementsExecuted
    <2>1. /\ ConnInv(c) /\ asked[c] \in Seq(Tasks \cup {Pool})
          /\ link[c].issued \in Nat /\ link[c].served \in Nat
          /\ link[c].lag \in Nat
      BY LinkFields DEF PoolInv, TypeOK
    <2>2. i \in 1..Len(asked[c]) /\ i > link[c].served
      BY <2>1 DEF ConnInv, Counted
    <2>3. asked[c][i] \in Tasks \cup {Pool}
      BY <2>1, <2>2, ElementOfSeq
    <2>4. ASSUME asked[c][i] \in Tasks, asked[c][i] # holder[c] PROVE FALSE
      <3>1. i + PingsBetween + Pending(c) <= link[c].issued
        BY <2>1, <2>2, <2>4
           DEF ConnInv, Separated, Separation, Holds, PingsBetween, Pending
      <3>2. link[c].issued <= link[c].served + link[c].lag + Pending(c)
        BY <2>1 DEF ConnInv, CaughtUp
      <3>3. PingsBetween \in Nat /\ Pending(c) \in Nat
        BY DEF PingsBetween, Pending
      <3> QED
        BY <2>1, <2>2, <3>1, <3>2, <3>3
    <2> QED
      BY <2>3, <2>4
  <1> QED
    BY <1>1, PoolInductive, PTL
=============================================================================
