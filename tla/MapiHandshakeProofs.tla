------------------------- MODULE MapiHandshakeProofs -------------------------
(***************************************************************************)
(* Proofs about MapiHandshake, for any number of attempts, hosts,          *)
(* challenge lines and redirect targets.                                   *)
(***************************************************************************)
EXTENDS MapiHandshake, SequenceTheorems, TLAPS

(* Messages, by direction.                                                 *)
UpMsg == [kind : {"prime", "Xreply_size"}]
            \cup [kind : {"login"}, line : Login]
Challenges ==
    [kind : {"challenge"}, line : ChallengeLines, salt : 0..SaltSpace]
Redirects == [kind : {"^"}, target : Targets]
PlainMsg == [kind : {"notutf8"} \cup OkLines \cup ErrorLines]
DownMsg == Challenges \cup Redirects \cup PlainMsg

(* Everything queued is a message.                                         *)
Queues == up \in Seq(UpMsg) /\ down \in Seq(DownMsg)

(* The sockets: none before connect and after a failure, the newest one in *)
(* between, and one pass of the loop for each.                             *)
Sockets ==
    /\ pc \in {"connect", "failed"} => stream = 0
    /\ pc \notin {"connect", "failed"} => stream = opened /\ opened > 0
    /\ pc = "connect" => opened < attempt

(* What the client has sent and the server has not yet taken.              *)
LoginMsg == [kind |-> "login", line |-> login]
UpPrime == Len(up) = 1 /\ up[1].kind = "prime"
UpLogin == \/ Len(up) = 1 /\ up[1] = LoginMsg
           \/ Len(up) = 2 /\ up[1].kind = "prime" /\ up[2] = LoginMsg
UpSize == Len(up) = 1 /\ up[1].kind = "Xreply_size"

(* The login line was computed from the challenge sent last.               *)
Answering ==
    /\ srv \in {"await", "closed"}
    /\ offer \in Challenges
    /\ ChallengeAccepted(offer.line) /\ Hashable(offer.line)
    /\ login = build_login_response(offer)

(* A challenge is on its way, as item n of `down`, or will be sent.        *)
Greeting(n) ==
    \/ Len(down) = n - 1 /\ srv \in {"greet", "closed"}
    \/ /\ Len(down) = n /\ srv \in {"await", "closed"}
       /\ down[n].kind = "notutf8"
          \/ (down[n] = offer /\ offer \in Challenges)

(* The answer to the login line is on its way.                             *)
Verdict ==
    /\ Len(down) > 0
    /\ \/ /\ Len(down) = 1 /\ down[1].kind \in OkLines
          /\ srv \in {"session", "closed"}
       \/ /\ Len(down) = 1 /\ down[1].kind \in ErrorLines \cup {"notutf8"}
          /\ srv = "closed"
          /\ down[1].kind = "!badlogin" => ~known
       \/ /\ down[1] \in Redirects
          /\ \/ down[1].target.scheme = "merovingian" /\ Greeting(2)
             \/ Len(down) = 1 /\ srv = "closed"

(* Client and server take turns: what is in the two queues follows from    *)
(* where the client is.                                                    *)
Turns ==
    /\ pc = "connect" => up = <<>> /\ down = <<>> /\ srv = "closed"
    /\ pc = "prime" => up = <<>> /\ Greeting(1)
    /\ pc = "challenge" => (up = <<>> \/ UpPrime) /\ Greeting(1)
    /\ pc = "login" => (up = <<>> \/ UpPrime) /\ down = <<>> /\ Answering
    /\ pc = "response" => \/ UpLogin /\ down = <<>> /\ Answering
                          \/ up = <<>> /\ Verdict
    /\ pc \in {"xsend", "done"} =>
         up = <<>> /\ down = <<>> /\ srv \in {"session", "closed"}
    /\ pc = "xwait" => /\ srv \in {"session", "closed"}
                       /\ \/ UpSize /\ down = <<>>
                          \/ up = <<>> /\ Len(down) = 1
    /\ pc = "failed" => \/ up = <<>> \/ UpPrime \/ UpSize
                        \/ UpLogin /\ Answering

HandshakeInv ==
    /\ TypeOK /\ Queues /\ SingleSocket /\ Sockets /\ RedirectsUsePasses
    /\ Turns /\ NeverMisjudged

-----------------------------------------------------------------------------
(* Sequences and messages.                                                 *)

(* A message appended to an empty queue is its only one.                   *)
LEMMA AppendOne ==
    ASSUME NEW x PROVE /\ Len(Append(<<>>, x)) = 1
                       /\ Append(<<>>, x)[1] = x
OBVIOUS

(* A message appended behind another is the second.                        *)
LEMMA AppendTwo ==
    ASSUME NEW S, NEW s \in Seq(S), NEW x \in S
    PROVE  Len(s) = 1 => /\ Len(Append(s, x)) = 2
                         /\ Append(s, x)[1] = s[1] /\ Append(s, x)[2] = x
<1> DEFINE q == Append(s, x)
<1>1. Len(q) = Len(s) + 1
  OBVIOUS
<1>2. q[Len(s) + 1] = x
  OBVIOUS
<1>3. \A i \in 1..Len(s) : q[i] = s[i]
  OBVIOUS
<1> HIDE DEF q
<1>4. Len(s) = 1 => Len(q) = 2 /\ q[2] = x /\ q[1] = s[1]
  BY <1>1, <1>2, <1>3
<1> QED BY <1>4 DEF q

(* A queue grows by the message appended, whatever it is.                  *)
LEMMA AppendLonger ==
    ASSUME NEW S, NEW s \in Seq(S), NEW x
    PROVE  Len(Append(s, x)) = Len(s) + 1
<1> DEFINE T == S \cup {x}
<1>1. S \subseteq T /\ x \in T
  OBVIOUS
<1> HIDE DEF T
<1>2. s \in Seq(T)
  BY <1>1
<1> QED BY <1>1, <1>2

(* What Head and Tail leave of a queue.                                    *)
LEMMA TailFacts ==
    ASSUME NEW S, NEW s \in Seq(S), s # <<>>
    PROVE  /\ Tail(s) \in Seq(S) /\ Head(s) = s[1] /\ s[1] \in S
           /\ Len(s) \in Nat /\ Len(s) > 0
           /\ Len(Tail(s)) = Len(s) - 1
           /\ Len(s) = 1 => Tail(s) = <<>>
           /\ Len(s) = 2 => Tail(s)[1] = s[2]
<1>1. Len(s) \in Nat /\ Len(s) > 0 /\ Head(s) = s[1] /\ s[1] \in S
  OBVIOUS
<1>2. Tail(s) \in Seq(S) /\ Len(Tail(s)) = Len(s) - 1
  OBVIOUS
<1>3. Len(s) = 1 => Tail(s) = <<>>
  <2>1. Len(s) = 1 => Len(Tail(s)) = 0
    BY <1>2
  <2>2. Tail(s) # <<>> => Len(Tail(s)) \in Nat \ {0}
    BY <1>2, EmptySeq
  <2> QED BY <2>1, <2>2
<1>4. Len(s) = 2 => Tail(s)[1] = s[2]
  OBVIOUS
<1> QED BY <1>1, <1>2, <1>3, <1>4

(* Taking a message is no other change of a queue.                         *)
LEMMA TailUnlike ==
    ASSUME NEW S, NEW s \in Seq(S), s # <<>>
    PROVE  Tail(s) # s /\ \A x : Tail(s) # Append(s, x)
<1> DEFINE n == Len(s)
           k == Len(Tail(s))
           L(q) == Len(q)
<1>1. n \in Nat /\ k = n - 1
  BY TailFacts
<1>2. \A x : L(Append(s, x)) = n + 1
  BY AppendLonger
<1>3. L(s) = n /\ L(Tail(s)) = k
  OBVIOUS
<1> HIDE DEF n, k, L
<1>4. n # k /\ \A x : L(Append(s, x)) # k
  BY <1>1, <1>2
<1> QED BY <1>3, <1>4, Zenon

(* Whatever is queued has one of the kinds TypeOK lists.                   *)
LEMMA QueueKinds ==
    ASSUME NEW u \in Seq(UpMsg), NEW d \in Seq(DownMsg)
    PROVE  /\ \A i \in 1..Len(u) :
                u[i].kind \in {"prime", "login", "Xreply_size"}
           /\ \A i \in 1..Len(d) :
                d[i].kind \in {"challenge", "^", "notutf8"} \cup OkLines
                                 \cup ErrorLines
<1>1. \A m \in UpMsg : m.kind \in {"prime", "login", "Xreply_size"}
  BY DEF UpMsg
<1>2. \A m \in DownMsg :
        m.kind \in {"challenge", "^", "notutf8"} \cup OkLines \cup ErrorLines
  BY DEF DownMsg, Challenges, Redirects, PlainMsg
<1>3. \A i \in 1..Len(u) : u[i] \in UpMsg
  OBVIOUS
<1>4. \A i \in 1..Len(d) : d[i] \in DownMsg
  OBVIOUS
<1> QED BY <1>1, <1>2, <1>3, <1>4

(* The kind of a message tells which message it is.                        *)
LEMMA DownKinds ==
    ASSUME NEW m \in DownMsg
    PROVE  /\ m.kind = "challenge" => m \in Challenges
           /\ m.kind = "^" => m \in Redirects
           /\ m \in Challenges => m.kind = "challenge"
           /\ m \in Redirects => m.kind = "^"
  BY DEF DownMsg, Challenges, Redirects, PlainMsg, OkLines, ErrorLines

(* A login message is the client's login line.                             *)
LEMMA LoginMsgFacts ==
    /\ LoginMsg.kind = "login" /\ LoginMsg.line = login
    /\ login \in Login => LoginMsg \in UpMsg
  BY DEF LoginMsg, UpMsg

(* parse_redirect: the one target of the two kinds is never the other, and *)
(* only a target that names merovingian keeps the server greeting.         *)
LEMMA TargetFacts ==
    ASSUME NEW t \in Targets
    PROVE  /\ t.host \in Hosts
           /\ t.scheme = "merovingian" => LocalRetry(t)
           /\ Reconnect(t) => ~LocalRetry(t)
  BY HandshakeAssumption DEF Target, LocalRetry, Reconnect

-----------------------------------------------------------------------------
(* handshake.rs: the pure functions.                                       *)

(* select_hash_algorithm finds the first common algorithm when there is    *)
(* one.                                                                    *)
LEMMA SelectFirst ==
    ASSUME NEW hashes, hashes \cap Supported # {}
    PROVE  \E a \in DOMAIN HASH_PRIORITY :
             /\ select_hash_algorithm(hashes) = HASH_PRIORITY[a]
             /\ HASH_PRIORITY[a] \in hashes
             /\ \A b \in 1..(a - 1) : HASH_PRIORITY[b] \notin hashes
<1> DEFINE Match(i) == HASH_PRIORITY[i] \in hashes
           Least(i) == Match(i) /\ \A j \in DOMAIN HASH_PRIORITY :
                                       Match(j) => i <= j
<1>1. DOMAIN HASH_PRIORITY = 1..6
  BY DEF HASH_PRIORITY
<1>2. \E i \in 1..6 : Match(i)
  BY <1>1 DEF Supported
<1> HIDE DEF Match
<1>3. \E i \in 1..6 : Match(i) /\ \A j \in 1..6 : Match(j) => i <= j
  <2>1. CASE Match(1) BY <2>1
  <2>2. CASE ~Match(1) /\ Match(2) BY <2>2
  <2>3. CASE ~Match(1) /\ ~Match(2) /\ Match(3) BY <2>3
  <2>4. CASE ~Match(1) /\ ~Match(2) /\ ~Match(3) /\ Match(4) BY <2>4
  <2>5. CASE ~Match(1) /\ ~Match(2) /\ ~Match(3) /\ ~Match(4) /\ Match(5)
    BY <2>5
  <2>6. CASE /\ ~Match(1) /\ ~Match(2) /\ ~Match(3) /\ ~Match(4)
             /\ ~Match(5) /\ Match(6)
    BY <2>6
  <2>7. Match(1) \/ Match(2) \/ Match(3) \/ Match(4) \/ Match(5) \/ Match(6)
    BY <1>2
  <2> QED BY <2>1, <2>2, <2>3, <2>4, <2>5, <2>6, <2>7
<1>4. \E i \in DOMAIN HASH_PRIORITY : Least(i)
  BY <1>1, <1>3
<1> DEFINE a == CHOOSE i \in DOMAIN HASH_PRIORITY : Least(i)
<1>5. a \in DOMAIN HASH_PRIORITY /\ Least(a)
  BY <1>4
<1>6. select_hash_algorithm(hashes) = HASH_PRIORITY[a]
  BY DEF select_hash_algorithm, Match
<1> HIDE DEF a
<1>7. \A b \in 1..(a - 1) : ~Match(b)
  BY <1>1, <1>5
<1> QED BY <1>5, <1>6, <1>7 DEF Match

(* The algorithms of HASH_PRIORITY are algorithms.                         *)
LEMMA PriorityTyped ==
    \A a \in DOMAIN HASH_PRIORITY : HASH_PRIORITY[a] \in Algorithms
  BY DEF HASH_PRIORITY, Algorithms

(* What a login line computed from an acceptable challenge consists of.    *)
LEMMA LoginBuilt ==
    ASSUME NEW m \in Challenges, Hashable(m.line)
    PROVE  LET l == build_login_response(m) IN
           /\ l \in Login
           /\ l.salt = m.salt /\ l.prehash = m.line.serverHash
           /\ l.algo = select_hash_algorithm(m.line.hashes)
           /\ l.algo \in m.line.hashes
           /\ l.options = login_options(handshake_option_level(m.line))
<1> DEFINE l == build_login_response(m)
<1>1. m.salt \in 0..SaltSpace /\ m.line \in Line
  BY HandshakeAssumption DEF Challenges
<1>2. m.line.serverHash \in Algorithms
  BY <1>1 DEF Line
<1>3. m.line.hashes \cap Supported # {}
  BY DEF Hashable
<1>4. PICK a \in DOMAIN HASH_PRIORITY :
        /\ select_hash_algorithm(m.line.hashes) = HASH_PRIORITY[a]
        /\ HASH_PRIORITY[a] \in m.line.hashes
  BY <1>3, SelectFirst
<1>5. HASH_PRIORITY[a] \in Algorithms
  BY PriorityTyped
<1>6. \A n : login_options(n)
               \subseteq {"auto_commit", "reply_size", "size_header"}
  BY DEF login_options
<1>7. /\ l.salt = m.salt /\ l.prehash = m.line.serverHash
      /\ l.algo = select_hash_algorithm(m.line.hashes)
      /\ l.options = login_options(handshake_option_level(m.line))
  BY DEF build_login_response
<1>8. l \in Login
  BY <1>1, <1>2, <1>4, <1>5, <1>6 DEF build_login_response, Login
<1> QED BY <1>4, <1>7, <1>8

(* The options that a login line has at a level.                           *)
AtLevel(options, level) ==
    /\ "auto_commit" \in options <=> level \in 1..255
    /\ "reply_size" \in options <=> level \in 2..255
    /\ "size_header" \in options <=> level \in 3..255

(* What a parsed level n says of the level that was sent.                  *)
ByteLevel(n, level) ==
    /\ n >= 1 <=> level \in 1..255
    /\ n >= 2 <=> level \in 2..255
    /\ n >= 3 <=> level \in 3..255

(* A level that is a u8 is the level sent; none is below all of them.      *)
LEMMA ByteLevels ==
    ASSUME NEW n \in Int, NEW level \in Int,
           \/ n = level /\ level \in 0..255
           \/ n = -1 /\ level \notin 1..255
    PROVE  ByteLevel(n, level)
<1>1. CASE n = level /\ level \in 0..255
  BY <1>1 DEF ByteLevel
<1>2. CASE n = -1 /\ level \notin 1..255
  BY <1>2 DEF ByteLevel
<1> QED BY <1>1, <1>2

(* The options of a login line are those of the level the server named     *)
(* last, if that is a u8.                                                  *)
LEMMA OptionLevels ==
    ASSUME NEW c \in Line, NEW level,
           level = IF c.extras = <<>> THEN 0 ELSE c.extras[Len(c.extras)]
    PROVE  AtLevel(login_options(handshake_option_level(c)), level)
<1> DEFINE n == handshake_option_level(c)
<1>1. c.extras \in Seq(Int)
  BY DEF Line
<1>2. c.extras # <<>> => c.extras[Len(c.extras)] \in Int
  BY <1>1
<1>3. level \in Int
  BY <1>2
<1>4. \/ n = level /\ level \in 0..255
      \/ n = -1 /\ level \notin 1..255
  BY <1>2 DEF handshake_option_level, parse_level, NoLevel
<1>5. n \in Int
  BY <1>4
<1> HIDE DEF n
<1>6. /\ "auto_commit" \in login_options(n) <=> n >= 1
      /\ "reply_size" \in login_options(n) <=> n >= 2
      /\ "size_header" \in login_options(n) <=> n >= 3
  BY <1>5 DEF login_options
<1>7. ByteLevel(n, level)
  BY <1>3, <1>4, <1>5, ByteLevels, Zenon
<1>8. AtLevel(login_options(n), level)
  BY <1>6, <1>7, Zenon DEF AtLevel, ByteLevel
<1> QED BY <1>8, Zenon DEF n

-----------------------------------------------------------------------------
(* Each action keeps the invariant.  First what the actions share.         *)

(* The part of TypeOK that is not about the queues.                        *)
Typed ==
    /\ pc \in PCs
    /\ attempt \in 1..MaxAttempts
    /\ addr \in Hosts
    /\ stream \in 0..opened
    /\ open \subseteq 1..opened
    /\ opened \in 0..MaxAttempts
    /\ login \in Login
    /\ result \in Results
    /\ redirects \in 0..MaxAttempts
    /\ srv \in {"closed", "greet", "await", "session"}
    /\ offer.salt \in 0..SaltSpace
    /\ replySize \in {100, -1}
    /\ known \in BOOLEAN

(* Queues of messages complete the type.                                   *)
LEMMA TypeSplit == Typed /\ Queues => TypeOK
  BY QueueKinds DEF Typed, Queues, TypeOK

(* And after a step.                                                       *)
LEMMA TypeSplitNext == Typed' /\ Queues' => TypeOK'
  BY TypeSplit, PTL

(* The type without the queues.                                            *)
LEMMA InvTyped == HandshakeInv => Typed
  BY DEF HandshakeInv, TypeOK, Typed

(* The invariant after a step, put together from its parts.                *)
LEMMA InvNext ==
    /\ Typed' /\ Queues' /\ SingleSocket' /\ Sockets' /\ RedirectsUsePasses'
    /\ Turns' /\ NeverMisjudged'
    => HandshakeInv'
  BY TypeSplitNext DEF HandshakeInv

(* A failure drops the socket; what the client had sent stays on its way.  *)
LEMMA FailKeeps ==
    ASSUME HandshakeInv, NEW why \in Results, Fail(why), pc # "failed",
           why = "badlogin" => ~known, Queues',
           UNCHANGED <<attempt, addr, opened, login, server, up>>,
           \/ redirects' = redirects
           \/ pc = "response" /\ redirects' = redirects + 1
    PROVE  HandshakeInv'
<1> USE HandshakeAssumption
<1>1. Typed
  BY InvTyped
<1>2. RedirectsUsePasses'
  BY <1>1 DEF HandshakeInv, RedirectsUsePasses, Fail, Typed
<1>3. redirects' \in 0..MaxAttempts
  BY <1>1, <1>2 DEF RedirectsUsePasses, Typed
<1>4. Typed'
  BY <1>1, <1>3 DEF Typed, Fail, PCs, server
<1>5. SingleSocket' /\ Sockets'
  BY DEF SingleSocket, Sockets, Fail
<1>6. up = <<>> \/ UpPrime \/ UpSize \/ (UpLogin /\ Answering)
  BY <1>1 DEF HandshakeInv, Turns, Typed, PCs, Sending, Receiving
<1>7. Turns'
  <2>1. (up = <<>> \/ UpPrime \/ UpSize \/ (UpLogin /\ Answering))'
    BY <1>6 DEF UpPrime, UpSize, UpLogin, Answering, LoginMsg, server
  <2> QED BY <2>1 DEF Turns, Fail
<1>8. NeverMisjudged'
  BY DEF NeverMisjudged, Fail, server
<1> QED BY <1>2, <1>4, <1>5, <1>7, <1>8, InvNext

(* Connecting: nothing is queued and the server is about to greet.         *)
LEMMA ConnectKeeps == HandshakeInv /\ Connect => HandshakeInv'
<1> SUFFICES ASSUME HandshakeInv, Connect PROVE HandshakeInv'
  OBVIOUS
<1> USE HandshakeAssumption
<1>1. Typed /\ Sockets /\ SingleSocket /\ RedirectsUsePasses
  BY InvTyped DEF HandshakeInv
<1>2. opened \in Nat /\ opened + 1 \in 0..MaxAttempts /\ opened + 1 <= attempt
  BY <1>1 DEF Sockets, Connect, Typed
<1>3. open = {}
  BY <1>1 DEF SingleSocket, Sockets, Connect
<1>4. offer'.salt = offer.salt
  BY DEF Connect
<1>5. Typed'
  BY <1>1, <1>2, <1>3, <1>4 DEF Typed, Connect, PCs, Sending
<1>6. Queues'
  BY DEF Queues, Connect
<1>7. SingleSocket' /\ Sockets'
  BY <1>2, <1>3 DEF SingleSocket, Sockets, Connect
<1>8. RedirectsUsePasses'
  BY <1>1, <1>2 DEF RedirectsUsePasses, Connect, Typed
<1>9. Turns'
  BY DEF Turns, Greeting, Connect
<1>10. NeverMisjudged'
  BY DEF HandshakeInv, NeverMisjudged, Connect
<1> QED BY <1>5, <1>6, <1>7, <1>8, <1>9, <1>10, InvNext

(* The steps that fail, and leave no message half-read.                    *)
LEMMA ErrorsKeep ==
    HandshakeInv /\ (ConnectError \/ WriteError \/ ReadError \/ Cancel)
    => HandshakeInv'
<1> SUFFICES ASSUME HandshakeInv,
                    ConnectError \/ WriteError \/ ReadError \/ Cancel
             PROVE  HandshakeInv'
  OBVIOUS
<1>1. Queues
  BY DEF HandshakeInv
<1>2. {"io", "protocol", "dropped"} \subseteq Results
  BY DEF Results
<1>3. CASE ConnectError
  <2>1. Queues' BY <1>1, <1>3 DEF ConnectError, Queues
  <2> QED BY <1>2, <1>3, <2>1, FailKeeps DEF ConnectError
<1>4. CASE WriteError
  <2>1. Queues' BY <1>1, <1>4 DEF WriteError, Queues
  <2> QED BY <1>2, <1>4, <2>1, FailKeeps DEF WriteError, Sending
<1>5. CASE ReadError
  <2>1. Queues'
    BY <1>1, <1>5, TailFacts DEF ReadError, Queues
  <2>2. PICK why \in {"io", "protocol"} : Fail(why)
    BY <1>5 DEF ReadError
  <2> QED BY <1>2, <1>5, <2>1, <2>2, FailKeeps DEF ReadError, Receiving
<1>6. CASE Cancel
  <2>1. Queues' BY <1>1, <1>6 DEF Cancel, Queues
  <2> QED BY <1>2, <1>6, <2>1, FailKeeps DEF Cancel
<1> QED BY <1>3, <1>4, <1>5, <1>6

(* A step that sends changes the queue to the server and the turn only.    *)
LEMMA SendKeeps ==
    ASSUME HandshakeInv, NEW m \in UpMsg, NEW next \in Receiving,
           Send(m, next), pc \in Sending, Turns'
    PROVE  HandshakeInv'
<1>1. Typed /\ Queues /\ Sockets /\ SingleSocket /\ RedirectsUsePasses
  BY InvTyped DEF HandshakeInv
<1>2. Typed'
  BY <1>1 DEF Typed, Send, PCs, server
<1>3. Queues'
  BY <1>1 DEF Queues, Send
<1>4. SingleSocket'
  BY <1>1 DEF SingleSocket, Send
<1>5. Sockets'
  BY <1>1 DEF Sockets, Send, Sending, Receiving
<1>6. RedirectsUsePasses'
  BY <1>1 DEF RedirectsUsePasses, Send, Sending, Receiving
<1>7. NeverMisjudged'
  BY DEF HandshakeInv, NeverMisjudged, Send, server
<1> QED BY <1>2, <1>3, <1>4, <1>5, <1>6, <1>7, InvNext

(* The prime bytes are the first message on a socket.                      *)
LEMMA SendPrimeKeeps == HandshakeInv /\ SendPrime => HandshakeInv'
<1> SUFFICES ASSUME HandshakeInv, SendPrime PROVE HandshakeInv'
  OBVIOUS
<1> DEFINE m == [kind |-> "prime"]
<1>1. Send(m, "challenge") /\ pc = "prime"
  BY DEF SendPrime
<1>2. m \in UpMsg /\ m.kind = "prime"
  BY DEF UpMsg
<1> HIDE DEF m
<1>3. up = <<>> /\ Greeting(1)
  BY <1>1 DEF HandshakeInv, Turns
<1>4. UpPrime'
  BY <1>1, <1>2, <1>3, AppendOne DEF UpPrime, Send
<1>5. Greeting(1)'
  BY <1>1, <1>3 DEF Greeting, Send, server
<1>6. Turns'
  BY <1>1, <1>4, <1>5 DEF Turns, Send
<1> QED BY <1>1, <1>2, <1>6, SendKeeps DEF Sending, Receiving

(* The login line follows the prime bytes, if they are still on their way. *)
LEMMA SendLoginKeeps == HandshakeInv /\ SendLogin => HandshakeInv'
<1> SUFFICES ASSUME HandshakeInv, SendLogin PROVE HandshakeInv'
  OBVIOUS
<1>1. Send(LoginMsg, "response") /\ pc = "login"
  BY DEF SendLogin, LoginMsg
<1>2. LoginMsg \in UpMsg
  BY LoginMsgFacts, InvTyped DEF Typed
<1>3. (up = <<>> \/ UpPrime) /\ down = <<>> /\ Answering
  BY <1>1 DEF HandshakeInv, Turns
<1>4. LoginMsg' = LoginMsg
  BY <1>1 DEF LoginMsg, Send
<1>5. UpLogin'
  <2>1. CASE up = <<>>
    BY <1>1, <1>4, <2>1, AppendOne DEF UpLogin, Send
  <2>2. CASE UpPrime
    <3>1. up \in Seq(UpMsg) /\ Len(up) = 1 /\ up[1].kind = "prime"
      BY <2>2 DEF HandshakeInv, Queues, UpPrime
    <3>2. /\ Len(up') = 2 /\ up'[1] = up[1] /\ up'[2] = LoginMsg
      BY <1>1, <1>2, <3>1, AppendTwo DEF Send
    <3> QED BY <1>4, <3>1, <3>2 DEF UpLogin
  <2> QED BY <1>3, <2>1, <2>2
<1>6. Answering'
  BY <1>1, <1>3 DEF Answering, Send, server
<1>7. Turns'
  BY <1>1, <1>3, <1>5, <1>6 DEF Turns, Send
<1> QED BY <1>1, <1>2, <1>7, SendKeeps DEF Sending, Receiving

(* Xreply_size goes out on a quiet socket.                                 *)
LEMMA SendReplySizeKeeps == HandshakeInv /\ SendReplySize => HandshakeInv'
<1> SUFFICES ASSUME HandshakeInv, SendReplySize PROVE HandshakeInv'
  OBVIOUS
<1> DEFINE m == [kind |-> "Xreply_size"]
<1>1. Send(m, "xwait") /\ pc = "xsend"
  BY DEF SendReplySize
<1>2. m \in UpMsg /\ m.kind = "Xreply_size"
  BY DEF UpMsg
<1> HIDE DEF m
<1>3. up = <<>> /\ down = <<>> /\ srv \in {"session", "closed"}
  BY <1>1 DEF HandshakeInv, Turns
<1>4. UpSize'
  BY <1>1, <1>2, <1>3, AppendOne DEF UpSize, Send
<1>5. Turns'
  BY <1>1, <1>3, <1>4 DEF Turns, Send, server
<1> QED BY <1>1, <1>2, <1>5, SendKeeps DEF Sending, Receiving

(* Reading a message: it was the first of the queue.                       *)
LEMMA ReceiveFacts ==
    ASSUME HandshakeInv, NEW where, Receive(where)
    PROVE  /\ pc = where /\ Head(down) = down[1] /\ down[1] \in DownMsg
           /\ down[1].kind # "notutf8"
           /\ down' = Tail(down) /\ down' \in Seq(DownMsg)
           /\ Len(down) \in Nat /\ Len(down) > 0 /\ Len(down') = Len(down) - 1
           /\ Len(down) = 1 => down' = <<>>
           /\ Len(down) = 2 => down'[1] = down[2]
<1>1. down \in Seq(DownMsg) /\ down # <<>>
  BY DEF HandshakeInv, Queues, Receive
<1> QED BY <1>1, TailFacts DEF Receive

(* The challenge read is the one the server sent last, and the login line  *)
(* is computed from it.                                                    *)
LEMMA ReadChallengeKeeps == HandshakeInv /\ ReadChallenge => HandshakeInv'
<1> SUFFICES ASSUME HandshakeInv, ReadChallenge PROVE HandshakeInv'
  OBVIOUS
<1> DEFINE m == down[1]
<1>1. Receive("challenge")
  BY DEF ReadChallenge
<1>2. pc = "challenge" /\ Head(down) = m /\ m \in DownMsg
      /\ m.kind # "notutf8" /\ down' \in Seq(DownMsg)
      /\ Len(down) > 0 /\ Len(down) \in Nat /\ (Len(down) = 1 => down' = <<>>)
  BY <1>1, ReceiveFacts
<1>3. /\ up = <<>> \/ UpPrime
      /\ Len(down) = 1 /\ srv \in {"await", "closed"}
      /\ m = offer /\ offer \in Challenges
  BY <1>2 DEF HandshakeInv, Turns, Greeting
<1>4. UNCHANGED <<attempt, addr, opened, redirects, server, up>>
  BY DEF ReadChallenge
<1>5. Queues'
  BY <1>2, <1>4 DEF HandshakeInv, Queues
<1>6. CASE ChallengeAccepted(m.line) /\ Hashable(m.line)
  <2>1. /\ login' = build_login_response(m) /\ pc' = "login"
        /\ UNCHANGED <<open, stream, result>>
    BY <1>2, <1>6 DEF ReadChallenge
  <2>2. login' \in Login
    BY <1>3, <1>6, <2>1, LoginBuilt
  <2>3. Typed /\ Sockets /\ SingleSocket /\ RedirectsUsePasses
    BY InvTyped DEF HandshakeInv
  <2>4. Typed'
    BY <1>4, <2>1, <2>2, <2>3 DEF Typed, PCs, Sending, server
  <2>5. SingleSocket' /\ Sockets'
    BY <1>2, <1>4, <2>1, <2>3 DEF SingleSocket, Sockets
  <2>6. RedirectsUsePasses'
    BY <1>2, <1>4, <2>1, <2>3 DEF RedirectsUsePasses
  <2>7. Answering'
    BY <1>3, <1>4, <1>6, <2>1 DEF Answering, server
  <2>8. (up = <<>> \/ UpPrime)'
    BY <1>3, <1>4 DEF UpPrime
  <2>9. Turns'
    BY <1>2, <1>3, <2>1, <2>7, <2>8 DEF Turns
  <2>10. NeverMisjudged'
    BY <1>4, <2>1 DEF HandshakeInv, NeverMisjudged, server
  <2> QED BY <1>5, <2>4, <2>5, <2>6, <2>9, <2>10, InvNext
<1>7. CASE ~(ChallengeAccepted(m.line) /\ Hashable(m.line))
  <2>1. Fail("badline") /\ login' = login
    BY <1>2, <1>7 DEF ReadChallenge
  <2>2. "badline" \in Results
    BY DEF Results
  <2> QED BY <1>2, <1>4, <1>5, <2>1, <2>2, FailKeeps
<1> QED BY <1>6, <1>7

(* Reading the verdict: a session, an error, another pass or giving up.    *)
LEMMA ReadVerdictKeeps == HandshakeInv /\ ReadVerdict => HandshakeInv'
<1> SUFFICES ASSUME HandshakeInv, ReadVerdict PROVE HandshakeInv'
  OBVIOUS
<1> USE HandshakeAssumption
<1> DEFINE m == down[1]
<1>1. Receive("response")
  BY DEF ReadVerdict
<1>2. /\ pc = "response" /\ Head(down) = m /\ m \in DownMsg
      /\ m.kind # "notutf8" /\ down' \in Seq(DownMsg)
      /\ Len(down) > 0 /\ Len(down) \in Nat /\ Len(down') = Len(down) - 1
      /\ Len(down) = 1 => down' = <<>>
      /\ Len(down) = 2 => down'[1] = down[2]
  BY <1>1, ReceiveFacts
<1>3. up = <<>> /\ Verdict
  BY <1>2 DEF HandshakeInv, Turns
<1>4. UNCHANGED <<opened, login, server, up>>
  BY DEF ReadVerdict
<1>5. Queues'
  BY <1>2, <1>4 DEF HandshakeInv, Queues
<1>6. Typed /\ Sockets /\ SingleSocket /\ RedirectsUsePasses /\ NeverMisjudged
  BY InvTyped DEF HandshakeInv
<1>7. m.kind = "^" <=> m \in Redirects
  BY <1>2, DownKinds
<1>8. CASE /\ parse_login_response(m.kind) = "Ok" /\ pc' = "xsend"
           /\ UNCHANGED <<attempt, addr, stream, open, result, redirects>>
  <2>1. m.kind \in OkLines
    BY <1>8 DEF parse_login_response
  <2>2. Len(down) = 1 /\ srv \in {"session", "closed"}
    BY <1>3, <1>7, <2>1 DEF Verdict, OkLines, ErrorLines
  <2>3. Typed'
    BY <1>4, <1>6, <1>8 DEF Typed, PCs, Sending, server
  <2>4. SingleSocket' /\ Sockets'
    BY <1>2, <1>4, <1>6, <1>8 DEF SingleSocket, Sockets
  <2>5. RedirectsUsePasses'
    BY <1>2, <1>4, <1>6, <1>8 DEF RedirectsUsePasses
  <2>6. Turns'
    BY <1>2, <1>3, <1>4, <1>8, <2>2 DEF Turns, server
  <2>7. NeverMisjudged'
    BY <1>4, <1>6, <1>8 DEF NeverMisjudged, server
  <2> QED BY <1>5, <2>3, <2>4, <2>5, <2>6, <2>7, InvNext
<1>9. CASE /\ parse_login_response(m.kind) = "Error"
           /\ Fail(IF m.kind = "!badlogin" THEN "badlogin" ELSE "refused")
           /\ UNCHANGED <<attempt, addr, redirects>>
  <2>1. m.kind = "!badlogin" => ~known
    BY <1>3, <1>7 DEF Verdict, OkLines
  <2>2. {"badlogin", "refused"} \subseteq Results
    BY DEF Results
  <2> DEFINE why == IF m.kind = "!badlogin" THEN "badlogin" ELSE "refused"
  <2>3. why \in Results /\ (why = "badlogin" => ~known)
    BY <2>1, <2>2
  <2>4. Fail(why)
    BY <1>9
  <2> HIDE DEF why
  <2> QED BY <1>2, <1>4, <1>5, <1>9, <2>3, <2>4, FailKeeps
<1>10. CASE /\ redirects' = redirects + 1
            /\ \E why \in {"badline", "redirects"} : Fail(why)
            /\ UNCHANGED <<attempt, addr>>
  <2>1. {"badline", "redirects"} \subseteq Results
    BY DEF Results
  <2> QED BY <1>2, <1>4, <1>5, <1>10, <2>1, FailKeeps
<1>11. CASE /\ parse_login_response(m.kind) = "Redirect"
            /\ redirects' = redirects + 1
            /\ attempt < MaxAttempts /\ NextAttempt(m.target)
  <2>1. m \in Redirects
    BY <1>7, <1>11 DEF parse_login_response
  <2> DEFINE t == m.target
  <2>2. t \in Targets
    BY <2>1 DEF Redirects
  <2>3. /\ t.host \in Hosts
        /\ t.scheme = "merovingian" => LocalRetry(t)
        /\ Reconnect(t) => ~LocalRetry(t)
    BY <2>2, TargetFacts
  <2>4. \/ t.scheme = "merovingian" /\ Greeting(2)
        \/ Len(down) = 1 /\ srv = "closed"
    BY <1>3, <2>1 DEF Verdict, Redirects, OkLines, ErrorLines
  <2> HIDE DEF t
  <2>5. attempt' = attempt + 1 /\ result' = result
    BY <1>11 DEF NextAttempt
  <2>6. redirects = attempt - 1
    BY <1>2, <1>6 DEF RedirectsUsePasses
  <2>7. attempt' \in 1..MaxAttempts /\ redirects' \in 0..MaxAttempts
    BY <1>6, <1>11, <2>5, <2>6 DEF Typed
  <2>8. RedirectsUsePasses'
    BY <1>4, <1>6, <1>11, <2>5, <2>6 DEF RedirectsUsePasses, Typed
  <2>9. NeverMisjudged'
    BY <1>4, <1>6, <2>5 DEF NeverMisjudged, server
  <2>10. CASE /\ LocalRetry(t) /\ pc' = "challenge"
              /\ UNCHANGED <<addr, stream, open>>
    <3>1. Typed'
      BY <1>4, <1>6, <2>5, <2>7, <2>10 DEF Typed, PCs, Receiving, server
    <3>2. SingleSocket' /\ Sockets'
      BY <1>2, <1>4, <1>6, <2>10 DEF SingleSocket, Sockets
    <3>3. Greeting(1)'
      BY <1>2, <1>4, <2>4 DEF Greeting, server
    <3>4. Turns'
      BY <1>3, <1>4, <2>10, <3>3 DEF Turns
    <3> QED BY <1>5, <2>8, <2>9, <3>1, <3>2, <3>4, InvNext
  <2>11. CASE /\ Reconnect(t) /\ pc' = "connect" /\ addr' = t.host
              /\ stream' = 0 /\ open' = open \ {stream}
    <3>1. Len(down) = 1 /\ srv = "closed"
      BY <2>3, <2>4, <2>11
    <3>2. open' = {}
      BY <1>6, <2>11 DEF SingleSocket
    <3>3. Typed'
      BY <1>4, <1>6, <2>3, <2>5, <2>7, <2>11, <3>2 DEF Typed, PCs, server
    <3>4. SingleSocket' /\ Sockets'
      BY <1>4, <1>6, <2>5, <2>11, <3>2
      DEF SingleSocket, Sockets, RedirectsUsePasses, Typed
    <3>5. Turns'
      BY <1>2, <1>3, <1>4, <2>11, <3>1 DEF Turns, server
    <3> QED BY <1>5, <2>8, <2>9, <3>3, <3>4, <3>5, InvNext
  <2> QED BY <1>11, <2>10, <2>11 DEF NextAttempt, t
<1> QED BY <1>2, <1>8, <1>9, <1>10, <1>11 DEF ReadVerdict

(* The reply to Xreply_size is the last message.                           *)
LEMMA ReadReplySizeKeeps == HandshakeInv /\ ReadReplySize => HandshakeInv'
<1> SUFFICES ASSUME HandshakeInv, ReadReplySize PROVE HandshakeInv'
  OBVIOUS
<1>1. Receive("xwait")
  BY DEF ReadReplySize
<1>2. /\ pc = "xwait" /\ down' \in Seq(DownMsg)
      /\ Len(down) > 0 /\ Len(down) \in Nat /\ (Len(down) = 1 => down' = <<>>)
  BY <1>1, ReceiveFacts
<1>3. up = <<>> /\ down' = <<>> /\ srv \in {"session", "closed"}
  BY <1>2 DEF HandshakeInv, Turns
<1>4. Typed /\ Sockets /\ SingleSocket /\ RedirectsUsePasses
  BY InvTyped DEF HandshakeInv
<1>5. Typed'
  BY <1>4 DEF Typed, ReadReplySize, PCs, Results, server
<1>6. Queues'
  BY <1>2 DEF HandshakeInv, Queues, ReadReplySize
<1>7. SingleSocket' /\ Sockets'
  BY <1>2, <1>4 DEF SingleSocket, Sockets, ReadReplySize
<1>8. RedirectsUsePasses'
  BY <1>2, <1>4 DEF RedirectsUsePasses, ReadReplySize
<1>9. Turns'
  BY <1>3 DEF Turns, ReadReplySize, server
<1>10. NeverMisjudged'
  BY DEF NeverMisjudged, ReadReplySize
<1> QED BY <1>5, <1>6, <1>7, <1>8, <1>9, <1>10, InvNext

(* A step of the server leaves the client alone.                           *)
LEMMA ServerKeeps ==
    ASSUME HandshakeInv, UNCHANGED <<client, known>>, Queues', Turns',
           srv' \in {"closed", "greet", "await", "session"},
           offer'.salt \in 0..SaltSpace, replySize' \in {100, -1}
    PROVE  HandshakeInv'
<1>1. Typed /\ Sockets /\ SingleSocket /\ RedirectsUsePasses /\ NeverMisjudged
  BY InvTyped DEF HandshakeInv
<1>2. Typed'
  BY <1>1 DEF Typed, client
<1>3. SingleSocket' /\ Sockets'
  BY <1>1 DEF SingleSocket, Sockets, client
<1>4. RedirectsUsePasses' /\ NeverMisjudged'
  BY <1>1 DEF RedirectsUsePasses, NeverMisjudged, client
<1> QED BY <1>2, <1>3, <1>4, InvNext

(* A challenge follows the connection or a merovingian redirect.           *)
LEMMA SrvChallengeKeeps == HandshakeInv /\ SrvChallenge => HandshakeInv'
<1> SUFFICES ASSUME HandshakeInv, SrvChallenge PROVE HandshakeInv'
  OBVIOUS
<1> USE HandshakeAssumption
<1>1. Typed /\ Queues /\ Turns
  BY InvTyped DEF HandshakeInv
<1>2. /\ srv = "greet" /\ srv' = "await"
      /\ UNCHANGED <<client, replySize, known, up>>
  BY DEF SrvChallenge
<1>3. \E m \in DownMsg :
        /\ down' = Append(down, m)
        /\ \/ m.kind = "notutf8" /\ offer' = offer
           \/ m \in Challenges /\ offer' = m
  <2>1. CASE \E c \in ChallengeLines :
               LET m == [kind |-> "challenge", line |-> c,
                         salt |-> (offer.salt + 1) % SaltSpace]
               IN  offer' = m /\ down' = Append(down, m)
    <3>1. (offer.salt + 1) % SaltSpace \in 0..SaltSpace
      BY <1>1 DEF Typed
    <3> DEFINE salt == (offer.salt + 1) % SaltSpace
    <3> HIDE DEF salt
    <3>2. PICK c \in ChallengeLines :
            LET m == [kind |-> "challenge", line |-> c, salt |-> salt]
            IN  offer' = m /\ down' = Append(down, m)
      BY <2>1 DEF salt
    <3> DEFINE m == [kind |-> "challenge", line |-> c, salt |-> salt]
    <3>3. m \in Challenges
      BY <3>1 DEF Challenges, salt
    <3> QED BY <3>2, <3>3 DEF DownMsg
  <2>2. CASE down' = Append(down, [kind |-> "notutf8"]) /\ offer' = offer
    <3>1. [kind |-> "notutf8"] \in PlainMsg
      BY DEF PlainMsg
    <3> QED BY <2>2, <3>1 DEF DownMsg
  <2> QED BY <2>1, <2>2 DEF SrvChallenge
<1>4. PICK m \in DownMsg :
        /\ down' = Append(down, m)
        /\ \/ m.kind = "notutf8" /\ offer' = offer
           \/ m \in Challenges /\ offer' = m
  BY <1>3
<1>5. Queues'
  BY <1>1, <1>2, <1>4 DEF Queues
<1>6. offer'.salt \in 0..SaltSpace
  BY <1>1, <1>4 DEF Typed, Challenges
<1>7. Len(down) = 0 => Len(down') = 1 /\ down'[1] = m
  <2>1. Len(down) = 0 => down = <<>>
    BY <1>1, EmptySeq DEF Queues
  <2> QED BY <1>4, <2>1, AppendOne
<1>8. Len(down) = 1 => Len(down') = 2 /\ down'[1] = down[1] /\ down'[2] = m
  BY <1>1, <1>4, AppendTwo DEF Queues
<1>9. m.kind = "notutf8" \/ (m = offer' /\ offer' \in Challenges)
  BY <1>4
<1>10. ~Answering /\ (Greeting(1) => Greeting(1)')
  BY <1>2, <1>7, <1>9 DEF Answering, Greeting
<1>11. UpPrime' = UpPrime /\ UpSize' = UpSize /\ pc' = pc
  BY <1>2 DEF UpPrime, UpSize, client
<1>12. Verdict => Verdict'
  <2>1. SUFFICES ASSUME Verdict PROVE Verdict'
    OBVIOUS
  <2>2. down[1] \in Redirects /\ down[1].target.scheme = "merovingian"
        /\ Greeting(2)
    BY <1>2, <2>1 DEF Verdict
  <2>3. Len(down) = 1
    BY <1>2, <2>2 DEF Greeting
  <2>4. Greeting(2)'
    BY <1>2, <1>8, <1>9, <2>3 DEF Greeting
  <2> QED BY <1>8, <2>2, <2>3, <2>4 DEF Verdict
<1>13. Turns'
  BY <1>1, <1>2, <1>10, <1>11, <1>12 DEF Turns, client
<1> QED BY <1>1, <1>2, <1>5, <1>6, <1>13, ServerKeeps DEF Typed

(* Prime bytes are taken from in front of whatever follows them.           *)
LEMMA SrvPrimeKeeps == HandshakeInv /\ SrvPrime => HandshakeInv'
<1> SUFFICES ASSUME HandshakeInv, SrvPrime PROVE HandshakeInv'
  OBVIOUS
<1>1. Typed /\ Queues /\ Turns
  BY InvTyped DEF HandshakeInv
<1>2. /\ srv = "await" /\ up # <<>> /\ Head(up).kind = "prime"
      /\ up' = Tail(up) /\ UNCHANGED <<client, server, down>>
  BY DEF SrvPrime
<1>3. /\ up' \in Seq(UpMsg) /\ Head(up) = up[1]
      /\ Len(up) \in Nat /\ Len(up) > 0 /\ Len(up') = Len(up) - 1
      /\ Len(up) = 1 => up' = <<>>
      /\ Len(up) = 2 => up'[1] = up[2]
  BY <1>1, <1>2, TailFacts DEF Queues
<1>4. up[1].kind = "prime" /\ ~UpSize
  BY <1>2, <1>3 DEF UpSize
<1>5. UpPrime => up' = <<>>
  BY <1>3 DEF UpPrime
<1>6. UpLogin => UpLogin'
  <2>1. LoginMsg' = LoginMsg /\ LoginMsg.kind = "login"
    BY <1>2, LoginMsgFacts DEF LoginMsg, client
  <2> QED BY <1>3, <1>4, <2>1 DEF UpLogin
<1>7. Answering' = Answering /\ Greeting(1)' = Greeting(1)
  BY <1>2 DEF Answering, Greeting, client, server
<1>8. Turns'
  BY <1>1, <1>2, <1>4, <1>5, <1>6, <1>7 DEF Turns, client, server
<1>9. Queues'
  BY <1>1, <1>2, <1>3 DEF Queues
<1> QED BY <1>1, <1>2, <1>8, <1>9, ServerKeeps DEF Typed, server

(* The server closes: nothing that was allowed before is ruled out.        *)
LEMMA SrvCloseKeeps == HandshakeInv /\ SrvClose => HandshakeInv'
<1> SUFFICES ASSUME HandshakeInv, SrvClose PROVE HandshakeInv'
  OBVIOUS
<1>1. Typed /\ Queues /\ Turns
  BY InvTyped DEF HandshakeInv
<1>2. /\ srv' = "closed"
      /\ UNCHANGED <<client, offer, replySize, known, up, down>>
  BY DEF SrvClose
<1>3. /\ UpPrime' = UpPrime /\ UpSize' = UpSize /\ UpLogin' = UpLogin
      /\ Answering => Answering'
      /\ Greeting(1) => Greeting(1)'
      /\ Greeting(2) => Greeting(2)'
  BY <1>2 DEF UpPrime, UpSize, UpLogin, LoginMsg, Answering, Greeting, client
<1>4. Verdict => Verdict'
  BY <1>2, <1>3 DEF Verdict
<1>5. Turns'
  BY <1>1, <1>2, <1>3, <1>4 DEF Turns, client
<1>6. Queues'
  BY <1>1, <1>2 DEF Queues
<1> QED BY <1>1, <1>2, <1>5, <1>6, ServerKeeps DEF Typed

(* Taking a message: what is left to be taken.                             *)
LEMMA TakeFacts ==
    ASSUME HandshakeInv, up # <<>>
    PROVE  /\ Tail(up) \in Seq(UpMsg) /\ Head(up) = up[1]
           /\ Len(up) \in Nat /\ Len(up) > 0
           /\ Len(up) = 1 => Tail(up) = <<>>
  BY TailFacts DEF HandshakeInv, Queues

(* A login line that answers the last challenge is judged by the password  *)
(* alone.                                                                  *)
LEMMA JudgedByPassword == Answering => (Proves(login) <=> known)
  BY LoginBuilt DEF Answering, Proves

(* The verdict on a login line: it is the only message on the socket.      *)
LEMMA SrvVerdictKeeps == HandshakeInv /\ SrvVerdict => HandshakeInv'
<1> SUFFICES ASSUME HandshakeInv, SrvVerdict PROVE HandshakeInv'
  OBVIOUS
<1> USE HandshakeAssumption
<1>1. Typed /\ Queues /\ Turns
  BY InvTyped DEF HandshakeInv
<1>2. /\ srv = "await" /\ up # <<>> /\ Head(up).kind = "login"
      /\ up' = Tail(up) /\ UNCHANGED <<client, offer, known>>
  BY DEF SrvVerdict
<1>3. /\ up' \in Seq(UpMsg) /\ up[1].kind = "login" /\ Head(up) = up[1]
      /\ Len(up) = 1 => up' = <<>>
  BY <1>2, TakeFacts
<1>4. ~UpPrime /\ ~UpSize
  BY <1>3 DEF UpPrime, UpSize
<1>5. UpLogin => up' = <<>> /\ Head(up).line = login
  BY <1>3, LoginMsgFacts DEF UpLogin
<1>6. \E m \in DownMsg :
        /\ down' = Append(down, m)
        /\ \/ m.kind \in OkLines /\ srv' = "session"
           \/ /\ m.kind \in ErrorLines \cup {"notutf8"} /\ srv' = "closed"
              /\ m.kind = "!badlogin" => ~Proves(Head(up).line)
           \/ /\ m \in Redirects
              /\ srv' = IF m.target.scheme = "merovingian" THEN "greet"
                        ELSE "closed"
  <2> DEFINE line == Head(up).line
  <2> HIDE DEF line
  <2>1. \A k \in {"notutf8"} \cup OkLines \cup ErrorLines :
          [kind |-> k] \in DownMsg /\ [kind |-> k].kind = k
    BY DEF DownMsg, PlainMsg
  <2>2. \A t \in Targets : LET m == [kind |-> "^", target |-> t] IN
          m \in DownMsg /\ m \in Redirects /\ m.target = t
    BY DEF DownMsg, Redirects
  <2>3. CASE /\ \E k \in OkLines : down' = Append(down, [kind |-> k])
             /\ srv' = "session"
    BY <2>1, <2>3
  <2>4. CASE /\ ~Proves(line) /\ down' = Append(down, [kind |-> "!badlogin"])
             /\ srv' = "closed"
    BY <2>1, <2>4 DEF ErrorLines, line
  <2>5. CASE /\ \E k \in {"!", "other", "notutf8"} :
                   down' = Append(down, [kind |-> k])
             /\ srv' = "closed"
    BY <2>1, <2>5 DEF ErrorLines
  <2>6. CASE \E t \in Targets :
               /\ down' = Append(down, [kind |-> "^", target |-> t])
               /\ srv' = IF t.scheme = "merovingian" THEN "greet" ELSE "closed"
    BY <2>2, <2>6
  <2> QED BY <2>3, <2>4, <2>5, <2>6 DEF SrvVerdict, line
<1>7. PICK m \in DownMsg :
        /\ down' = Append(down, m)
        /\ \/ m.kind \in OkLines /\ srv' = "session"
           \/ /\ m.kind \in ErrorLines \cup {"notutf8"} /\ srv' = "closed"
              /\ m.kind = "!badlogin" => ~Proves(Head(up).line)
           \/ /\ m \in Redirects
              /\ srv' = IF m.target.scheme = "merovingian" THEN "greet"
                        ELSE "closed"
  BY <1>6
<1>8. Queues'
  BY <1>1, <1>3, <1>7 DEF Queues
<1>9. replySize' \in {100, -1}
  BY <1>1 DEF SrvVerdict, Typed
<1>10. srv' \in {"closed", "greet", "session"}
  BY <1>7
<1>11. pc = "response" => up' = <<>> /\ Verdict'
  <2> SUFFICES ASSUME pc = "response" PROVE up' = <<>> /\ Verdict'
    OBVIOUS
  <2>1. UpLogin /\ down = <<>> /\ Answering
    BY <1>1, <1>2 DEF Turns
  <2>2. Len(down') = 1 /\ down'[1] = m
    BY <1>7, <2>1, AppendOne
  <2>3. m.kind = "!badlogin" => ~known'
    BY <1>2, <1>5, <1>7, <2>1, JudgedByPassword, DownKinds DEF OkLines
  <2>4. Verdict'
    BY <1>7, <2>2, <2>3 DEF Verdict, Greeting
  <2> QED BY <1>5, <2>1, <2>4
<1>12. pc = "failed" => up' = <<>>
  BY <1>1, <1>2, <1>4, <1>5 DEF Turns
<1>13. pc \in {"response", "failed"}
  <2>1. pc # "prime" /\ pc # "challenge" /\ pc # "login" /\ pc # "connect"
    BY <1>1, <1>2, <1>4 DEF Turns
  <2>2. pc # "xsend" /\ pc # "xwait" /\ pc # "done"
    BY <1>1, <1>2, <1>4 DEF Turns
  <2> QED BY <1>1, <2>1, <2>2 DEF Typed, PCs, Sending, Receiving
<1>14. Turns'
  BY <1>2, <1>11, <1>12, <1>13 DEF Turns, client
<1> QED
  BY <1>1, <1>2, <1>8, <1>9, <1>10, <1>14, ServerKeeps DEF Typed

(* The reply to Xreply_size: again the only message on the socket.         *)
LEMMA SrvReplySizeKeeps == HandshakeInv /\ SrvReplySize => HandshakeInv'
<1> SUFFICES ASSUME HandshakeInv, SrvReplySize PROVE HandshakeInv'
  OBVIOUS
<1>1. Typed /\ Queues /\ Turns
  BY InvTyped DEF HandshakeInv
<1>2. /\ srv = "session" /\ up # <<>> /\ Head(up).kind = "Xreply_size"
      /\ up' = Tail(up) /\ UNCHANGED <<client, srv, offer, known>>
  BY DEF SrvReplySize
<1>3. /\ up' \in Seq(UpMsg) /\ up[1].kind = "Xreply_size"
      /\ Len(up) = 1 => up' = <<>>
  BY <1>2, TakeFacts
<1>4. ~UpPrime /\ ~Answering /\ (UpSize => up' = <<>>)
  BY <1>2, <1>3 DEF UpPrime, UpSize, Answering
<1>5. \E m \in DownMsg : down' = Append(down, m)
  <2>1. \A k \in {"empty", "!", "notutf8"} : [kind |-> k] \in DownMsg
    BY DEF DownMsg, PlainMsg, OkLines, ErrorLines
  <2> QED BY <2>1 DEF SrvReplySize
<1>6. Queues'
  BY <1>1, <1>3, <1>5 DEF Queues
<1>7. replySize' \in {100, -1}
  BY <1>1 DEF SrvReplySize, Typed
<1>8. down = <<>> => Len(down') = 1
  BY <1>5, AppendOne
<1>9. pc \in {"xwait", "failed"}
  <2>1. pc # "prime" /\ pc # "challenge" /\ pc # "login" /\ pc # "connect"
    BY <1>1, <1>2, <1>4 DEF Turns
  <2>2. pc # "xsend" /\ pc # "response" /\ pc # "done"
    BY <1>1, <1>2, <1>4 DEF Turns
  <2> QED BY <1>1, <2>1, <2>2 DEF Typed, PCs, Sending, Receiving
<1>10. up' = <<>> /\ (pc = "xwait" => Len(down') = 1)
  BY <1>1, <1>2, <1>4, <1>8, <1>9 DEF Turns
<1>11. Turns'
  BY <1>2, <1>9, <1>10 DEF Turns, client
<1> QED BY <1>1, <1>2, <1>6, <1>7, <1>11, ServerKeeps DEF Typed

-----------------------------------------------------------------------------
(* The theorems.                                                           *)

(* Before the first connection nothing is open and nothing is queued.      *)
LEMMA InitInv == Init => HandshakeInv
<1> SUFFICES ASSUME Init PROVE HandshakeInv
  OBVIOUS
<1> USE HandshakeAssumption
<1>1. NoLogin \in Login
  BY DEF NoLogin, Login
<1>2. Typed
  BY <1>1 DEF Init, Typed, PCs, Results
<1>3. Queues
  BY DEF Init, Queues
<1>4. SingleSocket /\ Sockets /\ RedirectsUsePasses /\ NeverMisjudged
  BY DEF Init, SingleSocket, Sockets, RedirectsUsePasses, NeverMisjudged
<1>5. Turns
  BY DEF Init, Turns
<1> QED BY <1>2, <1>3, <1>4, <1>5, TypeSplit DEF HandshakeInv

(* HandshakeInv holds throughout the handshake: client and server take     *)
(* turns on the one open socket, whatever is lost, refused or redirected.  *)
THEOREM HandshakeInductive == Spec => []HandshakeInv
<1>1. HandshakeInv /\ [Next]_vars => HandshakeInv'
  <2> SUFFICES ASSUME HandshakeInv, [Next]_vars PROVE HandshakeInv'
    OBVIOUS
  <2>1. CASE Client
    BY <2>1, ConnectKeeps, ErrorsKeep, SendPrimeKeeps, SendLoginKeeps,
       SendReplySizeKeeps, ReadChallengeKeeps, ReadVerdictKeeps,
       ReadReplySizeKeeps
    DEF Client
  <2>2. CASE Cancel
    BY <2>2, ErrorsKeep
  <2>3. CASE Server
    BY <2>3, SrvChallengeKeeps, SrvPrimeKeeps, SrvVerdictKeeps,
       SrvReplySizeKeeps
    DEF Server
  <2>4. CASE SrvClose
    BY <2>4, SrvCloseKeeps
  <2>5. CASE UNCHANGED vars
    <3>1. Typed /\ Queues /\ SingleSocket /\ Sockets /\ RedirectsUsePasses
          /\ Turns /\ NeverMisjudged
      BY InvTyped DEF HandshakeInv
    <3>2. Typed' /\ Queues' /\ SingleSocket' /\ Sockets'
          /\ RedirectsUsePasses' /\ NeverMisjudged'
      BY <2>5, <3>1
      DEF vars, Typed, Queues, SingleSocket, Sockets, RedirectsUsePasses,
          NeverMisjudged
    <3>3. /\ UpPrime' = UpPrime /\ UpSize' = UpSize /\ UpLogin' = UpLogin
          /\ Answering' = Answering /\ Greeting(1)' = Greeting(1)
          /\ Greeting(2)' = Greeting(2)
      BY <2>5
      DEF vars, UpPrime, UpSize, UpLogin, LoginMsg, Answering, Greeting
    <3>4. Turns'
      BY <2>5, <3>1, <3>3 DEF vars, Turns, Verdict
    <3> QED BY <3>2, <3>4, InvNext
  <2> QED BY <2>1, <2>2, <2>3, <2>4, <2>5 DEF Next
<1> QED BY InitInv, <1>1, PTL DEF Spec

(* Every variable of the handshake keeps its type.                         *)
THEOREM HandshakeTypeCorrect == Spec => []TypeOK
<1>1. HandshakeInv => TypeOK
  BY DEF HandshakeInv
<1> QED BY <1>1, HandshakeInductive, PTL

(* However many redirects it follows, perform_handshake holds at most the  *)
(* socket of the current pass, and none once it has failed or was dropped. *)
THEOREM OneSocket == Spec => []SingleSocket
<1>1. HandshakeInv => SingleSocket
  BY DEF HandshakeInv
<1> QED BY <1>1, HandshakeInductive, PTL

(* A redirect always uses up a pass of the loop: no cycle of redirects,    *)
(* retried or reconnected, outlives MaxAttempts.                           *)
THEOREM RedirectsBounded == Spec => []RedirectsUsePasses
<1>1. HandshakeInv => RedirectsUsePasses
  BY DEF HandshakeInv
<1> QED BY <1>1, HandshakeInductive, PTL

(* The right password is never reported as InvalidCredentials, whatever    *)
(* challenges, retries and reconnections came before the verdict.          *)
THEOREM PasswordJudged == Spec => []NeverMisjudged
<1>1. HandshakeInv => NeverMisjudged
  BY DEF HandshakeInv
<1> QED BY <1>1, HandshakeInductive, PTL

(* The stream handed to MonetConnection is the newest socket, the only one *)
(* open, with nothing of the handshake left in either direction.           *)
THEOREM CleanHandover == Spec => []HandoverClean
<1>1. HandshakeInv => HandoverClean
  <2> SUFFICES ASSUME HandshakeInv, pc = "done"
               PROVE  /\ up = <<>> /\ down = <<>>
                      /\ stream = opened /\ open = {stream}
                      /\ srv \in {"session", "closed"}
    BY DEF HandoverClean
  <2>1. up = <<>> /\ down = <<>> /\ srv \in {"session", "closed"}
    BY DEF HandshakeInv, Turns
  <2>2. stream = opened /\ opened > 0 /\ opened \in Nat
    BY InvTyped DEF HandshakeInv, Sockets, Typed
  <2>3. open = {stream}
    BY <2>2 DEF HandshakeInv, SingleSocket
  <2> QED BY <2>1, <2>2, <2>3
<1> QED BY <1>1, HandshakeInductive, PTL

(* A login line on its way answers the challenge sent last on its socket,  *)
(* with the common algorithm that comes first in HASH_PRIORITY and exactly *)
(* the options of the level the server named, also after the client failed *)
(* (build_login_response, parse_challenge).                                *)
THEOREM LoginsAnswer == Spec => []LoginAnswersOffer
<1>1. HandshakeInv => LoginAnswersOffer
  <2> SUFFICES ASSUME HandshakeInv,
                      NEW i \in 1..Len(up), up[i].kind = "login"
               PROVE  LET line == up[i].line
                          level == IF offer.line.extras = <<>> THEN 0 ELSE
                                   offer.line.extras[Len(offer.line.extras)]
                      IN  /\ line.salt = offer.salt
                          /\ \E a \in DOMAIN HASH_PRIORITY :
                               /\ HASH_PRIORITY[a] = line.algo
                               /\ line.algo \in offer.line.hashes
                               /\ \A b \in 1..(a - 1) :
                                    HASH_PRIORITY[b] \notin offer.line.hashes
                          /\ "auto_commit" \in line.options
                                 <=> level \in 1..255
                          /\ "reply_size" \in line.options
                                 <=> level \in 2..255
                          /\ "size_header" \in line.options
                                 <=> level \in 3..255
    BY DEF LoginAnswersOffer
  <2>1. Typed /\ up \in Seq(UpMsg)
    BY InvTyped DEF HandshakeInv, Queues
  <2>2. up # <<>> /\ ~UpPrime /\ ~UpSize
    BY <2>1 DEF UpPrime, UpSize
  <2>3. UpLogin /\ Answering
    <3>1. pc # "prime" /\ pc # "challenge" /\ pc # "login" /\ pc # "connect"
      BY <2>2 DEF HandshakeInv, Turns
    <3>2. pc # "xsend" /\ pc # "xwait" /\ pc # "done"
      BY <2>2 DEF HandshakeInv, Turns
    <3>3. pc \in {"response", "failed"}
      BY <2>1, <3>1, <3>2 DEF Typed, PCs, Sending, Receiving
    <3> QED BY <2>2, <3>3 DEF HandshakeInv, Turns
  <2>4. up[i] = LoginMsg
    BY <2>3 DEF UpLogin
  <2>5. up[i].line = login
    BY <2>4, LoginMsgFacts
  <2>6. offer \in Challenges /\ Hashable(offer.line)
        /\ login = build_login_response(offer)
    BY <2>3 DEF Answering
  <2>7. offer.line \in Line
    BY <2>6, HandshakeAssumption DEF Challenges
  <2>8. /\ login.salt = offer.salt
        /\ login.algo = select_hash_algorithm(offer.line.hashes)
        /\ login.options = login_options(handshake_option_level(offer.line))
    BY <2>6, LoginBuilt
  <2>9. \E a \in DOMAIN HASH_PRIORITY :
          /\ HASH_PRIORITY[a] = login.algo
          /\ login.algo \in offer.line.hashes
          /\ \A b \in 1..(a - 1) : HASH_PRIORITY[b] \notin offer.line.hashes
    BY <2>6, <2>8, SelectFirst DEF Hashable
  <2> DEFINE level == IF offer.line.extras = <<>> THEN 0
                      ELSE offer.line.extras[Len(offer.line.extras)]
  <2>10. AtLevel(login.options, level)
    BY <2>7, <2>8, OptionLevels, Zenon
  <2> QED BY <2>5, <2>8, <2>9, <2>10, Zenon DEF AtLevel
<1> QED BY <1>1, HandshakeInductive, PTL

(* A mapi:monetdb:// redirect is followed to its host whenever no such     *)
(* target mentions "merovingian": parse_redirect's search for that word in *)
(* the whole target is all that ever stands between the documented         *)
(* reconnection and the code.                                              *)
THEOREM ReconnectsUnlessNamed ==
    ASSUME \A t \in Targets : t.scheme = "monetdb" => ~LocalRetry(t)
    PROVE  Spec => ReconnectFollowed
<1> DEFINE m == Head(down)
           Step == (/\ pc = "response" /\ down # <<>> /\ down' = Tail(down)
                    /\ m.kind = "^" /\ m.target.scheme = "monetdb"
                    /\ m.target.port = "number" /\ attempt < MaxAttempts)
                   => pc' = "connect" /\ addr' = m.target.host /\ stream' = 0
<1>1. HandshakeInv /\ [Next]_vars => [Step]_vars
  <2> SUFFICES ASSUME HandshakeInv, Next, pc = "response", down # <<>>,
                      down' = Tail(down), m.kind = "^",
                      m.target.scheme = "monetdb",
                      m.target.port = "number", attempt < MaxAttempts
               PROVE  pc' = "connect" /\ addr' = m.target.host /\ stream' = 0
    OBVIOUS
  <2>1. /\ down \in Seq(DownMsg) /\ Len(down) \in Nat
        /\ m \in DownMsg /\ Len(down') = Len(down) - 1
    BY TailFacts DEF HandshakeInv, Queues
  <2>2. down' # down /\ \A x : down' # Append(down, x)
    BY TailUnlike DEF HandshakeInv, Queues
  <2>3. ReadVerdict
    <3>1. ~Server
      BY <2>2 DEF Server, SrvChallenge, SrvPrime, SrvVerdict, SrvReplySize
    <3>2. ~SrvClose /\ ~Cancel /\ ~ConnectError /\ ~WriteError /\ ~ReadError
      BY <2>2 DEF SrvClose, Cancel, ConnectError, WriteError, ReadError
    <3>3. /\ ~Connect /\ ~SendPrime /\ ~SendLogin /\ ~SendReplySize
          /\ ~ReadChallenge /\ ~ReadReplySize
      BY DEF Connect, SendPrime, SendLogin, SendReplySize, ReadChallenge,
             ReadReplySize, Receive
    <3> QED BY <3>1, <3>2, <3>3 DEF Next, Client
  <2>4. m.target \in Targets
    <3>1. m \in Redirects
      BY <2>1, DownKinds
    <3> QED BY <3>1 DEF Redirects
  <2>5. ~LocalRetry(m.target) /\ Reconnect(m.target)
    BY <2>4 DEF Reconnect, LocalRetry
  <2>6. parse_login_response(m.kind) = "Redirect"
    BY DEF parse_login_response, OkLines
  <2>7. attempt # MaxAttempts
    BY InvTyped, HandshakeAssumption DEF Typed
  <2>8. NextAttempt(m.target)
    BY <2>3, <2>5, <2>6, <2>7 DEF ReadVerdict
  <2> QED BY <2>5, <2>8 DEF NextAttempt
<1> QED BY <1>1, HandshakeInductive, PTL DEF Spec, ReconnectFollowed
=============================================================================
