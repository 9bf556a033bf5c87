---------------------------- MODULE MapiHandshake ----------------------------
(***************************************************************************)
(* perform_handshake (protocol/mod.rs) with the line parsers and builders  *)
(* of protocol/handshake.rs, against a server that answers with any of the *)
(* replies the code distinguishes.                                         *)
(*                                                                         *)
(* Each pass of the `for _ in 0..10` loop reads a challenge, answers it    *)
(* with a login line and acts on the verdict: success, failure, a retry on *)
(* the same connection, or a new connection to another address.  Lines are *)
(* records of the fields the code looks at; a password hash is the triple  *)
(* it is computed from (hash_hex is taken to be injective).                *)
(***************************************************************************)
EXTENDS Integers, Sequences, FiniteSets

CONSTANTS
    MaxAttempts,     \* passes of the loop: 10 in the code
    Hosts, Start,    \* addresses, and the one in MonetConnectOptions
    ChallengeLines,  \* challenge lines a server may send, without the salt
    Targets,         \* redirect targets a server may send
    SaltSpace        \* bound: salts are numbered modulo this

Algorithms == {"RIPEMD160", "SHA512", "SHA384", "SHA256", "SHA224", "SHA1", "MD5"}

(* fields: how many fields the line has once trailing colons are dropped;  *)
(* extras: the N of each sql=N field, in order, -1 standing for text that  *)
(* is not a number, among the fields behind the sixth.                     *)
Line == [fields : Nat, version : {"8", "9"}, endian : {"BIG", "LIT", "other"},
         hashes : SUBSET Algorithms, serverHash : Algorithms,
         extras : Seq(Int)]

(* scheme: the text before "://"; mentions: whether "merovingian" occurs   *)
(* anywhere in the target; port: what rsplit_once(':') and parse yield.    *)
Target == [scheme : {"merovingian", "monetdb", "other"}, mentions : BOOLEAN,
           host : Hosts, port : {"number", "missing", "invalid"}]

ASSUME HandshakeAssumption ==
    /\ MaxAttempts \in Nat \ {0}
    /\ Start \in Hosts
    /\ \A c \in ChallengeLines : c \in Line
    /\ \A c \in ChallengeLines : c.extras # <<>> => c.fields > 6
    /\ \A t \in Targets : t \in Target
    /\ \A t \in Targets : t.scheme = "merovingian" => t.mentions
    /\ SaltSpace \in Nat \ {0, 1}

VARIABLES
    pc,         \* the await the handshake is at
    attempt,    \* pass of the loop, from 1
    addr,       \* current_host, current_port
    stream,     \* the socket of this pass, 0 before connect
    open,       \* sockets the client holds
    opened,     \* sockets opened so far; the newest has this number
    login,      \* the login line built from the last challenge
    result,     \* how the handshake ended
    redirects,  \* history: redirect verdicts received
    (* The server's end of the newest socket. *)
    srv,        \* where the server is in its side of the exchange
    offer,      \* the last challenge it sent
    replySize,  \* rows per response of the session
    known,      \* the servers know this user and password
    up, down    \* messages to and from the server

client == <<pc, attempt, addr, stream, open, opened, login, result, redirects>>
server == <<srv, offer, replySize, known>>
vars == <<pc, attempt, addr, stream, open, opened, login, result, redirects,
          srv, offer, replySize, known, up, down>>

Sending == {"prime", "login", "xsend"}
Receiving == {"challenge", "response", "xwait"}
PCs == {"connect", "done", "failed"} \cup Sending \cup Receiving
Results == {"none", "ok", "io", "protocol", "badline", "badlogin", "refused",
            "redirects", "dropped"}

-----------------------------------------------------------------------------
(* handshake.rs: the pure functions.                                       *)

NoLevel == -1

(* level.parse::<u8>().ok() *)
parse_level(n) == IF n \in 0..255 THEN n ELSE NoLevel

(* parse_challenge up to its three early returns, and the level of the     *)
(* last sql= field.                                                        *)
ChallengeAccepted(c) ==
    c.fields >= 6 /\ c.version = "9" /\ c.endian \in {"BIG", "LIT"}

handshake_option_level(c) ==
    IF c.extras = <<>> THEN NoLevel
    ELSE parse_level(c.extras[Len(c.extras)])

HASH_PRIORITY == <<"RIPEMD160", "SHA512", "SHA384", "SHA256", "SHA224", "SHA1">>

Supported == {HASH_PRIORITY[i] : i \in DOMAIN HASH_PRIORITY}

(* Mutant: the search through HASH_PRIORITY keeps the last match.          *)
select_hash_algorithm_last(hashes) ==
    LET Match(i) == HASH_PRIORITY[i] \in hashes IN
    HASH_PRIORITY[CHOOSE i \in DOMAIN HASH_PRIORITY :
        Match(i) /\ \A j \in DOMAIN HASH_PRIORITY : Match(j) => j <= i]

(* The first entry of HASH_PRIORITY the server lists; there is one, see    *)
(* compute_password_hash.                                                  *)
select_hash_algorithm(hashes) ==
    LET Match(i) == HASH_PRIORITY[i] \in hashes IN
    HASH_PRIORITY[CHOOSE i \in DOMAIN HASH_PRIORITY :
        Match(i) /\ \A j \in DOMAIN HASH_PRIORITY : Match(j) => i <= j]

(* compute_password_hash succeeds: hash_hex knows server_hash and some     *)
(* algorithm is common to both sides.                                      *)
Hashable(c) == c.serverHash \in Supported /\ c.hashes \cap Supported # {}

(* build_login_response: the options sent at a negotiated level.           *)
login_options(level) ==
    {o \in {"auto_commit", "reply_size", "size_header"} :
        level >= CASE o = "auto_commit" -> 1
                   [] o = "reply_size" -> 2
                   [] o = "size_header" -> 3}

NoLogin == [algo |-> "none", prehash |-> "none", salt |-> 0, options |-> {}]

(* compute_password_hash and build_login_response for challenge m.         *)
build_login_response(m) ==
    [algo |-> select_hash_algorithm(m.line.hashes),
     prehash |-> m.line.serverHash, salt |-> m.salt,
     options |-> login_options(handshake_option_level(m.line))]

(* The first lines a server may answer a login with: nothing, "=OK", a     *)
(* '#' welcome, a '!' error (wrong credentials told apart), a '^' redirect *)
(* or anything else.                                                       *)
OkLines == {"empty", "=OK", "#"}
ErrorLines == {"!badlogin", "!", "other"}

parse_login_response(first) ==
    CASE first \in OkLines -> "Ok"
      [] first = "^" -> "Redirect"
      [] OTHER -> "Error"

(* parse_redirect, by what follows from its result.                        *)
LocalRetry(t) == t.mentions
Reconnect(t) == ~t.mentions /\ t.scheme = "monetdb" /\ t.port = "number"

-----------------------------------------------------------------------------
Init ==
    /\ pc = "connect" /\ attempt = 1 /\ addr = Start
    /\ stream = 0 /\ open = {} /\ opened = 0
    /\ login = NoLogin /\ result = "none" /\ redirects = 0
    /\ srv = "closed" /\ offer = [salt |-> 0] /\ replySize = 100
    /\ known \in BOOLEAN
    /\ up = <<>> /\ down = <<>>

(* Mutant: an error is reported and the result forgotten.                  *)
FailUntyped(why) ==
    /\ pc' = "failed" /\ result' = "error"
    /\ open' = {} /\ stream' = 0

(* Every `?` and `return Err`: the future ends and its streams with it.    *)
Fail(why) ==
    /\ pc' = "failed" /\ result' = why
    /\ open' = {} /\ stream' = 0

(* connect() succeeds: a new socket, with a server at its other end.       *)
Connect ==
    /\ pc = "connect"
    /\ opened' = opened + 1 /\ stream' = opened + 1
    /\ open' = open \cup {opened + 1}
    /\ pc' = "prime"
    /\ srv' = "greet" /\ offer' = [salt |-> offer.salt] /\ replySize' = 100
    /\ up' = <<>> /\ down' = <<>>
    /\ UNCHANGED <<attempt, addr, login, result, redirects, known>>

ConnectError ==
    /\ pc = "connect"
    /\ Fail("io")
    /\ UNCHANGED <<attempt, addr, opened, login, redirects, server, up, down>>

(* send_prime_bytes, write_message: the bytes are in the socket.  The      *)
(* kernel may take them even if the server is gone.                        *)
Send(message, next) ==
    /\ up' = Append(up, message)
    /\ pc' = next
    /\ UNCHANGED <<attempt, addr, stream, open, opened, login, result,
                   redirects, server, down>>

SendPrime == pc = "prime" /\ Send([kind |-> "prime"], "challenge")

(* Mutant: write_message puts the login line in the buffer and does not    *)
(* flush it.                                                               *)
SendLoginUnflushed ==
    /\ pc = "login"
    /\ pc' = "response"
    /\ UNCHANGED <<attempt, addr, stream, open, opened, login, result,
                   redirects, server, up, down>>

SendLogin ==
    pc = "login" /\ Send([kind |-> "login", line |-> login], "response")

SendReplySize == pc = "xsend" /\ Send([kind |-> "Xreply_size"], "xwait")

WriteError ==
    /\ pc \in Sending /\ srv = "closed"
    /\ Fail("io")
    /\ UNCHANGED <<attempt, addr, opened, login, redirects, server, up, down>>

(* read_text_message fails: end of file, or bytes that are not UTF-8.      *)
ReadError ==
    /\ pc \in Receiving
    /\ \/ down = <<>> /\ srv = "closed" /\ Fail("io") /\ down' = down
       \/ down # <<>> /\ Head(down).kind = "notutf8" /\ Fail("protocol")
          /\ down' = Tail(down)
    /\ UNCHANGED <<attempt, addr, opened, login, redirects, server, up>>

Receive(where) == pc = where /\ down # <<>> /\ Head(down).kind # "notutf8"
                     /\ down' = Tail(down)

(* Mutant: a retry reuses the login line of the first challenge.           *)
ReadChallengeOnce ==
    /\ Receive("challenge")
    /\ LET m == Head(down) IN
         IF ChallengeAccepted(m.line) /\ Hashable(m.line)
         THEN /\ login' = IF login = NoLogin THEN build_login_response(m)
                          ELSE login
              /\ pc' = "login"
              /\ UNCHANGED <<open, stream, result>>
         ELSE Fail("badline") /\ login' = login
    /\ UNCHANGED <<attempt, addr, opened, redirects, server, up>>

(* The challenge is parsed and the answer to it computed.                  *)
ReadChallenge ==
    /\ Receive("challenge")
    /\ LET m == Head(down) IN
         IF ChallengeAccepted(m.line) /\ Hashable(m.line)
         THEN /\ login' = build_login_response(m) /\ pc' = "login"
              /\ UNCHANGED <<open, stream, result>>
         ELSE Fail("badline") /\ login' = login
    /\ UNCHANGED <<attempt, addr, opened, redirects, server, up>>

(* Mutant: the old stream is kept when the server redirects elsewhere.     *)
NextAttemptLeaks(t) ==
    /\ attempt' = attempt + 1
    /\ result' = result
    /\ \/ LocalRetry(t) /\ pc' = "challenge"
          /\ UNCHANGED <<addr, stream, open>>
       \/ Reconnect(t) /\ pc' = "connect" /\ addr' = t.host
          /\ stream' = 0 /\ open' = open

(* Mutant: the new address is not taken over.                              *)
NextAttemptSameAddress(t) ==
    /\ attempt' = attempt + 1
    /\ result' = result
    /\ \/ LocalRetry(t) /\ pc' = "challenge"
          /\ UNCHANGED <<addr, stream, open>>
       \/ Reconnect(t) /\ pc' = "connect" /\ addr' = addr
          /\ stream' = 0 /\ open' = open \ {stream}

(* Mutant: a retry on the same stream does not use up a pass.              *)
NextAttemptUncounted(t) ==
    /\ result' = result
    /\ \/ LocalRetry(t) /\ pc' = "challenge" /\ attempt' = attempt
          /\ UNCHANGED <<addr, stream, open>>
       \/ Reconnect(t) /\ pc' = "connect" /\ addr' = t.host
          /\ attempt' = attempt + 1
          /\ stream' = 0 /\ open' = open \ {stream}

(* Another pass of the loop.  LocalRetry keeps the stream (reused_stream); *)
(* otherwise it is dropped at the end of the pass.                         *)
NextAttempt(t) ==
    /\ attempt' = attempt + 1
    /\ result' = result
    /\ \/ LocalRetry(t) /\ pc' = "challenge"
          /\ UNCHANGED <<addr, stream, open>>
       \/ Reconnect(t) /\ pc' = "connect" /\ addr' = t.host
          /\ stream' = 0 /\ open' = open \ {stream}

(* parse_login_response and the match on it.                               *)
ReadVerdict ==
    /\ Receive("response")
    /\ LET m == Head(down)
           verdict == parse_login_response(m.kind) IN
       \/ /\ verdict = "Ok"
          /\ pc' = "xsend"
          /\ UNCHANGED <<attempt, addr, stream, open, result, redirects>>
       \/ /\ verdict = "Error"
          /\ Fail(IF m.kind = "!badlogin" THEN "badlogin" ELSE "refused")
          /\ UNCHANGED <<attempt, addr, redirects>>
       \/ /\ verdict = "Redirect"
          /\ redirects' = redirects + 1
          /\ \/ /\ ~LocalRetry(m.target) /\ ~Reconnect(m.target)
                /\ Fail("badline") /\ UNCHANGED <<attempt, addr>>
             \/ /\ LocalRetry(m.target) \/ Reconnect(m.target)
                /\ attempt = MaxAttempts
                /\ Fail("redirects") /\ UNCHANGED <<attempt, addr>>
             \/ attempt < MaxAttempts /\ NextAttempt(m.target)
    /\ UNCHANGED <<opened, login, server, up>>

(* Mutant: the stream is returned without waiting for the reply.           *)
ReadReplySizeSkipped ==
    /\ pc = "xwait"
    /\ pc' = "done" /\ result' = "ok"
    /\ UNCHANGED <<attempt, addr, stream, open, opened, login, redirects,
                   server, up, down>>

(* The reply to Xreply_size is read and not looked at.                     *)
ReadReplySize ==
    /\ Receive("xwait")
    /\ pc' = "done" /\ result' = "ok"
    /\ UNCHANGED <<attempt, addr, stream, open, opened, login, redirects,
                   server, up>>

(* The caller drops the connect future at any await.                       *)
Cancel ==
    /\ pc \notin {"done", "failed"}
    /\ Fail("dropped")
    /\ UNCHANGED <<attempt, addr, opened, login, redirects, server, up, down>>

-----------------------------------------------------------------------------
(* The server (external): one line at a time, whatever the code handles.   *)

(* A challenge goes out as soon as the connection is accepted, or after a  *)
(* merovingian redirect, with a salt of its own.                           *)
SrvChallenge ==
    /\ srv = "greet"
    /\ \/ \E c \in ChallengeLines :
            LET m == [kind |-> "challenge", line |-> c,
                      salt |-> (offer.salt + 1) % SaltSpace]
            IN  offer' = m /\ down' = Append(down, m)
       \/ down' = Append(down, [kind |-> "notutf8"]) /\ offer' = offer
    /\ srv' = "await"
    /\ UNCHANGED <<client, replySize, known, up>>

(* Prime bytes are ignored.                                                *)
SrvPrime ==
    /\ srv = "await" /\ up # <<>> /\ Head(up).kind = "prime"
    /\ up' = Tail(up)
    /\ UNCHANGED <<client, server, down>>

(* The login line proves knowledge of the password for this challenge.     *)
Proves(line) ==
    /\ known
    /\ line.salt = offer.salt
    /\ line.prehash = offer.line.serverHash
    /\ line.algo \in offer.line.hashes

SrvVerdict ==
    /\ srv = "await" /\ up # <<>> /\ Head(up).kind = "login"
    /\ up' = Tail(up)
    /\ LET line == Head(up).line IN
       \/ /\ Proves(line)
          /\ \E k \in OkLines : down' = Append(down, [kind |-> k])
          /\ srv' = "session"
          /\ replySize' \in IF "reply_size" \in line.options
                            THEN {100, -1} ELSE {100}
       \/ /\ ~Proves(line)
          /\ down' = Append(down, [kind |-> "!badlogin"]) /\ srv' = "closed"
          /\ replySize' = replySize
       \/ /\ \E k \in {"!", "other", "notutf8"} :
               down' = Append(down, [kind |-> k])
          /\ srv' = "closed" /\ replySize' = replySize
       \/ /\ \E t \in Targets :
               /\ down' = Append(down, [kind |-> "^", target |-> t])
               /\ srv' = IF t.scheme = "merovingian" THEN "greet" ELSE "closed"
          /\ replySize' = replySize
    /\ UNCHANGED <<client, offer, known>>

(* Xreply_size -1 is applied, or answered with an error line.              *)
SrvReplySize ==
    /\ srv = "session" /\ up # <<>> /\ Head(up).kind = "Xreply_size"
    /\ up' = Tail(up)
    /\ \/ replySize' = -1 /\ down' = Append(down, [kind |-> "empty"])
       \/ replySize' = replySize /\ down' = Append(down, [kind |-> "!"])
       \/ replySize' = -1 /\ down' = Append(down, [kind |-> "notutf8"])
    /\ UNCHANGED <<client, srv, offer, known>>

SrvClose ==
    /\ srv # "closed"
    /\ srv' = "closed"
    /\ UNCHANGED <<client, offer, replySize, known, up, down>>

-----------------------------------------------------------------------------
Client == Connect \/ ConnectError \/ SendPrime \/ SendLogin \/ SendReplySize
             \/ WriteError \/ ReadError \/ ReadChallenge \/ ReadVerdict
             \/ ReadReplySize

Server == SrvChallenge \/ SrvPrime \/ SrvVerdict \/ SrvReplySize

Next == Client \/ Cancel \/ Server \/ SrvClose

Spec == Init /\ [][Next]_vars

(* The executor polls a woken future, and a connected server takes its     *)
(* next step: the handshake itself has no timeout.                         *)
FairSpec == Spec /\ WF_vars(Client) /\ WF_vars(Server)

-----------------------------------------------------------------------------
(* Properties.                                                             *)

Login == [algo : Algorithms \cup {"none"}, prehash : Algorithms \cup {"none"},
          salt : 0..SaltSpace, options : SUBSET {"auto_commit", "reply_size",
                                                 "size_header"}]

(* Every variable of the handshake and of the server has its type.         *)
TypeOK ==
    /\ pc \in PCs
    /\ attempt \in 1..MaxAttempts
    /\ addr \in Hosts
    /\ stream \in 0..opened
    /\ open \subseteq 1..opened
    /\ opened \in 0..MaxAttempts
    /\ login \in Login
    /\ result \in Results
    /\ redirects \in 0..MaxAttempts
    /\ srv \in {"closed", "greet", "await", "session"}
    /\ offer.salt \in 0..SaltSpace
    /\ replySize \in {100, -1}
    /\ known \in BOOLEAN
    /\ \A i \in 1..Len(up) : up[i].kind \in {"prime", "login", "Xreply_size"}
    /\ \A i \in 1..Len(down) :
         down[i].kind \in {"challenge", "^", "notutf8"} \cup OkLines
                              \cup ErrorLines

(* A redirect never leaves a second socket behind, and a handshake that    *)
(* fails or is dropped leaves none: perform_handshake drops `stream` at    *)
(* the end of a pass unless reused_stream takes it over.                   *)
SingleSocket == open = IF stream = 0 THEN {} ELSE {stream}

(* A correct password is never rejected: whichever challenges, retries and *)
(* reconnections came before, the login line answers the server's latest   *)
(* salt with the hash it asked for.                                        *)
NeverMisjudged == result = "badlogin" => ~known

(* The login line on its way answers the challenge sent last on this very  *)
(* socket, with the algorithm both sides know that comes first in          *)
(* HASH_PRIORITY, and asks for exactly the options of the level the server *)
(* named last; a level that is no u8 names none.                           *)
LoginAnswersOffer ==
    \A i \in 1..Len(up) : up[i].kind = "login" =>
        LET line == up[i].line
            level == IF offer.line.extras = <<>> THEN 0
                     ELSE offer.line.extras[Len(offer.line.extras)]
        IN  /\ line.salt = offer.salt
            /\ \E a \in DOMAIN HASH_PRIORITY :
                 /\ HASH_PRIORITY[a] = line.algo
                 /\ line.algo \in offer.line.hashes
                 /\ \A b \in 1..(a - 1) :
                      HASH_PRIORITY[b] \notin offer.line.hashes
            /\ "auto_commit" \in line.options <=> level \in 1..255
            /\ "reply_size" \in line.options <=> level \in 2..255
            /\ "size_header" \in line.options <=> level \in 3..255

(* The stream handed to MonetConnection is the newest socket, the only one *)
(* open, and nothing sent or received during the handshake is left in it:  *)
(* the first query's answer is the first message to be read.               *)
HandoverClean ==
    pc = "done" => /\ up = <<>> /\ down = <<>>
                   /\ stream = opened /\ open = {stream}
                   /\ srv \in {"session", "closed"}

(* Each redirect uses up one pass, whether it retries on the same stream   *)
(* or reconnects, so a redirect cycle is cut off after MaxAttempts.        *)
RedirectsUsePasses ==
    /\ opened <= attempt
    /\ redirects = attempt - 1 \/ (pc = "failed" /\ redirects = attempt)

(* "`mapi:monetdb://host:port/...` -- close the current connection and     *)
(* reconnect to this host/port before retrying the handshake"              *)
(* (handshake.rs:260-261).                                                 *)
ReconnectFollowed ==
    [][LET m == Head(down) IN
       (/\ pc = "response" /\ down # <<>> /\ down' = Tail(down)
        /\ m.kind = "^" /\ m.target.scheme = "monetdb"
        /\ m.target.port = "number" /\ attempt < MaxAttempts)
       => pc' = "connect" /\ addr' = m.target.host /\ stream' = 0]_vars

(* The handshake always ends, redirect cycles and a server that goes away  *)
(* included: client and server never wait for each other.                  *)
HandshakeEnds == <>(pc \in {"done", "failed"})

(* "following redirects ... up to 10 times" (protocol/mod.rs:96-97), and   *)
(* "too many redirects (>10)": it gives up only past that many redirects.  *)
TenRedirectsFollowed == result = "redirects" => redirects > MaxAttempts

(* "Large result sets, with no silent truncation" (README.md:59): a        *)
(* session that is handed over returns every row of a result.              *)
UnlimitedRows == pc = "done" => replySize = -1
=============================================================================
