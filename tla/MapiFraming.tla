---------------------------- MODULE MapiFraming ----------------------------
(***************************************************************************)
(* MAPI block framing (protocol/framing.rs) and the reader on top of it    *)
(* (read_message, protocol/mod.rs), byte by byte: one direction of the     *)
(* stream, from a writer's buffer through the socket into read_buffered.   *)
(*                                                                         *)
(* A block is a two-byte little-endian header, (len << 1) | last, and len  *)
(* bytes of payload.  The writer is this driver (encode_message) or the    *)
(* server, which may split a message as it likes.  A byte has ByteBase     *)
(* values, 256 in the code, so that a small instance exercises both bytes  *)
(* of the header.                                                          *)
(***************************************************************************)
EXTENDS Integers, Sequences, SequencesExt

CONSTANTS
    ByteBase,           \* 256
    MAX_BLOCK_PAYLOAD,  \* 8190
    Payloads,           \* messages that may be written
    MaxMessages,        \* bound: messages written
    MaxBlocks,          \* bound: blocks in a message of the server
    MaxDrops            \* bound: reads dropped

Byte == 0..(ByteBase - 1)
Word == ByteBase * ByteBase    \* the number of values of a u16

ASSUME FramingAssumption ==
    /\ ByteBase \in Nat \ {0, 1}
    /\ MAX_BLOCK_PAYLOAD \in Nat \ {0}
    /\ 2 * MAX_BLOCK_PAYLOAD + 1 < Word
    /\ \A p \in Payloads : p \in Seq(Byte)
    /\ MaxMessages \in Nat /\ MaxBlocks \in Nat /\ MaxDrops \in Nat

VARIABLES
    out,       \* bytes in the writer's buffer or in the socket
    in,        \* bytes in the reader's buffer
    block,     \* the header read_message is waiting to complete, or NoBlock
    message,   \* read_message's local `message`
    sent,      \* history: messages written
    received,  \* messages returned by read_message
    drops,     \* history: reads dropped
    lost,      \* history: bytes of the next message gone with dropped reads
    aligned    \* history: the reader is at a header, or past one it knows

vars == <<out, in, block, message, sent, received, drops, lost, aligned>>

NoBlock == [len |-> 0, last |-> FALSE]

-----------------------------------------------------------------------------
(* framing.rs *)

(* Mutant: the length is narrowed to one byte before the shift.            *)
encode_header_narrow(len, last) ==
    LET header == (((len % ByteBase) * 2) % ByteBase) + (IF last THEN 1 ELSE 0)
    IN  <<header % ByteBase, header \div ByteBase>>

(* ((len as u16) << 1) | last, then to_le_bytes *)
encode_header(len, last) ==
    LET header == (((len % Word) * 2) % Word) + (IF last THEN 1 ELSE 0)
    IN  <<header % ByteBase, header \div ByteBase>>

(* Mutant: the bytes of the header are taken in the wrong order.           *)
decode_header_big_endian(bytes) ==
    LET header == bytes[1] * ByteBase + bytes[2]
    IN  [len |-> header \div 2, last |-> header % 2 = 1]

decode_header(bytes) ==
    LET header == bytes[1] + bytes[2] * ByteBase
    IN  [len |-> header \div 2, last |-> header % 2 = 1]

(* Where block i of a payload begins, its blocks ending at `ends`.         *)
Begin(ends, i) == IF i = 1 THEN 0 ELSE ends[i - 1]

(* The bytes of payload in blocks that end at `ends`.                      *)
Framed(payload, ends) ==
    LET n == Len(ends)
    IN  FlattenSeq([i \in 1..n |->
            encode_header(ends[i] - Begin(ends, i), i = n)
              \o SubSeq(payload, Begin(ends, i) + 1, ends[i])])

(* Mutant: one block more whenever the payload fills its blocks.           *)
chunks_with_tail(payload) ==
    LET n == Len(payload) \div MAX_BLOCK_PAYLOAD
    IN  [i \in 1..(n + 1) |-> IF i <= n THEN i * MAX_BLOCK_PAYLOAD
                              ELSE Len(payload)]

(* Where the chunks of payload.chunks(MAX_BLOCK_PAYLOAD) end, and the one  *)
(* empty block of an empty payload.                                        *)
chunks(payload) ==
    LET n == IF payload = <<>> THEN 1
             ELSE (Len(payload) + MAX_BLOCK_PAYLOAD - 1) \div MAX_BLOCK_PAYLOAD
    IN  [i \in 1..n |-> IF i < n THEN i * MAX_BLOCK_PAYLOAD ELSE Len(payload)]

encode_message(payload) == Framed(payload, chunks(payload))

None == [some |-> FALSE]

(* Mutant: a block is accepted although its last byte is missing.          *)
decode_message_short(data) ==
    LET From[offset \in 0..Len(data)] ==
          IF Len(data) < offset + 2 THEN None
          ELSE LET h == decode_header(SubSeq(data, offset + 1, offset + 2))
                   end == offset + 2 + h.len
                   present == IF end <= Len(data) THEN end ELSE Len(data)
                   payload == SubSeq(data, offset + 3, present)
               IN  IF Len(data) + 1 < end THEN None
                   ELSE IF h.last
                   THEN [some |-> TRUE, message |-> payload, used |-> end]
                   ELSE IF end > Len(data) \/ ~From[end].some THEN None
                   ELSE [From[end] EXCEPT !.message = payload \o @]
    IN  From[0]

(* The message at the front of data and the bytes it takes, or None while  *)
(* it is incomplete.                                                       *)
decode_message(data) ==
    LET From[offset \in 0..Len(data)] ==
          IF Len(data) < offset + 2 THEN None
          ELSE LET h == decode_header(SubSeq(data, offset + 1, offset + 2))
                   end == offset + 2 + h.len
                   payload == SubSeq(data, offset + 3, end)
               IN  IF Len(data) < end THEN None
                   ELSE IF h.last
                   THEN [some |-> TRUE, message |-> payload, used |-> end]
                   ELSE IF ~From[end].some THEN None
                   ELSE [From[end] EXCEPT !.message = payload \o @]
    IN  From[0]

-----------------------------------------------------------------------------
Init ==
    /\ out = <<>> /\ in = <<>>
    /\ block = NoBlock /\ message = <<>>
    /\ sent = <<>> /\ received = <<>>
    /\ drops = 0 /\ lost = 0 /\ aligned = TRUE

Write(payload, bytes) ==
    /\ Len(sent) < MaxMessages
    /\ out' = out \o bytes
    /\ sent' = Append(sent, payload)
    /\ UNCHANGED <<in, block, message, received, drops, lost, aligned>>

(* write_message puts the framed message into the write buffer.            *)
WriteMessage ==
    \E payload \in Payloads : Write(payload, encode_message(payload))

(* A payload may be sent in blocks that end at `ends`.                     *)
Splits(payload, ends) ==
    /\ ends[Len(ends)] = Len(payload)
    /\ \A i \in 1..Len(ends) :
         ends[i] - Begin(ends, i) \in 0..MAX_BLOCK_PAYLOAD

(* The server's message, in any blocks, empty ones included.               *)
ServerMessage ==
    \E payload \in Payloads, n \in 1..MaxBlocks :
      \E ends \in [1..n -> 0..Len(payload)] :
        Splits(payload, ends) /\ Write(payload, Framed(payload, ends))

(* Any number of bytes arrives.                                            *)
Transfer ==
    \E k \in 1..Len(out) :
        /\ in' = in \o SubSeq(out, 1, k)
        /\ out' = SubSeq(out, k + 1, Len(out))
        /\ UNCHANGED <<block, message, sent, received, drops, lost, aligned>>

(* Mutant: `message` is not started afresh.                                *)
EndBlockKeeps(last, text) ==
    /\ block' = NoBlock
    /\ message' = text
    /\ received' = IF last THEN Append(received, text) ELSE received
    /\ lost' = IF last THEN 0 ELSE lost

(* The end of one turn of read_message's loop; the next read_message       *)
(* starts with an empty `message`.                                         *)
EndBlock(last, text) ==
    /\ block' = NoBlock
    /\ message' = IF last THEN <<>> ELSE text
    /\ received' = IF last THEN Append(received, text) ELSE received
    /\ lost' = IF last THEN 0 ELSE lost

(* read_buffered(2) completes; an empty block has nothing more to read.    *)
ReadHeader ==
    /\ block = NoBlock /\ Len(in) >= 2
    /\ LET h == decode_header(SubSeq(in, 1, 2)) IN
         \/ h.len > 0 /\ block' = h /\ UNCHANGED <<message, received, lost>>
         \/ h.len = 0 /\ EndBlock(h.last, message)
    /\ in' = SubSeq(in, 3, Len(in))
    /\ UNCHANGED <<out, sent, drops, aligned>>

(* read_buffered(len) completes.                                           *)
ReadPayload ==
    /\ block # NoBlock /\ Len(in) >= block.len
    /\ EndBlock(block.last, message \o SubSeq(in, 1, block.len))
    /\ in' = SubSeq(in, block.len + 1, Len(in))
    /\ UNCHANGED <<out, sent, drops, aligned>>

Reader == ReadHeader \/ ReadPayload

(* The read_message future is dropped at one of its two awaits.            *)
(* read_buffered takes bytes from the buffer only when all it waits for    *)
(* are there, so what is lost are the locals: whole blocks, and a header   *)
(* when the payload is being awaited.                                      *)
DropRead ==
    /\ drops < MaxDrops
    /\ block' = NoBlock /\ message' = <<>>
    /\ lost' = lost + Len(message)
    /\ aligned' = (aligned /\ block = NoBlock)
    /\ drops' = drops + 1
    /\ UNCHANGED <<out, in, sent, received>>

Next == WriteMessage \/ ServerMessage \/ Transfer \/ Reader \/ DropRead

Spec == Init /\ [][Next]_vars

(* The socket delivers what was flushed and a woken reader is polled.      *)
FairSpec == Spec /\ WF_vars(Transfer) /\ WF_vars(Reader)

-----------------------------------------------------------------------------
(* Properties.                                                             *)

(* Bytes are bytes, and a block being read in step has a payload that      *)
(* fits; out of step its length is what any two bytes may say.             *)
TypeOK ==
    /\ out \in Seq(Byte) /\ in \in Seq(Byte)
    /\ block \in [len : 0..(Word \div 2), last : BOOLEAN]
    /\ aligned => block.len <= MAX_BLOCK_PAYLOAD
    /\ message \in Seq(Byte)
    /\ sent \in Seq(Payloads) /\ received \in Seq(Seq(Byte))
    /\ drops \in 0..MaxDrops /\ lost \in Nat /\ aligned \in BOOLEAN

Queue == INSTANCE MessageQueue
    WITH Messages <- Payloads,
         pending <- IF aligned THEN SubSeq(sent, Len(received) + 1, Len(sent))
                    ELSE <<>>,
         lost <- IF aligned THEN lost ELSE 0

(* write_message and read_message implement a queue: whatever the lengths, *)
(* the blocks and the arrival of bytes, read_message returns the messages  *)
(* written, each once and in order, whole but for the front that dropped   *)
(* reads took with them.  Only a read dropped between a header and its     *)
(* payload ends that.                                                      *)
IsQueue == Queue!Spec

(* At the start of a read decode_message agrees with read_message on any   *)
(* prefix of the stream: it finds nothing, or what is left of the next     *)
(* message written and the start of the one after it; given the whole      *)
(* stream it finds it.  The bytes that follow make no difference.          *)
DecodeAgrees ==
    aligned /\ block = NoBlock /\ message = <<>> =>
        LET next == Len(received) + 1
            all == decode_message(in \o out)
            now == decode_message(in)
        IN  /\ all.some <=> next <= Len(sent)
            /\ all.some =>
                 all.message = SubSeq(sent[next], lost + 1, Len(sent[next]))
            /\ now.some <=> all.some /\ all.used <= Len(in)
            /\ now.some => now = all

(* encode_message writes the fewest blocks: an empty block only for an     *)
(* empty message, and none after a payload that fills its blocks exactly.  *)
FewestBlocks ==
    \A i \in 1..Len(sent) :
        LET size == Len(encode_message(sent[i])) - Len(sent[i])
        IN  /\ size >= 2
            /\ size > 2 => Len(sent[i]) > MAX_BLOCK_PAYLOAD * (size \div 2 - 1)

(* Every message written is read, by a later call if the first is dropped: *)
(* while reads are in step the reader never waits for a last bit that was  *)
(* not set or for bytes that are not coming.                               *)
AllReceived == []<>(~aligned \/ Len(received) = Len(sent))
=============================================================================
