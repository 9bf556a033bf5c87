---------------------------- MODULE MessageQueue ----------------------------
(***************************************************************************)
(* What write_message and read_message promise together: a queue of        *)
(* messages.  Nothing of blocks, headers or partial reads is visible; a    *)
(* read that is dropped may take the front of the next message with it,    *)
(* or lose the thread for good.                                            *)
(***************************************************************************)
EXTENDS Integers, Sequences

CONSTANT Messages

VARIABLES pending,   \* messages written and not yet read, oldest first
          received,  \* what read_message has returned, oldest first
          lost,      \* bytes of the oldest one that dropped reads have taken
          aligned    \* what is read is a message

vars == <<pending, received, lost, aligned>>

Init == pending = <<>> /\ received = <<>> /\ lost = 0 /\ aligned = TRUE

Put == /\ aligned
       /\ \E m \in Messages : pending' = Append(pending, m)
       /\ UNCHANGED <<received, lost, aligned>>

Get == /\ pending # <<>>
       /\ LET m == Head(pending)
          IN  received' = Append(received, SubSeq(m, lost + 1, Len(m)))
       /\ pending' = Tail(pending)
       /\ lost' = 0
       /\ UNCHANGED aligned

(* Bytes are lost of a message that was written, never more than it has.   *)
Drop == /\ pending # <<>>
        /\ lost' \in lost..Len(Head(pending))
        /\ UNCHANGED <<pending, received, aligned>>

Misalign == /\ pending # <<>>
            /\ aligned' = FALSE
            /\ pending' = <<>> /\ lost' = 0
            /\ UNCHANGED received

(* Out of step anything may be returned.                                   *)
Misread == /\ ~aligned
           /\ Len(received') = Len(received) + 1
           /\ SubSeq(received', 1, Len(received)) = received
           /\ UNCHANGED <<pending, lost, aligned>>

Next == Put \/ Get \/ Drop \/ Misalign \/ Misread

Spec == Init /\ [][Next]_vars
=============================================================================
