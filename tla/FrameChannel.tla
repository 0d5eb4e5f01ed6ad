------------------------------ MODULE FrameChannel -----------------------------
(***************************************************************************)
(* What the two ends of a levin.Connection may rely on: packets written by *)
(* any number of goroutines are returned whole, each exactly once, in the  *)
(* order in which they were written, except that one above the reader's    *)
(* size limit is refused.  The promise covers the packets before the first *)
(* write that stopped part-way, and a reader that has not itself given up  *)
(* inside a packet; after either, the stream of frames has no way to find  *)
(* its place again and nothing is promised.                                *)
(***************************************************************************)
EXTENDS Naturals, Sequences

CONSTANTS
    Fits(_),  \* the packet is within the reader's limit
    Refused   \* what the reader returns in place of a packet

VARIABLES
    sent,      \* packets begun before any write was cut short, in their order
    torn,      \* some write was cut short
    returned,  \* packets, or Refused, that the reader returned
    lost       \* the reader gave up inside a packet

chanVars == <<sent, torn, returned, lost>>

ChanInit == sent = <<>> /\ returned = <<>> /\ torn = FALSE /\ lost = FALSE

\* The packet the reader has to return next, if it still keeps its place.
Due == sent[Len(returned) + 1]
HasDue == ~lost /\ Len(returned) < Len(sent)

\* One more packet is begun.
ChanSend ==
    /\ ~torn
    /\ Len(sent') = Len(sent) + 1
    /\ SubSeq(sent', 1, Len(sent)) = sent
    /\ UNCHANGED <<torn, returned, lost>>

\* The reader returns the packet that is due.
ChanReceive ==
    /\ HasDue
    /\ Fits(Due)
    /\ returned' = Append(returned, Due)
    /\ UNCHANGED <<sent, torn, lost>>

\* The reader refuses the packet that is due, and is left inside it.
ChanRefuse ==
    /\ HasDue
    /\ ~Fits(Due)
    /\ returned' = Append(returned, Refused)
    /\ lost'
    /\ UNCHANGED <<sent, torn>>

\* A write fails part-way, in a packet the reader has not returned.
ChanTear ==
    /\ ~torn
    /\ torn'
    /\ \/ sent' = sent
       \/ /\ sent # <<>>
          /\ sent' = SubSeq(sent, 1, Len(sent) - 1)
          /\ lost \/ Len(returned) <= Len(sent')
    /\ UNCHANGED <<returned, lost>>

\* The reader's time runs out inside a packet.
ChanLose == ~lost /\ lost' /\ UNCHANGED <<sent, torn, returned>>

\* Beyond the last whole packet, or once the reader has lost its place.
ChanGarbled ==
    /\ lost \/ (torn /\ Len(returned) >= Len(sent))
    /\ Len(returned') = Len(returned) + 1
    /\ SubSeq(returned', 1, Len(returned)) = returned
    /\ lost => lost'
    /\ UNCHANGED <<sent, torn>>

ChanNext ==
    ChanSend \/ ChanReceive \/ ChanRefuse \/ ChanTear \/ ChanLose \/ ChanGarbled

ChanSpec == ChanInit /\ [][ChanNext]_chanVars
================================================================================
