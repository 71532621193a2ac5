------------------------------ MODULE LogChannel ------------------------------
(***************************************************************************)
(* What the logging pipeline promises, with no mention of how it is done:  *)
(* a bounded first-in first-out channel of log entries.  An entry that was *)
(* accepted is delivered exactly once, in the order of acceptance, and at  *)
(* most Bound accepted entries wait at any time.                           *)
(*                                                                         *)
(* AsyncQueue is shown to implement this module (ChannelSpec there).  The  *)
(* promise is the one of the header src/src/include/speckit/log/           *)
(* async_queue.h: bounded (line 5), entries popped from head to tail (lines *)
(* 23-30).                                                                 *)
(***************************************************************************)
EXTENDS Naturals, Sequences

CONSTANTS Entries,      \* the log entries callers may submit
          Bound         \* how many accepted entries may wait

VARIABLES accepted,     \* every entry accepted so far, in order
          delivered     \* every entry handed to the consumer so far, in order

channelVars == <<accepted, delivered>>

ChannelTypeOK == accepted \in Seq(Entries) /\ delivered \in Seq(Entries)

Init == accepted = <<>> /\ delivered = <<>>

Submit(e) ==
    /\ Len(accepted) - Len(delivered) < Bound
    /\ accepted' = Append(accepted, e)
    /\ UNCHANGED delivered

Deliver ==
    /\ Len(delivered) < Len(accepted)
    /\ delivered' = Append(delivered, accepted[Len(delivered) + 1])
    /\ UNCHANGED accepted

Next == Deliver \/ \E e \in Entries : Submit(e)

SafeSpec == Init /\ [][Next]_channelVars

Spec == SafeSpec /\ WF_channelVars(Deliver)
===============================================================================
