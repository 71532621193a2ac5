------------------------------ MODULE RingBuffer ------------------------------
(***************************************************************************)
(* The fallback ring buffer of src/src/src/log_buffer.cpp, used when the   *)
(* queue refuses an entry.  One action is one access to shared memory.     *)
(*   Spec      popAll overlaps no other call.                              *)
(*   FreeSpec  any calls overlap, as the header's "Thread-safe" allows and *)
(*             as AsyncLogger::flush makes happen.                         *)
(***************************************************************************)
EXTENDS Integers, Sequences, FiniteSets

CONSTANTS Producers,    \* threads that call tryPush
          Consumers,    \* threads that call popAll
          Capacity,     \* capacity_
          Word,         \* 2^w, w the width of size_t
          MaxReserve,   \* the longest vector reserve() accepts
          Entries,      \* the log entries, as opaque values
          Unwritten,    \* a default-constructed LogEntry
          MaxPushes     \* bound: no tryPush is called once head_ reaches it

ASSUME RingCapacityAssumption == Capacity \in Nat \ {0}
ASSUME RingWordAssumption ==
    Word \in Nat /\ MaxReserve \in Nat /\ Capacity <= MaxReserve /\ MaxReserve < Word
\* There are fewer threads than size_t can count on top of the entries.
ASSUME RingProducersAssumption ==
    IsFiniteSet(Producers) /\ Capacity + Cardinality(Producers) < Word
ASSUME UnwrittenAssumption == Unwritten \notin Entries

VARIABLES
  head, tail, size,     \* head_, tail_, size_
  buffer,               \* buffer_
  pPC, entry, localHead,              \* tryPush: where, argument, current_head
  cPC, from, count, done, batch,      \* popAll: where, current_tail, old_size, i, entries
  accepted, delivered   \* history: entries by claimed index, entries moved out

producerVars == <<pPC, entry, localHead>>
consumerVars == <<cPC, from, count, done, batch>>
history == <<accepted, delivered>>
vars == <<head, tail, size, buffer, producerVars, consumerVars, history>>

Slots == 0 .. (Capacity - 1)
Index(i) == i % Capacity
Wrap(x) == x % Word

Init ==
    /\ head = 0 /\ tail = 0 /\ size = 0
    /\ buffer = [s \in Slots |-> Unwritten]
    /\ pPC = [p \in Producers |-> "idle"]
    /\ entry = [p \in Producers |-> Unwritten]
    /\ localHead = [p \in Producers |-> 0]
    /\ cPC = [c \in Consumers |-> "idle"]
    /\ from = [c \in Consumers |-> 0]
    /\ count = [c \in Consumers |-> 0]
    /\ done = [c \in Consumers |-> 0]
    /\ batch = [c \in Consumers |-> <<>>]
    /\ accepted = <<>> /\ delivered = <<>>

-------------------------------------------------------------------------------
(* tryPush(entry), in program order.                                       *)

PushGoto(p, here, there) ==
    /\ pPC[p] = here
    /\ pPC' = [pPC EXCEPT ![p] = there]

PushReturn(p, here) ==
    /\ PushGoto(p, here, "idle")
    /\ entry' = [entry EXCEPT ![p] = Unwritten]
    /\ localHead' = [localHead EXCEPT ![p] = 0]

PushBegin(p, e) ==
    /\ head < MaxPushes
    /\ PushGoto(p, "idle", "loadSize")
    /\ entry' = [entry EXCEPT ![p] = e]
    /\ UNCHANGED <<head, tail, size, buffer, localHead, consumerVars, history>>

PushFull(p) ==
    /\ size >= Capacity
    /\ PushReturn(p, "loadSize")
    /\ UNCHANGED <<head, tail, size, buffer, consumerVars, history>>

PushRoom(p) ==
    /\ size < Capacity
    /\ PushGoto(p, "loadSize", "reserve")
    /\ UNCHANGED <<head, tail, size, buffer, entry, localHead, consumerVars, history>>

\* Mutant: the size is not checked a second time.
PushReserveUnchecked(p) ==
    /\ PushGoto(p, "reserve", "claim")
    /\ size' = Wrap(size + 1)
    /\ UNCHANGED <<head, tail, buffer, entry, localHead, consumerVars, history>>

PushReserve(p) ==
    /\ size < Capacity
    /\ PushGoto(p, "reserve", "claim")
    /\ size' = Wrap(size + 1)
    /\ UNCHANGED <<head, tail, buffer, entry, localHead, consumerVars, history>>

PushOvershoot(p) ==
    /\ size >= Capacity
    /\ PushGoto(p, "reserve", "undo")
    /\ size' = Wrap(size + 1)
    /\ UNCHANGED <<head, tail, buffer, entry, localHead, consumerVars, history>>

\* Mutant: a refused push leaves its increment behind.
PushUndoForgotten(p) ==
    /\ PushReturn(p, "undo")
    /\ UNCHANGED <<head, tail, size, buffer, consumerVars, history>>

PushUndo(p) ==
    /\ PushReturn(p, "undo")
    /\ size' = Wrap(size - 1)
    /\ UNCHANGED <<head, tail, buffer, consumerVars, history>>

PushClaim(p) ==
    /\ PushGoto(p, "claim", "write")
    /\ localHead' = [localHead EXCEPT ![p] = head]
    /\ head' = head + 1
    /\ accepted' = Append(accepted, entry[p])
    /\ UNCHANGED <<tail, size, buffer, entry, consumerVars, delivered>>

PushWrite(p) ==
    /\ PushReturn(p, "write")
    /\ buffer' = [buffer EXCEPT ![Index(localHead[p])] = entry[p]]
    /\ UNCHANGED <<head, tail, size, consumerVars, history>>

\* The steps that stay inside tryPush; PushFull and PushUndo return false from
\* it, PushWrite true.
PushInside(p) ==
    PushRoom(p) \/ PushReserve(p) \/ PushOvershoot(p) \/ PushClaim(p)

PushStep(p) == PushInside(p) \/ PushFull(p) \/ PushUndo(p) \/ PushWrite(p)

-------------------------------------------------------------------------------
(* popAll(), in program order.  Moving an entry out copies two views: the   *)
(* slot keeps its old value.                                               *)

PopGoto(c, here, there) ==
    /\ cPC[c] = here
    /\ cPC' = [cPC EXCEPT ![c] = there]

PopReturn(c, here) ==
    /\ PopGoto(c, here, "idle")
    /\ from' = [from EXCEPT ![c] = 0]
    /\ count' = [count EXCEPT ![c] = 0]
    /\ done' = [done EXCEPT ![c] = 0]
    /\ batch' = [batch EXCEPT ![c] = <<>>]

PopCall(c) ==
    /\ PopGoto(c, "idle", "exchange")
    /\ UNCHANGED <<head, tail, size, buffer, producerVars, from, count, done, batch, history>>

PopEmpty(c) ==
    /\ size = 0
    /\ PopReturn(c, "exchange")
    /\ UNCHANGED <<head, tail, size, buffer, producerVars, history>>

PopExchange(c) ==
    /\ size # 0
    /\ PopGoto(c, "exchange", "loadTail")
    /\ count' = [count EXCEPT ![c] = size]
    /\ size' = 0
    /\ UNCHANGED <<head, tail, buffer, producerVars, from, done, batch, history>>

PopLoadTail(c) ==
    /\ count[c] <= MaxReserve
    /\ PopGoto(c, "loadTail", "move")
    /\ from' = [from EXCEPT ![c] = tail]
    /\ UNCHANGED <<head, tail, size, buffer, producerVars, count, done, batch, history>>

\* reserve() of a wrapped-around count throws std::length_error out of popAll.
PopThrow(c) ==
    /\ count[c] > MaxReserve
    /\ PopGoto(c, "loadTail", "idle")
    /\ UNCHANGED <<head, tail, size, buffer, producerVars, from, count, done, batch, history>>

\* Mutant: the last entry is left behind.
PopMoveShort(c) ==
    LET moved == buffer[Index(from[c] + done[c])] IN
    /\ PopGoto(c, "move", IF done[c] + 2 < count[c] THEN "move" ELSE "storeTail")
    /\ batch' = [batch EXCEPT ![c] = Append(@, moved)]
    /\ delivered' = Append(delivered, moved)
    /\ done' = [done EXCEPT ![c] = @ + 1]
    /\ UNCHANGED <<head, tail, size, buffer, producerVars, from, count, accepted>>

PopMove(c) ==
    LET moved == buffer[Index(from[c] + done[c])] IN
    /\ PopGoto(c, "move", IF done[c] + 1 < count[c] THEN "move" ELSE "storeTail")
    /\ batch' = [batch EXCEPT ![c] = Append(@, moved)]
    /\ delivered' = Append(delivered, moved)
    /\ done' = [done EXCEPT ![c] = @ + 1]
    /\ UNCHANGED <<head, tail, size, buffer, producerVars, from, count, accepted>>

\* Mutant: tail_ counts on instead of wrapping around.
PopStoreTailUnwrapped(c) ==
    /\ PopReturn(c, "storeTail")
    /\ tail' = from[c] + count[c]
    /\ UNCHANGED <<head, size, buffer, producerVars, history>>

\* Mutant: tail_ advances by one entry, whatever the number popped.
PopStoreTailByOne(c) ==
    /\ PopReturn(c, "storeTail")
    /\ tail' = Index(from[c] + 1)
    /\ UNCHANGED <<head, size, buffer, producerVars, history>>

PopStoreTail(c) ==
    /\ PopReturn(c, "storeTail")
    /\ tail' = Index(from[c] + count[c])
    /\ UNCHANGED <<head, size, buffer, producerVars, history>>

\* The steps that stay inside popAll; PopEmpty and PopStoreTail return from it,
\* PopThrow leaves it by the exception.
PopInside(c) == PopExchange(c) \/ PopLoadTail(c) \/ PopMove(c)

PopStep(c) == PopInside(c) \/ PopEmpty(c) \/ PopStoreTail(c)

-------------------------------------------------------------------------------
NoPushInside == \A p \in Producers : pPC[p] = "idle"
NoPopInside == \A c \in Consumers : cPC[c] = "idle"

\* PopThrow is not here: were size_ ever too large, Spec would deadlock.
Next ==
    \/ \E p \in Producers :
          PushStep(p) \/ \E e \in Entries : NoPopInside /\ PushBegin(p, e)
    \/ \E c \in Consumers :
          PopStep(c) \/ (NoPushInside /\ NoPopInside /\ PopCall(c))

FreeNext ==
    \/ \E p \in Producers : PushStep(p) \/ \E e \in Entries : PushBegin(p, e)
    \/ \E c \in Consumers : PopStep(c) \/ PopThrow(c) \/ PopCall(c)

Spec == Init /\ [][Next]_vars

FreeSpec == Init /\ [][FreeNext]_vars

-------------------------------------------------------------------------------
(* Properties.                                                             *)

\* The types of the atomics, of the slots and of the locals of the two methods.
TypeOK ==
    /\ head \in Nat /\ tail \in Slots /\ size \in 0 .. (Word - 1)
    /\ buffer \in [Slots -> Entries \cup {Unwritten}]
    /\ pPC \in [Producers -> {"idle", "loadSize", "reserve", "undo", "claim", "write"}]
    /\ entry \in [Producers -> Entries \cup {Unwritten}]
    /\ localHead \in [Producers -> Nat]
    /\ cPC \in [Consumers -> {"idle", "exchange", "loadTail", "move", "storeTail"}]
    /\ from \in [Consumers -> Slots]
    /\ count \in [Consumers -> 0 .. (Word - 1)]
    /\ done \in [Consumers -> Nat]
    /\ batch \in [Consumers -> Seq(Entries \cup {Unwritten})]
    /\ accepted \in Seq(Entries)
    /\ delivered \in Seq(Entries \cup {Unwritten})

\* popAll hands out the pushed entries in the order of their indices, none lost,
\* none twice, no slot before it was written (tryPush and popAll together).
DeliveredInOrder ==
    /\ Len(delivered) <= Len(accepted)
    /\ \A k \in 1 .. Len(delivered) : delivered[k] = accepted[k]

\* Two pushes never write the same slot before a popAll emptied it: the
\* increment, the second check and the decrement of tryPush keep the number of
\* claimed indices within the capacity.
SlotWrittenOnce ==
    \A p, q \in Producers :
        pPC[p] = "write" /\ pPC[q] = "write" /\ p # q =>
            Index(localHead[p]) # Index(localHead[q])

\* size_ is exact when no call is in progress: the overshoot of a refused push
\* is always undone.
QuietSizeIsExact ==
    NoPushInside /\ NoPopInside => size = Len(accepted) - Len(delivered)

\* The bounded channel is implemented: see LogChannel.
Channel == INSTANCE LogChannel WITH Bound <- Capacity
ChannelSpec == Channel!SafeSpec

\* What remains true when popAll overlaps pushes: size_ may run above the capacity
\* or below zero (that is, wrap around), but by no more than the refused pushes
\* that have yet to undo their increment, or that undid it after a popAll had
\* already swapped it out.
SizeDriftBounded ==
    LET signed == IF size > Word \div 2 THEN size - Word ELSE size
        refused == {p \in Producers : pPC[p] = "undo"}
    IN /\ signed <= Capacity + Cardinality(refused)
       /\ signed >= -Cardinality(Producers)

\* log_buffer.h:13 promises a "Thread-safe ring buffer": a popAll that overlaps
\* a push hands out no slot that the push has not written yet.
PopsOnlyWritten == \A k \in 1 .. Len(delivered) : delivered[k] # Unwritten

\* log_buffer.h:37 promises the "current number of entries": once every call has
\* returned, size() is not above what the buffer can hold.
QuietSizeWithinCapacity == NoPushInside /\ NoPopInside => size <= Capacity
===============================================================================
