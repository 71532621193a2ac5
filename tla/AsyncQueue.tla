------------------------------ MODULE AsyncQueue ------------------------------
(***************************************************************************)
(* The bounded lock-free queue of src/src/src/async_queue.cpp: producers   *)
(* reserve a ticket by a compare-and-swap on tail_, write the cell of that *)
(* ticket and publish it through the cell's sequence number; popAll drains *)
(* the tickets between head_ and tail_.                                    *)
(*                                                                         *)
(* One action is one access to shared memory, so every interleaving of the *)
(* threads is explored (sequentially consistent memory).                   *)
(*   Spec      popAll is entered only when no other thread is inside it:   *)
(*             the single-consumer contract of async_queue.h:52,112.       *)
(*   FreeSpec  popAll is entered at any time, by any number of threads.    *)
(***************************************************************************)
EXTENDS Integers, Sequences, FiniteSets

CONSTANTS Producers,    \* threads that call tryPush
          Consumers,    \* threads that call popAll
          Capacity,     \* capacity_: the number of cells
          Word,         \* 2^w, w the width of size_t
          Entries,      \* the log entries, as opaque values
          NoEntry,      \* an empty std::optional
          MaxTickets    \* bound: no tryPush is called once tail_ reaches it

ASSUME CapacityAssumption == Capacity \in Nat \ {0}
ASSUME WordAssumption == Word \in Nat /\ Capacity < Word
ASSUME NoEntryAssumption == NoEntry \notin Entries

VARIABLES
  tail, head, size,     \* tail_, head_, size_
  seq, storage,         \* the two members of each Cell
  pPC, entry, localTail,            \* tryPush: where, argument, current_tail
  cPC, from, count, done, batch,    \* popAll: where, head, available, i, result
  accepted, delivered   \* history: entries by ticket, entries moved out

cells == <<seq, storage>>
producerVars == <<pPC, entry, localTail>>
consumerVars == <<cPC, from, count, done, batch>>
history == <<accepted, delivered>>
vars == <<tail, head, size, cells, producerVars, consumerVars, history>>

Cells == 0 .. (Capacity - 1)
Slot(ticket) == ticket % Capacity
Wrap(x) == x % Word     \* the value of a size_t expression

ProducerPC == {"idle", "loadTail", "loadHead", "reserve",
               "await", "emplace", "publish", "count"}
ConsumerPC == {"idle", "loadTail", "await", "take", "reset", "free",
               "advance", "count"}

Init ==
    /\ tail = 0 /\ head = 0 /\ size = 0
    /\ seq = [s \in Cells |-> s]
    /\ storage = [s \in Cells |-> NoEntry]
    /\ pPC = [p \in Producers |-> "idle"]
    /\ entry = [p \in Producers |-> NoEntry]
    /\ localTail = [p \in Producers |-> 0]
    /\ cPC = [c \in Consumers |-> "idle"]
    /\ from = [c \in Consumers |-> 0]
    /\ count = [c \in Consumers |-> 0]
    /\ done = [c \in Consumers |-> 0]
    /\ batch = [c \in Consumers |-> <<>>]
    /\ accepted = <<>> /\ delivered = <<>>

-------------------------------------------------------------------------------
(* tryPush(entry), in program order.                                       *)

PushGoto(p, here, there) ==
    /\ pPC[p] = here
    /\ pPC' = [pPC EXCEPT ![p] = there]

PushReturn(p, here) ==
    /\ PushGoto(p, here, "idle")
    /\ entry' = [entry EXCEPT ![p] = NoEntry]
    /\ localTail' = [localTail EXCEPT ![p] = 0]

PushBegin(p, e) ==
    /\ tail < MaxTickets
    /\ PushGoto(p, "idle", "loadTail")
    /\ entry' = [entry EXCEPT ![p] = e]
    /\ UNCHANGED <<tail, head, size, cells, localTail, consumerVars, history>>

PushLoadTail(p) ==
    /\ PushGoto(p, "loadTail", "loadHead")
    /\ localTail' = [localTail EXCEPT ![p] = tail]
    /\ UNCHANGED <<tail, head, size, cells, entry, consumerVars, history>>

\* Mutant: the comparison is off by one.
LooksFullOffByOne(p) == Wrap(localTail[p] - head) > Capacity

\* current_tail - current_head >= cap, computed in size_t.
LooksFull(p) == Wrap(localTail[p] - head) >= Capacity

PushFull(p) ==
    /\ LooksFull(p)
    /\ PushReturn(p, "loadHead")
    /\ UNCHANGED <<tail, head, size, cells, consumerVars, history>>

PushRoom(p) ==
    /\ ~LooksFull(p)
    /\ PushGoto(p, "loadHead", "reserve")
    /\ UNCHANGED <<tail, head, size, cells, entry, localTail, consumerVars, history>>

\* Mutant: tail_ is stored without comparing it first.
PushReserveBlindly(p) ==
    /\ PushGoto(p, "reserve", "await")
    /\ tail' = localTail[p] + 1
    /\ accepted' = Append(accepted, entry[p])
    /\ UNCHANGED <<head, size, cells, entry, localTail, consumerVars, delivered>>

PushReserve(p) ==
    /\ tail = localTail[p]
    /\ PushGoto(p, "reserve", "await")
    /\ tail' = tail + 1
    /\ accepted' = Append(accepted, entry[p])
    /\ UNCHANGED <<head, size, cells, entry, localTail, consumerVars, delivered>>

\* The compare-and-swap is the weak one: it may fail although tail_ matches.
PushRetry(p) ==
    /\ PushGoto(p, "reserve", "loadTail")
    /\ UNCHANGED <<tail, head, size, cells, entry, localTail, consumerVars, history>>

\* Mutant: waits for the number the cell has once it is published.
PushAwaitPublished(p) ==
    /\ seq[Slot(localTail[p])] = localTail[p] + 1
    /\ PushGoto(p, "await", "emplace")
    /\ UNCHANGED <<tail, head, size, cells, entry, localTail, consumerVars, history>>

PushAwait(p) ==
    /\ seq[Slot(localTail[p])] = localTail[p]
    /\ PushGoto(p, "await", "emplace")
    /\ UNCHANGED <<tail, head, size, cells, entry, localTail, consumerVars, history>>

PushEmplace(p) ==
    /\ PushGoto(p, "emplace", "publish")
    /\ storage' = [storage EXCEPT ![Slot(localTail[p])] = entry[p]]
    /\ UNCHANGED <<tail, head, size, seq, entry, localTail, consumerVars, history>>

PushPublish(p) ==
    /\ PushGoto(p, "publish", "count")
    /\ seq' = [seq EXCEPT ![Slot(localTail[p])] = localTail[p] + 1]
    /\ UNCHANGED <<tail, head, size, storage, entry, localTail, consumerVars, history>>

PushCount(p) ==
    /\ PushReturn(p, "count")
    /\ size' = Wrap(size + 1)
    /\ UNCHANGED <<tail, head, cells, consumerVars, history>>

\* The steps that stay inside tryPush; PushFull and PushCount return from it.
PushInside(p) ==
    \/ PushLoadTail(p) \/ PushRoom(p) \/ PushReserve(p) \/ PushRetry(p)
    \/ PushAwait(p) \/ PushEmplace(p) \/ PushPublish(p)

PushStep(p) == PushInside(p) \/ PushFull(p) \/ PushCount(p)

-------------------------------------------------------------------------------
(* popAll(), in program order.                                             *)

PopGoto(c, here, there) ==
    /\ cPC[c] = here
    /\ cPC' = [cPC EXCEPT ![c] = there]

PopReturn(c, here) ==
    /\ PopGoto(c, here, "idle")
    /\ from' = [from EXCEPT ![c] = 0]
    /\ count' = [count EXCEPT ![c] = 0]
    /\ done' = [done EXCEPT ![c] = 0]
    /\ batch' = [batch EXCEPT ![c] = <<>>]

Ticket(c) == from[c] + done[c]

PopLoadHead(c) ==
    /\ PopGoto(c, "idle", "loadTail")
    /\ from' = [from EXCEPT ![c] = head]
    /\ UNCHANGED <<tail, head, size, cells, producerVars, count, done, batch, history>>

PopEmpty(c) ==
    /\ tail <= from[c]
    /\ PopReturn(c, "loadTail")
    /\ UNCHANGED <<tail, head, size, cells, producerVars, history>>

PopLoadTail(c) ==
    /\ tail > from[c]
    /\ PopGoto(c, "loadTail", "await")
    /\ count' = [count EXCEPT ![c] = tail - from[c]]
    /\ UNCHANGED <<tail, head, size, cells, producerVars, from, done, batch, history>>

\* Mutant: does not wait for the producer to publish.
PopAwaitReserved(c) ==
    /\ seq[Slot(Ticket(c))] \in {Ticket(c), Ticket(c) + 1}
    /\ PopGoto(c, "await", "take")
    /\ UNCHANGED <<tail, head, size, cells, producerVars, from, count, done, batch, history>>

PopAwait(c) ==
    /\ seq[Slot(Ticket(c))] = Ticket(c) + 1
    /\ PopGoto(c, "await", "take")
    /\ UNCHANGED <<tail, head, size, cells, producerVars, from, count, done, batch, history>>

PopTake(c) ==
    LET taken == storage[Slot(Ticket(c))] IN
    /\ taken # NoEntry
    /\ PopGoto(c, "take", "reset")
    /\ batch' = [batch EXCEPT ![c] = Append(@, taken)]
    /\ delivered' = Append(delivered, taken)
    /\ UNCHANGED <<tail, head, size, cells, producerVars, from, count, done, accepted>>

\* Mutant: moves out of the optional although it is empty.
PopSkipUnchecked(c) ==
    /\ storage[Slot(Ticket(c))] = NoEntry
    /\ PopGoto(c, "take", "free")
    /\ batch' = [batch EXCEPT ![c] = Append(@, NoEntry)]
    /\ delivered' = Append(delivered, NoEntry)
    /\ UNCHANGED <<tail, head, size, cells, producerVars, from, count, done, accepted>>

PopSkip(c) ==
    /\ storage[Slot(Ticket(c))] = NoEntry
    /\ PopGoto(c, "take", "free")
    /\ UNCHANGED <<tail, head, size, cells, producerVars, from, count, done, batch, history>>

PopReset(c) ==
    /\ PopGoto(c, "reset", "free")
    /\ storage' = [storage EXCEPT ![Slot(Ticket(c))] = NoEntry]
    /\ UNCHANGED <<tail, head, size, seq, producerVars, from, count, done, batch, history>>

\* Mutant: frees the cell for a ticket that is never drawn again.
PopFreeWrongRound(c) ==
    /\ PopGoto(c, "free", IF done[c] + 1 < count[c] THEN "await" ELSE "advance")
    /\ seq' = [seq EXCEPT ![Slot(Ticket(c))] = Ticket(c) + 1]
    /\ done' = [done EXCEPT ![c] = @ + 1]
    /\ UNCHANGED <<tail, head, size, storage, producerVars, from, count, batch, history>>

PopFree(c) ==
    /\ PopGoto(c, "free", IF done[c] + 1 < count[c] THEN "await" ELSE "advance")
    /\ seq' = [seq EXCEPT ![Slot(Ticket(c))] = Ticket(c) + Capacity]
    /\ done' = [done EXCEPT ![c] = @ + 1]
    /\ UNCHANGED <<tail, head, size, storage, producerVars, from, count, batch, history>>

\* Mutant: adds to head_ instead of storing the end of the drained range.
PopAdvanceByAdding(c) ==
    /\ PopGoto(c, "advance", "count")
    /\ head' = head + count[c]
    /\ UNCHANGED <<tail, size, cells, producerVars, from, count, done, batch, history>>

\* Mutant: head_ stops one ticket short.
PopAdvanceShort(c) ==
    /\ PopGoto(c, "advance", "count")
    /\ head' = from[c] + count[c] - 1
    /\ UNCHANGED <<tail, size, cells, producerVars, from, count, done, batch, history>>

PopAdvance(c) ==
    /\ PopGoto(c, "advance", "count")
    /\ head' = from[c] + count[c]
    /\ UNCHANGED <<tail, size, cells, producerVars, from, count, done, batch, history>>

\* Mutant: one entry is subtracted, whatever the length of the batch.
PopCountOne(c) ==
    /\ PopReturn(c, "count")
    /\ size' = Wrap(size - 1)
    /\ UNCHANGED <<tail, head, cells, producerVars, history>>

PopCount(c) ==
    /\ PopReturn(c, "count")
    /\ size' = Wrap(size - count[c])
    /\ UNCHANGED <<tail, head, cells, producerVars, history>>

\* The steps that stay inside popAll; PopEmpty and PopCount return from it.
PopInside(c) ==
    \/ PopLoadTail(c) \/ PopAwait(c) \/ PopTake(c) \/ PopSkip(c)
    \/ PopReset(c) \/ PopFree(c) \/ PopAdvance(c)

PopStep(c) == PopInside(c) \/ PopEmpty(c) \/ PopCount(c)

-------------------------------------------------------------------------------
\* The contract of popAll: "Single-consumer: pop all available entries".
NoConsumerInside == \A c \in Consumers : cPC[c] = "idle"

PopBegin(c) == NoConsumerInside /\ PopLoadHead(c)

Pushing == \E p \in Producers : PushStep(p) \/ \E e \in Entries : PushBegin(p, e)

Next ==
    \/ Pushing
    \/ \E c \in Consumers : PopBegin(c) \/ PopStep(c)

FreeNext ==
    \/ Pushing
    \/ \E c \in Consumers : PopLoadHead(c) \/ PopStep(c)

Spec == Init /\ [][Next]_vars

FreeSpec == Init /\ [][FreeNext]_vars

(***************************************************************************)
(* Fairness: a thread inside tryPush or popAll keeps running, and the      *)
(* consumer comes back for more (the writer's loop).  A weak CAS may fail  *)
(* spuriously but not for ever, hence the strong fairness.  Nobody is      *)
(* obliged to call tryPush.                                                *)
(***************************************************************************)
Fairness ==
    /\ \A p \in Producers : WF_vars(PushStep(p)) /\ SF_vars(PushReserve(p))
    /\ \A c \in Consumers : WF_vars(PopStep(c))
    /\ WF_vars(\E c \in Consumers : PopBegin(c))

FairSpec == Spec /\ Fairness

\* size() and isEmpty(), as any thread would see them now.
ReportedSize == size
ReportedEmpty == size = 0

-------------------------------------------------------------------------------
(* Properties.                                                             *)

\* The types of the atomics, of the cells and of the locals of the two methods.
TypeOK ==
    /\ tail \in Nat /\ head \in Nat /\ size \in 0 .. (Word - 1)
    /\ seq \in [Cells -> Nat]
    /\ storage \in [Cells -> Entries \cup {NoEntry}]
    /\ pPC \in [Producers -> ProducerPC]
    /\ entry \in [Producers -> Entries \cup {NoEntry}]
    /\ localTail \in [Producers -> Nat]
    /\ cPC \in [Consumers -> ConsumerPC]
    /\ from \in [Consumers -> Nat]
    /\ count \in [Consumers -> Nat]
    /\ done \in [Consumers -> Nat]
    /\ batch \in [Consumers -> Seq(Entries)]
    /\ accepted \in Seq(Entries)
    /\ delivered \in Seq(Entries)

\* Entries leave the queue in the order in which their tickets were reserved,
\* none lost, none twice, whatever the order in which the producers publish
\* (tryPush and popAll together).
DeliveredInOrder ==
    /\ Len(delivered) <= Len(accepted)
    /\ \A k \in 1 .. Len(delivered) : delivered[k] = accepted[k]

\* A producer that reserved a ticket finds its cell free: the spin of
\* async_queue.cpp:50-53 never waits, so tryPush is not blocked by the consumer.
ReservedSlotIsFree ==
    \A p \in Producers :
        pPC[p] = "await" => seq[Slot(localTail[p])] = localTail[p]

ProducerTouches(p, s) == pPC[p] = "emplace" /\ Slot(localTail[p]) = s
ConsumerTouches(c, s) == cPC[c] \in {"take", "reset"} /\ Slot(Ticket(c)) = s

\* No two threads are ever about to access the same cell's storage: the sequence
\* numbers alone keep emplace, move and reset of one cell apart (no data race).
CellExclusive ==
    \A s \in Cells :
        /\ \A p, q \in Producers :
              ProducerTouches(p, s) /\ ProducerTouches(q, s) => p = q
        /\ \A c, d \in Consumers :
              ConsumerTouches(c, s) /\ ConsumerTouches(d, s) => c = d
        /\ \A p \in Producers, c \in Consumers :
              ~(ProducerTouches(p, s) /\ ConsumerTouches(c, s))

\* What size_ counts: the reserved tickets that are not consumed, less those
\* whose producer has yet to count itself, plus those whose consumer has yet to
\* subtract them.  In particular it is exact whenever no call is in progress.
SizeAccounts ==
    LET uncounted == {p \in Producers : pPC[p] \in {"await", "emplace", "publish", "count"}}
        leaving == {c \in Consumers : cPC[c] = "count"}
        unsubtracted == IF leaving = {} THEN 0 ELSE count[CHOOSE c \in leaving : TRUE]
    IN size = Wrap(tail - head - Cardinality(uncounted) + unsubtracted)

(***************************************************************************)
(* The inductive invariant behind the four properties above.               *)
(*                                                                         *)
(* Cursor is the first ticket whose cell popAll has not freed; it runs     *)
(* ahead of head_ while popAll is in its loop.  The cells always stand for *)
(* the Capacity tickets from Cursor on: a ticket that is published has     *)
(* seq = ticket + 1 and its entry in storage, any other has seq = ticket.  *)
(***************************************************************************)
Taken == \E c \in Consumers : cPC[c] \in {"reset", "free"}
Cursor == IF Taken THEN Len(delivered) - 1 ELSE Len(delivered)

Unpublished == {"await", "emplace", "publish"}

Published(t) ==
    t < tail /\ \A p \in Producers : ~(pPC[p] \in Unpublished /\ localTail[p] = t)

CountersInv ==
    /\ head <= Cursor /\ Cursor <= tail /\ tail <= head + Capacity
    /\ Len(accepted) = tail

OneConsumerInv ==
    \A c, d \in Consumers : cPC[c] # "idle" /\ cPC[d] # "idle" => c = d

ConsumerInv ==
    /\ (\A c \in Consumers : cPC[c] \in {"idle", "loadTail", "count"}) => Cursor = head
    /\ \A c \in Consumers :
          /\ cPC[c] \in {"idle", "loadTail"} => done[c] = 0
          /\ cPC[c] \in ConsumerPC \ {"idle", "count"} => from[c] = head
          /\ cPC[c] \in {"await", "take", "reset", "free"} =>
                /\ done[c] < count[c] /\ head + count[c] <= tail
                /\ Cursor = Ticket(c)
          /\ cPC[c] \in {"take", "reset", "free"} => Published(Ticket(c))
          /\ cPC[c] = "advance" => head + count[c] <= tail /\ Cursor = head + count[c]

ProducerInv ==
    \A p \in Producers :
        /\ pPC[p] # "idle" => entry[p] \in Entries
        /\ pPC[p] \in {"loadHead", "reserve"} => localTail[p] <= tail
        /\ pPC[p] = "reserve" /\ localTail[p] = tail => tail - head < Capacity
        /\ pPC[p] \in Unpublished =>
              /\ Cursor <= localTail[p] /\ localTail[p] < tail
              /\ entry[p] = accepted[localTail[p] + 1]
        /\ pPC[p] = "publish" => storage[Slot(localTail[p])] = entry[p]

TicketInv ==
    \A p, q \in Producers :
        /\ pPC[p] \in Unpublished /\ pPC[q] \in Unpublished
        /\ localTail[p] = localTail[q]
        => p = q

CellInv ==
    \A t \in Cursor .. (Cursor + Capacity - 1) :
        /\ Published(t) => seq[Slot(t)] = t + 1
        /\ ~Published(t) => seq[Slot(t)] = t
        /\ Published(t) /\ (t = Cursor => ~Taken) => storage[Slot(t)] = accepted[t + 1]

\* Every part together: what each step of tryPush and popAll relies on and keeps.
QueueInv ==
    /\ TypeOK /\ CountersInv /\ OneConsumerInv /\ ConsumerInv
    /\ ProducerInv /\ TicketInv /\ CellInv /\ DeliveredInOrder

\* The bounded channel is implemented: see LogChannel.
Channel == INSTANCE LogChannel WITH Bound <- Capacity
ChannelSpec == Channel!Spec

\* A call of tryPush returns, and so does a call of popAll: neither spin loop
\* and no retry of the compare-and-swap goes on for ever.
PushReturns == \A p \in Producers : (pPC[p] # "idle") ~> (pPC[p] = "idle")
PopReturns == \A c \in Consumers : (cPC[c] # "idle") ~> (cPC[c] = "idle")

\* Even without the single-consumer contract, when popAll of one thread overwrites
\* the head_ of another, head_ never passes tail_ and the range a popAll drains ends
\* at or before it: no ticket is taken that no producer reserved.
HeadBehindTail ==
    /\ head <= tail
    /\ \A c \in Consumers :
          cPC[c] \in {"await", "take", "reset", "free", "advance"} =>
              from[c] + count[c] <= tail

\* async_queue.cpp:37 says of the refusal "Detect full: reserved but not yet
\* consumed count >= cap": a push is refused only when the queue is full.
RefusedOnlyWhenFull ==
    [][\A p \in Producers : PushFull(p) => tail - head >= Capacity]_vars

\* async_queue.h:43 says size_ is updated "to make size() queries consistent":
\* size() never reports more entries than the queue can hold.
SizeWithinCapacity == ReportedSize <= Capacity
===============================================================================
