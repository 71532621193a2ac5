--------------------------- MODULE AsyncQueueProofs ---------------------------
(***************************************************************************)
(* Proofs about AsyncQueue, for every set of threads, every capacity and   *)
(* every interleaving.  QueueInv (stated in AsyncQueue) is shown to hold   *)
(* initially and to be kept by every step, one lemma per step; the         *)
(* properties and the implementation of LogChannel follow from it.         *)
(* Assumed: CapacityAssumption, WordAssumption, NoEntryAssumption.         *)
(***************************************************************************)
EXTENDS AsyncQueue, FiniteSetTheorems, TLAPS

-------------------------------------------------------------------------------
(* Tickets, cells and the arithmetic of size_t.                            *)

\* A ticket has a cell (async_queue.cpp:46,90).
LEMMA SlotInCells ==
    ASSUME NEW t \in Nat
    PROVE  Slot(t) \in Cells
BY CapacityAssumption, SMT DEF Slot, Cells

\* A multiple of C that lies strictly between -C and C is zero.
LEMMA SmallMultiple ==
    ASSUME NEW C \in Nat \ {0}, NEW k \in Int, -C < C * k, C * k < C
    PROVE  k = 0
<1>1. k < 1 /\ k > -1
  BY SMT
<1> QED
  BY <1>1, SMT

\* Multiplication distributes over subtraction.
LEMMA Distribute ==
    ASSUME NEW C \in Int, NEW x \in Int, NEW y \in Int
    PROVE  C * (x - y) = C * x - C * y
BY SMT

\* Division with remainder by the capacity.
LEMMA Quotient ==
    ASSUME NEW t \in Nat
    PROVE  \E q \in Nat : t = Capacity * q + Slot(t)
<1>1. t \div Capacity \in Nat /\ t = Capacity * (t \div Capacity) + Slot(t)
  BY CapacityAssumption, SMT DEF Slot
<1> QED
  BY <1>1

\* Fewer than Capacity tickets apart, two tickets have the same cell only when they
\* are the same: what lets one window of tickets own the ring.
LEMMA SlotInjective ==
    ASSUME NEW a \in Nat, NEW b \in Nat, a <= b, b < a + Capacity, Slot(a) = Slot(b)
    PROVE  a = b
<1>1. PICK q \in Nat : a = Capacity * q + Slot(a)
  BY Quotient
<1>2. PICK r \in Nat : b = Capacity * r + Slot(b)
  BY Quotient
<1>3. Capacity * (r - q) = b - a
  BY <1>1, <1>2, SlotInCells, Distribute, CapacityAssumption, SMT DEF Cells
<1>4. r - q = 0
  BY <1>3, SmallMultiple, CapacityAssumption, SMT
<1> QED
  BY <1>3, <1>4, CapacityAssumption, SMT

\* The cell of a ticket is the cell of the ticket one round later (async_queue.cpp:106
\* frees it for that one).
LEMMA SlotOfNextRound ==
    ASSUME NEW t \in Nat
    PROVE  Slot(t + Capacity) = Slot(t)
<1>1. PICK q \in Nat : t = Capacity * q + Slot(t)
  BY Quotient
<1>2. PICK r \in Nat : t + Capacity = Capacity * r + Slot(t + Capacity)
  <2>1. t + Capacity \in Nat
    BY CapacityAssumption
  <2> QED
    BY <2>1, Quotient
<1>3. Slot(t) \in 0 .. (Capacity - 1) /\ Slot(t + Capacity) \in 0 .. (Capacity - 1)
  BY SlotInCells, CapacityAssumption DEF Cells
<1>4. Capacity * (r - q) = Capacity + Slot(t) - Slot(t + Capacity)
  <2>1. Capacity * (r - q) = Capacity * r - Capacity * q
    BY Distribute, CapacityAssumption
  <2> QED
    BY <1>1, <1>2, <1>3, <2>1, CapacityAssumption, SMT
<1>5. r - q - 1 = 0
  <2>1. Capacity * (r - q - 1) = Capacity * (r - q) - Capacity * 1
    BY Distribute, CapacityAssumption
  <2>2. Capacity * (r - q - 1) = Slot(t) - Slot(t + Capacity)
    BY <1>3, <1>4, <2>1, CapacityAssumption, SMT
  <2> QED
    BY <1>3, <2>2, SmallMultiple, CapacityAssumption, SMT
<1> QED
  BY <1>3, <1>4, <1>5, CapacityAssumption, SMT

\* A size_t expression has a value of size_t.
LEMMA WrapInWord ==
    ASSUME NEW x \in Int
    PROVE  Wrap(x) \in 0 .. (Word - 1)
BY WordAssumption, CapacityAssumption, SMT DEF Wrap

\* A difference that fits a size_t is not changed by the arithmetic.
LEMMA WrapSmall ==
    ASSUME NEW x \in Nat, x < Word
    PROVE  Wrap(x) = x
BY WordAssumption, CapacityAssumption, SMT DEF Wrap

\* What appending one element to a sequence gives.
LEMMA AppendFacts ==
    ASSUME NEW S, NEW s \in Seq(S), NEW e \in S
    PROVE  /\ Append(s, e) \in Seq(S)
           /\ Len(Append(s, e)) = Len(s) + 1
           /\ \A k \in 1 .. Len(s) : Append(s, e)[k] = s[k]
           /\ Append(s, e)[Len(s) + 1] = e
BY SMT

-------------------------------------------------------------------------------
(* The invariant.                                                          *)

\* The constructor establishes the invariant.
THEOREM QueueInvInit == Init => QueueInv
<1> SUFFICES ASSUME Init PROVE QueueInv
  OBVIOUS
<1> USE DEF Init
<1>1. TypeOK
  <2>1. 0 \in 0 .. (Word - 1) /\ Cells \subseteq Nat
    BY WordAssumption, CapacityAssumption, SMT DEF Cells
  <2>2. <<>> \in Seq(Entries)
    BY SMT
  <2>3. seq \in [Cells -> Nat] /\ storage \in [Cells -> Entries \cup {NoEntry}]
    BY <2>1
  <2>4. /\ pPC \in [Producers -> ProducerPC]
        /\ cPC \in [Consumers -> ConsumerPC]
    BY DEF ProducerPC, ConsumerPC
  <2>5. batch \in [Consumers -> Seq(Entries)]
    BY <2>2
  <2> QED
    BY <2>1, <2>2, <2>3, <2>4, <2>5 DEF TypeOK
<1>2. ~Taken /\ Cursor = 0
  <2>1. ~Taken
    BY DEF Taken
  <2> QED
    BY <2>1, SMT DEF Cursor
<1>3. CellInv
  <2> SUFFICES ASSUME NEW t \in Cursor .. (Cursor + Capacity - 1)
               PROVE  ~Published(t) /\ seq[Slot(t)] = t
    BY DEF CellInv
  <2>1. t \in 0 .. (Capacity - 1)
    BY <1>2, CapacityAssumption
  <2>2. Slot(t) = t
    BY <2>1, CapacityAssumption, SMT DEF Slot
  <2>3. ~Published(t)
    BY <2>1, CapacityAssumption, SMT DEF Published
  <2> QED
    BY <2>1, <2>2, <2>3 DEF Cells
<1> QED
  BY <1>1, <1>2, <1>3, CapacityAssumption
  DEF QueueInv, CountersInv, OneConsumerInv, ConsumerInv, ProducerInv, TicketInv,
      DeliveredInOrder, Unpublished, ConsumerPC

\* A step of tryPush that leaves tail_, the cells and the set of unpublished tickets
\* alone keeps the invariant if it keeps the types and the facts about producers.
LEMMA LocalPushInv ==
    ASSUME QueueInv,
           UNCHANGED <<tail, head, cells, consumerVars, history>>,
           \A q \in Producers :
              /\ pPC'[q] \in Unpublished <=> pPC[q] \in Unpublished
              /\ pPC[q] \in Unpublished => localTail'[q] = localTail[q],
           TypeOK', ProducerInv'
    PROVE  QueueInv'
<1> USE DEF QueueInv, cells, consumerVars, history
<1>1. (Taken' <=> Taken) /\ Cursor' = Cursor
  BY DEF Taken, Cursor
<1>2. \A t : Published(t)' <=> Published(t)
  BY DEF Published
<1>3. TicketInv'
  BY DEF TicketInv
<1>4. CellInv'
  BY <1>1, <1>2 DEF CellInv
<1>5. ConsumerInv'
  BY <1>1, <1>2 DEF ConsumerInv, Ticket
<1> QED
  BY <1>1, <1>3, <1>4, <1>5 DEF CountersInv, OneConsumerInv, DeliveredInOrder

\* Entering tryPush keeps the invariant.
LEMMA PushBeginInv ==
    ASSUME QueueInv, NEW p \in Producers, NEW e \in Entries, PushBegin(p, e)
    PROVE  QueueInv'
<1> USE DEF QueueInv, PushBegin, PushGoto, cells, consumerVars, history
<1>1. TypeOK'
  BY DEF TypeOK, ProducerPC
<1>2. ProducerInv'
  BY DEF ProducerInv, Unpublished, TypeOK, Taken, Cursor
<1> QED
  BY <1>1, <1>2, LocalPushInv DEF Unpublished, TypeOK

\* The load of tail_ keeps the invariant.
LEMMA PushLoadTailInv ==
    ASSUME QueueInv, NEW p \in Producers, PushLoadTail(p)
    PROVE  QueueInv'
<1> USE DEF QueueInv, PushLoadTail, PushGoto, cells, consumerVars, history
<1>1. TypeOK'
  BY DEF TypeOK, ProducerPC
<1>2. ProducerInv'
  BY DEF ProducerInv, Unpublished, TypeOK, Taken, Cursor
<1> QED
  BY <1>1, <1>2, LocalPushInv DEF Unpublished, TypeOK

\* A refusal keeps the invariant.
LEMMA PushFullInv ==
    ASSUME QueueInv, NEW p \in Producers, PushFull(p)
    PROVE  QueueInv'
<1> USE DEF QueueInv, PushFull, PushReturn, PushGoto, cells, consumerVars, history
<1>1. TypeOK'
  BY DEF TypeOK, ProducerPC
<1>2. ProducerInv'
  BY DEF ProducerInv, Unpublished, TypeOK, Taken, Cursor
<1> QED
  BY <1>1, <1>2, LocalPushInv DEF Unpublished, TypeOK

\* The load of head_ keeps the invariant.  The size_t difference may have wrapped
\* around, but then tail_ has moved on and the compare-and-swap will fail: if it is
\* going to succeed, the difference is exact and there is room.
LEMMA PushRoomInv ==
    ASSUME QueueInv, NEW p \in Producers, PushRoom(p)
    PROVE  QueueInv'
<1> USE DEF QueueInv, PushRoom, PushGoto, cells, consumerVars, history
<1>1. TypeOK'
  BY DEF TypeOK, ProducerPC
<1>2. ASSUME localTail[p] = tail PROVE tail - head < Capacity
  <2>1. /\ tail \in Nat /\ head \in Nat /\ Capacity \in Nat /\ Word \in Nat
        /\ head <= tail /\ tail <= head + Capacity /\ Capacity < Word
    <3>1. Cursor \in Int
      BY DEF Cursor, TypeOK
    <3> QED
      BY <3>1, CapacityAssumption, WordAssumption DEF TypeOK, CountersInv
  <2>2. Wrap(tail - head) = tail - head
    BY <2>1, WrapSmall
  <2> QED
    BY <1>2, <2>1, <2>2 DEF LooksFull
<1>3. ProducerInv'
  BY <1>2 DEF ProducerInv, Unpublished, TypeOK, Taken, Cursor
<1> QED
  BY <1>1, <1>3, LocalPushInv DEF Unpublished, TypeOK

\* A failed compare-and-swap keeps the invariant.
LEMMA PushRetryInv ==
    ASSUME QueueInv, NEW p \in Producers, PushRetry(p)
    PROVE  QueueInv'
<1> USE DEF QueueInv, PushRetry, PushGoto, cells, consumerVars, history
<1>1. TypeOK'
  BY DEF TypeOK, ProducerPC
<1>2. ProducerInv'
  BY DEF ProducerInv, Unpublished, TypeOK, Taken, Cursor
<1> QED
  BY <1>1, <1>2, LocalPushInv DEF Unpublished, TypeOK

\* Finding the cell free keeps the invariant.
LEMMA PushAwaitInv ==
    ASSUME QueueInv, NEW p \in Producers, PushAwait(p)
    PROVE  QueueInv'
<1> USE DEF QueueInv, PushAwait, PushGoto, cells, consumerVars, history
<1>1. TypeOK'
  BY DEF TypeOK, ProducerPC
<1>2. ProducerInv'
  BY DEF ProducerInv, Unpublished, TypeOK, Taken, Cursor
<1> QED
  BY <1>1, <1>2, LocalPushInv DEF Unpublished, TypeOK

\* The increment of size_ keeps the invariant.
LEMMA PushCountInv ==
    ASSUME QueueInv, NEW p \in Producers, PushCount(p)
    PROVE  QueueInv'
<1> USE DEF QueueInv, PushCount, PushReturn, PushGoto, cells, consumerVars, history
<1>1. TypeOK'
  <2>1. size' \in 0 .. (Word - 1)
    BY WrapInWord DEF TypeOK
  <2> QED
    BY <2>1 DEF TypeOK, ProducerPC
<1>2. ProducerInv'
  BY DEF ProducerInv, Unpublished, TypeOK, Taken, Cursor
<1> QED
  BY <1>1, <1>2, LocalPushInv DEF Unpublished, TypeOK

\* The counters of the queue in order: head_, the cursor, tail_.
LEMMA CursorFacts ==
    ASSUME QueueInv
    PROVE  /\ tail \in Nat /\ head \in Nat /\ Cursor \in Nat
           /\ Capacity \in Nat /\ Capacity > 0
           /\ head <= Cursor /\ Cursor <= tail /\ tail <= head + Capacity
           /\ Len(accepted) = tail
<1>1. Len(delivered) \in Nat
  BY DEF QueueInv, TypeOK
<1>2. Cursor \in Int
  BY <1>1 DEF Cursor
<1> QED
  BY <1>2, CapacityAssumption DEF QueueInv, TypeOK, CountersInv

\* Reserving a ticket keeps the invariant: the new ticket is in the window.
LEMMA PushReserveInv ==
    ASSUME QueueInv, NEW p \in Producers, PushReserve(p)
    PROVE  QueueInv'
<1> USE DEF QueueInv, PushReserve, PushGoto, cells, consumerVars
<1>1. /\ entry[p] \in Entries
      /\ localTail[p] = tail /\ tail - head < Capacity
  BY DEF ProducerInv
<1>2. /\ accepted' \in Seq(Entries) /\ Len(accepted') = tail + 1
      /\ \A k \in 1 .. tail : accepted'[k] = accepted[k]
      /\ accepted'[tail + 1] = entry[p]
  BY SMTT(30), <1>1, CursorFacts, AppendFacts DEF TypeOK
<1>3. TypeOK'
  BY <1>2 DEF TypeOK, ProducerPC
<1>4. (Taken' <=> Taken) /\ Cursor' = Cursor
  BY DEF Taken, Cursor
<1>5. \A t \in Nat : Published(t)' <=> Published(t)
  BY CursorFacts DEF Published, Unpublished, TypeOK, ProducerInv
<1>6. CountersInv'
  BY <1>1, <1>2, <1>4, CursorFacts DEF CountersInv
<1>7. ConsumerInv'
  <2>1. \A c \in Consumers : Ticket(c) \in Nat /\ Ticket(c)' = Ticket(c)
    BY DEF Ticket, TypeOK
  <2>2. \A c \in Consumers : head + count[c] \in Nat
    BY SMTT(30), CursorFacts DEF TypeOK
  <2> QED
    BY <1>4, <1>5, <2>1, <2>2, CursorFacts DEF ConsumerInv
<1>8. ProducerInv'
  BY SMTT(30), <1>1, <1>2, <1>4, CursorFacts DEF ProducerInv, Unpublished, TypeOK
<1>9. TicketInv'
  BY <1>1, CursorFacts DEF TicketInv, ProducerInv, Unpublished, TypeOK
<1>10. CellInv'
  <2> SUFFICES ASSUME NEW t \in Cursor .. (Cursor + Capacity - 1)
               PROVE  /\ Published(t) => seq[Slot(t)] = t + 1
                      /\ ~Published(t) => seq[Slot(t)] = t
                      /\ Published(t) /\ (t = Cursor => ~Taken)
                           => storage[Slot(t)] = accepted'[t + 1]
    <3>1. \A t \in Cursor .. (Cursor + Capacity - 1) : t \in Nat
      BY CursorFacts
    <3> QED
      BY <1>4, <1>5, <3>1 DEF CellInv
  <2>1. /\ Published(t) => seq[Slot(t)] = t + 1
        /\ ~Published(t) => seq[Slot(t)] = t
        /\ Published(t) /\ (t = Cursor => ~Taken) => storage[Slot(t)] = accepted[t + 1]
    BY DEF CellInv
  <2>2. t \in Nat /\ (Published(t) => t + 1 \in 1 .. tail)
    BY CursorFacts DEF Published
  <2>3. Published(t) => accepted'[t + 1] = accepted[t + 1]
    BY <1>2, <2>2
  <2> QED
    BY <2>1, <2>3
<1>11. DeliveredInOrder'
  <2>1. Len(delivered) \in Nat /\ Len(delivered) <= tail
    BY CursorFacts DEF DeliveredInOrder, TypeOK
  <2> QED
    BY <1>2, <2>1, CursorFacts DEF DeliveredInOrder
<1> QED
  BY <1>3, <1>6, <1>7, <1>8, <1>9, <1>10, <1>11 DEF OneConsumerInv

\* Writing the cell keeps the invariant: no other ticket of the window has that cell.
LEMMA PushEmplaceInv ==
    ASSUME QueueInv, NEW p \in Producers, PushEmplace(p)
    PROVE  QueueInv'
<1> USE DEF QueueInv, PushEmplace, PushGoto, consumerVars, history
<1>1. /\ entry[p] \in Entries /\ localTail[p] \in Nat
      /\ Cursor <= localTail[p] /\ localTail[p] < tail
      /\ ~Published(localTail[p])
      /\ entry[p] = accepted[localTail[p] + 1]
  BY DEF ProducerInv, Unpublished, Published, TypeOK
<1>2. TypeOK'
  BY <1>1, SlotInCells DEF TypeOK, ProducerPC
<1>3. (Taken' <=> Taken) /\ Cursor' = Cursor
  BY DEF Taken, Cursor
<1>4. \A t : Published(t)' <=> Published(t)
  BY DEF Published, Unpublished, TypeOK
<1>5. \A t \in Cursor .. (Cursor + Capacity - 1) :
         t # localTail[p] => storage'[Slot(t)] = storage[Slot(t)]
  <2> SUFFICES ASSUME NEW t \in Cursor .. (Cursor + Capacity - 1), t # localTail[p]
               PROVE  Slot(t) # Slot(localTail[p])
    BY SlotInCells, CursorFacts DEF TypeOK
  <2>1. t \in Nat /\ t < localTail[p] + Capacity /\ localTail[p] < t + Capacity
    BY <1>1, CursorFacts
  <2> QED
    BY <1>1, <2>1, SlotInjective
<1>6. ProducerInv'
  <2> SUFFICES ASSUME NEW q \in Producers, pPC'[q] = "publish"
               PROVE  storage'[Slot(localTail[q])] = entry[q]
    BY <1>3 DEF ProducerInv, Unpublished, TypeOK
  <2>1. CASE q = p
    BY <2>1, <1>1, SlotInCells DEF TypeOK
  <2>2. CASE q # p
    <3>1. /\ pPC[q] = "publish" /\ localTail[q] # localTail[p]
          /\ localTail[q] \in Cursor .. (Cursor + Capacity - 1)
      BY <2>2, CursorFacts DEF TypeOK, TicketInv, ProducerInv, Unpublished
    <3> QED
      BY <3>1, <1>5 DEF ProducerInv
  <2> QED
    BY <2>1, <2>2
<1>7. TicketInv'
  BY DEF TicketInv, Unpublished, TypeOK
<1>8. CellInv'
  BY <1>1, <1>3, <1>4, <1>5 DEF CellInv
<1>9. ConsumerInv'
  BY <1>3, <1>4 DEF ConsumerInv, Ticket
<1> QED
  BY <1>2, <1>3, <1>6, <1>7, <1>8, <1>9
  DEF CountersInv, OneConsumerInv, DeliveredInOrder

\* Publishing the cell keeps the invariant.
LEMMA PushPublishInv ==
    ASSUME QueueInv, NEW p \in Producers, PushPublish(p)
    PROVE  QueueInv'
<1> USE DEF QueueInv, PushPublish, PushGoto, consumerVars, history
<1>1. /\ localTail[p] \in Nat
      /\ Cursor <= localTail[p] /\ localTail[p] < tail
      /\ ~Published(localTail[p])
      /\ storage[Slot(localTail[p])] = accepted[localTail[p] + 1]
  BY DEF ProducerInv, Unpublished, Published, TypeOK
<1>2. TypeOK'
  <2>1. localTail[p] + 1 \in Nat /\ Slot(localTail[p]) \in Cells
    BY <1>1, SlotInCells
  <2> QED
    BY <2>1 DEF TypeOK, ProducerPC
<1>3. (Taken' <=> Taken) /\ Cursor' = Cursor
  BY DEF Taken, Cursor
<1>4. \A t : t # localTail[p] => (Published(t)' <=> Published(t))
  BY DEF Published, Unpublished, TypeOK
<1>5. Published(localTail[p])'
  BY <1>1 DEF Published, Unpublished, TypeOK, TicketInv
<1>6. \A t \in Cursor .. (Cursor + Capacity - 1) :
         t # localTail[p] => seq'[Slot(t)] = seq[Slot(t)]
  <2> SUFFICES ASSUME NEW t \in Cursor .. (Cursor + Capacity - 1), t # localTail[p]
               PROVE  Slot(t) # Slot(localTail[p])
    BY SlotInCells, CursorFacts DEF TypeOK
  <2>1. t \in Nat /\ t < localTail[p] + Capacity /\ localTail[p] < t + Capacity
    BY <1>1, CursorFacts
  <2> QED
    BY <1>1, <2>1, SlotInjective
<1>7. seq'[Slot(localTail[p])] = localTail[p] + 1
  BY <1>1, SlotInCells DEF TypeOK
<1>8. ProducerInv'
  BY <1>3 DEF ProducerInv, Unpublished, TypeOK
<1>9. TicketInv'
  BY DEF TicketInv, Unpublished, TypeOK
<1>10. CellInv'
  BY <1>1, <1>3, <1>4, <1>5, <1>6, <1>7 DEF CellInv
<1>11. ConsumerInv'
  BY <1>1, <1>3, <1>4, <1>5 DEF ConsumerInv, Ticket
<1> QED
  BY <1>2, <1>3, <1>8, <1>9, <1>10, <1>11
  DEF CountersInv, OneConsumerInv, DeliveredInOrder

\* A step of popAll that changes only its own locals keeps the invariant if it keeps
\* the types and the facts about consumers.
LEMMA LocalPopInv ==
    ASSUME QueueInv,
           UNCHANGED <<tail, head, cells, producerVars, history>>,
           Taken' <=> Taken,
           TypeOK', OneConsumerInv', ConsumerInv'
    PROVE  QueueInv'
<1> USE DEF QueueInv, cells, producerVars, history
<1>1. Cursor' = Cursor
  BY DEF Cursor
<1>2. \A t : Published(t)' <=> Published(t)
  BY DEF Published
<1>3. ProducerInv' /\ TicketInv'
  BY <1>1 DEF ProducerInv, TicketInv
<1>4. CellInv'
  BY <1>1, <1>2 DEF CellInv
<1> QED
  BY <1>1, <1>3, <1>4 DEF CountersInv, DeliveredInOrder

\* Entering popAll with no other thread inside keeps the invariant.
LEMMA PopBeginInv ==
    ASSUME QueueInv, NEW c \in Consumers, PopBegin(c)
    PROVE  QueueInv'
<1> USE DEF QueueInv, PopBegin, NoConsumerInside, PopLoadHead, PopGoto,
            cells, producerVars, history
<1>1. TypeOK'
  BY DEF TypeOK, ConsumerPC
<1>2. OneConsumerInv' /\ ~Taken /\ ~Taken'
  BY DEF OneConsumerInv, Taken, TypeOK
<1>3. Cursor' = Cursor /\ Cursor = head
  BY <1>2 DEF Cursor, ConsumerInv
<1>4. ConsumerInv'
  BY <1>3 DEF ConsumerInv, TypeOK
<1> QED
  BY <1>1, <1>2, <1>4, LocalPopInv

\* Returning from an empty queue keeps the invariant.
LEMMA PopEmptyInv ==
    ASSUME QueueInv, NEW c \in Consumers, PopEmpty(c)
    PROVE  QueueInv'
<1> USE DEF QueueInv, PopEmpty, PopReturn, PopGoto, cells, producerVars, history
<1>1. TypeOK'
  BY AppendFacts DEF TypeOK, ConsumerPC
<1>2. \A d \in Consumers : d # c => cPC[d] = "idle"
  BY DEF OneConsumerInv
<1>3. OneConsumerInv' /\ ~Taken /\ ~Taken'
  BY <1>2 DEF OneConsumerInv, Taken, TypeOK
<1>4. Cursor' = Cursor /\ Cursor = head
  BY <1>2, <1>3 DEF Cursor, ConsumerInv
<1>5. ConsumerInv'
  BY <1>2, <1>4 DEF ConsumerInv, TypeOK
<1> QED
  BY <1>1, <1>3, <1>5, LocalPopInv

\* The load of tail_ fixes a range of reserved tickets.
LEMMA PopLoadTailInv ==
    ASSUME QueueInv, NEW c \in Consumers, PopLoadTail(c)
    PROVE  QueueInv'
<1> USE DEF QueueInv, PopLoadTail, PopGoto, cells, producerVars, history
<1>1. TypeOK'
  BY SMTT(30) DEF TypeOK, ConsumerPC
<1>2. \A d \in Consumers : d # c => cPC[d] = "idle"
  BY DEF OneConsumerInv
<1>3. OneConsumerInv' /\ ~Taken /\ ~Taken'
  BY <1>2 DEF OneConsumerInv, Taken, TypeOK
<1>4. Cursor' = Cursor /\ Cursor = head
  BY <1>2, <1>3 DEF Cursor, ConsumerInv
<1>5. from[c] = head /\ done[c] = 0 /\ count'[c] = tail - head /\ tail - head > 0
  <2>1. from[c] = head /\ done[c] = 0
    BY DEF ConsumerInv, ConsumerPC
  <2> QED
    BY <2>1, CursorFacts DEF TypeOK
<1>6. ConsumerInv'
  BY SMTT(30), <1>2, <1>4, <1>5, CursorFacts DEF ConsumerInv, ConsumerPC, Ticket, TypeOK
<1> QED
  BY <1>1, <1>3, <1>6, LocalPopInv

\* Inside the loop of popAll the cursor is the ticket being handled, and the thread is
\* alone in popAll.
LEMMA BodyFacts ==
    ASSUME QueueInv, NEW c \in Consumers, cPC[c] \in {"await", "take", "reset", "free"}
    PROVE  /\ from[c] = head /\ done[c] \in Nat /\ count[c] \in Nat
           /\ done[c] < count[c] /\ head + count[c] <= tail
           /\ Ticket(c) = Cursor /\ Cursor = head + done[c] /\ Cursor < tail
           /\ Cursor \in Cursor .. (Cursor + Capacity - 1)
           /\ cPC[c] # "await" => Published(Cursor)
           /\ \A d \in Consumers : d # c => cPC[d] = "idle"
<1> USE DEF QueueInv
<1>1. /\ from[c] = head /\ done[c] \in Nat /\ count[c] \in Nat
      /\ done[c] < count[c] /\ head + count[c] <= tail /\ Ticket(c) = Cursor
  BY DEF ConsumerInv, ConsumerPC, TypeOK
<1>2. Cursor = head + done[c]
  BY <1>1 DEF Ticket
<1>3. Cursor < tail /\ Cursor \in Cursor .. (Cursor + Capacity - 1)
  BY <1>1, <1>2, CursorFacts
<1>4. cPC[c] # "await" => Published(Cursor)
  BY <1>1 DEF ConsumerInv
<1> QED
  BY <1>1, <1>2, <1>3, <1>4 DEF OneConsumerInv

\* Seeing the expected sequence number means that the ticket is published.
LEMMA PopAwaitInv ==
    ASSUME QueueInv, NEW c \in Consumers, PopAwait(c)
    PROVE  QueueInv'
<1> USE DEF QueueInv, PopAwait, PopGoto, cells, producerVars, history
<1>1. TypeOK'
  BY DEF TypeOK, ConsumerPC
<1>2. \A d \in Consumers : d # c => cPC[d] = "idle"
  BY BodyFacts
<1>3. OneConsumerInv' /\ ~Taken /\ ~Taken'
  BY <1>2 DEF OneConsumerInv, Taken, TypeOK
<1>4. Published(Ticket(c))
  BY BodyFacts, CursorFacts DEF CellInv
<1>5. Cursor' = Cursor /\ Ticket(c)' = Ticket(c) /\ Published(Ticket(c))'
  BY <1>3, <1>4 DEF Cursor, Ticket, Published
<1>6. ConsumerInv'
  BY <1>2, <1>5, BodyFacts DEF ConsumerInv, ConsumerPC, TypeOK
<1> QED
  BY <1>1, <1>3, <1>6, LocalPopInv

\* A published cell that is about to be read holds the entry of its ticket.
LEMMA TakeFacts ==
    ASSUME QueueInv, NEW c \in Consumers, cPC[c] = "take"
    PROVE  /\ ~Taken /\ Cursor = Len(delivered) /\ Cursor + 1 \in 1 .. Len(accepted)
           /\ storage[Slot(Ticket(c))] = accepted[Cursor + 1]
           /\ accepted[Cursor + 1] \in Entries
<1> USE DEF QueueInv
<1>1. ~Taken
  BY BodyFacts DEF Taken
<1>2. Cursor = Len(delivered)
  BY <1>1 DEF Cursor
<1>3. Cursor + 1 \in 1 .. Len(accepted)
  BY BodyFacts, CursorFacts
<1>4. accepted[Cursor + 1] \in Entries
  BY <1>3 DEF TypeOK
<1>5. storage[Slot(Cursor)] = accepted[Cursor + 1]
  BY <1>1, BodyFacts DEF CellInv
<1> QED
  BY <1>1, <1>2, <1>3, <1>4, <1>5, BodyFacts

\* Moving the entry out keeps the invariant and delivers the next accepted entry.
LEMMA PopTakeInv ==
    ASSUME QueueInv, NEW c \in Consumers, PopTake(c)
    PROVE  QueueInv'
<1> USE DEF QueueInv, PopTake, PopGoto, cells, producerVars
<1> DEFINE taken == storage[Slot(Ticket(c))]
<1>1. taken = accepted[Cursor + 1] /\ taken \in Entries
  BY TakeFacts
<1>2. /\ delivered' \in Seq(Entries) /\ Len(delivered') = Cursor + 1
      /\ \A k \in 1 .. Cursor : delivered'[k] = delivered[k]
      /\ delivered'[Cursor + 1] = taken
  <2>1. delivered \in Seq(Entries) /\ delivered' = Append(delivered, taken)
        /\ Cursor = Len(delivered)
    BY TakeFacts DEF TypeOK
  <2> HIDE DEF QueueInv, PopTake, taken
  <2> QED
    BY <1>1, <2>1, AppendFacts
<1>3. batch' \in [Consumers -> Seq(Entries)]
  BY <1>1, AppendFacts DEF TypeOK
<1>4. TypeOK'
  BY <1>2, <1>3 DEF TypeOK, ConsumerPC
<1>5. Taken' /\ Cursor' = Cursor
  <2>1. cPC'[c] = "reset"
    BY DEF TypeOK
  <2>2. Taken'
    BY <2>1 DEF Taken
  <2> QED
    BY <1>2, <2>2, CursorFacts DEF Cursor
<1>6. \A t : Published(t)' <=> Published(t)
  BY DEF Published
<1>7. OneConsumerInv'
  BY BodyFacts DEF OneConsumerInv, TypeOK
<1>8. ConsumerInv'
  BY <1>5, <1>6, BodyFacts DEF ConsumerInv, ConsumerPC, Ticket, TypeOK
<1>9. ProducerInv' /\ TicketInv'
  BY <1>5 DEF ProducerInv, TicketInv
<1>10. CellInv'
  BY <1>5, <1>6, TakeFacts DEF CellInv
<1>11. DeliveredInOrder'
  BY <1>1, <1>2, TakeFacts, CursorFacts DEF DeliveredInOrder
<1> QED
  BY <1>4, <1>5, <1>7, <1>8, <1>9, <1>10, <1>11 DEF CountersInv

\* Under the single-consumer contract the optional is never empty.
LEMMA PopSkipInv ==
    ASSUME QueueInv, NEW c \in Consumers, PopSkip(c)
    PROVE  QueueInv'
BY TakeFacts, NoEntryAssumption DEF PopSkip, PopGoto

\* Emptying the optional keeps the invariant.
LEMMA PopResetInv ==
    ASSUME QueueInv, NEW c \in Consumers, PopReset(c)
    PROVE  QueueInv'
<1> USE DEF QueueInv, PopReset, PopGoto, producerVars, history
<1>1. Slot(Ticket(c)) \in Cells /\ Ticket(c) = Cursor /\ Cursor \in Nat
  BY BodyFacts, CursorFacts, SlotInCells
<1>2. TypeOK'
  BY <1>1 DEF TypeOK, ConsumerPC
<1>3. Taken /\ Taken' /\ Cursor' = Cursor
  BY DEF Taken, Cursor, TypeOK
<1>4. \A t : Published(t)' <=> Published(t)
  BY DEF Published
<1>5. \A t \in Cursor .. (Cursor + Capacity - 1) :
         t # Cursor => storage'[Slot(t)] = storage[Slot(t)]
  <2> SUFFICES ASSUME NEW t \in Cursor .. (Cursor + Capacity - 1), t # Cursor
               PROVE  Slot(t) # Slot(Cursor)
    BY <1>1, SlotInCells, CursorFacts DEF TypeOK
  <2>1. t \in Nat /\ Cursor <= t /\ t < Cursor + Capacity
    BY CursorFacts
  <2> QED
    BY <1>1, <2>1, SlotInjective
<1>6. OneConsumerInv'
  BY BodyFacts DEF OneConsumerInv, TypeOK
<1>7. ConsumerInv'
  BY <1>3, <1>4, BodyFacts DEF ConsumerInv, ConsumerPC, Ticket, TypeOK
<1>8. ProducerInv'
  <2> SUFFICES ASSUME NEW q \in Producers, pPC[q] = "publish"
               PROVE  storage'[Slot(localTail[q])] = storage[Slot(localTail[q])]
    BY <1>3 DEF ProducerInv
  <2>1. /\ localTail[q] \in Cursor .. (Cursor + Capacity - 1)
        /\ ~Published(localTail[q])
    <3>1. pPC[q] \in Unpublished
      BY DEF Unpublished
    <3>2. Cursor <= localTail[q] /\ localTail[q] < tail /\ localTail[q] \in Nat
      BY <3>1 DEF ProducerInv, TypeOK
    <3>3. ~Published(localTail[q])
      BY <3>1 DEF Published
    <3> QED
      BY <3>2, <3>3, CursorFacts
  <2>2. localTail[q] # Cursor
    BY <2>1, BodyFacts
  <2> QED
    BY <1>5, <2>1, <2>2
<1>9. TicketInv'
  BY DEF TicketInv
<1>10. CellInv'
  BY <1>3, <1>4, <1>5 DEF CellInv
<1> QED
  BY <1>2, <1>3, <1>6, <1>7, <1>8, <1>9, <1>10 DEF CountersInv, DeliveredInOrder

\* Freeing the cell moves the window on by one ticket.
LEMMA PopFreeInv ==
    ASSUME QueueInv, NEW c \in Consumers, PopFree(c)
    PROVE  QueueInv'
<1> USE DEF QueueInv, PopFree, PopGoto, producerVars, history
<1>1. Slot(Ticket(c)) \in Cells /\ Ticket(c) = Cursor /\ Cursor + Capacity \in Nat
  BY BodyFacts, CursorFacts, SlotInCells
<1>2. TypeOK'
  BY <1>1 DEF TypeOK, ConsumerPC
<1>3. Taken /\ ~Taken'
  BY BodyFacts DEF Taken, TypeOK
<1>4. Cursor' = Cursor + 1
  <2>1. Len(delivered) \in Nat
    BY DEF TypeOK
  <2> QED
    BY <1>3, <2>1 DEF Cursor
<1>5. \A t : Published(t)' <=> Published(t)
  BY DEF Published
<1>6. seq'[Slot(Cursor)] = Cursor + Capacity
  BY <1>1 DEF TypeOK
<1>7. \A t \in Cursor .. (Cursor + Capacity - 1) :
         t # Cursor => seq'[Slot(t)] = seq[Slot(t)]
  <2> SUFFICES ASSUME NEW t \in Cursor .. (Cursor + Capacity - 1), t # Cursor
               PROVE  Slot(t) # Slot(Cursor)
    BY <1>1, SlotInCells, CursorFacts DEF TypeOK
  <2>1. t \in Nat /\ Cursor <= t /\ t < Cursor + Capacity
    BY CursorFacts
  <2> QED
    BY <2>1, SlotInjective, CursorFacts
<1>8. CountersInv'
  BY <1>4, BodyFacts, CursorFacts DEF CountersInv
<1>9. OneConsumerInv'
  BY BodyFacts DEF OneConsumerInv, TypeOK
<1>10. ConsumerInv'
  <2>1. /\ done'[c] = done[c] + 1 /\ from[c] = head /\ Cursor + 1 = head + done'[c]
        /\ \A d \in Consumers : d # c => cPC'[d] = "idle" /\ done[d] = 0 /\ done'[d] = done[d]
    <3>1. done'[c] = done[c] + 1 /\ \A d \in Consumers : d # c => done'[d] = done[d]
      BY DEF TypeOK
    <3>2. \A d \in Consumers : d # c => cPC'[d] = "idle" /\ done[d] = 0
      BY BodyFacts DEF ConsumerInv, TypeOK
    <3> QED
      BY <3>1, <3>2, BodyFacts, CursorFacts
  <2>2. CASE done[c] + 1 < count[c]
    <3>1. cPC'[c] = "await"
      BY <2>2 DEF TypeOK
    <3> QED
      BY <1>4, <2>1, <2>2, <3>1, BodyFacts DEF ConsumerInv, ConsumerPC, Ticket
  <2>3. CASE ~(done[c] + 1 < count[c])
    <3>1. cPC'[c] = "advance"
      BY <2>3 DEF TypeOK
    <3>2. done'[c] = count[c]
      BY <2>1, <2>3, BodyFacts
    <3> QED
      BY <1>4, <2>1, <3>1, <3>2, BodyFacts DEF ConsumerInv, ConsumerPC
  <2> QED
    BY <2>2, <2>3
<1>11. ProducerInv'
  <2> SUFFICES ASSUME NEW q \in Producers, pPC[q] \in Unpublished
               PROVE  Cursor + 1 <= localTail[q]
    BY <1>4 DEF ProducerInv
  <2>1. ~Published(localTail[q]) /\ Cursor <= localTail[q] /\ localTail[q] \in Nat
    BY DEF ProducerInv, Published, TypeOK
  <2>2. Cursor # localTail[q]
    BY <2>1, BodyFacts
  <2>3. Cursor \in Nat
    BY CursorFacts
  <2> QED
    BY <2>1, <2>2, <2>3
<1>12. TicketInv'
  BY DEF TicketInv
<1>13. CellInv'
  <2> SUFFICES ASSUME NEW t \in (Cursor + 1) .. (Cursor + Capacity)
               PROVE  /\ Published(t) => seq'[Slot(t)] = t + 1
                      /\ ~Published(t) => seq'[Slot(t)] = t
                      /\ Published(t) => storage[Slot(t)] = accepted[t + 1]
    BY <1>4, <1>5, CursorFacts DEF CellInv
  <2>1. CASE t = Cursor + Capacity
    <3>1. ~Published(t)
      BY <2>1, CursorFacts DEF Published
    <3>2. Slot(t) = Slot(Cursor)
      BY <2>1, SlotOfNextRound, CursorFacts
    <3> QED
      BY <1>6, <2>1, <3>1, <3>2
  <2>2. CASE t # Cursor + Capacity
    <3>1. t \in Cursor .. (Cursor + Capacity - 1) /\ t # Cursor
      BY <2>2, CursorFacts
    <3> QED
      BY <1>7, <3>1 DEF CellInv
  <2> QED
    BY <2>1, <2>2
<1> QED
  BY <1>2, <1>8, <1>9, <1>10, <1>11, <1>12, <1>13 DEF DeliveredInOrder

\* Storing head_ keeps the invariant: every ticket before it is freed.
LEMMA PopAdvanceInv ==
    ASSUME QueueInv, NEW c \in Consumers, PopAdvance(c)
    PROVE  QueueInv'
<1> USE DEF QueueInv, PopAdvance, PopGoto, cells, producerVars, history
<1>1. /\ from[c] = head /\ count[c] \in Nat
      /\ head + count[c] <= tail /\ Cursor = head + count[c]
      /\ \A d \in Consumers : d # c => cPC[d] = "idle"
  BY DEF ConsumerInv, ConsumerPC, OneConsumerInv, TypeOK
<1>2. head' = Cursor /\ head <= head'
  BY <1>1, CursorFacts
<1>3. TypeOK'
  BY <1>2, CursorFacts DEF TypeOK, ConsumerPC
<1>4. ~Taken /\ ~Taken'
  BY <1>1 DEF Taken, TypeOK
<1>5. Cursor' = Cursor
  BY <1>4 DEF Cursor
<1>6. \A t : Published(t)' <=> Published(t)
  BY DEF Published
<1>7. CountersInv'
  BY <1>2, <1>5, CursorFacts DEF CountersInv
<1>8. OneConsumerInv'
  BY <1>1 DEF OneConsumerInv, TypeOK
<1>9. ConsumerInv'
  BY <1>1, <1>2, <1>5 DEF ConsumerInv, ConsumerPC, TypeOK
<1>10. ProducerInv' /\ TicketInv'
  <2>1. tail - head < Capacity => tail - head' < Capacity
    BY <1>2, CursorFacts
  <2> QED
    BY <1>5, <2>1 DEF ProducerInv, TicketInv
<1>11. CellInv'
  BY <1>4, <1>5, <1>6 DEF CellInv
<1> QED
  BY <1>3, <1>7, <1>8, <1>9, <1>10, <1>11 DEF DeliveredInOrder

\* Returning from popAll keeps the invariant.
LEMMA PopCountInv ==
    ASSUME QueueInv, NEW c \in Consumers, PopCount(c)
    PROVE  QueueInv'
<1> USE DEF QueueInv, PopCount, PopReturn, PopGoto, cells, producerVars, history
<1>1. size' \in 0 .. (Word - 1)
  BY WrapInWord DEF TypeOK
<1>2. TypeOK'
  BY <1>1, AppendFacts DEF TypeOK, ConsumerPC
<1>3. \A d \in Consumers : d # c => cPC[d] = "idle"
  BY DEF OneConsumerInv
<1>4. OneConsumerInv' /\ ~Taken /\ ~Taken'
  BY <1>3 DEF OneConsumerInv, Taken, TypeOK
<1>5. Cursor' = Cursor /\ Cursor = head
  BY <1>3, <1>4 DEF Cursor, ConsumerInv
<1>6. ConsumerInv'
  BY <1>3, <1>5 DEF ConsumerInv, TypeOK
<1> QED
  BY <1>2, <1>4, <1>6, LocalPopInv

\* Every step of tryPush and popAll keeps the invariant, for any number of producers,
\* any capacity and any interleaving, as long as popAll is entered by one thread at
\* a time.
LEMMA QueueMoveInv ==
    ASSUME QueueInv, Next \/ UNCHANGED vars
    PROVE  QueueInv'
<1>1. ASSUME NEW p \in Producers, PushStep(p) PROVE QueueInv'
  BY <1>1, PushLoadTailInv, PushFullInv, PushRoomInv, PushReserveInv, PushRetryInv,
     PushAwaitInv, PushEmplaceInv, PushPublishInv, PushCountInv
  DEF PushStep, PushInside
<1>2. ASSUME NEW p \in Producers, NEW e \in Entries, PushBegin(p, e) PROVE QueueInv'
  BY <1>2, PushBeginInv
<1>3. ASSUME NEW c \in Consumers, PopBegin(c) PROVE QueueInv'
  BY <1>3, PopBeginInv
<1>4. ASSUME NEW c \in Consumers, PopStep(c) PROVE QueueInv'
  BY <1>4, PopEmptyInv, PopLoadTailInv, PopAwaitInv, PopTakeInv, PopSkipInv,
     PopResetInv, PopFreeInv, PopAdvanceInv, PopCountInv
  DEF PopStep, PopInside
<1>5. CASE UNCHANGED vars
  <2> USE <1>5 DEF vars, cells, producerVars, consumerVars, history
  <2>1. (Taken' <=> Taken) /\ Cursor' = Cursor
    BY DEF Taken, Cursor
  <2>2. \A t : Published(t)' <=> Published(t)
    BY DEF Published
  <2> QED
    BY <2>1, <2>2 DEF QueueInv, TypeOK, CountersInv, OneConsumerInv, ConsumerInv,
       ProducerInv, TicketInv, CellInv, DeliveredInOrder, Ticket
<1> QED
  BY <1>1, <1>2, <1>3, <1>4, <1>5 DEF Next, Pushing

\* The same in the form of a specification.
THEOREM QueueInvStep == QueueInv /\ [Next]_vars => QueueInv'
BY QueueMoveInv

\* The invariant holds in every reachable state.
THEOREM QueueInvariant == Spec => []QueueInv
<1> QED
  BY QueueInvInit, QueueInvStep, PTL DEF Spec

-------------------------------------------------------------------------------
(* What follows from it.                                                   *)

\* Every variable keeps its type; in particular size_ never leaves size_t.
THEOREM TypeCorrect == Spec => []TypeOK
<1>1. QueueInv => TypeOK
  BY DEF QueueInv
<1> QED
  BY <1>1, QueueInvariant, PTL

\* What popAll returns is a prefix of what tryPush accepted, in ticket order.
THEOREM DeliveryOrder == Spec => []DeliveredInOrder
<1>1. QueueInv => DeliveredInOrder
  BY DEF QueueInv
<1> QED
  BY <1>1, QueueInvariant, PTL

\* The spin of async_queue.cpp:50-53 never waits: a reserved cell is already free.
THEOREM ReservedSlotsAreFree == Spec => []ReservedSlotIsFree
<1>1. QueueInv => ReservedSlotIsFree
  <2> SUFFICES ASSUME QueueInv, NEW p \in Producers, pPC[p] = "await"
               PROVE  seq[Slot(localTail[p])] = localTail[p]
    BY DEF ReservedSlotIsFree
  <2>1. /\ localTail[p] \in Cursor .. (Cursor + Capacity - 1)
        /\ ~Published(localTail[p])
    BY CursorFacts DEF QueueInv, ProducerInv, Published, Unpublished, TypeOK
  <2> QED
    BY <2>1 DEF QueueInv, CellInv
<1> QED
  BY <1>1, QueueInvariant, PTL

\* No two threads access the storage of one cell at the same time.
THEOREM CellsAreExclusive == Spec => []CellExclusive
<1>1. QueueInv => CellExclusive
  <2> SUFFICES ASSUME QueueInv, NEW s \in Cells
               PROVE  /\ \A p, q \in Producers :
                            ProducerTouches(p, s) /\ ProducerTouches(q, s) => p = q
                      /\ \A c, d \in Consumers :
                            ConsumerTouches(c, s) /\ ConsumerTouches(d, s) => c = d
                      /\ \A p \in Producers, c \in Consumers :
                            ~(ProducerTouches(p, s) /\ ConsumerTouches(c, s))
    BY DEF CellExclusive
  <2>1. ASSUME NEW p \in Producers, ProducerTouches(p, s)
        PROVE  /\ localTail[p] \in Cursor .. (Cursor + Capacity - 1)
               /\ ~Published(localTail[p]) /\ Slot(localTail[p]) = s
    BY <2>1, CursorFacts
    DEF ProducerTouches, QueueInv, ProducerInv, Published, Unpublished, TypeOK
  <2>2. ASSUME NEW t \in Cursor .. (Cursor + Capacity - 1),
               NEW u \in Cursor .. (Cursor + Capacity - 1), Slot(t) = Slot(u)
        PROVE  t = u
    <3>1. t \in Nat /\ u \in Nat /\ t < u + Capacity /\ u < t + Capacity
      BY CursorFacts
    <3>2. t <= u \/ u <= t
      BY <3>1
    <3> QED
      BY <2>2, <3>1, <3>2, SlotInjective
  <2>3. ASSUME NEW p \in Producers, NEW q \in Producers,
               ProducerTouches(p, s), ProducerTouches(q, s)
        PROVE  p = q
    <3>1. localTail[p] = localTail[q]
      BY <2>1, <2>2, <2>3
    <3> QED
      BY <2>3, <3>1 DEF ProducerTouches, QueueInv, TicketInv, Unpublished
  <2>4. ASSUME NEW c \in Consumers, NEW d \in Consumers,
               ConsumerTouches(c, s), ConsumerTouches(d, s)
        PROVE  c = d
    BY <2>4 DEF ConsumerTouches, QueueInv, OneConsumerInv
  <2>5. ASSUME NEW p \in Producers, NEW c \in Consumers,
               ProducerTouches(p, s), ConsumerTouches(c, s)
        PROVE  FALSE
    <3>1. Published(Cursor) /\ Slot(Cursor) = s
          /\ Cursor \in Cursor .. (Cursor + Capacity - 1)
      BY <2>5, BodyFacts DEF ConsumerTouches
    <3>2. localTail[p] = Cursor
      BY <2>1, <2>2, <2>5, <3>1
    <3> QED
      BY <2>1, <2>5, <3>1, <3>2
  <2> QED
    BY <2>3, <2>4, <2>5
<1> QED
  BY <1>1, QueueInvariant, PTL

\* Every step of the queue is a step of the bounded channel or none of its business.
THEOREM ChannelStep == QueueInv /\ [Next]_vars => [Channel!Next]_<<accepted, delivered>>
<1> SUFFICES ASSUME QueueInv, [Next]_vars
             PROVE  Channel!Next \/ UNCHANGED <<accepted, delivered>>
  OBVIOUS
<1>1. ASSUME NEW p \in Producers, PushReserve(p) PROVE Channel!Next
  <2>1. entry[p] \in Entries
    BY <1>1 DEF QueueInv, ProducerInv, PushReserve, PushGoto
  <2>2. Len(accepted) - Len(delivered) < Capacity
    <3>1. tail - head < Capacity /\ Len(accepted) = tail
      BY <1>1 DEF QueueInv, ProducerInv, CountersInv, PushReserve, PushGoto
    <3>2. Len(delivered) \in Nat /\ Cursor <= Len(delivered)
      BY DEF QueueInv, TypeOK, Cursor
    <3> QED
      BY <3>1, <3>2, CursorFacts
  <2>3. Channel!Submit(entry[p])
    BY <1>1, <2>2 DEF Channel!Submit, PushReserve
  <2> QED
    BY <2>1, <2>3 DEF Channel!Next
<1>2. ASSUME NEW c \in Consumers, PopTake(c) PROVE Channel!Next
  <2>1. cPC[c] = "take"
    BY <1>2 DEF PopTake, PopGoto
  <2>2. Channel!Deliver
    BY <1>2, <2>1, TakeFacts, CursorFacts DEF Channel!Deliver, PopTake
  <2> QED
    BY <2>2 DEF Channel!Next
<1>3. ASSUME NEW p \in Producers, PushStep(p) PROVE Channel!Next \/ UNCHANGED <<accepted, delivered>>
  BY <1>1, <1>3 DEF PushStep, PushInside, PushLoadTail, PushFull, PushRoom, PushRetry,
     PushAwait, PushEmplace, PushPublish, PushCount, history
<1>4. ASSUME NEW c \in Consumers, PopStep(c) PROVE Channel!Next \/ UNCHANGED <<accepted, delivered>>
  BY <1>2, <1>4 DEF PopStep, PopInside, PopEmpty, PopLoadTail, PopAwait, PopSkip,
     PopReset, PopFree, PopAdvance, PopCount, history
<1>5. ASSUME NEW p \in Producers, NEW e \in Entries, PushBegin(p, e)
      PROVE  UNCHANGED <<accepted, delivered>>
  BY <1>5 DEF PushBegin, history
<1>6. ASSUME NEW c \in Consumers, PopBegin(c) PROVE UNCHANGED <<accepted, delivered>>
  BY <1>6 DEF PopBegin, PopLoadHead, history
<1>7. CASE UNCHANGED vars
  BY <1>7 DEF vars, history
<1> QED
  BY <1>3, <1>4, <1>5, <1>6, <1>7 DEF Next, Pushing

\* The queue implements the safety part of the bounded channel of LogChannel.
THEOREM QueueIsChannel == Spec => Channel!SafeSpec
<1>1. Init => Channel!Init
  BY DEF Init, Channel!Init
<1> QED
  BY <1>1, QueueInvariant, ChannelStep, PTL DEF Spec, Channel!SafeSpec, Channel!channelVars

-------------------------------------------------------------------------------
(* What size() reports.                                                    *)

\* Adding to a wrapped number is adding before it is wrapped: the fetch_add and the
\* fetch_sub of size_ count in Word whatever the number in between (async_queue.cpp:60,118).
LEMMA WrapAdd ==
    ASSUME NEW x \in Int, NEW k \in Int
    PROVE  Wrap(Wrap(x) + k) = Wrap(x + k)
<1>1. Word \in Nat /\ Word > 0
  BY WordAssumption, CapacityAssumption
<1>2. ASSUME NEW y \in Int PROVE \E q \in Int : y = Word * q + Wrap(y)
  <2> DEFINE quotient == y \div Word
  <2>1. quotient \in Int /\ y = Word * quotient + Wrap(y)
    BY <1>1, SMT DEF Wrap
  <2> HIDE DEF quotient
  <2> QED
    BY <2>1
<1>3. PICK q \in Int : x = Word * q + Wrap(x)
  BY <1>2
<1>4. Wrap(x) \in 0 .. (Word - 1) /\ Wrap(x) + k \in Int /\ x + k \in Int
  BY WrapInWord, <1>1
<1>5. PICK r \in Int : Wrap(x) + k = Word * r + Wrap(Wrap(x) + k)
  BY <1>2, <1>4
<1>6. PICK s \in Int : x + k = Word * s + Wrap(x + k)
  BY <1>2, <1>4
<1>7. Wrap(Wrap(x) + k) \in 0 .. (Word - 1) /\ Wrap(x + k) \in 0 .. (Word - 1)
  BY <1>4, WrapInWord
<1>8. Word * (q + r - s) = Word * q + Word * r - Word * s
  <2>1. Word * (q - (s - r)) = Word * q - Word * (s - r)
    BY <1>1, Distribute
  <2>2. Word * (s - r) = Word * s - Word * r
    BY <1>1, Distribute
  <2>3. q - (s - r) = q + r - s /\ Word * q \in Int /\ Word * r \in Int /\ Word * s \in Int
    BY <1>1
  <2> QED
    BY <2>1, <2>2, <2>3
<1>9. Word * (q + r - s) = Wrap(x + k) - Wrap(Wrap(x) + k)
  <2> DEFINE a == Word * q
             b == Word * r
             d == Word * s
             first == Wrap(x)
             left == Wrap(Wrap(x) + k)
             right == Wrap(x + k)
  <2>1. a \in Int /\ b \in Int /\ d \in Int
    BY <1>1
  <2>2. x = a + first /\ first + k = b + left /\ x + k = d + right
    BY <1>3, <1>5, <1>6
  <2>3. first \in Int /\ left \in Int /\ right \in Int
    BY <1>4, <1>7, <1>1
  <2>4. Word * (q + r - s) = a + b - d
    BY <1>8
  <2> HIDE DEF a, b, d, first, left, right
  <2>5. a + b - d = right - left
    BY <2>1, <2>2, <2>3
  <2> QED
    BY <2>4, <2>5 DEF left, right
<1>10. q + r - s = 0
  <2>1. -Word < Word * (q + r - s) /\ Word * (q + r - s) < Word
    BY <1>1, <1>7, <1>9
  <2> QED
    BY <1>1, <2>1, SmallMultiple, q + r - s \in Int
<1> QED
  BY <1>1, <1>7, <1>9, <1>10

\* The producers that reserved a ticket and have not counted it, and the consumer that
\* has advanced head_ and has not subtracted its batch.
Uncounted == {p \in Producers : pPC[p] \in {"await", "emplace", "publish", "count"}}
Leaving == {c \in Consumers : cPC[c] = "count"}
Unsubtracted == IF Leaving = {} THEN 0 ELSE count[CHOOSE c \in Leaving : TRUE]

\* What SizeAccounts says, with the number before it is wrapped.
Accounted == tail - head - Cardinality(Uncounted) + Unsubtracted

\* Only finitely many producers can be inside, however many there are: each came in by
\* a step.  So the count of them makes sense without an assumption.
SizeInv == IsFiniteSet(Uncounted) /\ size = Wrap(Accounted)

\* SizeAccounts in these words.
LEMMA SizeInvIsSizeAccounts == SizeInv => SizeAccounts
BY DEF SizeInv, SizeAccounts, Accounted, Uncounted, Leaving, Unsubtracted

\* The numbers that SizeInv adds up are integers, and the consumer is the only one.
LEMMA AccountedFacts ==
    ASSUME QueueInv, SizeInv
    PROVE  /\ tail \in Nat /\ head \in Nat /\ Cardinality(Uncounted) \in Nat
           /\ Unsubtracted \in Nat /\ Accounted \in Int
           /\ \A c \in Leaving : Unsubtracted = count[c]
<1>1. tail \in Nat /\ head \in Nat /\ count \in [Consumers -> Nat]
  BY DEF QueueInv, TypeOK
<1>2. Cardinality(Uncounted) \in Nat
  BY FS_CardinalityType DEF SizeInv
<1>3. \A c, d \in Leaving : c = d
  BY DEF QueueInv, OneConsumerInv, Leaving
<1>4. \A c \in Leaving : Unsubtracted = count[c]
  BY <1>3 DEF Unsubtracted
<1>5. Unsubtracted \in Nat
  <2>1. CASE Leaving = {}
    BY <2>1 DEF Unsubtracted
  <2>2. CASE Leaving # {}
    BY <1>1, <1>4, <2>2 DEF Leaving
  <2> QED
    BY <2>1, <2>2
<1>6. Accounted \in Int
  BY <1>1, <1>2, <1>5 DEF Accounted
<1> QED
  BY <1>1, <1>2, <1>4, <1>5, <1>6

\* A step that leaves the counters alone and the threads that owe something where they
\* are leaves the account alone.
LEMMA AccountKept ==
    ASSUME SizeInv, UNCHANGED <<tail, head, size>>, Uncounted' = Uncounted,
           Leaving' = Leaving, \A c \in Leaving : count'[c] = count[c]
    PROVE  SizeInv'
<1>1. Unsubtracted' = Unsubtracted
  BY DEF Unsubtracted
<1> QED
  BY <1>1 DEF SizeInv, Accounted

\* A step of tryPush that neither reserves nor counts keeps the account.
LEMMA PushKeepsAccount ==
    ASSUME QueueInv, SizeInv, NEW p \in Producers, UNCHANGED <<tail, head, size, consumerVars>>,
           NEW to, pPC' = [pPC EXCEPT ![p] = to],
           pPC[p] \in {"await", "emplace", "publish", "count"}
              <=> to \in {"await", "emplace", "publish", "count"}
    PROVE  SizeInv'
<1>1. pPC \in [Producers -> ProducerPC]
  BY DEF QueueInv, TypeOK
<1>2. Uncounted' = Uncounted
  BY <1>1 DEF Uncounted
<1>3. Leaving' = Leaving /\ \A c \in Leaving : count'[c] = count[c]
  BY DEF Leaving, consumerVars
<1> QED
  BY <1>2, <1>3, AccountKept

\* A step of popAll that neither advances head_ nor subtracts keeps the account.
LEMMA PopKeepsAccount ==
    ASSUME QueueInv, SizeInv, NEW c \in Consumers, UNCHANGED <<tail, head, size, producerVars>>,
           cPC[c] # "count", NEW to, to # "count", cPC' = [cPC EXCEPT ![c] = to],
           \A d \in Consumers : d # c => count'[d] = count[d]
    PROVE  SizeInv'
<1>1. cPC \in [Consumers -> ConsumerPC]
  BY DEF QueueInv, TypeOK
<1>2. Uncounted' = Uncounted
  BY DEF Uncounted, producerVars
<1>3. Leaving' = Leaving /\ \A d \in Leaving : count'[d] = count[d]
  BY <1>1 DEF Leaving
<1> QED
  BY <1>2, <1>3, AccountKept

\* A reservation adds a ticket and a producer that has not counted it.
LEMMA ReserveAccount ==
    ASSUME QueueInv, SizeInv, NEW p \in Producers, PushReserve(p)
    PROVE  SizeInv'
<1>1. /\ pPC \in [Producers -> ProducerPC] /\ pPC[p] = "reserve"
      /\ pPC' = [pPC EXCEPT ![p] = "await"]
      /\ tail' = tail + 1 /\ head' = head /\ size' = size /\ UNCHANGED consumerVars
  BY DEF QueueInv, TypeOK, PushReserve, PushGoto
<1>2. Uncounted' = Uncounted \cup {p} /\ p \notin Uncounted
  BY <1>1 DEF Uncounted
<1>3. IsFiniteSet(Uncounted') /\ Cardinality(Uncounted') = Cardinality(Uncounted) + 1
  BY <1>2, FS_AddElement DEF SizeInv
<1>4. Unsubtracted' = Unsubtracted
  BY <1>1 DEF Unsubtracted, Leaving, consumerVars
<1>5. Accounted' = Accounted
  BY <1>1, <1>3, <1>4, AccountedFacts DEF Accounted
<1> QED
  BY <1>1, <1>3, <1>5 DEF SizeInv

\* The producer counts itself.
LEMMA CountAccount ==
    ASSUME QueueInv, SizeInv, NEW p \in Producers, PushCount(p)
    PROVE  SizeInv'
<1>1. /\ pPC \in [Producers -> ProducerPC] /\ pPC[p] = "count"
      /\ pPC' = [pPC EXCEPT ![p] = "idle"]
      /\ tail' = tail /\ head' = head /\ size' = Wrap(size + 1) /\ UNCHANGED consumerVars
  BY DEF QueueInv, TypeOK, PushCount, PushReturn, PushGoto
<1>2. Uncounted' = Uncounted \ {p} /\ p \in Uncounted
  BY <1>1 DEF Uncounted
<1>3. IsFiniteSet(Uncounted') /\ Cardinality(Uncounted') = Cardinality(Uncounted) - 1
  BY <1>2, FS_RemoveElement DEF SizeInv
<1>4. Unsubtracted' = Unsubtracted
  BY <1>1 DEF Unsubtracted, Leaving, consumerVars
<1>5. Accounted' = Accounted + 1
  BY <1>1, <1>3, <1>4, AccountedFacts DEF Accounted
<1>6. size' = Wrap(Accounted + 1)
  BY <1>1, WrapAdd, AccountedFacts DEF SizeInv
<1> QED
  BY <1>3, <1>5, <1>6 DEF SizeInv

\* popAll moves head_ over its batch and still has to subtract it.
LEMMA AdvanceAccount ==
    ASSUME QueueInv, SizeInv, NEW c \in Consumers, PopAdvance(c)
    PROVE  SizeInv'
<1>1. /\ cPC \in [Consumers -> ConsumerPC] /\ cPC[c] = "advance"
      /\ cPC' = [cPC EXCEPT ![c] = "count"]
      /\ tail' = tail /\ head' = from[c] + count[c] /\ size' = size /\ count' = count
      /\ UNCHANGED producerVars /\ count \in [Consumers -> Nat]
  BY DEF QueueInv, TypeOK, PopAdvance, PopGoto
<1>2. \A d \in Consumers : cPC[d] = "count" => d = c
  BY <1>1 DEF QueueInv, OneConsumerInv
<1>3. Leaving = {} /\ Leaving' = {c}
  BY <1>1, <1>2 DEF Leaving
<1>4. Unsubtracted = 0 /\ Unsubtracted' = count[c]
  BY <1>1, <1>3 DEF Unsubtracted
<1>5. from[c] = head
  BY <1>1 DEF QueueInv, ConsumerInv, ConsumerPC
<1>6. Uncounted' = Uncounted
  BY <1>1 DEF Uncounted, producerVars
<1>7. Accounted' = Accounted
  <2>1. count[c] \in Nat
    BY <1>1
  <2> QED
    BY <1>1, <1>4, <1>5, <1>6, <2>1, AccountedFacts DEF Accounted
<1> QED
  BY <1>1, <1>6, <1>7 DEF SizeInv

\* popAll subtracts its batch.
LEMMA SubtractAccount ==
    ASSUME QueueInv, SizeInv, NEW c \in Consumers, PopCount(c)
    PROVE  SizeInv'
<1>1. /\ cPC \in [Consumers -> ConsumerPC] /\ cPC[c] = "count"
      /\ cPC' = [cPC EXCEPT ![c] = "idle"]
      /\ tail' = tail /\ head' = head /\ size' = Wrap(size - count[c])
      /\ UNCHANGED producerVars /\ count[c] \in Nat
  BY DEF QueueInv, TypeOK, PopCount, PopReturn, PopGoto
<1>2. \A d \in Consumers : cPC[d] = "count" => d = c
  BY <1>1 DEF QueueInv, OneConsumerInv
<1>3. c \in Leaving /\ Leaving' = {}
  BY <1>1, <1>2 DEF Leaving
<1>4. Unsubtracted = count[c] /\ Unsubtracted' = 0
  BY <1>3, AccountedFacts DEF Unsubtracted
<1>5. Uncounted' = Uncounted
  BY <1>1 DEF Uncounted, producerVars
<1>6. Accounted' = Accounted - count[c] /\ Accounted - count[c] = Accounted + (- count[c])
  BY <1>1, <1>4, <1>5, AccountedFacts DEF Accounted
<1>7. size - count[c] = size + (- count[c]) /\ - count[c] \in Int
  BY <1>1 DEF QueueInv, TypeOK
<1>8. size' = Wrap(Accounted + (- count[c]))
  BY <1>1, <1>7, WrapAdd, AccountedFacts DEF SizeInv
<1> QED
  BY <1>5, <1>6, <1>8 DEF SizeInv

\* Every step of the queue keeps the account.
THEOREM SizeInvStep == QueueInv /\ SizeInv /\ [Next]_vars => SizeInv'
<1> SUFFICES ASSUME QueueInv, SizeInv, [Next]_vars PROVE SizeInv'
  OBVIOUS
<1>1. ASSUME NEW p \in Producers, PushStep(p) PROVE SizeInv'
  <2>1. CASE PushLoadTail(p) \/ PushRoom(p) \/ PushRetry(p) \/ PushFull(p)
    <3>1. PICK to \in {"loadHead", "reserve", "loadTail", "idle"} :
              pPC' = [pPC EXCEPT ![p] = to]
      BY <2>1 DEF PushLoadTail, PushRoom, PushRetry, PushFull, PushReturn, PushGoto
    <3>2. pPC[p] \in {"loadTail", "loadHead", "reserve"}
      BY <2>1 DEF PushLoadTail, PushRoom, PushRetry, PushFull, PushReturn, PushGoto
    <3>3. UNCHANGED <<tail, head, size, consumerVars>>
      BY <2>1 DEF PushLoadTail, PushRoom, PushRetry, PushFull
    <3> QED
      BY <3>1, <3>2, <3>3, PushKeepsAccount
  <2>2. CASE PushAwait(p) \/ PushEmplace(p) \/ PushPublish(p)
    <3>1. PICK to \in {"emplace", "publish", "count"} : pPC' = [pPC EXCEPT ![p] = to]
      BY <2>2 DEF PushAwait, PushEmplace, PushPublish, PushGoto
    <3>2. pPC[p] \in {"await", "emplace", "publish"}
      BY <2>2 DEF PushAwait, PushEmplace, PushPublish, PushGoto
    <3>3. UNCHANGED <<tail, head, size, consumerVars>>
      BY <2>2 DEF PushAwait, PushEmplace, PushPublish
    <3> QED
      BY <3>1, <3>2, <3>3, PushKeepsAccount
  <2> QED
    BY <1>1, <2>1, <2>2, ReserveAccount, CountAccount DEF PushStep, PushInside
<1>2. ASSUME NEW p \in Producers, NEW e \in Entries, PushBegin(p, e) PROVE SizeInv'
  <2>1. /\ pPC' = [pPC EXCEPT ![p] = "loadTail"] /\ pPC[p] = "idle"
        /\ UNCHANGED <<tail, head, size, consumerVars>>
    BY <1>2 DEF PushBegin, PushGoto
  <2> QED
    BY <2>1, PushKeepsAccount
<1>3. ASSUME NEW c \in Consumers, PopBegin(c) PROVE SizeInv'
  <2>1. /\ cPC' = [cPC EXCEPT ![c] = "loadTail"] /\ cPC[c] = "idle" /\ count' = count
        /\ UNCHANGED <<tail, head, size, producerVars>>
    BY <1>3 DEF PopBegin, PopLoadHead, PopGoto
  <2> QED
    BY <2>1, PopKeepsAccount
<1>4. ASSUME NEW c \in Consumers, PopStep(c) PROVE SizeInv'
  <2> USE DEF PopGoto, PopReturn
  <2>1. CASE PopLoadTail(c) \/ PopAwait(c) \/ PopTake(c) \/ PopSkip(c) \/ PopReset(c)
             \/ PopFree(c) \/ PopEmpty(c)
    <3> USE DEF PopLoadTail, PopAwait, PopTake, PopSkip, PopReset, PopFree, PopEmpty
    <3>1. PICK to \in {"await", "take", "reset", "free", "advance", "idle"} :
              cPC' = [cPC EXCEPT ![c] = to]
      BY <2>1
    <3>2. cPC[c] \in {"loadTail", "await", "take", "reset", "free"}
      BY <2>1
    <3>3. UNCHANGED <<tail, head, size, producerVars>>
      BY <2>1
    <3>4. \A d \in Consumers : d # c => count'[d] = count[d]
      BY <2>1 DEF QueueInv, TypeOK
    <3> QED
      BY <3>1, <3>2, <3>3, <3>4, PopKeepsAccount
  <2> QED
    BY <1>4, <2>1, AdvanceAccount, SubtractAccount DEF PopStep, PopInside
<1>5. CASE UNCHANGED vars
  BY <1>5, AccountKept DEF vars, producerVars, consumerVars, Uncounted, Leaving
<1> QED
  BY <1>1, <1>2, <1>3, <1>4, <1>5 DEF Next, Pushing

\* size_ differs from the number of entries by exactly the calls that are in between
\* their step on tail_ or head_ and their step on size_ (tryPush, popAll).
THEOREM SizesAccount == Spec => []SizeAccounts
<1>1. Init => SizeInv
  <2> SUFFICES ASSUME Init PROVE SizeInv
    OBVIOUS
  <2>1. Uncounted = {} /\ Leaving = {}
    BY DEF Init, Uncounted, Leaving
  <2>2. IsFiniteSet(Uncounted) /\ Cardinality(Uncounted) = 0
    BY <2>1, FS_EmptySet
  <2>3. Accounted = 0 /\ size = 0
    BY <2>1, <2>2 DEF Accounted, Unsubtracted, Init
  <2>4. Wrap(0) = 0
    BY WrapSmall, WordAssumption, CapacityAssumption
  <2> QED
    BY <2>2, <2>3, <2>4 DEF SizeInv
<1> QED
  BY <1>1, QueueInvariant, SizeInvStep, SizeInvIsSizeAccounts, PTL DEF Spec

-------------------------------------------------------------------------------
(* Without the single-consumer contract.                                   *)

\* What is left of the invariant when popAll is entered by several threads: every
\* one of them works on a range of reserved tickets.
RangeInv ==
    /\ tail \in Nat /\ head \in Nat
    /\ cPC \in [Consumers -> ConsumerPC]
    /\ from \in [Consumers -> Nat]
    /\ count \in [Consumers -> Nat]
    /\ HeadBehindTail

\* Every step keeps it, whoever is inside popAll.
THEOREM RangeInvStep == RangeInv /\ [FreeNext]_vars => RangeInv'
<1> SUFFICES ASSUME RangeInv, [FreeNext]_vars PROVE RangeInv'
  OBVIOUS
<1> USE DEF RangeInv, HeadBehindTail
<1>1. ASSUME UNCHANGED <<head, consumerVars>>, tail' = tail \/ tail' = tail + 1
      PROVE  RangeInv'
  BY <1>1 DEF consumerVars
<1>2. ASSUME NEW p \in Producers, PushStep(p) PROVE RangeInv'
  BY <1>1, <1>2 DEF PushStep, PushInside, PushLoadTail, PushFull, PushRoom, PushReserve,
     PushRetry, PushAwait, PushEmplace, PushPublish, PushCount
<1>3. ASSUME NEW p \in Producers, NEW e \in Entries, PushBegin(p, e) PROVE RangeInv'
  BY <1>1, <1>3 DEF PushBegin
<1>4. ASSUME NEW c \in Consumers, PopLoadHead(c) PROVE RangeInv'
  BY <1>4 DEF PopLoadHead, PopGoto, ConsumerPC
<1>5. ASSUME NEW c \in Consumers, PopStep(c) PROVE RangeInv'
  <2>1. CASE PopEmpty(c)
    BY <2>1 DEF PopEmpty, PopReturn, PopGoto, ConsumerPC
  <2>2. CASE PopLoadTail(c)
    BY <2>2 DEF PopLoadTail, PopGoto, ConsumerPC
  <2>3. CASE PopAwait(c) \/ PopTake(c) \/ PopSkip(c) \/ PopReset(c)
    BY <2>3 DEF PopAwait, PopTake, PopSkip, PopReset, PopGoto, ConsumerPC
  <2>4. CASE PopFree(c)
    BY <2>4 DEF PopFree, PopGoto, ConsumerPC
  <2>5. CASE PopAdvance(c)
    BY <2>5 DEF PopAdvance, PopGoto, ConsumerPC
  <2>6. CASE PopCount(c)
    BY <2>6 DEF PopCount, PopReturn, PopGoto, ConsumerPC
  <2> QED
    BY <1>5, <2>1, <2>2, <2>3, <2>4, <2>5, <2>6 DEF PopStep, PopInside
<1>6. CASE UNCHANGED vars
  BY <1>1, <1>6 DEF vars
<1> QED
  BY <1>2, <1>3, <1>4, <1>5, <1>6 DEF FreeNext, Pushing

\* However many threads are inside popAll, head_ never passes tail_.
THEOREM HeadStaysBehindTail == FreeSpec => []HeadBehindTail
<1>1. Init => RangeInv
  BY DEF Init, RangeInv, HeadBehindTail, ConsumerPC
<1>2. RangeInv => HeadBehindTail
  BY DEF RangeInv
<1> QED
  BY <1>1, <1>2, RangeInvStep, PTL DEF FreeSpec
===============================================================================
