--------------------------- MODULE RingBufferProofs ---------------------------
(***************************************************************************)
(* Proofs about RingBuffer when popAll overlaps no other call (Spec), for  *)
(* any finite set of producers, any capacity and any word size above their *)
(* sum.  RingInv is shown to hold initially and to be kept by every step,  *)
(* one lemma per step; the properties of run `ring` and the implementation *)
(* of LogChannel follow from it.                                           *)
(* Assumed: RingCapacityAssumption, RingWordAssumption,                    *)
(* RingProducersAssumption, UnwrittenAssumption.                           *)
(***************************************************************************)
EXTENDS RingBuffer, FiniteSetTheorems, TLAPS

-------------------------------------------------------------------------------
(* Remainders by a positive number C: the arithmetic by which a growing    *)
(* index names a slot.                                                     *)

\* A remainder is the number of a cell.
LEMMA ModRange ==
    ASSUME NEW C \in Nat \ {0}, NEW n \in Int
    PROVE  n % C \in 0 .. (C - 1)
BY SMT

\* An index in the first round is its own cell.
LEMMA ModSmall ==
    ASSUME NEW C \in Nat \ {0}, NEW n \in Nat, n < C
    PROVE  n % C = n
BY SMT

\* A multiple of C that lies strictly between -C and C is zero.
LEMMA SmallMultiple ==
    ASSUME NEW C \in Nat \ {0}, NEW k \in Int, -C < C * k, C * k < C
    PROVE  k = 0
<1>1. k < 1 /\ k > -1
  BY SMT
<1> QED
  BY <1>1, SMT

\* Multiplication distributes over addition and subtraction.
LEMMA Distribute ==
    ASSUME NEW C \in Int, NEW x \in Int, NEW y \in Int
    PROVE  C * (x - y) = C * x - C * y /\ C * (x + y) = C * x + C * y /\ C * x \in Int
BY SMT

\* Division with remainder.
LEMMA Division ==
    ASSUME NEW C \in Nat \ {0}, NEW n \in Nat
    PROVE  \E q \in Int, r \in 0 .. (C - 1) : n = C * q + r /\ n % C = r
<1>1. C \in Nat /\ C > 0
  OBVIOUS
<1>2. n \div C \in Nat /\ n = C * (n \div C) + (n % C)
  BY <1>1, SMT
<1>3. n % C \in 0 .. (C - 1)
  BY ModRange
<1> DEFINE quotient == n \div C
           rest == n % C
<1>4. quotient \in Int /\ rest \in 0 .. (C - 1)
  BY <1>2, <1>3
<1>5. n = C * quotient + rest /\ n % C = rest
  BY <1>2
<1> HIDE DEF quotient, rest
<1> QED
  BY <1>4, <1>5

\* Quotient and remainder are the only ones.
LEMMA DivisionUnique ==
    ASSUME NEW C \in Nat \ {0}, NEW q \in Int, NEW r \in 0 .. (C - 1),
           NEW p \in Int, NEW s \in 0 .. (C - 1), C * q + r = C * p + s
    PROVE  q = p /\ r = s
<1>1. C * (q - p) = C * q - C * p /\ C * q \in Int /\ C * p \in Int
  BY Distribute
<1>2. C * (q - p) = s - r
  BY <1>1
<1>3. -C < C * (q - p) /\ C * (q - p) < C
  BY <1>2
<1>4. q - p = 0
  <2> HIDE <1>1
  <2> q - p \in Int
    OBVIOUS
  <2> QED
    BY <1>3, SmallMultiple
<1> QED
  BY <1>1, <1>2, <1>4

\* Numbers that a multiple of C separates have the same remainder.
LEMMA SameRemainder ==
    ASSUME NEW C \in Nat \ {0}, NEW a \in Nat, NEW b \in Nat, NEW k \in Int, a = b + C * k
    PROVE  a % C = b % C
<1>1. PICK q \in Int, r \in 0 .. (C - 1) : a = C * q + r /\ a % C = r
  BY Division
<1>2. PICK p \in Int, s \in 0 .. (C - 1) : b = C * p + s /\ b % C = s
  BY Division
<1>3. C * (p + k) = C * p + C * k /\ C * p \in Int /\ C * k \in Int /\ C * q \in Int
  BY Distribute
<1>4. C * q + r = C * (p + k) + s /\ p + k \in Int
  BY <1>1, <1>2, <1>3
<1>5. r = s
  BY <1>4, DivisionUnique
<1> QED
  BY <1>1, <1>2, <1>5

\* Fewer than C apart, two indices name the same cell only when they are the same:
\* what lets a window of C indices own the ring.
LEMMA ModInjective ==
    ASSUME NEW C \in Nat \ {0}, NEW a \in Nat, NEW b \in Nat,
           a <= b, b < a + C, a % C = b % C
    PROVE  a = b
<1>1. PICK q \in Int, r \in 0 .. (C - 1) : a = C * q + r /\ a % C = r
  BY Division
<1>2. PICK p \in Int, s \in 0 .. (C - 1) : b = C * p + s /\ b % C = s
  BY Division
<1>3. C * (p - q) = C * p - C * q /\ C * p \in Int /\ C * q \in Int /\ r = s
  BY <1>1, <1>2, Distribute
<1>4. -C < C * (p - q) /\ C * (p - q) < C
  BY <1>1, <1>2, <1>3
<1>5. p - q = 0
  BY <1>4, SmallMultiple, p - q \in Int
<1> QED
  BY <1>1, <1>2, <1>3, <1>5

\* Stepping on from the cell of an index is stepping on from the index.
LEMMA ModAdd ==
    ASSUME NEW C \in Nat \ {0}, NEW a \in Nat, NEW b \in Nat
    PROVE  ((a % C) + b) % C = (a + b) % C
<1>1. PICK q \in Int, r \in 0 .. (C - 1) : a = C * q + r /\ a % C = r
  BY Division
<1>2. a + b = (r + b) + C * q /\ r + b \in Nat /\ a + b \in Nat
  BY <1>1, Distribute
<1>3. (a + b) % C = (r + b) % C
  BY <1>2, SameRemainder
<1> QED
  BY <1>1, <1>3

\* An index and the one a round later name the same cell.
LEMMA ModNextRound ==
    ASSUME NEW C \in Nat \ {0}, NEW a \in Nat
    PROVE  (a + C) % C = a % C
<1>1. PICK k \in Int : a + C = a + C * k
  BY a + C = a + C * 1, SMT
<1>2. a + C \in Nat
  OBVIOUS
<1> QED
  BY <1>1, <1>2, SameRemainder

-------------------------------------------------------------------------------
(* The invariant.                                                          *)

\* The indices that tryPush has claimed and popAll has not handed out.
First == Len(delivered)
Window == First .. (Len(accepted) - 1)
Waiting == Len(accepted) - Len(delivered)

\* The producers that have counted themselves in size_ and hold no index.
Claiming == {p \in Producers : pPC[p] = "claim"}
Undoing == {p \in Producers : pPC[p] = "undo"}

\* popAll has taken the entries out of size_.
Popping(c) == cPC[c] \in {"loadTail", "move", "storeTail"}

\* popAll is alone in the buffer.
PopAlone ==
    \A c \in Consumers : cPC[c] # "idle" =>
        NoPushInside /\ \A d \in Consumers : cPC[d] # "idle" => c = d

\* size_ counts the entries that wait and the producers between increment and claim
\* or decrement; with the claims to come the entries never exceed the capacity.
CountInv ==
    /\ head = Len(accepted) /\ 0 <= Waiting
    /\ Waiting + Cardinality(Claiming) <= Capacity
    /\ size = IF \E c \in Consumers : Popping(c) THEN 0
              ELSE Waiting + Cardinality(Claiming) + Cardinality(Undoing)

\* popAll has moved done entries out of the count it took, from tail_ on.
PopInv ==
    \A c \in Consumers :
      /\ Popping(c) => count[c] - done[c] = Waiting
      /\ cPC[c] \in {"idle", "exchange", "loadTail"} => done[c] = 0
      /\ cPC[c] \in {"loadTail", "move"} => done[c] < count[c]
      /\ cPC[c] = "storeTail" => done[c] = count[c]
      /\ cPC[c] \in {"move", "storeTail"} =>
           from[c] = tail /\ Index(tail + done[c]) = Index(First)

\* tail_ is the slot of the next entry, except while popAll is moving entries out.
TailInv ==
    (\A c \in Consumers : cPC[c] \notin {"move", "storeTail"}) => tail = Index(First)

\* What a producer that is about to write has claimed is its own.
WriterInv ==
    /\ \A p \in Producers :
         /\ pPC[p] # "idle" => entry[p] \in Entries
         /\ pPC[p] = "write" =>
              localHead[p] \in Window /\ accepted[localHead[p] + 1] = entry[p]
    /\ \A p, q \in Producers :
         pPC[p] = "write" /\ pPC[q] = "write" /\ localHead[p] = localHead[q] => p = q

\* A claimed index has a producer about to write it, or its slot holds the entry.
SlotInv ==
    \A i \in Window :
      \/ \E p \in Producers : pPC[p] = "write" /\ localHead[p] = i
      \/ buffer[Index(i)] = accepted[i + 1]

RingInv ==
    /\ TypeOK /\ PopAlone /\ CountInv /\ PopInv /\ TailInv /\ WriterInv /\ SlotInv
    /\ DeliveredInOrder

-------------------------------------------------------------------------------
(* The number of producers at a step.                                      *)

\* Counting producers gives a number that is at most all of them.
LEMMA CountFacts ==
    /\ IsFiniteSet(Claiming) /\ IsFiniteSet(Undoing)
    /\ Cardinality(Claiming) \in Nat /\ Cardinality(Undoing) \in Nat
    /\ Cardinality(Producers) \in Nat /\ Cardinality(Undoing) <= Cardinality(Producers)
<1>1. Claiming \in SUBSET Producers /\ Undoing \in SUBSET Producers
  BY DEF Claiming, Undoing
<1> QED
  BY <1>1, RingProducersAssumption, FS_Subset, FS_CardinalityType

\* A producer that moves on is counted where it arrives and no longer where it was.
LEMMA CountMoves ==
    ASSUME TypeOK, NEW p \in Producers, NEW there, there # pPC[p],
           pPC' = [pPC EXCEPT ![p] = there]
    PROVE  /\ Cardinality(Claiming') =
                IF there = "claim" THEN Cardinality(Claiming) + 1
                ELSE IF pPC[p] = "claim" THEN Cardinality(Claiming) - 1
                ELSE Cardinality(Claiming)
           /\ Cardinality(Undoing') =
                IF there = "undo" THEN Cardinality(Undoing) + 1
                ELSE IF pPC[p] = "undo" THEN Cardinality(Undoing) - 1
                ELSE Cardinality(Undoing)
           /\ Cardinality(Undoing') <= Cardinality(Producers)
<1>1. \A q \in Producers : pPC'[q] = IF q = p THEN there ELSE pPC[q]
  BY DEF TypeOK
<1>2. Claiming' = IF there = "claim" THEN Claiming \cup {p} ELSE Claiming \ {p}
  BY <1>1 DEF Claiming
<1>3. Undoing' = IF there = "undo" THEN Undoing \cup {p} ELSE Undoing \ {p}
  BY <1>1 DEF Undoing
<1>4. (p \in Claiming <=> pPC[p] = "claim") /\ (p \in Undoing <=> pPC[p] = "undo")
  BY DEF Claiming, Undoing
<1>5. Undoing' \in SUBSET Producers
  BY DEF Undoing
<1>6. Cardinality(Undoing') <= Cardinality(Producers)
  BY <1>5, RingProducersAssumption, FS_Subset
<1>7. /\ Cardinality(Claiming \cup {p}) =
           IF p \in Claiming THEN Cardinality(Claiming) ELSE Cardinality(Claiming) + 1
      /\ Cardinality(Claiming \ {p}) =
           IF p \in Claiming THEN Cardinality(Claiming) - 1 ELSE Cardinality(Claiming)
  BY CountFacts, FS_AddElement, FS_RemoveElement
<1>8. /\ Cardinality(Undoing \cup {p}) =
           IF p \in Undoing THEN Cardinality(Undoing) ELSE Cardinality(Undoing) + 1
      /\ Cardinality(Undoing \ {p}) =
           IF p \in Undoing THEN Cardinality(Undoing) - 1 ELSE Cardinality(Undoing)
  BY CountFacts, FS_AddElement, FS_RemoveElement
<1>9. /\ Cardinality(Claiming') =
           IF there = "claim" THEN Cardinality(Claiming) + 1
           ELSE IF pPC[p] = "claim" THEN Cardinality(Claiming) - 1
           ELSE Cardinality(Claiming)
  BY <1>2, <1>4, <1>7
<1>10. /\ Cardinality(Undoing') =
           IF there = "undo" THEN Cardinality(Undoing) + 1
           ELSE IF pPC[p] = "undo" THEN Cardinality(Undoing) - 1
           ELSE Cardinality(Undoing)
  BY <1>3, <1>4, <1>8
<1> QED
  BY <1>6, <1>9, <1>10

\* Nobody counts while no producer is inside tryPush.
LEMMA CountNobody ==
    ASSUME NoPushInside
    PROVE  Cardinality(Claiming) = 0 /\ Cardinality(Undoing) = 0
<1>1. Claiming = {} /\ Undoing = {}
  BY DEF NoPushInside, Claiming, Undoing
<1> QED
  BY <1>1, FS_EmptySet

\* The window of claimed indices, and what the lengths are.
LEMMA WindowFacts ==
    ASSUME RingInv
    PROVE  /\ First \in Nat /\ Len(accepted) \in Nat /\ Waiting \in Nat /\ Waiting <= Capacity
           /\ Window \subseteq Nat /\ head \in Nat
           /\ \A i \in Window : \A j \in Window : Index(i) = Index(j) => i = j
<1>1. /\ First \in Nat /\ Len(accepted) \in Nat /\ Waiting \in Nat /\ Waiting <= Capacity
      /\ Window \subseteq Nat /\ head \in Nat
  BY CountFacts, RingCapacityAssumption
  DEF RingInv, TypeOK, CountInv, First, Waiting, Window
<1>2. ASSUME NEW i \in Window, NEW j \in Window, Index(i) = Index(j), i <= j PROVE i = j
  <2>1. i \in Nat /\ j \in Nat /\ j < i + Capacity
    BY <1>1, RingCapacityAssumption DEF Window, Waiting, First
  <2> QED
    BY <1>2, <2>1, RingCapacityAssumption, ModInjective DEF Index
<1>3. \A i \in Window : \A j \in Window : i <= j \/ j <= i
  BY <1>1
<1> QED
  BY <1>1, <1>2, <1>3

\* A slot has the number of an index.
LEMMA IndexInSlots ==
    ASSUME NEW i \in Nat
    PROVE  Index(i) \in Slots
BY RingCapacityAssumption, ModRange DEF Index, Slots

\* What appending one element to a sequence gives.
LEMMA AppendFacts ==
    ASSUME NEW S, NEW s \in Seq(S), NEW e \in S
    PROVE  /\ Append(s, e) \in Seq(S)
           /\ Len(Append(s, e)) = Len(s) + 1
           /\ \A k \in 1 .. Len(s) : Append(s, e)[k] = s[k]
           /\ Append(s, e)[Len(s) + 1] = e
BY SMT

-------------------------------------------------------------------------------
(* tryPush keeps the invariant.                                            *)

\* While a producer is inside tryPush no consumer is inside popAll.
LEMMA PushAlone ==
    ASSUME RingInv, NEW p \in Producers, pPC[p] # "idle"
    PROVE  NoPopInside
BY DEF RingInv, PopAlone, NoPushInside, NoPopInside

\* A step before the reservation, or a return from there, moves no counter and no slot.
LEMMA LocalPushInv ==
    ASSUME RingInv, NEW p \in Producers, NoPopInside,
           pPC[p] \in {"idle", "loadSize", "reserve"},
           NEW there \in {"idle", "loadSize", "reserve"}, there # pPC[p],
           pPC' = [pPC EXCEPT ![p] = there],
           entry' \in [Producers -> Entries \cup {Unwritten}],
           there # "idle" => entry'[p] \in Entries,
           localHead' \in [Producers -> Nat],
           \A q \in Producers \ {p} : entry'[q] = entry[q] /\ localHead'[q] = localHead[q],
           UNCHANGED <<head, tail, size, buffer, consumerVars, history>>
    PROVE  RingInv'
<1> USE DEF RingInv, consumerVars, history
<1>1. \A q \in Producers : pPC'[q] = IF q = p THEN there ELSE pPC[q]
  BY DEF TypeOK
<1>2. TypeOK'
  BY <1>1 DEF TypeOK
<1>3. PopAlone'
  BY DEF PopAlone, NoPopInside
<1>4. CountInv'
  BY CountMoves DEF CountInv, Waiting, Popping
<1>5. PopInv' /\ TailInv'
  BY DEF PopInv, TailInv, Popping, Waiting, First, Index
<1>6. WriterInv'
  BY <1>1 DEF WriterInv, Window, First
<1>7. SlotInv'
  BY <1>1 DEF SlotInv, Window, First
<1>8. DeliveredInOrder'
  BY DEF DeliveredInOrder
<1> QED
  BY <1>2, <1>3, <1>4, <1>5, <1>6, <1>7, <1>8

\* tryPush is called; nothing shared changes.
LEMMA PushBeginInv ==
    ASSUME RingInv, NEW p \in Producers, NEW e \in Entries, NoPopInside, PushBegin(p, e)
    PROVE  RingInv'
<1>1. pPC[p] = "idle" /\ pPC' = [pPC EXCEPT ![p] = "loadSize"]
  BY DEF PushBegin, PushGoto
<1>2. entry' \in [Producers -> Entries \cup {Unwritten}] /\ entry'[p] = e
      /\ localHead' \in [Producers -> Nat]
      /\ \A q \in Producers \ {p} : entry'[q] = entry[q] /\ localHead'[q] = localHead[q]
  BY DEF PushBegin, RingInv, TypeOK
<1>3. UNCHANGED <<head, tail, size, buffer, consumerVars, history>>
  BY DEF PushBegin
<1> QED
  BY <1>1, <1>2, <1>3, LocalPushInv

\* tryPush returns false: size_ was at the capacity.
LEMMA PushFullInv ==
    ASSUME RingInv, NEW p \in Producers, PushFull(p)
    PROVE  RingInv'
<1>1. pPC[p] = "loadSize" /\ pPC' = [pPC EXCEPT ![p] = "idle"]
  BY DEF PushFull, PushReturn, PushGoto
<1>2. entry' \in [Producers -> Entries \cup {Unwritten}]
      /\ localHead' \in [Producers -> Nat]
      /\ \A q \in Producers \ {p} : entry'[q] = entry[q] /\ localHead'[q] = localHead[q]
  BY DEF PushFull, PushReturn, RingInv, TypeOK
<1>3. UNCHANGED <<head, tail, size, buffer, consumerVars, history>>
  BY DEF PushFull
<1> QED
  BY <1>1, <1>2, <1>3, PushAlone, LocalPushInv

\* tryPush saw room; another producer may still take it.
LEMMA PushRoomInv ==
    ASSUME RingInv, NEW p \in Producers, PushRoom(p)
    PROVE  RingInv'
<1>1. pPC[p] = "loadSize" /\ pPC' = [pPC EXCEPT ![p] = "reserve"]
  BY DEF PushRoom, PushGoto
<1>2. entry' \in [Producers -> Entries \cup {Unwritten}]
      /\ localHead' \in [Producers -> Nat] /\ UNCHANGED <<entry, localHead>>
  BY DEF PushRoom, RingInv, TypeOK
<1>3. UNCHANGED <<head, tail, size, buffer, consumerVars, history>>
  BY DEF PushRoom
<1>4. entry[p] \in Entries
  BY <1>1 DEF RingInv, WriterInv
<1> QED
  BY <1>1, <1>2, <1>3, <1>4, PushAlone, LocalPushInv

\* A step that only counts the producer in or out of size_.
LEMMA CountedPushInv ==
    ASSUME RingInv, NEW p \in Producers, NoPopInside, pPC[p] \notin {"idle", "write"},
           NEW there \in {"idle", "undo", "claim"}, there # pPC[p],
           pPC' = [pPC EXCEPT ![p] = there],
           entry' \in [Producers -> Entries \cup {Unwritten}],
           there # "idle" => entry'[p] \in Entries,
           localHead' \in [Producers -> Nat],
           \A q \in Producers \ {p} : entry'[q] = entry[q] /\ localHead'[q] = localHead[q],
           size' \in 0 .. (Word - 1), CountInv',
           UNCHANGED <<head, tail, buffer, consumerVars, history>>
    PROVE  RingInv'
<1> USE DEF RingInv, consumerVars, history
<1>1. \A q \in Producers : pPC'[q] = IF q = p THEN there ELSE pPC[q]
  BY DEF TypeOK
<1>2. TypeOK'
  BY <1>1 DEF TypeOK
<1>3. PopAlone'
  BY DEF PopAlone, NoPopInside
<1>4. PopInv' /\ TailInv'
  BY DEF PopInv, TailInv, Popping, Waiting, First, Index
<1>5. WriterInv'
  BY <1>1 DEF WriterInv, Window, First
<1>6. SlotInv'
  BY <1>1 DEF SlotInv, Window, First
<1>7. DeliveredInOrder'
  BY DEF DeliveredInOrder
<1> QED
  BY <1>2, <1>3, <1>4, <1>5, <1>6, <1>7

\* What size_ counts while no consumer is inside, and that it is below the word.
LEMMA SizeFacts ==
    ASSUME RingInv, NoPopInside
    PROVE  /\ size = Waiting + Cardinality(Claiming) + Cardinality(Undoing)
           /\ size \in Nat /\ size < Word
           /\ \A c \in Consumers : ~Popping(c)
<1>1. \A c \in Consumers : ~Popping(c)
  BY DEF NoPopInside, Popping
<1> QED
  BY <1>1, RingWordAssumption DEF RingInv, CountInv, TypeOK

\* A value of size_t is not changed by the arithmetic.
LEMMA WrapSmall ==
    ASSUME NEW x \in Nat, x < Word
    PROVE  Wrap(x) = x
<1>1. Word \in Nat \ {0}
  BY RingWordAssumption, RingCapacityAssumption
<1> QED
  BY <1>1, ModSmall DEF Wrap

\* fetch_add reserves: the entries and the claims to come stay within the capacity.
LEMMA PushReserveInv ==
    ASSUME RingInv, NEW p \in Producers, PushReserve(p)
    PROVE  RingInv'
<1> USE DEF PushReserve, PushGoto
<1>1. NoPopInside /\ entry[p] \in Entries
  BY PushAlone DEF RingInv, WriterInv
<1>2. Cardinality(Claiming') = Cardinality(Claiming) + 1
      /\ Cardinality(Undoing') = Cardinality(Undoing)
  BY CountMoves DEF RingInv
<1>3. size + 1 < Word /\ size' = size + 1
  BY <1>1, SizeFacts, WrapSmall, RingWordAssumption, RingCapacityAssumption
<1>4. CountInv'
  <2>1. Waiting' = Waiting /\ head' = Len(accepted') /\ \A c \in Consumers : ~Popping(c)'
    BY <1>1, SizeFacts DEF RingInv, CountInv, Waiting, Popping, consumerVars, history
  <2>2. Waiting' + Cardinality(Claiming') <= Capacity
    BY <1>1, <1>2, <2>1, SizeFacts, CountFacts, WindowFacts, RingCapacityAssumption
  <2> QED
    BY <1>1, <1>2, <1>3, <2>1, <2>2, SizeFacts, CountFacts, WindowFacts DEF CountInv
<1>5. size' \in 0 .. (Word - 1)
  BY <1>1, <1>3, SizeFacts, RingWordAssumption
<1> QED
  BY <1>1, <1>4, <1>5, CountedPushInv DEF RingInv, TypeOK

\* fetch_add overshoots: size_ counts the producer until it undoes it.
LEMMA PushOvershootInv ==
    ASSUME RingInv, NEW p \in Producers, PushOvershoot(p)
    PROVE  RingInv'
<1> USE DEF PushOvershoot, PushGoto
<1>1. NoPopInside /\ entry[p] \in Entries
  BY PushAlone DEF RingInv, WriterInv
<1>2. Cardinality(Claiming') = Cardinality(Claiming)
      /\ Cardinality(Undoing') = Cardinality(Undoing) + 1
      /\ Cardinality(Undoing') <= Cardinality(Producers)
  BY CountMoves DEF RingInv
<1>3. size + 1 < Word /\ size' = size + 1
  <2>1. Waiting + Cardinality(Claiming) <= Capacity
    BY DEF RingInv, CountInv
  <2>2. size + 1 < Word
    BY <1>1, <1>2, <2>1, SizeFacts, CountFacts, WindowFacts, RingProducersAssumption,
       RingWordAssumption, RingCapacityAssumption
  <2> QED
    BY <1>1, <2>2, SizeFacts, WrapSmall
<1>4. CountInv'
  <2>1. Waiting' = Waiting /\ head' = Len(accepted') /\ \A c \in Consumers : ~Popping(c)'
    BY <1>1, SizeFacts DEF RingInv, CountInv, Waiting, Popping, consumerVars, history
  <2>2. /\ size = Waiting + Cardinality(Claiming) + Cardinality(Undoing)
        /\ Waiting + Cardinality(Claiming) <= Capacity
        /\ Waiting \in Nat /\ Cardinality(Claiming) \in Nat /\ Cardinality(Undoing) \in Nat
    BY <1>1, SizeFacts, CountFacts, WindowFacts DEF CountInv, RingInv
  <2>3. size' = Waiting' + Cardinality(Claiming') + Cardinality(Undoing')
        /\ Waiting' + Cardinality(Claiming') <= Capacity /\ 0 <= Waiting'
    BY <1>2, <1>3, <2>1, <2>2
  <2> QED
    BY <2>1, <2>3 DEF CountInv
<1>5. size' \in 0 .. (Word - 1)
  BY <1>1, <1>3, SizeFacts, RingWordAssumption
<1> QED
  BY <1>1, <1>4, <1>5, CountedPushInv DEF RingInv, TypeOK

\* fetch_sub takes back exactly what the producer had added.
LEMMA PushUndoInv ==
    ASSUME RingInv, NEW p \in Producers, PushUndo(p)
    PROVE  RingInv'
<1> USE DEF PushUndo, PushReturn, PushGoto
<1>1. NoPopInside
  BY PushAlone
<1>2. Cardinality(Claiming') = Cardinality(Claiming)
      /\ Cardinality(Undoing') = Cardinality(Undoing) - 1
  <2>1. TypeOK /\ pPC[p] = "undo" /\ pPC' = [pPC EXCEPT ![p] = "idle"]
    BY DEF RingInv
  <2> QED
    BY <2>1, CountMoves
<1>3. size > 0 /\ size' = size - 1
  <2>1. Cardinality(Undoing) > 0
    <3>1. p \in Undoing
      BY DEF Undoing
    <3> QED
      BY <3>1, CountFacts, FS_EmptySet
  <2>2. size > 0 /\ size - 1 \in Nat /\ size - 1 < Word
    BY <1>1, <2>1, SizeFacts, CountFacts, WindowFacts, RingWordAssumption
  <2> QED
    BY <2>2, WrapSmall
<1>4. CountInv'
  <2>1. Waiting' = Waiting /\ head' = Len(accepted') /\ \A c \in Consumers : ~Popping(c)'
    BY <1>1, SizeFacts DEF RingInv, CountInv, Waiting, Popping, consumerVars, history
  <2>2. /\ size = Waiting + Cardinality(Claiming) + Cardinality(Undoing)
        /\ Waiting + Cardinality(Claiming) <= Capacity
        /\ Waiting \in Nat /\ Cardinality(Claiming) \in Nat /\ Cardinality(Undoing) \in Nat
    BY <1>1, SizeFacts, CountFacts, WindowFacts DEF CountInv, RingInv
  <2>3. size' = Waiting' + Cardinality(Claiming') + Cardinality(Undoing')
        /\ Waiting' + Cardinality(Claiming') <= Capacity /\ 0 <= Waiting'
    BY <1>2, <1>3, <2>1, <2>2
  <2> QED
    BY <2>1, <2>3 DEF CountInv
<1>5. size' \in 0 .. (Word - 1)
  BY <1>1, <1>3, SizeFacts, RingWordAssumption
<1> QED
  BY <1>1, <1>4, <1>5, CountedPushInv DEF RingInv, TypeOK

\* The producer claims the next index; its slot is nobody else's, because the window
\* is never longer than the buffer.
LEMMA PushClaimInv ==
    ASSUME RingInv, NEW p \in Producers, PushClaim(p)
    PROVE  RingInv'
<1> USE DEF PushClaim, PushGoto
<1>1. NoPopInside /\ entry[p] \in Entries /\ TypeOK
      /\ pPC[p] = "claim" /\ pPC' = [pPC EXCEPT ![p] = "write"]
  BY PushAlone DEF RingInv, WriterInv
<1>2. Cardinality(Claiming') = Cardinality(Claiming) - 1
      /\ Cardinality(Undoing') = Cardinality(Undoing)
  BY <1>1, CountMoves
<1>3. Cardinality(Claiming) > 0
  <2>1. p \in Claiming
    BY <1>1 DEF Claiming
  <2> QED
    BY <2>1, CountFacts, FS_EmptySet
<1>4. /\ accepted' \in Seq(Entries) /\ Len(accepted') = Len(accepted) + 1
      /\ \A k \in 1 .. Len(accepted) : accepted'[k] = accepted[k]
      /\ accepted'[Len(accepted) + 1] = entry[p]
  BY <1>1, AppendFacts DEF TypeOK
<1>5. /\ \A q \in Producers : pPC'[q] = IF q = p THEN "write" ELSE pPC[q]
      /\ \A q \in Producers : localHead'[q] = IF q = p THEN Len(accepted) ELSE localHead[q]
  BY <1>1 DEF TypeOK, RingInv, CountInv
<1>6. TypeOK'
  BY <1>1, <1>4 DEF TypeOK, consumerVars
<1>7. PopAlone'
  BY <1>1 DEF PopAlone, NoPopInside, consumerVars
<1>8. CountInv'
  <2>1. Waiting' = Waiting + 1 /\ head' = Len(accepted') /\ \A c \in Consumers : ~Popping(c)'
    BY <1>1, <1>4, SizeFacts, WindowFacts DEF RingInv, CountInv, Waiting, Popping, consumerVars
  <2>2. /\ size = Waiting + Cardinality(Claiming) + Cardinality(Undoing)
        /\ Waiting + Cardinality(Claiming) <= Capacity
        /\ Waiting \in Nat /\ Cardinality(Claiming) \in Nat /\ Cardinality(Undoing) \in Nat
    BY <1>1, SizeFacts, CountFacts, WindowFacts DEF CountInv, RingInv
  <2>3. size' = Waiting' + Cardinality(Claiming') + Cardinality(Undoing')
        /\ Waiting' + Cardinality(Claiming') <= Capacity /\ 0 <= Waiting'
    BY <1>2, <1>3, <2>1, <2>2
  <2> QED
    BY <2>1, <2>3 DEF CountInv
<1>9. PopInv' /\ TailInv'
  BY <1>1 DEF RingInv, PopInv, TailInv, Popping, NoPopInside, First, Index, consumerVars
<1>10. Window' = Window \cup {Len(accepted)} /\ Len(accepted) \notin Window
  BY <1>1, <1>4, WindowFacts DEF Window, First, Waiting
<1>11. WriterInv'
  BY <1>1, <1>4, <1>5, <1>10, WindowFacts DEF RingInv, WriterInv, Window
<1>12. SlotInv'
  <2> SUFFICES ASSUME NEW i \in Window \cup {Len(accepted)}
               PROVE  \/ \E q \in Producers : pPC'[q] = "write" /\ localHead'[q] = i
                      \/ buffer'[Index(i)] = accepted'[i + 1]
    BY <1>10 DEF SlotInv, Index
  <2>1. CASE i = Len(accepted)
    BY <1>5, <2>1
  <2>2. CASE i \in Window
    <3>1. accepted'[i + 1] = accepted[i + 1]
      BY <1>4, <2>2, WindowFacts DEF Window
    <3> QED
      BY <1>1, <1>5, <2>2, <3>1 DEF RingInv, SlotInv
  <2> QED
    BY <2>1, <2>2
<1>13. DeliveredInOrder'
  BY <1>1, <1>4, WindowFacts DEF RingInv, DeliveredInOrder, First
<1> QED
  BY <1>6, <1>7, <1>8, <1>9, <1>11, <1>12, <1>13 DEF RingInv

\* The entry goes into the claimed slot, and into no other index's slot.
LEMMA PushWriteInv ==
    ASSUME RingInv, NEW p \in Producers, PushWrite(p)
    PROVE  RingInv'
<1> USE DEF PushWrite, PushReturn, PushGoto
<1>1. NoPopInside /\ TypeOK /\ pPC[p] = "write" /\ pPC' = [pPC EXCEPT ![p] = "idle"]
  BY PushAlone DEF RingInv
<1>2. Cardinality(Claiming') = Cardinality(Claiming)
      /\ Cardinality(Undoing') = Cardinality(Undoing)
  BY <1>1, CountMoves
<1>3. /\ entry[p] \in Entries /\ localHead[p] \in Window
      /\ accepted[localHead[p] + 1] = entry[p]
  BY <1>1 DEF RingInv, WriterInv
<1>4. /\ \A q \in Producers : pPC'[q] = IF q = p THEN "idle" ELSE pPC[q]
      /\ \A q \in Producers \ {p} : localHead'[q] = localHead[q] /\ entry'[q] = entry[q]
  BY <1>1 DEF TypeOK
<1>5. Index(localHead[p]) \in Slots
  BY <1>3, WindowFacts, IndexInSlots
<1>6. TypeOK'
  BY <1>1, <1>3, <1>5 DEF TypeOK, consumerVars, history
<1>7. PopAlone'
  BY <1>1 DEF PopAlone, NoPopInside, consumerVars
<1>8. CountInv'
  BY <1>2 DEF RingInv, CountInv, Waiting, Popping, consumerVars, history
<1>9. PopInv' /\ TailInv'
  BY DEF RingInv, PopInv, TailInv, Popping, Waiting, First, Index, consumerVars, history
<1>10. WriterInv'
  BY <1>1, <1>4 DEF RingInv, WriterInv, Window, First, history
<1>11. SlotInv'
  <2> SUFFICES ASSUME NEW i \in Window
               PROVE  \/ \E q \in Producers : pPC'[q] = "write" /\ localHead'[q] = i
                      \/ buffer'[Index(i)] = accepted[i + 1]
    BY DEF SlotInv, Window, First, Index, history
  <2>1. CASE i = localHead[p]
    BY <1>1, <1>3, <1>5, <2>1 DEF TypeOK
  <2>2. CASE i # localHead[p]
    <3>1. Index(i) # Index(localHead[p]) /\ Index(i) \in Slots
      BY <1>3, <2>2, WindowFacts, IndexInSlots
    <3>2. buffer'[Index(i)] = buffer[Index(i)]
      BY <1>1, <3>1 DEF TypeOK
    <3> QED
      BY <1>4, <2>2, <3>2 DEF RingInv, SlotInv
  <2> QED
    BY <2>1, <2>2
<1>12. DeliveredInOrder'
  BY DEF RingInv, DeliveredInOrder, history
<1> QED
  BY <1>6, <1>7, <1>8, <1>9, <1>10, <1>11, <1>12 DEF RingInv

-------------------------------------------------------------------------------
(* popAll keeps the invariant.                                             *)

\* While a consumer is inside popAll nobody else is in the buffer.
LEMMA PopIsAlone ==
    ASSUME RingInv, NEW c \in Consumers, cPC[c] # "idle"
    PROVE  /\ NoPushInside /\ \A d \in Consumers \ {c} : cPC[d] = "idle"
           /\ Cardinality(Claiming) = 0 /\ Cardinality(Undoing) = 0
BY CountNobody DEF RingInv, PopAlone

\* The parts that a step of popAll cannot disturb as long as it moves nothing out.
LEMMA LocalPopInv ==
    ASSUME RingInv, NEW c \in Consumers, NoPushInside,
           \A d \in Consumers \ {c} : cPC[d] = "idle",
           NEW there \in {"idle", "exchange", "loadTail", "move", "storeTail"},
           cPC' = [cPC EXCEPT ![c] = there],
           TypeOK', CountInv', PopInv', TailInv',
           UNCHANGED <<head, buffer, producerVars, history>>
    PROVE  RingInv'
<1> USE DEF RingInv, producerVars, history
<1>1. \A d \in Consumers : cPC'[d] = IF d = c THEN there ELSE cPC[d]
  BY DEF TypeOK
<1>2. PopAlone'
  BY <1>1 DEF PopAlone, NoPushInside
<1>3. WriterInv' /\ SlotInv' /\ DeliveredInOrder'
  BY DEF WriterInv, SlotInv, DeliveredInOrder, Window, First, Index
<1> QED
  BY <1>2, <1>3

\* popAll is called while no producer is inside tryPush.
LEMMA PopCallInv ==
    ASSUME RingInv, NEW c \in Consumers, NoPushInside, NoPopInside, PopCall(c)
    PROVE  RingInv'
<1> USE DEF PopCall, PopGoto, producerVars, history
<1>1. \A d \in Consumers : cPC'[d] = IF d = c THEN "exchange" ELSE "idle"
  BY DEF RingInv, TypeOK, NoPopInside
<1>2. TypeOK'
  BY DEF RingInv, TypeOK
<1>3. CountInv'
  BY <1>1 DEF RingInv, CountInv, Popping, NoPopInside, Waiting, Claiming, Undoing
<1>4. PopInv' /\ TailInv'
  BY <1>1 DEF RingInv, PopInv, TailInv, Popping, NoPopInside, First, Index
<1> QED
  BY <1>2, <1>3, <1>4, LocalPopInv DEF NoPopInside

\* popAll finds size_ zero and returns.
LEMMA PopEmptyInv ==
    ASSUME RingInv, NEW c \in Consumers, PopEmpty(c)
    PROVE  RingInv'
<1> USE DEF PopEmpty, PopReturn, PopGoto, producerVars, history
<1>1. cPC[c] = "exchange" /\ \A d \in Consumers \ {c} : cPC[d] = "idle"
  BY PopIsAlone
<1>2. \A d \in Consumers : cPC'[d] = "idle"
  BY <1>1 DEF RingInv, TypeOK
<1>3. TypeOK'
  BY RingCapacityAssumption, RingWordAssumption DEF RingInv, TypeOK, Slots
<1>4. CountInv'
  BY <1>1, <1>2 DEF RingInv, CountInv, Popping, Waiting, Claiming, Undoing
<1>5. PopInv' /\ TailInv'
  BY <1>1, <1>2 DEF RingInv, TypeOK, PopInv, TailInv, Popping, First, Index
<1> QED
  BY <1>1, <1>3, <1>4, <1>5, PopIsAlone, LocalPopInv

\* popAll takes size_, which is the number of entries that wait.
LEMMA PopExchangeInv ==
    ASSUME RingInv, NEW c \in Consumers, PopExchange(c)
    PROVE  RingInv'
<1> USE DEF PopExchange, PopGoto, producerVars, history
<1>1. /\ cPC[c] = "exchange" /\ \A d \in Consumers \ {c} : cPC[d] = "idle"
      /\ Cardinality(Claiming) = 0 /\ Cardinality(Undoing) = 0
  BY PopIsAlone
<1>2. \A d \in Consumers : cPC'[d] = IF d = c THEN "loadTail" ELSE "idle"
  BY <1>1 DEF RingInv, TypeOK
<1>3. TypeOK'
  BY RingWordAssumption, RingCapacityAssumption DEF RingInv, TypeOK
<1>4. size = Waiting /\ size > 0
  <2>1. ~\E d \in Consumers : Popping(d)
    BY <1>1 DEF Popping
  <2> QED
    BY <1>1, <2>1, WindowFacts DEF RingInv, CountInv, PopExchange
<1>5. CountInv'
  <2>1. Popping(c)'
    BY <1>2 DEF Popping
  <2> QED
    BY <2>1 DEF RingInv, CountInv, Waiting, Claiming
<1>6. PopInv' /\ TailInv'
  BY <1>1, <1>2, <1>4, WindowFacts DEF RingInv, TypeOK, PopInv, TailInv, Popping, First,
     Waiting, Index
<1> QED
  BY <1>1, <1>3, <1>5, <1>6, PopIsAlone, LocalPopInv

\* popAll reads tail_, the slot of the first entry that waits.
LEMMA PopLoadTailInv ==
    ASSUME RingInv, NEW c \in Consumers, PopLoadTail(c)
    PROVE  RingInv'
<1> USE DEF PopLoadTail, PopGoto, producerVars, history
<1>1. cPC[c] = "loadTail" /\ \A d \in Consumers \ {c} : cPC[d] = "idle"
  BY PopIsAlone
<1>2. \A d \in Consumers : cPC'[d] = IF d = c THEN "move" ELSE "idle"
  BY <1>1 DEF RingInv, TypeOK
<1>3. TypeOK'
  BY DEF RingInv, TypeOK
<1>4. CountInv'
  BY <1>1, <1>2 DEF RingInv, CountInv, Popping, Waiting, Claiming, Undoing
<1>5. PopInv' /\ TailInv'
  <2>1. tail = Index(First) /\ done[c] = 0 /\ tail \in Nat /\ tail < Capacity
    <3>1. tail = Index(First)
      BY <1>1 DEF RingInv, TailInv
    <3>2. done[c] = 0
      BY <1>1 DEF RingInv, PopInv
    <3>3. tail \in Nat /\ tail < Capacity
      BY RingCapacityAssumption DEF RingInv, TypeOK, Slots
    <3> QED
      BY <3>1, <3>2, <3>3
  <2>2. Index(tail) = Index(First)
    <3>1. Index(tail) = tail
      BY <2>1, RingCapacityAssumption, ModSmall DEF Index
    <3> QED
      BY <2>1, <3>1
  <2> QED
    BY <1>1, <1>2, <2>1, <2>2 DEF RingInv, TypeOK, PopInv, TailInv, Popping, First, Waiting,
       Index
<1> QED
  BY <1>1, <1>3, <1>4, <1>5, PopIsAlone, LocalPopInv

\* What popAll moves out is the next accepted entry (log_buffer.cpp: the slot of
\* tail_ + i was written before size_ was read).
LEMMA MovedEntry ==
    ASSUME RingInv, NEW c \in Consumers, cPC[c] = "move"
    PROVE  /\ First \in Window /\ Len(delivered) < Len(accepted)
           /\ buffer[Index(from[c] + done[c])] = accepted[First + 1]
           /\ accepted[First + 1] \in Entries
<1>1. Waiting > 0
  BY WindowFacts DEF RingInv, TypeOK, PopInv, Popping
<1>2. First \in Window /\ Len(delivered) < Len(accepted)
  BY <1>1, WindowFacts DEF Window, First, Waiting
<1>3. Index(from[c] + done[c]) = Index(First)
  BY DEF RingInv, PopInv
<1>4. buffer[Index(First)] = accepted[First + 1]
  BY <1>2, PopIsAlone DEF RingInv, SlotInv, NoPushInside
<1>5. accepted[First + 1] \in Entries
  BY <1>2, WindowFacts DEF RingInv, TypeOK, First
<1> QED
  BY <1>2, <1>3, <1>4, <1>5

\* popAll moves one entry out and the window shrinks at its first index.
LEMMA PopMoveInv ==
    ASSUME RingInv, NEW c \in Consumers, PopMove(c)
    PROVE  RingInv'
<1> DEFINE next == IF done[c] + 1 < count[c] THEN "move" ELSE "storeTail"
           moved == buffer[Index(from[c] + done[c])]
<1>1. /\ TypeOK /\ cPC[c] = "move" /\ cPC' = [cPC EXCEPT ![c] = next]
      /\ delivered' = Append(delivered, moved) /\ done' = [done EXCEPT ![c] = @ + 1]
      /\ batch' = [batch EXCEPT ![c] = Append(@, moved)]
      /\ UNCHANGED <<head, tail, size, buffer, pPC, entry, localHead, from, count, accepted>>
  BY DEF PopMove, PopGoto, producerVars, RingInv
<1>2. moved = accepted[First + 1] /\ moved \in Entries /\ First \in Window
  BY <1>1, MovedEntry
<1>3. /\ delivered' \in Seq(Entries \cup {Unwritten}) /\ Len(delivered') = Len(delivered) + 1
      /\ \A k \in 1 .. Len(delivered) : delivered'[k] = delivered[k]
      /\ delivered'[Len(delivered) + 1] = moved
  BY <1>1, <1>2, AppendFacts DEF TypeOK
<1>4. NoPushInside /\ \A d \in Consumers \ {c} : cPC[d] = "idle"
  BY <1>1, PopIsAlone
<1> HIDE DEF moved
<1>5. TypeOK'
  <2>1. batch' \in [Consumers -> Seq(Entries \cup {Unwritten})]
    BY <1>1, <1>2, AppendFacts DEF TypeOK
  <2> QED
    BY <1>1, <1>3, <2>1 DEF TypeOK
<1>6. \A d \in Consumers : /\ cPC'[d] = IF d = c THEN next ELSE "idle"
                           /\ done'[d] = IF d = c THEN done[c] + 1 ELSE done[d]
  BY <1>1, <1>4 DEF TypeOK
<1> HIDE DEF next
<1>7. next \in {"move", "storeTail"}
      /\ next = IF done[c] + 1 < count[c] THEN "move" ELSE "storeTail"
  BY DEF next
<1>8. PopAlone'
  BY <1>1, <1>4, <1>6 DEF PopAlone, NoPushInside
<1>9. Waiting' = Waiting - 1 /\ First' = First + 1 /\ Waiting >= 1
      /\ Window' = Window \ {First}
  BY <1>1, <1>2, <1>3, WindowFacts DEF Waiting, First, Window
<1>10. CountInv'
  <2>1. Popping(c) /\ Popping(c)'
    BY <1>1, <1>6, <1>7 DEF Popping
  <2>2. Cardinality(Claiming') = 0 /\ Cardinality(Claiming) = 0
    BY <1>1, PopIsAlone DEF Claiming
  <2>3. size = 0 /\ head = Len(accepted)
    BY <2>1 DEF RingInv, CountInv
  <2>4. head' = Len(accepted')
    BY <1>1, <2>3
  <2>5. 0 <= Waiting' /\ Waiting' + Cardinality(Claiming') <= Capacity
    <3>1. Waiting \in Nat /\ Waiting + Cardinality(Claiming) <= Capacity
      BY WindowFacts DEF RingInv, CountInv
    <3>2. Waiting' = Waiting - 1 /\ Waiting >= 1
      BY <1>9
    <3> QED
      BY <2>2, <3>1, <3>2, RingCapacityAssumption
  <2>6. size' = 0 /\ \E d \in Consumers : Popping(d)'
    BY <1>1, <2>1, <2>3
  <2> QED
    BY <2>4, <2>5, <2>6 DEF CountInv
<1>11. PopInv' /\ TailInv'
  <2>1. done[c] \in Nat /\ count[c] \in Nat /\ tail \in Nat
    BY <1>1 DEF TypeOK, Slots
  <2>2. Index(tail + (done[c] + 1)) = Index(First + 1)
    <3>1. Index(tail + done[c]) = Index(First)
      BY <1>1 DEF RingInv, PopInv
    <3>2. Index(Index(tail + done[c]) + 1) = Index((tail + done[c]) + 1)
      <4>1. tail + done[c] \in Nat /\ 1 \in Nat
        BY <2>1
      <4> QED
        BY <4>1, RingCapacityAssumption, ModAdd DEF Index
    <3>3. Index(Index(First) + 1) = Index(First + 1)
      BY WindowFacts, RingCapacityAssumption, ModAdd DEF Index
    <3>4. (tail + done[c]) + 1 = tail + (done[c] + 1)
      BY <2>1
    <3> QED
      BY <3>1, <3>2, <3>3, <3>4
  <2>3. count[c] - done[c] = Waiting /\ done[c] < count[c] /\ from[c] = tail
    BY <1>1 DEF RingInv, PopInv, Popping
  <2>4. Popping(c)'
    BY <1>6, <1>7 DEF Popping
  <2>5. Index(tail' + done'[c]) = Index(First')
    BY <1>1, <1>6, <1>9, <2>2
  <2>6. /\ count'[c] - done'[c] = Waiting'
        /\ cPC'[c] = "move" => done'[c] < count'[c]
        /\ cPC'[c] = "storeTail" => done'[c] = count'[c]
        /\ cPC'[c] \in {"move", "storeTail"} /\ from'[c] = tail'
    BY <1>1, <1>6, <1>7, <1>9, <2>1, <2>3
  <2>7. \A d \in Consumers \ {c} : cPC'[d] = "idle" /\ done'[d] = 0
    BY <1>4, <1>6 DEF RingInv, PopInv
  <2>8. PopInv'
    <3> SUFFICES ASSUME NEW d \in Consumers
                 PROVE  /\ Popping(d)' => count'[d] - done'[d] = Waiting'
                        /\ cPC'[d] \in {"idle", "exchange", "loadTail"} => done'[d] = 0
                        /\ cPC'[d] \in {"loadTail", "move"} => done'[d] < count'[d]
                        /\ cPC'[d] = "storeTail" => done'[d] = count'[d]
                        /\ cPC'[d] \in {"move", "storeTail"} =>
                             from'[d] = tail' /\ Index(tail' + done'[d]) = Index(First')
      BY DEF PopInv, Index, First
    <3> QED
      BY <2>5, <2>6, <2>7 DEF Popping
  <2>9. TailInv'
    BY <2>6 DEF TailInv
  <2> QED
    BY <2>8, <2>9
<1>12. WriterInv'
  BY <1>1, <1>4 DEF RingInv, WriterInv, NoPushInside
<1>13. SlotInv'
  BY <1>1, <1>4, <1>9 DEF RingInv, SlotInv, NoPushInside, Index
<1>14. DeliveredInOrder'
  BY <1>1, <1>2, <1>3, WindowFacts, MovedEntry DEF RingInv, DeliveredInOrder, First
<1> QED
  BY <1>5, <1>8, <1>10, <1>11, <1>12, <1>13, <1>14 DEF RingInv

\* popAll stores tail_ behind what it took, where the next entry will be.
LEMMA PopStoreTailInv ==
    ASSUME RingInv, NEW c \in Consumers, PopStoreTail(c)
    PROVE  RingInv'
<1>1. /\ TypeOK /\ cPC[c] = "storeTail" /\ cPC' = [cPC EXCEPT ![c] = "idle"]
      /\ from' = [from EXCEPT ![c] = 0] /\ count' = [count EXCEPT ![c] = 0]
      /\ done' = [done EXCEPT ![c] = 0] /\ batch' = [batch EXCEPT ![c] = <<>>]
      /\ tail' = Index(from[c] + count[c])
      /\ UNCHANGED <<head, size, buffer, pPC, entry, localHead, accepted, delivered>>
  BY DEF PopStoreTail, PopReturn, PopGoto, producerVars, history, RingInv
<1>2. /\ NoPushInside /\ \A d \in Consumers \ {c} : cPC[d] = "idle"
      /\ Cardinality(Claiming) = 0 /\ Cardinality(Undoing) = 0
  BY <1>1, PopIsAlone
<1>3. /\ done[c] = count[c] /\ Waiting = 0 /\ from[c] = tail
      /\ Index(tail + done[c]) = Index(First)
  BY <1>1, WindowFacts DEF RingInv, PopInv, Popping, TypeOK
<1>4. tail' = Index(First)
  BY <1>1, <1>3
<1>5. \A d \in Consumers : cPC'[d] = "idle"
  BY <1>1, <1>2 DEF TypeOK
<1>6. TypeOK'
  <2>1. tail' \in Slots /\ 0 \in Slots /\ 0 \in 0 .. (Word - 1)
    BY <1>4, WindowFacts, IndexInSlots, RingCapacityAssumption, RingWordAssumption DEF Slots
  <2> QED
    BY <1>1, <2>1 DEF TypeOK
<1>7. CountInv'
  <2>1. Popping(c) /\ \A d \in Consumers : ~Popping(d)'
    BY <1>1, <1>5 DEF Popping
  <2>2. size = 0
    BY <2>1 DEF RingInv, CountInv
  <2> QED
    BY <1>1, <1>2, <1>3, <2>1, <2>2 DEF RingInv, CountInv, Waiting, Claiming, Undoing
<1>8. PopInv' /\ TailInv'
  <2>1. \A d \in Consumers : done'[d] = 0
    BY <1>1, <1>2 DEF TypeOK, RingInv, PopInv
  <2> QED
    BY <1>1, <1>4, <1>5, <2>1 DEF PopInv, TailInv, Popping, First, Index
<1> QED
  BY <1>1, <1>2, <1>6, <1>7, <1>8, LocalPopInv DEF producerVars, history

-------------------------------------------------------------------------------
(* The invariant holds.                                                    *)

\* The constructor establishes the invariant.
THEOREM RingInvInit == Init => RingInv
<1> SUFFICES ASSUME Init PROVE RingInv
  OBVIOUS
<1> USE DEF Init
<1>1. TypeOK
  <2>1. 0 \in Slots /\ 0 \in 0 .. (Word - 1)
    BY RingCapacityAssumption, RingWordAssumption DEF Slots
  <2>2. <<>> \in Seq(Entries) /\ <<>> \in Seq(Entries \cup {Unwritten})
    OBVIOUS
  <2> QED
    BY <2>1, <2>2 DEF TypeOK
<1>2. Len(accepted) = 0 /\ Len(delivered) = 0
  OBVIOUS
<1>3. CountInv
  <2>1. Cardinality(Claiming) = 0 /\ Cardinality(Undoing) = 0
    BY CountNobody DEF NoPushInside
  <2> QED
    BY <1>2, <2>1, RingCapacityAssumption DEF CountInv, Waiting, Popping
<1>4. TailInv
  BY <1>2, RingCapacityAssumption, ModSmall DEF TailInv, First, Index
<1>5. PopAlone /\ PopInv
  BY DEF PopAlone, PopInv, Popping
<1>6. WriterInv /\ SlotInv /\ DeliveredInOrder
  BY <1>2 DEF WriterInv, SlotInv, Window, First, DeliveredInOrder
<1> QED
  BY <1>1, <1>3, <1>4, <1>5, <1>6 DEF RingInv

\* Every step keeps it: any number of producers inside tryPush, or one popAll.
THEOREM RingInvStep == RingInv /\ [Next]_vars => RingInv'
<1> SUFFICES ASSUME RingInv, [Next]_vars PROVE RingInv'
  OBVIOUS
<1>1. ASSUME NEW p \in Producers, PushStep(p) PROVE RingInv'
  BY <1>1, PushFullInv, PushRoomInv, PushReserveInv, PushOvershootInv, PushUndoInv,
     PushClaimInv, PushWriteInv
  DEF PushStep, PushInside
<1>2. ASSUME NEW p \in Producers, NEW e \in Entries, NoPopInside, PushBegin(p, e)
      PROVE  RingInv'
  BY <1>2, PushBeginInv
<1>3. ASSUME NEW c \in Consumers, PopStep(c) PROVE RingInv'
  BY <1>3, PopEmptyInv, PopExchangeInv, PopLoadTailInv, PopMoveInv, PopStoreTailInv
  DEF PopStep, PopInside
<1>4. ASSUME NEW c \in Consumers, NoPushInside, NoPopInside, PopCall(c) PROVE RingInv'
  BY <1>4, PopCallInv
<1>5. CASE UNCHANGED vars
  BY <1>5
  DEF vars, producerVars, consumerVars, history, RingInv, TypeOK, PopAlone, CountInv, PopInv,
      TailInv, WriterInv, SlotInv, DeliveredInOrder, NoPushInside, Popping, Waiting, First,
      Window, Claiming, Undoing, Index
<1> QED
  BY <1>1, <1>2, <1>3, <1>4, <1>5 DEF Next

\* The invariant holds in every reachable state.
THEOREM RingInvariant == Spec => []RingInv
<1> QED
  BY RingInvInit, RingInvStep, PTL DEF Spec

-------------------------------------------------------------------------------
(* What follows from it.                                                   *)

\* Every variable keeps its type; in particular size_ never leaves size_t although
\* refused producers count themselves in.
THEOREM TypeCorrect == Spec => []TypeOK
<1>1. RingInv => TypeOK
  BY DEF RingInv
<1> QED
  BY <1>1, RingInvariant, PTL

\* popAll hands out what tryPush accepted, in the order of the claimed indices.
THEOREM DeliveryOrder == Spec => []DeliveredInOrder
<1>1. RingInv => DeliveredInOrder
  BY DEF RingInv
<1> QED
  BY <1>1, RingInvariant, PTL

\* Two producers never write one slot: their indices lie in one window of Capacity.
THEOREM SlotsAreWrittenOnce == Spec => []SlotWrittenOnce
<1>1. RingInv => SlotWrittenOnce
  BY WindowFacts DEF RingInv, WriterInv, SlotWrittenOnce
<1> QED
  BY <1>1, RingInvariant, PTL

\* When no call is in progress size_ is the number of entries that wait.
THEOREM QuietSizeIsRight == Spec => []QuietSizeIsExact
<1>1. RingInv => QuietSizeIsExact
  <2> SUFFICES ASSUME RingInv, NoPushInside, NoPopInside
               PROVE  size = Len(accepted) - Len(delivered)
    BY DEF QuietSizeIsExact
  <2> QED
    BY SizeFacts, CountNobody, WindowFacts DEF Waiting
<1> QED
  BY <1>1, RingInvariant, PTL

\* reserve() never throws: popAll takes no more entries than the buffer has slots.
ReserveFits ==
    \A c \in Consumers : cPC[c] = "loadTail" => count[c] <= Capacity /\ count[c] <= MaxReserve

\* std::vector::reserve in popAll is within its limits at every step of every run
\* (RingBuffer!PopLoadTail is never blocked by MaxReserve).
THEOREM ReserveAlwaysFits == Spec => []ReserveFits
<1>1. RingInv => ReserveFits
  <2> SUFFICES ASSUME RingInv, NEW c \in Consumers, cPC[c] = "loadTail"
               PROVE  count[c] <= Capacity /\ count[c] <= MaxReserve
    BY DEF ReserveFits
  <2>1. count[c] \in Nat /\ count[c] = Waiting
    BY RingWordAssumption DEF RingInv, TypeOK, PopInv, Popping
  <2> QED
    BY <2>1, WindowFacts, RingWordAssumption, RingCapacityAssumption
<1> QED
  BY <1>1, RingInvariant, PTL

\* Claiming an index submits to the channel, moving an entry out delivers from it, and
\* every other step is none of its business.
THEOREM ChannelStep == RingInv /\ [Next]_vars => [Channel!Next]_<<accepted, delivered>>
<1> SUFFICES ASSUME RingInv, [Next]_vars
             PROVE  Channel!Next \/ UNCHANGED <<accepted, delivered>>
  OBVIOUS
<1>1. ASSUME NEW p \in Producers, PushClaim(p) PROVE Channel!Next
  <2>1. pPC[p] = "claim" /\ entry[p] \in Entries
    BY <1>1 DEF RingInv, WriterInv, PushClaim, PushGoto
  <2>2. Cardinality(Claiming) > 0
    <3>1. p \in Claiming
      BY <2>1 DEF Claiming
    <3> QED
      BY <3>1, CountFacts, FS_EmptySet
  <2>3. Len(accepted) - Len(delivered) < Capacity
    BY <2>2, CountFacts, WindowFacts, RingCapacityAssumption DEF RingInv, CountInv, Waiting
  <2>4. Channel!Submit(entry[p])
    BY <1>1, <2>3 DEF Channel!Submit, PushClaim
  <2> QED
    BY <2>1, <2>4 DEF Channel!Next
<1>2. ASSUME NEW c \in Consumers, PopMove(c) PROVE Channel!Next
  <2>1. cPC[c] = "move"
    BY <1>2 DEF PopMove, PopGoto
  <2>2. Channel!Deliver
    BY <1>2, <2>1, MovedEntry DEF Channel!Deliver, PopMove, First
  <2> QED
    BY <2>2 DEF Channel!Next
<1>3. ASSUME NEW p \in Producers, PushStep(p)
      PROVE  Channel!Next \/ UNCHANGED <<accepted, delivered>>
  BY <1>1, <1>3 DEF PushStep, PushInside, PushFull, PushRoom, PushReserve, PushOvershoot,
     PushUndo, PushWrite, history
<1>4. ASSUME NEW c \in Consumers, PopStep(c)
      PROVE  Channel!Next \/ UNCHANGED <<accepted, delivered>>
  BY <1>2, <1>4 DEF PopStep, PopInside, PopEmpty, PopExchange, PopLoadTail, PopStoreTail, history
<1>5. ASSUME NEW p \in Producers, NEW e \in Entries, PushBegin(p, e)
      PROVE  UNCHANGED <<accepted, delivered>>
  BY <1>5 DEF PushBegin, history
<1>6. ASSUME NEW c \in Consumers, PopCall(c) PROVE UNCHANGED <<accepted, delivered>>
  BY <1>6 DEF PopCall, history
<1>7. CASE UNCHANGED vars
  BY <1>7 DEF vars, history
<1> QED
  BY <1>3, <1>4, <1>5, <1>6, <1>7 DEF Next

\* The ring buffer implements the bounded channel of LogChannel.
THEOREM RingIsChannel == Spec => ChannelSpec
<1>1. Init => Channel!Init
  BY DEF Init, Channel!Init
<1>2. Spec => Channel!SafeSpec
  BY <1>1, RingInvariant, ChannelStep, PTL DEF Spec, Channel!SafeSpec, Channel!channelVars
<1> QED
  BY <1>2 DEF ChannelSpec
===============================================================================
