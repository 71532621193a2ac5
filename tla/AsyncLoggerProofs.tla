--------------------------- MODULE AsyncLoggerProofs ---------------------------
(***************************************************************************)
(* Proofs about AsyncLogger for every number of threads, every size of the *)
(* buffers and every order of calls: AnyNext puts all the steps of the     *)
(* module's specifications together, so that what is proved of it holds of *)
(* Spec, OverloadSpec, FreeSpec and EmergencySpec alike.                   *)
(* Assumed: LoggerThreadsAssumption, LoggerBoundAssumption,                *)
(* LeftoverAssumption, LoggerSizesAssumption.                              *)
(***************************************************************************)
EXTENDS AsyncLogger, FiniteSetTheorems, TLAPS

\* Any step of any thread and any call, in whatever order.
AnyNext ==
    \/ \E t \in Threads : ThreadStep(t)
    \/ \E t \in Loggers : LogCall(t) \/ UserFlush(t)
    \/ CloseRequestStop \/ EmergencyCall

AnySpec == Init /\ [][AnyNext]_vars

\* Each specification of AsyncLogger is a restriction of AnySpec.
LEMMA AnySpecCovers == Spec \/ OverloadSpec \/ FreeSpec \/ EmergencySpec => AnySpec
<1>1. [Next]_vars => [AnyNext]_vars
  BY DEF Next, AnyNext, PacedCall, OrderlyClose
<1>2. [OverloadNext]_vars => [AnyNext]_vars
  BY DEF OverloadNext, AnyNext, OrderlyClose
<1>3. [FreeNext]_vars => [AnyNext]_vars
  BY DEF FreeNext, AnyNext
<1>4. [EmergencyNext]_vars => [AnyNext]_vars
  BY DEF EmergencyNext, AnyNext
<1> QED
  BY <1>1, <1>2, <1>3, <1>4, PTL DEF Spec, OverloadSpec, FreeSpec, EmergencySpec, AnySpec

\* The writer, the closing thread, the monitor and the logging threads are different.
LEMMA ThreadsDiffer ==
    /\ Writer # Closer /\ Writer # Monitor /\ Closer # Monitor
    /\ Writer \notin Loggers /\ Closer \notin Loggers /\ Monitor \notin Loggers
    /\ Writer \in Threads /\ Closer \in Threads /\ Monitor \in Threads
    /\ Loggers \subseteq Threads
<1>1. ASSUME NEW a, NEW b PROVE Cardinality({a, b}) <= 2
  <2>1. IsFiniteSet({a}) /\ Cardinality({a}) = 1
    BY FS_Singleton
  <2>2. Cardinality({a} \cup {b}) <= 2
    BY <2>1, FS_AddElement
  <2>3. {a} \cup {b} = {a, b}
    OBVIOUS
  <2> QED
    BY <2>2, <2>3
<1>2. Cardinality({Writer, Closer, Monitor}) = 3
  BY LoggerThreadsAssumption
<1>3. ASSUME Writer = Closer PROVE FALSE
  <2>1. {Writer, Closer, Monitor} = {Closer, Monitor}
    BY <1>3
  <2>2. Cardinality({Closer, Monitor}) = 3
    BY <1>2, <2>1
  <2>3. Cardinality({Closer, Monitor}) <= 2
    BY <1>1
  <2> QED
    BY <2>2, <2>3
<1>4. ASSUME Writer = Monitor PROVE FALSE
  <2>1. {Writer, Closer, Monitor} = {Closer, Monitor}
    BY <1>4
  <2>2. Cardinality({Closer, Monitor}) = 3
    BY <1>2, <2>1
  <2>3. Cardinality({Closer, Monitor}) <= 2
    BY <1>1
  <2> QED
    BY <2>2, <2>3
<1>5. ASSUME Closer = Monitor PROVE FALSE
  <2>1. {Writer, Closer, Monitor} = {Writer, Monitor}
    BY <1>5
  <2>2. Cardinality({Writer, Monitor}) = 3
    BY <1>2, <2>1
  <2>3. Cardinality({Writer, Monitor}) <= 2
    BY <1>1
  <2> QED
    BY <2>2, <2>3
<1> QED
  BY <1>3, <1>4, <1>5, LoggerThreadsAssumption DEF Threads

-------------------------------------------------------------------------------
(* The invariant.                                                          *)

\* Where a thread can be, and that it is inside a buffer only where log() or flush()
\* says so.
PlaceOK(t) ==
    /\ t \in Loggers =>
          /\ pc[t] \in {"idle", "enter", "push", "notify", "ringPush", "flush", "terminated"}
          /\ qPushPC[t] # "idle" => pc[t] = "push"
          /\ rPushPC[t] # "idle" => pc[t] = "ringPush"
    /\ t = Writer =>
          pc[t] \in {"test", "acquire", "woken", "flush", "lastFlush", "exited", "terminated"}
    /\ t = Closer => pc[t] \in {"idle", "release", "join", "flush", "clear", "terminated"}
    /\ t = Monitor => pc[t] \in {"idle", "emergency", "flushed"}
    /\ flushPC[t] # "none" => pc[t] \in {"flush", "lastFlush", "emergency"}
    /\ qPopPC[t] # "idle" => flushPC[t] = "queue"
    /\ rPopPC[t] # "idle" => flushPC[t] = "ring"

PlaceInv == \A t \in Threads : PlaceOK(t)

\* The message of a call under way is in neither buffer before the push that accepts it,
\* and is what the pushes carry.
CallOK(t) ==
    /\ current[t] <= calls
    /\ pc[t] \in {"enter", "push", "ringPush"} => current[t] > 0
    /\ pc[t] = "enter" => Message(t) \notin Range(qAccepted) \cup Range(rAccepted)
    /\ pc[t] = "push" =>
          /\ qEntry[t] = Message(t) /\ Message(t) \notin Range(rAccepted)
          /\ qPushPC[t] \in {"loadTail", "loadHead", "reserve"} =>
                Message(t) \notin Range(qAccepted)
    /\ pc[t] = "ringPush" => rEntry[t] = Message(t) /\ Message(t) \notin Range(qAccepted)

\* What a buffer has accepted belongs to calls that were made, and no message is in both.
CallInv ==
    /\ \A t \in Loggers : CallOK(t)
    /\ \A m \in Range(qAccepted) \cup Range(rAccepted) : m[2] <= current[m[1]]
    /\ Range(qAccepted) \cap Range(rAccepted) = {}

\* What the buffers, the batches and the file may hold: entries that a buffer accepted,
\* and slots that were never written.
Known == Range(qAccepted) \cup Range(rAccepted) \cup {Unwritten}

QueueKnown ==
    /\ \A s \in Q!Cells : qStorage[s] \in Known \cup {NoEntry}
    /\ \A t \in Loggers :
          qPushPC[t] \in {"await", "emplace", "publish", "count"} => qEntry[t] \in Known
    /\ \A t \in Threads : Range(qBatch[t]) \subseteq Known

RingKnown ==
    /\ \A s \in R!Slots : rBuffer[s] \in Known
    /\ \A t \in Loggers : rPushPC[t] = "write" => rEntry[t] \in Known
    /\ \A t \in Threads : Range(rBatch[t]) \subseteq Known

FileKnown ==
    /\ \A t \in Threads : Range(pending[t]) \subseteq Known
    /\ Range(written) \subseteq Known

KnownInv == QueueKnown /\ RingKnown /\ FileKnown

LoggerInv == TypeOK /\ PlaceInv /\ CallInv /\ KnownInv /\ WriterGoneAfterJoin

-------------------------------------------------------------------------------
(* Sequences.                                                              *)

\* The elements of a sequence that grew by one.
LEMMA RangeAppend ==
    ASSUME NEW S, NEW s \in Seq(S), NEW e
    PROVE  Range(Append(s, e)) = Range(s) \cup {e}
<1>1. DOMAIN Append(s, e) = 1 .. (Len(s) + 1) /\ DOMAIN s = 1 .. Len(s) /\ Len(s) \in Nat
  BY SMT
<1>2. \A k \in 1 .. Len(s) : Append(s, e)[k] = s[k]
  BY SMT
<1>3. Append(s, e)[Len(s) + 1] = e
  BY SMT
<1>4. 1 .. (Len(s) + 1) = (1 .. Len(s)) \cup {Len(s) + 1}
  BY <1>1, SMT
<1> QED
  BY <1>1, <1>2, <1>3, <1>4 DEF Range

\* The empty sequence has no elements.
LEMMA RangeEmpty == Range(<<>>) = {}
<1>1. DOMAIN <<>> = {}
  BY SMT
<1> QED
  BY <1>1 DEF Range

\* The elements of what is left of a sequence.
LEMMA RangeTail ==
    ASSUME NEW S, NEW s \in Seq(S), s # <<>>
    PROVE  Tail(s) \in Seq(S) /\ Head(s) \in Range(s) /\ Range(Tail(s)) \subseteq Range(s)
<1>1. Len(s) \in Nat \ {0} /\ DOMAIN s = 1 .. Len(s)
  BY SMT
<1>2. Tail(s) \in Seq(S) /\ Len(Tail(s)) = Len(s) - 1 /\ DOMAIN Tail(s) = 1 .. (Len(s) - 1)
  BY <1>1, SMT
<1>3. \A k \in 1 .. (Len(s) - 1) : Tail(s)[k] = s[k + 1] /\ k + 1 \in 1 .. Len(s)
  BY <1>1, SMT
<1>4. Head(s) = s[1] /\ 1 \in 1 .. Len(s)
  BY <1>1, SMT
<1> QED
  BY <1>1, <1>2, <1>3, <1>4 DEF Range

\* The elements of two sequences one after the other.
LEMMA RangeConcat ==
    ASSUME NEW S, NEW s \in Seq(S), NEW u \in Seq(S)
    PROVE  s \o u \in Seq(S) /\ Range(s \o u) \subseteq Range(s) \cup Range(u)
<1>1. s \o u \in Seq(S) /\ DOMAIN (s \o u) = 1 .. (Len(s) + Len(u))
      /\ DOMAIN s = 1 .. Len(s) /\ DOMAIN u = 1 .. Len(u) /\ Len(s) \in Nat /\ Len(u) \in Nat
  BY SMT
<1>2. \A k \in 1 .. (Len(s) + Len(u)) :
          (s \o u)[k] = IF k <= Len(s) THEN s[k] ELSE u[k - Len(s)]
  BY SMT
<1>3. ASSUME NEW k \in 1 .. (Len(s) + Len(u)) PROVE (s \o u)[k] \in Range(s) \cup Range(u)
  <2>1. CASE k <= Len(s)
    <3>1. k \in DOMAIN s /\ (s \o u)[k] = s[k]
      BY <1>1, <1>2, <2>1
    <3> QED
      BY <3>1 DEF Range
  <2>2. CASE k > Len(s)
    <3>1. k - Len(s) \in DOMAIN u /\ (s \o u)[k] = u[k - Len(s)]
      BY <1>1, <1>2, <2>2
    <3> QED
      BY <3>1 DEF Range
  <2> QED
    BY <1>1, <2>1, <2>2
<1> QED
  BY <1>1, <1>3 DEF Range

-------------------------------------------------------------------------------
(* Types.                                                                  *)

\* The remainders by which the buffers name a cell, and size_t.
LEMMA WrappedTypes ==
    /\ \A i \in Int : Q!Slot(i) \in Q!Cells /\ R!Index(i) \in R!Slots
    /\ \A i \in Int : Q!Wrap(i) \in 0 .. (Word - 1) /\ R!Wrap(i) \in 0 .. (Word - 1)
    /\ 0 \in 0 .. (Word - 1) /\ 0 \in R!Slots
<1>1. Capacity \in Nat /\ Capacity > 0 /\ Word \in Nat /\ Word > 0
  BY LoggerSizesAssumption
<1> QED
  BY <1>1 DEF Q!Slot, Q!Cells, R!Index, R!Slots, Q!Wrap, R!Wrap

\* No step of tryPush of the queue, whoever else is in it, breaks a type.
LEMMA QueuePushTypes ==
    ASSUME Q!TypeOK, NEW t \in Loggers, Q!PushStep(t), Q!PushReserve(t) => qEntry[t] \in Messages
    PROVE  Q!TypeOK'
<1> USE DEF Q!PushGoto, Q!PushReturn, Q!ProducerPC, Q!cells, Q!producerVars, Q!consumerVars,
        Q!history
<1>1. CASE Q!PushLoadTail(t)
  BY <1>1 DEF Q!TypeOK, Q!PushLoadTail
<1>2. CASE Q!PushRoom(t) \/ Q!PushRetry(t) \/ Q!PushAwait(t)
  BY <1>2 DEF Q!TypeOK, Q!PushRoom, Q!PushRetry, Q!PushAwait
<1>3. CASE Q!PushReserve(t)
  BY <1>3 DEF Q!TypeOK, Q!PushReserve
<1>4. CASE Q!PushEmplace(t)
  <2>1. qStorage' \in [Q!Cells -> Messages \cup {NoEntry}]
    BY <1>4 DEF Q!TypeOK, Q!PushEmplace
  <2> QED
    BY <1>4, <2>1 DEF Q!TypeOK, Q!PushEmplace
<1>5. CASE Q!PushPublish(t)
  <2>1. qSeq' \in [Q!Cells -> Nat]
    <3>1. qLocalTail[t] + 1 \in Nat /\ qSeq \in [Q!Cells -> Nat]
      BY DEF Q!TypeOK
    <3>2. qSeq' = [qSeq EXCEPT ![Q!Slot(qLocalTail[t])] = qLocalTail[t] + 1]
      BY <1>5 DEF Q!PushPublish
    <3> QED
      BY <3>1, <3>2
  <2> QED
    BY <1>5, <2>1 DEF Q!TypeOK, Q!PushPublish
<1>6. CASE Q!PushFull(t)
  BY <1>6 DEF Q!TypeOK, Q!PushFull
<1>7. CASE Q!PushCount(t)
  <2>1. qSize' \in 0 .. (Word - 1)
    BY <1>7, WrappedTypes DEF Q!TypeOK, Q!PushCount
  <2> QED
    BY <1>7, <2>1 DEF Q!TypeOK, Q!PushCount
<1> QED
  BY <1>1, <1>2, <1>3, <1>4, <1>5, <1>6, <1>7 DEF Q!PushStep, Q!PushInside

\* No step of popAll of the queue, whoever else is in it, breaks a type.
LEMMA QueuePopTypes ==
    ASSUME Q!TypeOK, NEW t \in Threads, Q!PopLoadHead(t) \/ Q!PopStep(t)
    PROVE  Q!TypeOK'
<1> USE DEF Q!PopGoto, Q!PopReturn, Q!ConsumerPC, Q!cells, Q!producerVars, Q!consumerVars,
        Q!history
<1>1. CASE Q!PopLoadHead(t)
  BY <1>1 DEF Q!TypeOK, Q!PopLoadHead
<1>2. CASE Q!PopEmpty(t)
  BY <1>2 DEF Q!TypeOK, Q!PopEmpty
<1>3. CASE Q!PopLoadTail(t)
  <2>1. qTail - qFrom[t] \in Nat
    BY <1>3 DEF Q!TypeOK, Q!PopLoadTail
  <2> QED
    BY <1>3, <2>1 DEF Q!TypeOK, Q!PopLoadTail
<1>4. CASE Q!PopAwait(t) \/ Q!PopSkip(t)
  BY <1>4 DEF Q!TypeOK, Q!PopAwait, Q!PopSkip
<1>5. CASE Q!PopTake(t)
  <2> DEFINE taken == qStorage[Q!Slot(Q!Ticket(t))]
  <2>1. Q!Slot(Q!Ticket(t)) \in Q!Cells
    BY WrappedTypes DEF Q!TypeOK, Q!Ticket
  <2>2. taken \in Messages
    BY <1>5, <2>1 DEF Q!TypeOK, Q!PopTake
  <2>3. /\ qBatch' = [qBatch EXCEPT ![t] = Append(@, taken)]
        /\ qDelivered' = Append(qDelivered, taken)
        /\ qPopPC' = [qPopPC EXCEPT ![t] = "reset"]
        /\ UNCHANGED <<qTail, qHead, qSize, qSeq, qStorage, qPushPC, qEntry, qLocalTail,
                       qFrom, qCount, qDone, qAccepted>>
    BY <1>5 DEF Q!PopTake
  <2> HIDE DEF taken
  <2>4. qBatch' \in [Threads -> Seq(Messages)] /\ qDelivered' \in Seq(Messages)
    BY <2>2, <2>3 DEF Q!TypeOK
  <2> QED
    BY <2>3, <2>4 DEF Q!TypeOK
<1>6. CASE Q!PopReset(t)
  BY <1>6 DEF Q!TypeOK, Q!PopReset
<1>7. CASE Q!PopFree(t)
  <2>1. qSeq' \in [Q!Cells -> Nat]
    <3>1. Q!Ticket(t) + Capacity \in Nat /\ qSeq \in [Q!Cells -> Nat]
      BY LoggerSizesAssumption DEF Q!TypeOK, Q!Ticket
    <3>2. qSeq' = [qSeq EXCEPT ![Q!Slot(Q!Ticket(t))] = Q!Ticket(t) + Capacity]
      BY <1>7 DEF Q!PopFree
    <3> QED
      BY <3>1, <3>2
  <2> QED
    BY <1>7, <2>1 DEF Q!TypeOK, Q!PopFree
<1>8. CASE Q!PopAdvance(t)
  BY <1>8 DEF Q!TypeOK, Q!PopAdvance
<1>9. CASE Q!PopCount(t)
  <2>1. qSize' \in 0 .. (Word - 1)
    <3>1. qSize - qCount[t] \in Int
      BY LoggerSizesAssumption DEF Q!TypeOK
    <3>2. qSize' = Q!Wrap(qSize - qCount[t])
      BY <1>9 DEF Q!PopCount
    <3> QED
      BY <3>1, <3>2, WrappedTypes
  <2> QED
    BY <1>9, <2>1 DEF Q!TypeOK, Q!PopCount
<1> QED
  BY <1>1, <1>2, <1>3, <1>4, <1>5, <1>6, <1>7, <1>8, <1>9 DEF Q!PopStep, Q!PopInside

\* No step of tryPush of the ring buffer, whoever else is in it, breaks a type.
LEMMA RingPushTypes ==
    ASSUME R!TypeOK, NEW t \in Loggers, R!PushStep(t), R!PushClaim(t) => rEntry[t] \in Messages
    PROVE  R!TypeOK'
<1> USE DEF R!PushGoto, R!PushReturn, R!producerVars, R!consumerVars, R!history
<1>1. CASE R!PushRoom(t)
  BY <1>1 DEF R!TypeOK, R!PushRoom
<1>5. CASE R!PushFull(t)
  BY <1>5 DEF R!TypeOK, R!PushFull
<1>2. CASE R!PushReserve(t) \/ R!PushOvershoot(t) \/ R!PushUndo(t)
  <2>1. rSize' \in 0 .. (Word - 1)
    <3>1. rSize + 1 \in Int /\ rSize - 1 \in Int
      BY LoggerSizesAssumption DEF R!TypeOK
    <3>2. rSize' = R!Wrap(rSize + 1) \/ rSize' = R!Wrap(rSize - 1)
      BY <1>2 DEF R!PushReserve, R!PushOvershoot, R!PushUndo
    <3> QED
      BY <3>1, <3>2, WrappedTypes
  <2>2. CASE R!PushReserve(t) \/ R!PushOvershoot(t)
    BY <2>1, <2>2 DEF R!TypeOK, R!PushReserve, R!PushOvershoot
  <2>3. CASE R!PushUndo(t)
    BY <2>1, <2>3 DEF R!TypeOK, R!PushUndo
  <2> QED
    BY <1>2, <2>2, <2>3
<1>3. CASE R!PushClaim(t)
  BY <1>3 DEF R!TypeOK, R!PushClaim
<1>4. CASE R!PushWrite(t)
  BY <1>4 DEF R!TypeOK, R!PushWrite
<1> QED
  BY <1>1, <1>2, <1>3, <1>4, <1>5 DEF R!PushStep, R!PushInside

\* Returning from popAll of the ring buffer resets its locals.
LEMMA PoppedTypes ==
    ASSUME R!TypeOK, NEW t \in Threads,
           rPopPC' = [rPopPC EXCEPT ![t] = "idle"], rFrom' = [rFrom EXCEPT ![t] = 0],
           rCount' = [rCount EXCEPT ![t] = 0], rDone' = [rDone EXCEPT ![t] = 0],
           rBatch' = [rBatch EXCEPT ![t] = <<>>], rTail' \in R!Slots,
           UNCHANGED <<rHead, rSize, rBuffer, rPushPC, rEntry, rLocalHead, rAccepted, rDelivered>>
    PROVE  R!TypeOK'
<1>1. rFrom' \in [Threads -> R!Slots] /\ rCount' \in [Threads -> 0 .. (Word - 1)]
  BY WrappedTypes DEF R!TypeOK
<1>2. rDone' \in [Threads -> Nat] /\ rBatch' \in [Threads -> Seq(Messages \cup {Unwritten})]
  BY DEF R!TypeOK
<1>3. rPopPC' \in [Threads -> {"idle", "exchange", "loadTail", "move", "storeTail"}]
  BY DEF R!TypeOK
<1> QED
  BY <1>1, <1>2, <1>3 DEF R!TypeOK

\* No step of popAll of the ring buffer, whoever else is in it, breaks a type.
LEMMA RingPopTypes ==
    ASSUME R!TypeOK, NEW t \in Threads, R!PopCall(t) \/ R!PopStep(t) \/ R!PopThrow(t)
    PROVE  R!TypeOK'
<1> USE DEF R!PopGoto, R!PopReturn, R!producerVars, R!consumerVars, R!history
<1>1. CASE R!PopCall(t) \/ R!PopThrow(t)
  BY <1>1 DEF R!TypeOK, R!PopCall, R!PopThrow
<1>2. CASE R!PopEmpty(t)
  <2>1. /\ rPopPC' = [rPopPC EXCEPT ![t] = "idle"] /\ rFrom' = [rFrom EXCEPT ![t] = 0]
        /\ rCount' = [rCount EXCEPT ![t] = 0] /\ rDone' = [rDone EXCEPT ![t] = 0]
        /\ rBatch' = [rBatch EXCEPT ![t] = <<>>]
        /\ UNCHANGED <<rHead, rTail, rSize, rBuffer, rPushPC, rEntry, rLocalHead,
                       rAccepted, rDelivered>>
    BY <1>2 DEF R!PopEmpty
  <2> QED
    BY <2>1, PoppedTypes DEF R!TypeOK
<1>3. CASE R!PopExchange(t)
  BY <1>3, WrappedTypes DEF R!TypeOK, R!PopExchange
<1>4. CASE R!PopLoadTail(t)
  BY <1>4 DEF R!TypeOK, R!PopLoadTail
<1>5. CASE R!PopMove(t)
  <2> DEFINE moved == rBuffer[R!Index(rFrom[t] + rDone[t])]
  <2>1. rFrom[t] + rDone[t] \in Int
    BY LoggerSizesAssumption DEF R!TypeOK, R!Slots
  <2>2. moved \in Messages \cup {Unwritten}
    BY <2>1, WrappedTypes DEF R!TypeOK
  <2>3. /\ rBatch' = [rBatch EXCEPT ![t] = Append(@, moved)]
        /\ rDelivered' = Append(rDelivered, moved)
        /\ rPopPC' = [rPopPC EXCEPT ![t] =
                         IF rDone[t] + 1 < rCount[t] THEN "move" ELSE "storeTail"]
        /\ rDone' = [rDone EXCEPT ![t] = @ + 1]
        /\ UNCHANGED <<rHead, rTail, rSize, rBuffer, rPushPC, rEntry, rLocalHead,
                       rFrom, rCount, rAccepted>>
    BY <1>5 DEF R!PopMove
  <2> HIDE DEF moved
  <2>4. rBatch' \in [Threads -> Seq(Messages \cup {Unwritten})]
        /\ rDelivered' \in Seq(Messages \cup {Unwritten})
    BY <2>2, <2>3 DEF R!TypeOK
  <2> QED
    BY <2>3, <2>4 DEF R!TypeOK
<1>6. CASE R!PopStoreTail(t)
  <2>1. rTail' \in R!Slots
    <3>1. rFrom[t] + rCount[t] \in Int
      BY LoggerSizesAssumption DEF R!TypeOK, R!Slots
    <3> QED
      BY <1>6, <3>1, WrappedTypes DEF R!PopStoreTail
  <2>2. /\ rPopPC' = [rPopPC EXCEPT ![t] = "idle"] /\ rFrom' = [rFrom EXCEPT ![t] = 0]
        /\ rCount' = [rCount EXCEPT ![t] = 0] /\ rDone' = [rDone EXCEPT ![t] = 0]
        /\ rBatch' = [rBatch EXCEPT ![t] = <<>>]
        /\ UNCHANGED <<rHead, rSize, rBuffer, rPushPC, rEntry, rLocalHead,
                       rAccepted, rDelivered>>
    BY <1>6 DEF R!PopStoreTail
  <2> QED
    BY <2>1, <2>2, PoppedTypes
<1> QED
  BY <1>1, <1>2, <1>3, <1>4, <1>5, <1>6 DEF R!PopStep, R!PopInside

\* The elements of a sequence over a set are in the set.
LEMMA RangeInSet ==
    ASSUME NEW S, NEW s \in Seq(S)
    PROVE  Range(s) \subseteq S
<1>1. DOMAIN s = 1 .. Len(s) /\ \A k \in 1 .. Len(s) : s[k] \in S
  BY SMT
<1> QED
  BY <1>1 DEF Range

\* The logger's own variables, apart from the buffers.
Places == {"idle", "enter", "push", "notify", "ringPush", "flush", "test", "acquire",
           "woken", "lastFlush", "exited", "release", "join", "clear", "emergency",
           "flushed", "terminated"}
FlushPlaces == {"none", "queue", "writeQueue", "ring", "write"}

OwnTypeOK ==
    /\ pc \in [Threads -> Places]
    /\ flushPC \in [Threads -> FlushPlaces]
    /\ pending \in [Threads -> Seq(Messages \cup {Unwritten})]
    /\ calls \in 0 .. MaxCalls /\ current \in [Loggers -> 0 .. MaxCalls]
    /\ sem \in Nat /\ stop \in BOOLEAN /\ initialized \in BOOLEAN
    /\ written \in Seq(Messages \cup {Unwritten}) /\ alone \in BOOLEAN /\ owed \subseteq Messages

\* TypeOK in these parts.
LEMMA TypeParts == TypeOK <=> Q!TypeOK /\ R!TypeOK /\ OwnTypeOK
BY DEF TypeOK, OwnTypeOK, Places, FlushPlaces

\* A buffer nobody touches keeps its types.
LEMMA BufferTypesKept ==
    /\ Q!TypeOK /\ UNCHANGED qVars => Q!TypeOK'
    /\ R!TypeOK /\ UNCHANGED rVars => R!TypeOK'
<1>1. Q!TypeOK /\ UNCHANGED qVars => Q!TypeOK'
  BY DEF Q!TypeOK, qVars
<1>2. R!TypeOK /\ UNCHANGED rVars => R!TypeOK'
  BY DEF R!TypeOK, rVars
<1> QED
  BY <1>1, <1>2

\* The message of a call under way is one of the messages.
LEMMA MessageTypes ==
    ASSUME LoggerInv, NEW t \in Loggers, pc[t] \in {"enter", "push", "ringPush"}
    PROVE  Message(t) \in Messages
<1>1. current[t] \in 0 .. MaxCalls /\ current[t] > 0
  BY DEF LoggerInv, TypeOK, CallInv, CallOK
<1>2. current[t] \in 1 .. MaxCalls
  BY <1>1, LoggerBoundAssumption
<1> QED
  BY <1>2 DEF Message, Messages

\* Handing a message to the queue or to the ring buffer breaks no type.
LEMMA PushBeginTypes ==
    ASSUME NEW t \in Loggers, Message(t) \in Messages
    PROVE  /\ Q!TypeOK /\ Q!PushBegin(t, Message(t)) => Q!TypeOK'
           /\ R!TypeOK /\ R!PushBegin(t, Message(t)) => R!TypeOK'
<1>1. Q!TypeOK /\ Q!PushBegin(t, Message(t)) => Q!TypeOK'
  BY DEF Q!TypeOK, Q!PushBegin, Q!PushGoto, Q!ProducerPC, Q!cells, Q!consumerVars, Q!history
<1>2. R!TypeOK /\ R!PushBegin(t, Message(t)) => R!TypeOK'
  BY DEF R!TypeOK, R!PushBegin, R!PushGoto, R!consumerVars, R!history
<1> QED
  BY <1>1, <1>2

\* The steps of AnyNext, with the thread that takes them.
LEMMA StepCases ==
    ASSUME [AnyNext]_vars
    PROVE  \/ \E t \in Loggers : LogCall(t) \/ UserFlush(t) \/ LogStep(t)
           \/ \E t \in Threads : FlushStep(t)
           \/ WriterStep \/ CloseStep \/ CloseRequestStop \/ EmergencyCall
           \/ UNCHANGED vars
BY DEF AnyNext, ThreadStep

\* log() and a direct flush() keep the types.
LEMMA LogTypes ==
    ASSUME LoggerInv, NEW t \in Loggers, LogCall(t) \/ UserFlush(t) \/ LogStep(t)
    PROVE  TypeOK'
<1>1. Q!TypeOK /\ R!TypeOK /\ OwnTypeOK /\ t \in Threads
  BY TypeParts, ThreadsDiffer DEF LoggerInv
<1>2. pc[t] \in {"enter", "push", "ringPush"} => Message(t) \in Messages
  BY MessageTypes
<1>3. /\ pc[t] = "push" => qEntry[t] = Message(t)
      /\ pc[t] = "ringPush" => rEntry[t] = Message(t)
      /\ qPushPC[t] # "idle" => pc[t] = "push"
      /\ rPushPC[t] # "idle" => pc[t] = "ringPush"
  BY <1>1 DEF LoggerInv, CallInv, CallOK, PlaceInv, PlaceOK
<1>4. Q!TypeOK'
  <2>1. CASE UNCHANGED qVars
    BY <1>1, <2>1, BufferTypesKept
  <2>2. CASE LogPush(t)
    BY <1>1, <1>2, <2>2, PushBeginTypes DEF LogPush, Goto
  <2>3. CASE LogInPush(t) \/ LogPushed(t) \/ LogFallback(t)
    <3>1. Q!PushStep(t)
      BY <2>3 DEF LogInPush, LogPushed, LogFallback, Q!PushStep
    <3>2. Q!PushReserve(t) => qEntry[t] \in Messages
      BY <1>2, <1>3 DEF Q!PushReserve, Q!PushGoto
    <3> QED
      BY <1>1, <3>1, <3>2, QueuePushTypes
  <2> QED
    BY <2>1, <2>2, <2>3 DEF LogCall, UserFlush, LogStep, LogReturn, LogNotify, LogInRingPush,
       LogDropped, LogRingPushed
<1>5. R!TypeOK'
  <2>1. CASE UNCHANGED rVars
    BY <1>1, <2>1, BufferTypesKept
  <2>2. CASE LogFallback(t)
    BY <1>1, <1>2, <2>2, PushBeginTypes DEF LogFallback, Goto
  <2>3. CASE LogInRingPush(t) \/ LogDropped(t) \/ LogRingPushed(t)
    <3>1. R!PushStep(t)
      BY <2>3 DEF LogInRingPush, LogDropped, LogRingPushed, R!PushStep
    <3>2. R!PushClaim(t) => rEntry[t] \in Messages
      BY <1>2, <1>3 DEF R!PushClaim, R!PushGoto
    <3> QED
      BY <1>1, <3>1, <3>2, RingPushTypes
  <2> QED
    BY <2>1, <2>2, <2>3 DEF LogCall, UserFlush, LogStep, LogReturn, LogPush, LogInPush,
       LogPushed, LogNotify
<1>6. OwnTypeOK'
  <2> USE DEF OwnTypeOK, Goto, Places
  <2>1. CASE LogCall(t)
    <3>1. calls + 1 \in 0 .. MaxCalls
      BY <1>1, <2>1, LoggerBoundAssumption DEF LogCall
    <3> QED
      BY <1>1, <2>1, <3>1 DEF LogCall, flushVars, control
  <2>2. CASE UserFlush(t)
    <3>1. calls + 1 \in 0 .. MaxCalls
      BY <1>1, <2>2, LoggerBoundAssumption DEF UserFlush
    <3> QED
      BY <1>1, <2>2, <3>1 DEF UserFlush, flushVars, control
  <2>3. CASE LogReturn(t) \/ LogPush(t) \/ LogInPush(t) \/ LogPushed(t)
    BY <1>1, <2>3 DEF LogReturn, LogPush, LogInPush, LogPushed, flushVars, callVars, control
  <2>4. CASE LogNotify(t)
    BY <1>1, <2>4 DEF LogNotify, SemRelease, flushVars, callVars, control
  <2>5. CASE LogFallback(t) \/ LogInRingPush(t) \/ LogDropped(t) \/ LogRingPushed(t)
    BY <1>1, <2>5 DEF LogFallback, LogInRingPush, LogDropped, LogRingPushed, flushVars,
       callVars, control
  <2> QED
    BY <2>1, <2>2, <2>3, <2>4, <2>5 DEF LogStep
<1> QED
  <2>1. (Q!TypeOK /\ R!TypeOK /\ OwnTypeOK => TypeOK)'
    BY TypeParts, PTL
  <2> QED
    BY <1>4, <1>5, <1>6, <2>1

\* flush() and emergencyFlush() keep the types.
LEMMA FlushTypes ==
    ASSUME LoggerInv, NEW t \in Threads, FlushStep(t)
    PROVE  TypeOK'
<1>1. Q!TypeOK /\ R!TypeOK /\ OwnTypeOK
  BY TypeParts DEF LoggerInv
<1>2. Q!TypeOK'
  <2>1. CASE UNCHANGED qVars
    BY <1>1, <2>1, BufferTypesKept
  <2>2. CASE FlushBegin(t) \/ FlushInQueue(t) \/ FlushQueuePopped(t) \/ EmergencyQueuePopped(t)
    <3>1. Q!PopLoadHead(t) \/ Q!PopStep(t)
      BY <2>2 DEF FlushBegin, FlushInQueue, FlushQueuePopped, EmergencyQueuePopped, Q!PopStep
    <3> QED
      BY <1>1, <3>1, QueuePopTypes
  <2> QED
    BY <2>1, <2>2 DEF FlushStep, FlushInRing, FlushRingPopped, FlushThrows, WriteEntry,
       FlushReturn, EmergencyQueueWritten
<1>3. R!TypeOK'
  <2>1. CASE UNCHANGED rVars
    BY <1>1, <2>1, BufferTypesKept
  <2>2. CASE FlushQueuePopped(t) \/ EmergencyQueueWritten(t) \/ FlushInRing(t)
             \/ FlushRingPopped(t) \/ FlushThrows(t)
    <3>1. R!PopCall(t) \/ R!PopStep(t) \/ R!PopThrow(t)
      BY <2>2 DEF FlushQueuePopped, EmergencyQueueWritten, FlushInRing, FlushRingPopped,
         FlushThrows, R!PopStep
    <3> QED
      BY <1>1, <3>1, RingPopTypes
  <2> QED
    BY <2>1, <2>2 DEF FlushStep, FlushBegin, FlushInQueue, WriteEntry, FlushReturn,
       EmergencyQueuePopped
<1>4. OwnTypeOK'
  <2> USE DEF OwnTypeOK, FlushPlaces
  <2>1. CASE FlushBegin(t)
    BY <1>1, <2>1 DEF FlushBegin, callVars
  <2>2. CASE FlushInQueue(t) \/ FlushInRing(t)
    BY <1>1, <2>2 DEF FlushInQueue, FlushInRing, flushVars, callVars, control
  <2>3. CASE FlushQueuePopped(t) \/ EmergencyQueuePopped(t)
    <3>1. qBatch[t] \in Seq(Messages \cup {Unwritten})
      BY <1>1 DEF Q!TypeOK
    <3> QED
      BY <1>1, <2>3, <3>1 DEF FlushQueuePopped, EmergencyQueuePopped, callVars, control
  <2>4. CASE EmergencyQueueWritten(t)
    BY <1>1, <2>4 DEF EmergencyQueueWritten, callVars, control
  <2>5. CASE FlushRingPopped(t)
    <3>1. pending[t] \o rBatch[t] \in Seq(Messages \cup {Unwritten})
      BY <1>1, RangeConcat DEF R!TypeOK
    <3> QED
      BY <1>1, <2>5, <3>1 DEF FlushRingPopped, callVars, control
  <2>6. CASE FlushThrows(t)
    BY <1>1, <2>6 DEF FlushThrows, Places, callVars, control
  <2>7. CASE WriteEntry(t)
    <3>1. Tail(pending[t]) \in Seq(Messages \cup {Unwritten})
          /\ Head(pending[t]) \in Messages \cup {Unwritten}
      BY <1>1, <2>7, RangeTail, RangeInSet DEF WriteEntry
    <3>2. Append(written, Head(pending[t])) \in Seq(Messages \cup {Unwritten})
      BY <1>1, <3>1
    <3> QED
      BY <1>1, <2>7, <3>1, <3>2 DEF WriteEntry, callVars, control
  <2>8. CASE FlushReturn(t)
    <3>1. AfterFlush(t) \in Places
      BY ThreadsDiffer DEF AfterFlush, Places, Threads
    <3> QED
      BY <1>1, <2>8, <3>1 DEF FlushReturn, callVars, control
  <2> QED
    BY <2>1, <2>2, <2>3, <2>4, <2>5, <2>6, <2>7, <2>8 DEF FlushStep
<1> QED
  <2>1. (Q!TypeOK /\ R!TypeOK /\ OwnTypeOK => TypeOK)'
    BY TypeParts, PTL
  <2> QED
    BY <1>2, <1>3, <1>4, <2>1

\* The writer, deinitialize(), the start of an emergency flush and the steps of others
\* keep the types.
LEMMA ControlTypes ==
    ASSUME LoggerInv, WriterStep \/ CloseStep \/ CloseRequestStop \/ EmergencyCall \/ UNCHANGED vars
    PROVE  TypeOK'
<1>1. Q!TypeOK /\ R!TypeOK /\ OwnTypeOK
  BY TypeParts DEF LoggerInv
<1> USE ThreadsDiffer
<1>2. UNCHANGED qVars /\ UNCHANGED rVars
  BY DEF WriterStep, WriterLeave, WriterSleep, WriterWake, WriterChecksStop, CloseStep,
     CloseRelease, CloseJoin, CloseClear, CloseRequestStop, EmergencyCall, vars
<1>3. OwnTypeOK'
  <2> USE DEF OwnTypeOK, Goto, Places, flushVars, callVars, control
  <2>1. CASE WriterLeave \/ WriterSleep \/ WriterChecksStop
    BY <1>1, <2>1 DEF WriterLeave, WriterSleep, WriterChecksStop
  <2>2. CASE WriterWake
    BY <1>1, <2>2 DEF WriterWake
  <2>3. CASE CloseRelease
    BY <1>1, <2>3 DEF CloseRelease, SemRelease
  <2>4. CASE CloseJoin \/ CloseClear \/ CloseRequestStop
    BY <1>1, <2>4 DEF CloseJoin, CloseClear, CloseRequestStop
  <2>5. CASE EmergencyCall
    <3>1. Range(qAccepted) \subseteq Messages /\ Range(rAccepted) \subseteq Messages
      BY <1>1, RangeInSet DEF Q!TypeOK, R!TypeOK
    <3>2. owed' \subseteq Messages
      BY <2>5, <3>1 DEF EmergencyCall
    <3> QED
      BY <1>1, <2>5, <3>2 DEF EmergencyCall
  <2>6. CASE UNCHANGED vars
    BY <1>1, <2>6 DEF vars
  <2> QED
    BY <2>1, <2>2, <2>3, <2>4, <2>5, <2>6 DEF WriterStep, CloseStep
<1> QED
  <2>1. (Q!TypeOK /\ R!TypeOK /\ OwnTypeOK => TypeOK)'
    BY TypeParts, PTL
  <2> QED
    BY <1>1, <1>2, <1>3, <2>1, BufferTypesKept

-------------------------------------------------------------------------------
(* Where the threads are.                                                  *)

\* A step of one thread leaves the others where they are, so its own place is all there
\* is to show.
LEMMA PlaceOfOthers ==
    ASSUME PlaceInv, NEW t \in Threads, PlaceOK(t)',
           \A u \in Threads : u # t =>
               /\ pc'[u] = pc[u] /\ flushPC'[u] = flushPC[u]
               /\ qPopPC'[u] = qPopPC[u] /\ rPopPC'[u] = rPopPC[u],
           \A u \in Loggers : u # t => qPushPC'[u] = qPushPC[u] /\ rPushPC'[u] = rPushPC[u]
    PROVE  PlaceInv'
<1> SUFFICES ASSUME NEW u \in Threads, u # t PROVE PlaceOK(u)'
  BY DEF PlaceInv
<1> QED
  BY DEF PlaceInv, PlaceOK

\* The functions whose places those are.
LEMMA PlaceTypes ==
    ASSUME LoggerInv
    PROVE  /\ pc \in [Threads -> Places] /\ flushPC \in [Threads -> FlushPlaces]
           /\ qPopPC \in [Threads -> Q!ConsumerPC]
           /\ rPopPC \in [Threads -> {"idle", "exchange", "loadTail", "move", "storeTail"}]
           /\ qPushPC \in [Loggers -> Q!ProducerPC]
           /\ rPushPC \in [Loggers -> {"idle", "loadSize", "reserve", "undo", "claim", "write"}]
           /\ \A t \in Threads : PlaceOK(t)
BY TypeParts DEF LoggerInv, PlaceInv, OwnTypeOK, Q!TypeOK, R!TypeOK

\* log() and a direct flush() keep the place of their thread.
LEMMA LogPlaces ==
    ASSUME LoggerInv, NEW t \in Loggers, LogCall(t) \/ UserFlush(t) \/ LogStep(t)
    PROVE  PlaceInv'
<1>1. PlaceInv /\ PlaceOK(t) /\ t \in Threads /\ t # Writer /\ t # Closer /\ t # Monitor
  BY ThreadsDiffer, PlaceTypes DEF LoggerInv
<1>2. /\ flushPC' = flushPC /\ qPopPC' = qPopPC /\ rPopPC' = rPopPC
      /\ \A u \in Threads : u # t => pc'[u] = pc[u]
      /\ \A u \in Loggers : u # t => qPushPC'[u] = qPushPC[u] /\ rPushPC'[u] = rPushPC[u]
  <2> USE DEF Goto, flushVars, qVars, rVars, Q!PushGoto, Q!PushReturn, Q!consumerVars,
          R!PushGoto, R!PushReturn, R!consumerVars
  <2>1. CASE LogCall(t) \/ UserFlush(t) \/ LogReturn(t) \/ LogNotify(t)
    BY <1>1, <2>1, PlaceTypes DEF LogCall, UserFlush, LogReturn, LogNotify
  <2>2. CASE LogPush(t) \/ LogPushed(t)
    BY <1>1, <2>2, PlaceTypes DEF LogPush, LogPushed, Q!PushBegin, Q!PushCount
  <2>3. CASE LogInPush(t)
    BY <1>1, <2>3, PlaceTypes DEF LogInPush, Q!PushInside, Q!PushLoadTail, Q!PushRoom,
       Q!PushReserve, Q!PushRetry, Q!PushAwait, Q!PushEmplace, Q!PushPublish
  <2>4. CASE LogFallback(t)
    BY <1>1, <2>4, PlaceTypes DEF LogFallback, Q!PushFull, R!PushBegin
  <2>5. CASE LogInRingPush(t)
    BY <1>1, <2>5, PlaceTypes DEF LogInRingPush, R!PushInside, R!PushRoom, R!PushReserve,
       R!PushOvershoot, R!PushClaim
  <2>6. CASE LogDropped(t) \/ LogRingPushed(t)
    BY <1>1, <2>6, PlaceTypes DEF LogDropped, LogRingPushed, R!PushFull, R!PushUndo, R!PushWrite
  <2> QED
    BY <2>1, <2>2, <2>3, <2>4, <2>5, <2>6 DEF LogStep
<1>3. PlaceOK(t)'
  <2> USE DEF PlaceOK, Goto, flushVars, qVars, rVars, Q!PushGoto, Q!PushReturn, R!PushGoto,
          R!PushReturn
  <2>1. CASE LogCall(t) \/ UserFlush(t) \/ LogReturn(t) \/ LogNotify(t)
    BY <1>1, <1>2, <2>1, PlaceTypes DEF LogCall, UserFlush, LogReturn, LogNotify
  <2>2. CASE LogPush(t) \/ LogPushed(t)
    BY <1>1, <1>2, <2>2, PlaceTypes DEF LogPush, LogPushed, Q!PushBegin, Q!PushCount
  <2>3. CASE LogInPush(t)
    BY <1>1, <1>2, <2>3, PlaceTypes DEF LogInPush, Q!PushInside, Q!PushLoadTail, Q!PushRoom,
       Q!PushReserve, Q!PushRetry, Q!PushAwait, Q!PushEmplace, Q!PushPublish
  <2>4. CASE LogFallback(t)
    BY <1>1, <1>2, <2>4, PlaceTypes DEF LogFallback, Q!PushFull, R!PushBegin
  <2>5. CASE LogInRingPush(t)
    BY <1>1, <1>2, <2>5, PlaceTypes DEF LogInRingPush, R!PushInside, R!PushRoom, R!PushReserve,
       R!PushOvershoot, R!PushClaim
  <2>6. CASE LogDropped(t) \/ LogRingPushed(t)
    BY <1>1, <1>2, <2>6, PlaceTypes DEF LogDropped, LogRingPushed, R!PushFull, R!PushUndo,
       R!PushWrite
  <2> QED
    BY <2>1, <2>2, <2>3, <2>4, <2>5, <2>6 DEF LogStep
<1> QED
  BY <1>1, <1>2, <1>3, PlaceOfOthers

\* flush() and emergencyFlush() keep the place of their thread.
LEMMA FlushPlacesKept ==
    ASSUME LoggerInv, NEW t \in Threads, FlushStep(t)
    PROVE  PlaceInv'
<1>1. PlaceInv /\ PlaceOK(t)
  BY PlaceTypes DEF LoggerInv
<1>2. /\ qPushPC' = qPushPC /\ rPushPC' = rPushPC
      /\ \A u \in Threads : u # t =>
               /\ pc'[u] = pc[u] /\ flushPC'[u] = flushPC[u]
               /\ qPopPC'[u] = qPopPC[u] /\ rPopPC'[u] = rPopPC[u]
  <2> USE DEF flushVars, qVars, rVars, Q!PopGoto, Q!PopReturn, Q!producerVars,
          R!PopGoto, R!PopReturn, R!producerVars
  <2>1. CASE FlushBegin(t)
    BY <2>1, PlaceTypes DEF FlushBegin, Q!PopLoadHead
  <2>2. CASE FlushInQueue(t)
    BY <2>2, PlaceTypes DEF FlushInQueue, Q!PopInside, Q!PopLoadTail, Q!PopAwait, Q!PopTake,
       Q!PopSkip, Q!PopReset, Q!PopFree, Q!PopAdvance
  <2>3. CASE FlushQueuePopped(t)
    BY <2>3, PlaceTypes DEF FlushQueuePopped, Q!PopEmpty, Q!PopCount, R!PopCall
  <2>4. CASE EmergencyQueuePopped(t)
    BY <2>4, PlaceTypes DEF EmergencyQueuePopped, Q!PopEmpty, Q!PopCount
  <2>5. CASE EmergencyQueueWritten(t)
    BY <2>5, PlaceTypes DEF EmergencyQueueWritten, R!PopCall
  <2>6. CASE FlushInRing(t)
    BY <2>6, PlaceTypes DEF FlushInRing, R!PopInside, R!PopExchange, R!PopLoadTail, R!PopMove
  <2>7. CASE FlushRingPopped(t)
    BY <2>7, PlaceTypes DEF FlushRingPopped, R!PopEmpty, R!PopStoreTail
  <2>8. CASE FlushThrows(t)
    BY <2>8, PlaceTypes DEF FlushThrows, R!PopThrow
  <2>9. CASE WriteEntry(t) \/ FlushReturn(t)
    BY <2>9, PlaceTypes DEF WriteEntry, FlushReturn
  <2> QED
    BY <2>1, <2>2, <2>3, <2>4, <2>5, <2>6, <2>7, <2>8, <2>9 DEF FlushStep
<1>3. PlaceOK(t)'
  <2> USE DEF PlaceOK, flushVars, qVars, rVars, Q!PopGoto, Q!PopReturn, R!PopGoto, R!PopReturn
  <2>1. CASE FlushBegin(t)
    BY <1>1, <1>2, <2>1, PlaceTypes, ThreadsDiffer DEF FlushBegin, Q!PopLoadHead
  <2>2. CASE FlushInQueue(t)
    BY <1>1, <1>2, <2>2, PlaceTypes DEF FlushInQueue, Q!PopInside, Q!PopLoadTail, Q!PopAwait,
       Q!PopTake, Q!PopSkip, Q!PopReset, Q!PopFree, Q!PopAdvance
  <2>3. CASE FlushQueuePopped(t)
    BY <1>1, <1>2, <2>3, PlaceTypes DEF FlushQueuePopped, Q!PopEmpty, Q!PopCount, R!PopCall
  <2>4. CASE EmergencyQueuePopped(t)
    BY <1>1, <1>2, <2>4, PlaceTypes DEF EmergencyQueuePopped, Q!PopEmpty, Q!PopCount
  <2>5. CASE EmergencyQueueWritten(t)
    BY <1>1, <1>2, <2>5, PlaceTypes DEF EmergencyQueueWritten, R!PopCall
  <2>6. CASE FlushInRing(t)
    BY <1>1, <1>2, <2>6, PlaceTypes DEF FlushInRing, R!PopInside, R!PopExchange, R!PopLoadTail,
       R!PopMove
  <2>7. CASE FlushRingPopped(t)
    BY <1>1, <1>2, <2>7, PlaceTypes DEF FlushRingPopped, R!PopEmpty, R!PopStoreTail
  <2>8. CASE FlushThrows(t)
    BY <1>1, <1>2, <2>8, PlaceTypes, ThreadsDiffer DEF FlushThrows, R!PopThrow
  <2>9. CASE WriteEntry(t)
    BY <1>1, <1>2, <2>9, PlaceTypes DEF WriteEntry
  <2>10. CASE FlushReturn(t)
    <3>1. /\ pc'[t] = AfterFlush(t) /\ flushPC'[t] = "none" /\ qPopPC[t] = "idle"
          /\ rPopPC[t] = "idle" /\ pc[t] \in {"flush", "lastFlush", "emergency"}
          /\ UNCHANGED <<qPopPC, rPopPC>>
      BY <1>1, <2>10, PlaceTypes DEF FlushReturn
    <3>2. /\ t \in Loggers => AfterFlush(t) = "idle"
          /\ t = Closer => AfterFlush(t) = "clear"
          /\ t = Monitor => AfterFlush(t) = "flushed"
          /\ t = Writer => AfterFlush(t) \in {"exited", "test"}
      BY ThreadsDiffer DEF AfterFlush
    <3>3. t \in Loggers \/ t = Closer \/ t = Monitor \/ t = Writer
      BY DEF Threads
    <3> QED
      BY <1>1, <1>2, <3>1, <3>2, <3>3, ThreadsDiffer
  <2> QED
    BY <2>1, <2>2, <2>3, <2>4, <2>5, <2>6, <2>7, <2>8, <2>9, <2>10 DEF FlushStep
<1> QED
  BY <1>1, <1>2, <1>3, PlaceOfOthers

\* The writer, deinitialize() and the start of an emergency flush keep the places.
LEMMA ControlPlaces ==
    ASSUME LoggerInv, WriterStep \/ CloseStep \/ CloseRequestStop \/ EmergencyCall \/ UNCHANGED vars
    PROVE  PlaceInv'
<1>1. PlaceInv /\ PlaceOK(Writer) /\ PlaceOK(Closer) /\ PlaceOK(Monitor)
  BY PlaceTypes, ThreadsDiffer DEF LoggerInv
<1>2. UNCHANGED <<flushPC, qPopPC, rPopPC, qPushPC, rPushPC>>
  BY DEF WriterStep, WriterLeave, WriterSleep, WriterWake, WriterChecksStop, CloseStep,
     CloseRelease, CloseJoin, CloseClear, CloseRequestStop, EmergencyCall, vars, qVars, rVars,
     flushVars
<1> USE DEF Goto, PlaceOK
<1>3. CASE WriterStep
  <2>1. PlaceOK(Writer)' /\ \A u \in Threads : u # Writer => pc'[u] = pc[u]
    BY <1>1, <1>2, <1>3, PlaceTypes, ThreadsDiffer DEF WriterStep, WriterLeave, WriterSleep,
       WriterWake, WriterChecksStop
  <2> QED
    BY <1>1, <1>2, <2>1, PlaceOfOthers, ThreadsDiffer
<1>4. CASE CloseStep \/ CloseRequestStop
  <2>1. PlaceOK(Closer)' /\ \A u \in Threads : u # Closer => pc'[u] = pc[u]
    BY <1>1, <1>2, <1>4, PlaceTypes, ThreadsDiffer DEF CloseStep, CloseRelease, CloseJoin,
       CloseClear, CloseRequestStop
  <2> QED
    BY <1>1, <1>2, <2>1, PlaceOfOthers, ThreadsDiffer
<1>5. CASE EmergencyCall
  <2>1. PlaceOK(Monitor)' /\ \A u \in Threads : u # Monitor => pc'[u] = pc[u]
    BY <1>1, <1>2, <1>5, PlaceTypes, ThreadsDiffer DEF EmergencyCall
  <2> QED
    BY <1>1, <1>2, <2>1, PlaceOfOthers, ThreadsDiffer
<1>6. CASE UNCHANGED vars
  BY <1>1, <1>2, <1>6 DEF PlaceInv, vars
<1> QED
  BY <1>3, <1>4, <1>5, <1>6

-------------------------------------------------------------------------------
(* The end of the writer.                                                  *)

\* From the join of deinitialize() on nobody moves the writer: it has exited, and a
\* thread that has exited is in no flush.
LEMMA WriterStaysGone ==
    ASSUME LoggerInv, [AnyNext]_vars
    PROVE  WriterGoneAfterJoin'
<1>1. WriterGoneAfterJoin /\ PlaceOK(Writer) /\ PlaceOK(Closer)
  BY PlaceTypes, ThreadsDiffer DEF LoggerInv
<1> USE DEF WriterGoneAfterJoin
<1>2. ASSUME NEW t \in Loggers, LogCall(t) \/ UserFlush(t) \/ LogStep(t)
      PROVE  WriterGoneAfterJoin'
  <2>1. pc'[Writer] = pc[Writer] /\ pc'[Closer] = pc[Closer] /\ initialized' = initialized
    BY <1>2, PlaceTypes, ThreadsDiffer DEF LogCall, UserFlush, LogStep, LogReturn, LogPush,
       LogInPush, LogPushed, LogNotify, LogFallback, LogInRingPush, LogDropped, LogRingPushed,
       Goto, control
  <2> QED
    BY <1>1, <2>1
<1>3. ASSUME NEW t \in Threads, FlushStep(t) PROVE WriterGoneAfterJoin'
  <2>1. /\ initialized' = initialized
        /\ \A u \in Threads : u # t => pc'[u] = pc[u]
        /\ pc'[t] = pc[t] \/ (flushPC[t] # "none" /\ pc'[t] \in {AfterFlush(t), "flushed", "terminated"})
    <3>1. CASE FlushThrows(t)
      <4>1. flushPC[t] = "ring"
        BY <3>1, PlaceTypes DEF FlushThrows, R!PopThrow, R!PopGoto, PlaceOK
      <4> QED
        BY <3>1, <4>1, PlaceTypes DEF FlushThrows, control
    <3>2. CASE FlushReturn(t)
      BY <3>2, PlaceTypes DEF FlushReturn, control
    <3>3. CASE UNCHANGED <<pc, initialized>>
      BY <3>3
    <3> QED
      BY <1>3, <3>1, <3>2, <3>3 DEF FlushStep, FlushBegin, FlushInQueue, FlushQueuePopped,
         FlushInRing, FlushRingPopped, WriteEntry, EmergencyQueuePopped, EmergencyQueueWritten,
         control
  <2>2. PlaceOK(t)
    BY PlaceTypes
  <2>3. CASE t = Writer
    <3>1. pc[Writer] = "exited" => pc'[Writer] = "exited"
      BY <2>1, <2>2, <2>3 DEF PlaceOK
    <3> QED
      BY <1>1, <2>1, <2>3, <3>1, ThreadsDiffer
  <2>4. CASE t = Closer
    <3>1. pc'[Closer] \in {"flush", "clear"} => pc[Closer] \in {"flush", "clear"}
      BY <1>1, <2>1, <2>2, <2>4 DEF PlaceOK
    <3> QED
      BY <1>1, <2>1, <2>4, <3>1, ThreadsDiffer
  <2>5. CASE t # Writer /\ t # Closer
    BY <1>1, <2>1, <2>5, ThreadsDiffer
  <2> QED
    BY <2>3, <2>4, <2>5
<1>4. CASE WriterStep
  BY <1>1, <1>4, PlaceTypes, ThreadsDiffer DEF WriterStep, WriterLeave, WriterSleep, WriterWake,
     WriterChecksStop, Goto, control
<1>5. CASE CloseStep \/ CloseRequestStop
  BY <1>1, <1>5, PlaceTypes, ThreadsDiffer DEF CloseStep, CloseRelease, CloseJoin, CloseClear,
     CloseRequestStop, Goto, control
<1>6. CASE EmergencyCall
  BY <1>1, <1>6, PlaceTypes, ThreadsDiffer DEF EmergencyCall, Goto
<1>7. CASE UNCHANGED vars
  BY <1>1, <1>7 DEF vars, control
<1> QED
  BY <1>2, <1>3, <1>4, <1>5, <1>6, <1>7, StepCases

-------------------------------------------------------------------------------
(* One buffer accepts a message.                                           *)

\* Messages are pairs; those of two threads differ.
LEMMA MessageFacts ==
    /\ \A m \in Messages : m = <<m[1], m[2]>> /\ m[1] \in Loggers /\ m[2] \in Nat
    /\ \A t \in Loggers : Message(t)[1] = t /\ Message(t)[2] = current[t]
    /\ \A t, u \in Loggers : t # u => Message(t) # Message(u)
BY LoggerBoundAssumption DEF Messages, Message

\* The facts of the invariant that the steps below rely on.
LEMMA CallFacts ==
    ASSUME LoggerInv
    PROVE  /\ calls \in Nat /\ current \in [Loggers -> Nat]
           /\ qAccepted \in Seq(Messages) /\ rAccepted \in Seq(Messages)
           /\ Range(qAccepted) \subseteq Messages /\ Range(rAccepted) \subseteq Messages
           /\ qEntry \in [Loggers -> Messages \cup {NoEntry}]
           /\ rEntry \in [Loggers -> Messages \cup {Unwritten}]
           /\ CallInv /\ \A t \in Loggers : CallOK(t)
<1>1. Q!TypeOK /\ R!TypeOK /\ OwnTypeOK
  BY TypeParts DEF LoggerInv
<1>2. qAccepted \in Seq(Messages) /\ rAccepted \in Seq(Messages)
  BY <1>1 DEF Q!TypeOK, R!TypeOK
<1>3. calls \in Nat /\ current \in [Loggers -> Nat]
  BY <1>1, LoggerBoundAssumption DEF OwnTypeOK
<1>4. /\ qEntry \in [Loggers -> Messages \cup {NoEntry}]
      /\ rEntry \in [Loggers -> Messages \cup {Unwritten}]
  BY <1>1 DEF Q!TypeOK, R!TypeOK
<1>5. Range(qAccepted) \subseteq Messages /\ Range(rAccepted) \subseteq Messages
  BY <1>2, RangeInSet
<1> QED
  BY <1>2, <1>3, <1>4, <1>5 DEF LoggerInv, CallInv

\* A step that accepts nothing and starts no call concerns its own thread only.
LEMMA CallOfOthers ==
    ASSUME LoggerInv, NEW t, t \in Loggers => CallOK(t)',
           UNCHANGED <<callVars, qAccepted, rAccepted>>,
           \A u \in Loggers : u # t =>
               /\ pc'[u] = pc[u] /\ qPushPC'[u] = qPushPC[u]
               /\ qEntry'[u] = qEntry[u] /\ rEntry'[u] = rEntry[u]
    PROVE  CallInv'
<1>1. calls' = calls /\ current' = current
  BY DEF callVars
<1>2. ASSUME NEW u \in Loggers PROVE CallOK(u)'
  <2>1. CASE u = t
    BY <2>1
  <2>2. CASE u # t
    BY <1>1, <2>2, CallFacts DEF CallOK, Message
  <2> QED
    BY <2>1, <2>2
<1> QED
  BY <1>1, <1>2, CallFacts DEF CallInv

\* The queue accepts the message of t: neither buffer had it.
LEMMA CallAfterReserve ==
    ASSUME LoggerInv, NEW t \in Loggers, LogInPush(t), Q!PushReserve(t)
    PROVE  CallInv'
<1>1. /\ pc[t] = "push" /\ qPushPC[t] = "reserve" /\ qEntry[t] = Message(t)
      /\ Message(t) \notin Range(rAccepted) /\ Message(t) \notin Range(qAccepted)
  BY PlaceTypes, CallFacts, ThreadsDiffer DEF Q!PushReserve, Q!PushGoto, PlaceOK, CallOK
<1>2. /\ Range(qAccepted') = Range(qAccepted) \cup {Message(t)} /\ rAccepted' = rAccepted
      /\ current' = current /\ calls' = calls /\ pc' = pc /\ qEntry' = qEntry /\ rEntry' = rEntry
  BY <1>1, CallFacts, RangeAppend DEF LogInPush, Q!PushReserve, callVars, rVars
<1>3. qPushPC' = [qPushPC EXCEPT ![t] = "await"]
  BY DEF Q!PushReserve, Q!PushGoto
<1>4. ASSUME NEW u \in Loggers PROVE CallOK(u)'
  <2>1. CASE u = t
    <3>1. qPushPC'[t] = "await"
      BY <1>3, PlaceTypes
    <3> QED
      BY <1>1, <1>2, <2>1, <3>1, CallFacts DEF CallOK, Message
  <2>2. CASE u # t
    <3>1. Message(u) # Message(t) /\ Message(u)' = Message(u) /\ qPushPC'[u] = qPushPC[u]
      BY <1>2, <1>3, <2>2, MessageFacts, PlaceTypes DEF Message
    <3> QED
      BY <1>2, <3>1, CallFacts DEF CallOK
  <2> QED
    BY <2>1, <2>2
<1>5. \A m \in Range(qAccepted)' \cup Range(rAccepted)' : m[2] <= current'[m[1]]
  BY <1>2, CallFacts, MessageFacts DEF CallInv
<1>6. Range(qAccepted)' \cap Range(rAccepted)' = {}
  BY <1>1, <1>2, CallFacts DEF CallInv
<1> QED
  BY <1>4, <1>5, <1>6 DEF CallInv

\* The ring buffer accepts the message of t: the queue has refused it.
LEMMA CallAfterClaim ==
    ASSUME LoggerInv, NEW t \in Loggers, LogInRingPush(t), R!PushClaim(t)
    PROVE  CallInv'
<1>1. pc[t] = "ringPush" /\ rEntry[t] = Message(t) /\ Message(t) \notin Range(qAccepted)
  BY PlaceTypes, CallFacts, ThreadsDiffer DEF R!PushClaim, R!PushGoto, PlaceOK, CallOK
<1>2. /\ Range(rAccepted') = Range(rAccepted) \cup {Message(t)} /\ qAccepted' = qAccepted
      /\ current' = current /\ calls' = calls /\ pc' = pc /\ qEntry' = qEntry /\ rEntry' = rEntry
      /\ qPushPC' = qPushPC
  BY <1>1, CallFacts, RangeAppend DEF LogInRingPush, R!PushClaim, callVars, qVars
<1>3. ASSUME NEW u \in Loggers PROVE CallOK(u)'
  <2>1. CASE u = t
    BY <1>1, <1>2, <2>1, CallFacts DEF CallOK, Message
  <2>2. CASE u # t
    <3>1. Message(u) # Message(t) /\ Message(u)' = Message(u)
      BY <1>2, <2>2, MessageFacts DEF Message
    <3> QED
      BY <1>2, <3>1, CallFacts DEF CallOK
  <2> QED
    BY <2>1, <2>2
<1>4. \A m \in Range(qAccepted)' \cup Range(rAccepted)' : m[2] <= current'[m[1]]
  BY <1>2, CallFacts, MessageFacts DEF CallInv
<1>5. Range(qAccepted)' \cap Range(rAccepted)' = {}
  BY <1>1, <1>2, CallFacts DEF CallInv
<1> QED
  BY <1>3, <1>4, <1>5 DEF CallInv

\* A new call gets a number that no accepted message has.
LEMMA CallAfterLogCall ==
    ASSUME LoggerInv, NEW t \in Loggers, LogCall(t)
    PROVE  CallInv'
<1>1. /\ calls' = calls + 1 /\ current' = [current EXCEPT ![t] = calls + 1]
      /\ qAccepted' = qAccepted /\ rAccepted' = rAccepted /\ qEntry' = qEntry /\ rEntry' = rEntry
      /\ qPushPC' = qPushPC /\ pc' = [pc EXCEPT ![t] = "enter"]
  BY DEF LogCall, Goto, qVars, rVars
<1>2. current'[t] = calls + 1 /\ \A u \in Loggers : u # t => current'[u] = current[u]
  BY <1>1, CallFacts
<1>3. \A m \in Range(qAccepted) \cup Range(rAccepted) :
          m[1] \in Loggers /\ m[2] <= current[m[1]] /\ m[2] \in Nat
  BY CallFacts, MessageFacts DEF CallInv
<1>4. \A u \in Loggers : current[u] <= calls /\ current[u] \in Nat /\ calls \in Nat
  BY CallFacts DEF CallOK
<1>5. \A m \in Range(qAccepted) \cup Range(rAccepted) : m[2] <= current'[m[1]] /\ m[2] <= calls
  BY <1>2, <1>3, <1>4
<1>6. <<t, calls + 1>> \notin Range(qAccepted) \cup Range(rAccepted)
  <2>1. <<t, calls + 1>>[2] = calls + 1
    OBVIOUS
  <2> QED
    BY <1>4, <1>5, <2>1
<1>7. ASSUME NEW u \in Loggers PROVE CallOK(u)'
  <2>1. CASE u = t
    <3>1. pc'[t] = "enter" /\ Message(t)' = <<t, calls + 1>>
      BY <1>1, <1>2, PlaceTypes, ThreadsDiffer DEF Message
    <3> QED
      BY <1>1, <1>2, <1>4, <1>6, <2>1, <3>1 DEF CallOK
  <2>2. CASE u # t
    <3>1. pc'[u] = pc[u] /\ Message(u)' = Message(u) /\ current'[u] = current[u]
      BY <1>1, <1>2, <2>2, PlaceTypes, ThreadsDiffer DEF Message
    <3> QED
      BY <1>1, <1>4, <3>1, CallFacts DEF CallOK
  <2> QED
    BY <2>1, <2>2
<1> QED
  BY <1>1, <1>5, <1>7, CallFacts DEF CallInv

\* log() and a direct flush() keep the books of the calls.
LEMMA LogCalls ==
    ASSUME LoggerInv, NEW t \in Loggers, LogCall(t) \/ UserFlush(t) \/ LogStep(t)
    PROVE  CallInv'
<1>1. CallOK(t) /\ PlaceOK(t) /\ t \in Threads
  BY CallFacts, PlaceTypes, ThreadsDiffer
<1>2. CASE UserFlush(t)
  <2>1. /\ calls' = calls + 1 /\ current' = current /\ pc' = [pc EXCEPT ![t] = "flush"]
        /\ qAccepted' = qAccepted /\ rAccepted' = rAccepted /\ qEntry' = qEntry /\ rEntry' = rEntry
        /\ qPushPC' = qPushPC
    BY <1>2 DEF UserFlush, Goto, qVars, rVars
  <2>2. ASSUME NEW u \in Loggers PROVE CallOK(u)'
    <3>1. current[u] <= calls' /\ Message(u)' = Message(u)
      <4>1. current[u] <= calls /\ current[u] \in Nat /\ calls \in Nat
        BY CallFacts DEF CallOK
      <4> QED
        BY <2>1, <4>1 DEF Message
    <3>2. pc'[u] = "flush" \/ pc'[u] = pc[u]
      BY <2>1, PlaceTypes, ThreadsDiffer
    <3> QED
      BY <2>1, <3>1, <3>2, CallFacts DEF CallOK
  <2> QED
    BY <2>1, <2>2, CallFacts DEF CallInv
<1> USE DEF Goto, qVars, rVars, callVars, Q!PushGoto, Q!PushReturn, Q!history, R!PushGoto,
        R!PushReturn, R!history
<1>3. CASE LogReturn(t) \/ LogNotify(t)
  <2>1. UNCHANGED <<callVars, qAccepted, rAccepted, qPushPC, qEntry, rEntry>>
        /\ pc' = [pc EXCEPT ![t] = "idle"]
    BY <1>3 DEF LogReturn, LogNotify
  <2>2. CallOK(t)'
    BY <1>1, <2>1, PlaceTypes DEF CallOK
  <2> QED
    BY <2>1, <2>2, CallOfOthers, PlaceTypes, ThreadsDiffer
<1>4. CASE LogPush(t)
  <2>1. /\ UNCHANGED <<callVars, qAccepted, rAccepted, rEntry>> /\ pc[t] = "enter"
        /\ pc' = [pc EXCEPT ![t] = "push"] /\ qEntry' = [qEntry EXCEPT ![t] = Message(t)]
        /\ qPushPC' = [qPushPC EXCEPT ![t] = "loadTail"]
    BY <1>4 DEF LogPush, Q!PushBegin
  <2>2. qEntry'[t] = Message(t) /\ pc'[t] = "push" /\ Message(t)' = Message(t)
    BY <1>1, <2>1, CallFacts, PlaceTypes DEF Message
  <2>3. CallOK(t)'
    BY <1>1, <2>1, <2>2 DEF CallOK
  <2> QED
    BY <2>1, <2>3, CallOfOthers, PlaceTypes, CallFacts, ThreadsDiffer
<1>5. CASE LogInPush(t)
  <2>1. CASE Q!PushReserve(t)
    BY <1>5, <2>1, CallAfterReserve
  <2>2. CASE ~Q!PushReserve(t)
    <3>1. /\ UNCHANGED <<callVars, qAccepted, rAccepted, rEntry, qEntry, pc>>
          /\ \A u \in Loggers : u # t => qPushPC'[u] = qPushPC[u]
          /\ \/ qPushPC[t] \in {"loadTail", "loadHead", "reserve"}
             \/ qPushPC'[t] \notin {"loadTail", "loadHead", "reserve"}
      BY <1>5, <2>2, PlaceTypes DEF LogInPush, Q!PushInside, Q!PushLoadTail, Q!PushRoom,
         Q!PushRetry, Q!PushAwait, Q!PushEmplace, Q!PushPublish
    <3>2. CallOK(t)'
      BY <1>1, <3>1 DEF CallOK, Message
    <3> QED
      BY <3>1, <3>2, CallOfOthers
  <2> QED
    BY <2>1, <2>2
<1>6. CASE LogPushed(t)
  <2>1. /\ UNCHANGED <<callVars, qAccepted, rAccepted, rEntry>>
        /\ pc' = [pc EXCEPT ![t] = "notify"]
        /\ \A u \in Loggers : u # t => qPushPC'[u] = qPushPC[u] /\ qEntry'[u] = qEntry[u]
    BY <1>6, PlaceTypes, CallFacts DEF LogPushed, Q!PushCount
  <2>2. CallOK(t)'
    BY <1>1, <2>1, PlaceTypes DEF CallOK
  <2> QED
    BY <2>1, <2>2, CallOfOthers, PlaceTypes, ThreadsDiffer
<1>7. CASE LogFallback(t)
  <2>1. /\ UNCHANGED <<callVars, qAccepted, rAccepted>> /\ qPushPC[t] = "loadHead"
        /\ pc[t] = "push" /\ pc' = [pc EXCEPT ![t] = "ringPush"]
        /\ rEntry' = [rEntry EXCEPT ![t] = Message(t)]
        /\ \A u \in Loggers : u # t => qPushPC'[u] = qPushPC[u] /\ qEntry'[u] = qEntry[u]
    BY <1>7, PlaceTypes, CallFacts DEF LogFallback, Q!PushFull, R!PushBegin
  <2>2. rEntry'[t] = Message(t) /\ pc'[t] = "ringPush" /\ Message(t)' = Message(t)
    BY <1>1, <2>1, CallFacts, PlaceTypes DEF Message
  <2>3. CallOK(t)'
    BY <1>1, <2>1, <2>2 DEF CallOK
  <2> QED
    BY <2>1, <2>3, CallOfOthers, PlaceTypes, CallFacts, ThreadsDiffer
<1>8. CASE LogInRingPush(t)
  <2>1. CASE R!PushClaim(t)
    BY <1>8, <2>1, CallAfterClaim
  <2>2. CASE ~R!PushClaim(t)
    <3>1. UNCHANGED <<callVars, qAccepted, rAccepted, qPushPC, qEntry, rEntry, pc>>
      BY <1>8, <2>2 DEF LogInRingPush, R!PushInside, R!PushRoom, R!PushReserve, R!PushOvershoot
    <3>2. CallOK(t)'
      BY <1>1, <3>1 DEF CallOK, Message
    <3> QED
      BY <3>1, <3>2, CallOfOthers
  <2> QED
    BY <2>1, <2>2
<1>9. CASE LogDropped(t) \/ LogRingPushed(t)
  <2>1. /\ UNCHANGED <<callVars, qAccepted, rAccepted, qPushPC, qEntry>>
        /\ pc' = [pc EXCEPT ![t] = "idle"] \/ pc' = [pc EXCEPT ![t] = "flush"]
        /\ \A u \in Loggers : u # t => rEntry'[u] = rEntry[u]
    BY <1>9, CallFacts DEF LogDropped, LogRingPushed, R!PushFull, R!PushUndo, R!PushWrite
  <2>2. CallOK(t)'
    BY <1>1, <2>1, PlaceTypes DEF CallOK
  <2> QED
    BY <2>1, <2>2, CallOfOthers, PlaceTypes, ThreadsDiffer
<1> QED
  BY <1>2, <1>3, <1>4, <1>5, <1>6, <1>7, <1>8, <1>9, CallAfterLogCall DEF LogStep

\* Only log() hands entries to the buffers.
LEMMA OthersAcceptNothing ==
    ASSUME [AnyNext]_vars, ~ \E t \in Loggers : LogCall(t) \/ UserFlush(t) \/ LogStep(t)
    PROVE  UNCHANGED <<callVars, qAccepted, rAccepted, qPushPC, qEntry, rEntry>>
<1> USE DEF qVars, rVars, flushVars, callVars, Q!producerVars, Q!history, R!producerVars,
        R!history
<1>1. ASSUME NEW t \in Threads, FlushStep(t)
      PROVE  UNCHANGED <<callVars, qAccepted, rAccepted, qPushPC, qEntry, rEntry>>
  <2>1. CASE FlushBegin(t) \/ WriteEntry(t) \/ FlushReturn(t)
    BY <2>1 DEF FlushBegin, WriteEntry, FlushReturn, Q!PopLoadHead
  <2>2. CASE FlushInQueue(t)
    BY <2>2 DEF FlushInQueue, Q!PopInside, Q!PopLoadTail, Q!PopAwait, Q!PopTake, Q!PopSkip,
       Q!PopReset, Q!PopFree, Q!PopAdvance
  <2>3. CASE FlushQueuePopped(t) \/ EmergencyQueuePopped(t)
    BY <2>3 DEF FlushQueuePopped, EmergencyQueuePopped, Q!PopEmpty, Q!PopCount, R!PopCall
  <2>4. CASE EmergencyQueueWritten(t)
    BY <2>4 DEF EmergencyQueueWritten, R!PopCall
  <2>5. CASE FlushInRing(t)
    BY <2>5 DEF FlushInRing, R!PopInside, R!PopExchange, R!PopLoadTail, R!PopMove
  <2>6. CASE FlushRingPopped(t) \/ FlushThrows(t)
    BY <2>6 DEF FlushRingPopped, FlushThrows, R!PopEmpty, R!PopStoreTail, R!PopThrow
  <2> QED
    BY <1>1, <2>1, <2>2, <2>3, <2>4, <2>5, <2>6 DEF FlushStep
<1>2. CASE WriterStep \/ CloseStep \/ CloseRequestStop \/ EmergencyCall \/ UNCHANGED vars
  BY <1>2 DEF WriterStep, WriterLeave, WriterSleep, WriterWake, WriterChecksStop, CloseStep,
     CloseRelease, CloseJoin, CloseClear, CloseRequestStop, EmergencyCall, vars
<1> QED
  BY <1>1, <1>2, StepCases

\* No other step accepts a message or begins a call.
LEMMA OtherCalls ==
    ASSUME LoggerInv, [AnyNext]_vars,
           ~ \E t \in Loggers : LogCall(t) \/ UserFlush(t) \/ LogStep(t)
    PROVE  CallInv'
<1>1. UNCHANGED <<callVars, qAccepted, rAccepted, qPushPC, qEntry, rEntry>>
  BY OthersAcceptNothing
<1>2. ASSUME NEW u \in Loggers
      PROVE  pc'[u] = pc[u] \/ pc'[u] \in {"idle", "terminated"}
  <2>1. ASSUME NEW t \in Threads, FlushStep(t)
        PROVE  pc'[u] = pc[u] \/ pc'[u] \in {"idle", "terminated"}
    <3>1. CASE FlushReturn(t)
      <4>1. pc' = [pc EXCEPT ![t] = AfterFlush(t)] /\ (t \in Loggers => AfterFlush(t) = "idle")
        BY <3>1, ThreadsDiffer DEF FlushReturn, AfterFlush
      <4> QED
        BY <4>1, PlaceTypes, ThreadsDiffer
    <3>2. CASE FlushThrows(t)
      BY <3>2, PlaceTypes, ThreadsDiffer DEF FlushThrows
    <3>3. CASE UNCHANGED pc
      BY <3>3
    <3> QED
      BY <2>1, <3>1, <3>2, <3>3 DEF FlushStep, FlushBegin, FlushInQueue, FlushQueuePopped,
         FlushInRing, FlushRingPopped, WriteEntry, EmergencyQueuePopped, EmergencyQueueWritten
  <2>2. CASE WriterStep \/ CloseStep \/ CloseRequestStop \/ EmergencyCall \/ UNCHANGED vars
    BY <2>2, PlaceTypes, ThreadsDiffer DEF WriterStep, WriterLeave, WriterSleep, WriterWake,
       WriterChecksStop, CloseStep, CloseRelease, CloseJoin, CloseClear, CloseRequestStop,
       EmergencyCall, vars, Goto
  <2> QED
    BY <2>1, <2>2, StepCases
<1>3. ASSUME NEW u \in Loggers PROVE CallOK(u)'
  <2>1. CallOK(u) /\ calls' = calls /\ current' = current
    BY <1>1, CallFacts DEF callVars
  <2> QED
    BY <1>1, <1>2, <2>1 DEF CallOK, Message
<1> QED
  BY <1>1, <1>3, CallFacts DEF CallInv, callVars

-------------------------------------------------------------------------------
(* Where the lines of the file come from.                                  *)

\* The buffers never take back what they accepted.
LEMMA KnownGrows ==
    ASSUME LoggerInv, [AnyNext]_vars
    PROVE  Known \subseteq Known'
<1>1. ASSUME NEW t \in Loggers, LogCall(t) \/ UserFlush(t) \/ LogStep(t)
      PROVE  Known \subseteq Known'
  <2> USE DEF qVars, rVars, Q!PushGoto, Q!PushReturn, Q!history, R!PushGoto, R!PushReturn,
          R!history
  <2>1. CASE LogInPush(t)
    <3>1. qAccepted' = qAccepted \/ qAccepted' = Append(qAccepted, qEntry[t])
      BY <2>1 DEF LogInPush, Q!PushInside, Q!PushLoadTail, Q!PushRoom, Q!PushReserve,
         Q!PushRetry, Q!PushAwait, Q!PushEmplace, Q!PushPublish
    <3>2. Range(qAccepted) \subseteq Range(qAccepted')
      <4>1. Range(Append(qAccepted, qEntry[t])) = Range(qAccepted) \cup {qEntry[t]}
        BY CallFacts, RangeAppend
      <4> QED
        BY <3>1, <4>1
    <3> QED
      BY <2>1, <3>2 DEF LogInPush, Known
  <2>2. CASE LogInRingPush(t)
    <3>1. rAccepted' = rAccepted \/ rAccepted' = Append(rAccepted, rEntry[t])
      BY <2>2 DEF LogInRingPush, R!PushInside, R!PushRoom, R!PushReserve, R!PushOvershoot,
         R!PushClaim
    <3>2. Range(rAccepted) \subseteq Range(rAccepted')
      <4>1. Range(Append(rAccepted, rEntry[t])) = Range(rAccepted) \cup {rEntry[t]}
        BY CallFacts, RangeAppend
      <4> QED
        BY <3>1, <4>1
    <3> QED
      BY <2>2, <3>2 DEF LogInRingPush, Known
  <2>3. CASE LogCall(t) \/ UserFlush(t) \/ LogReturn(t) \/ LogPush(t) \/ LogPushed(t) \/ LogNotify(t)
    BY <2>3 DEF LogCall, UserFlush, LogReturn, LogPush, LogPushed, LogNotify, Q!PushBegin,
       Q!PushCount, Known
  <2>4. CASE LogFallback(t) \/ LogDropped(t) \/ LogRingPushed(t)
    BY <2>4 DEF LogFallback, LogDropped, LogRingPushed, Q!PushFull, R!PushBegin, R!PushFull,
       R!PushUndo, R!PushWrite, Known
  <2> QED
    BY <1>1, <2>1, <2>2, <2>3, <2>4 DEF LogStep
<1>2. CASE ~ \E t \in Loggers : LogCall(t) \/ UserFlush(t) \/ LogStep(t)
  BY <1>2, OthersAcceptNothing DEF Known
<1> QED
  BY <1>1, <1>2

\* Whatever is in the buffers and on its way stays known when nobody touches it.
LEMMA KnownKept ==
    ASSUME LoggerInv, Known \subseteq Known'
    PROVE  /\ UNCHANGED <<qStorage, qPushPC, qEntry, qBatch>> => QueueKnown'
           /\ UNCHANGED <<rBuffer, rPushPC, rEntry, rBatch>> => RingKnown'
           /\ UNCHANGED <<pending, written>> => FileKnown'
<1>1. QueueKnown /\ RingKnown /\ FileKnown
  BY DEF LoggerInv, KnownInv
<1>2. ASSUME UNCHANGED <<qStorage, qPushPC, qEntry, qBatch>> PROVE QueueKnown'
  BY <1>1, <1>2 DEF QueueKnown, Q!Cells
<1>3. ASSUME UNCHANGED <<rBuffer, rPushPC, rEntry, rBatch>> PROVE RingKnown'
  BY <1>1, <1>3 DEF RingKnown, R!Slots
<1>4. ASSUME UNCHANGED <<pending, written>> PROVE FileKnown'
  BY <1>1, <1>4 DEF FileKnown
<1> QED
  BY <1>2, <1>3, <1>4

\* The types of what can hold an entry.
LEMMA HolderTypes ==
    ASSUME LoggerInv
    PROVE  /\ qStorage \in [Q!Cells -> Messages \cup {NoEntry}]
           /\ rBuffer \in [R!Slots -> Messages \cup {Unwritten}]
           /\ qBatch \in [Threads -> Seq(Messages)]
           /\ rBatch \in [Threads -> Seq(Messages \cup {Unwritten})]
           /\ pending \in [Threads -> Seq(Messages \cup {Unwritten})]
           /\ written \in Seq(Messages \cup {Unwritten})
           /\ \A t \in Threads : Q!Slot(Q!Ticket(t)) \in Q!Cells
           /\ \A t \in Threads : R!Index(rFrom[t] + rDone[t]) \in R!Slots
           /\ QueueKnown /\ RingKnown /\ FileKnown
<1>1. Q!TypeOK /\ R!TypeOK /\ OwnTypeOK
  BY TypeParts DEF LoggerInv
<1>2. \A t \in Threads : Q!Ticket(t) \in Int /\ rFrom[t] + rDone[t] \in Int
  BY <1>1, LoggerSizesAssumption DEF Q!TypeOK, R!TypeOK, Q!Ticket, R!Slots
<1>3. /\ qStorage \in [Q!Cells -> Messages \cup {NoEntry}] /\ qBatch \in [Threads -> Seq(Messages)]
  BY <1>1 DEF Q!TypeOK
<1>4. /\ rBuffer \in [R!Slots -> Messages \cup {Unwritten}]
      /\ rBatch \in [Threads -> Seq(Messages \cup {Unwritten})]
  BY <1>1 DEF R!TypeOK
<1>5. /\ pending \in [Threads -> Seq(Messages \cup {Unwritten})]
      /\ written \in Seq(Messages \cup {Unwritten})
  BY <1>1 DEF OwnTypeOK
<1> QED
  BY <1>2, <1>3, <1>4, <1>5, WrappedTypes DEF LoggerInv, KnownInv

\* tryPush of the queue stores only what it has accepted.
LEMMA QueuePushKnown ==
    ASSUME LoggerInv, [AnyNext]_vars, NEW t \in Loggers,
           Q!PushStep(t) \/ Q!PushBegin(t, Message(t))
    PROVE  QueueKnown'
<1>1. Known \subseteq Known'
  BY KnownGrows
<1> USE DEF Q!PushGoto, Q!PushReturn, Q!consumerVars, Q!cells
<1>2. qBatch' = qBatch
  BY DEF Q!PushStep, Q!PushInside, Q!PushLoadTail, Q!PushRoom, Q!PushReserve, Q!PushRetry,
     Q!PushAwait, Q!PushEmplace, Q!PushPublish, Q!PushFull, Q!PushCount, Q!PushBegin
<1>3. \A s \in Q!Cells : qStorage'[s] \in Known' \cup {NoEntry}
  <2>1. CASE Q!PushEmplace(t)
    <3>1. /\ qStorage' = [qStorage EXCEPT ![Q!Slot(qLocalTail[t])] = qEntry[t]]
          /\ qPushPC[t] = "emplace"
      BY <2>1 DEF Q!PushEmplace
    <3>2. qEntry[t] \in Known
      BY <3>1, HolderTypes DEF QueueKnown
    <3>3. \A s \in Q!Cells : qStorage'[s] = qStorage[s] \/ qStorage'[s] = qEntry[t]
      BY <3>1, HolderTypes
    <3> QED
      BY <1>1, <3>2, <3>3, HolderTypes DEF QueueKnown
  <2>2. CASE qStorage' = qStorage
    BY <1>1, <2>2, HolderTypes DEF QueueKnown
  <2> QED
    BY <2>1, <2>2 DEF Q!PushStep, Q!PushInside, Q!PushLoadTail, Q!PushRoom, Q!PushReserve,
       Q!PushRetry, Q!PushAwait, Q!PushPublish, Q!PushFull, Q!PushCount, Q!PushBegin
<1>4. \A u \in Loggers : u # t => qPushPC'[u] = qPushPC[u] /\ qEntry'[u] = qEntry[u]
  BY PlaceTypes, CallFacts DEF Q!PushStep, Q!PushInside, Q!PushLoadTail, Q!PushRoom,
     Q!PushReserve, Q!PushRetry, Q!PushAwait, Q!PushEmplace, Q!PushPublish, Q!PushFull,
     Q!PushCount, Q!PushBegin
<1>5. qPushPC'[t] \in {"await", "emplace", "publish", "count"} => qEntry'[t] \in Known'
  <2>1. CASE Q!PushReserve(t)
    <3>1. qEntry' = qEntry /\ qAccepted' = Append(qAccepted, qEntry[t])
      BY <2>1 DEF Q!PushReserve
    <3>2. qEntry[t] \in Range(qAccepted')
      BY <3>1, CallFacts, RangeAppend
    <3> QED
      BY <3>1, <3>2 DEF Known
  <2>2. CASE Q!PushAwait(t) \/ Q!PushEmplace(t) \/ Q!PushPublish(t)
    <3>1. qEntry' = qEntry /\ qPushPC[t] \in {"await", "emplace", "publish"}
      BY <2>2 DEF Q!PushAwait, Q!PushEmplace, Q!PushPublish
    <3> QED
      BY <1>1, <3>1, HolderTypes DEF QueueKnown
  <2>3. CASE Q!PushLoadTail(t) \/ Q!PushRoom(t) \/ Q!PushRetry(t) \/ Q!PushFull(t)
             \/ Q!PushCount(t) \/ Q!PushBegin(t, Message(t))
    BY <2>3, PlaceTypes DEF Q!PushLoadTail, Q!PushRoom, Q!PushRetry, Q!PushFull, Q!PushCount,
       Q!PushBegin
  <2> QED
    BY <2>1, <2>2, <2>3 DEF Q!PushStep, Q!PushInside
<1> QED
  BY <1>1, <1>2, <1>3, <1>4, <1>5, HolderTypes DEF QueueKnown, Q!Cells

\* popAll of the queue hands out only what was stored.
LEMMA QueuePopKnown ==
    ASSUME LoggerInv, [AnyNext]_vars, NEW t \in Threads, Q!PopLoadHead(t) \/ Q!PopStep(t)
    PROVE  QueueKnown'
<1>1. Known \subseteq Known'
  BY KnownGrows
<1> USE DEF Q!PopGoto, Q!PopReturn, Q!producerVars, Q!cells
<1>2. qPushPC' = qPushPC /\ qEntry' = qEntry
  BY DEF Q!PopStep, Q!PopInside, Q!PopLoadHead, Q!PopEmpty, Q!PopLoadTail, Q!PopAwait, Q!PopTake,
     Q!PopSkip, Q!PopReset, Q!PopFree, Q!PopAdvance, Q!PopCount
<1>3. \A s \in Q!Cells : qStorage'[s] \in Known' \cup {NoEntry}
  <2>1. qStorage' = qStorage \/ Q!PopReset(t)
    BY DEF Q!PopStep, Q!PopInside, Q!PopLoadHead, Q!PopEmpty, Q!PopLoadTail, Q!PopAwait,
       Q!PopTake, Q!PopSkip, Q!PopFree, Q!PopAdvance, Q!PopCount
  <2>2. \A s \in Q!Cells : qStorage'[s] \in {qStorage[s], NoEntry}
    BY <2>1, HolderTypes DEF Q!PopReset
  <2> QED
    BY <1>1, <2>2, HolderTypes DEF QueueKnown
<1>4. \A u \in Threads : Range(qBatch'[u]) \subseteq Known
  <2>1. CASE Q!PopTake(t)
    <3> DEFINE taken == qStorage[Q!Slot(Q!Ticket(t))]
    <3>1. taken # NoEntry /\ qBatch' = [qBatch EXCEPT ![t] = Append(@, taken)]
      BY <2>1 DEF Q!PopTake
    <3>2. taken \in Known
      BY <3>1, HolderTypes DEF QueueKnown
    <3> HIDE DEF taken
    <3>3. Range(qBatch'[t]) = Range(qBatch[t]) \cup {taken}
      BY <3>1, HolderTypes, RangeAppend
    <3>4. \A u \in Threads : u # t => qBatch'[u] = qBatch[u]
      BY <3>1, HolderTypes
    <3> QED
      BY <3>2, <3>3, <3>4, HolderTypes DEF QueueKnown
  <2>2. CASE Q!PopEmpty(t) \/ Q!PopCount(t)
    <3>1. qBatch' = [qBatch EXCEPT ![t] = <<>>]
      BY <2>2 DEF Q!PopEmpty, Q!PopCount
    <3>2. \A u \in Threads : qBatch'[u] = <<>> \/ qBatch'[u] = qBatch[u]
      BY <3>1, HolderTypes
    <3> QED
      BY <3>2, HolderTypes, RangeEmpty DEF QueueKnown
  <2>3. CASE qBatch' = qBatch
    BY <2>3, HolderTypes DEF QueueKnown
  <2> QED
    BY <2>1, <2>2, <2>3 DEF Q!PopStep, Q!PopInside, Q!PopLoadHead, Q!PopLoadTail, Q!PopAwait,
       Q!PopSkip, Q!PopReset, Q!PopFree, Q!PopAdvance
<1> QED
  BY <1>1, <1>2, <1>3, <1>4, HolderTypes DEF QueueKnown, Q!Cells

\* tryPush of the ring buffer writes only what it has accepted.
LEMMA RingPushKnown ==
    ASSUME LoggerInv, [AnyNext]_vars, NEW t \in Loggers,
           R!PushStep(t) \/ R!PushBegin(t, Message(t))
    PROVE  RingKnown'
<1>1. Known \subseteq Known'
  BY KnownGrows
<1> USE DEF R!PushGoto, R!PushReturn, R!consumerVars
<1>2. rBatch' = rBatch
  BY DEF R!PushStep, R!PushInside, R!PushRoom, R!PushReserve, R!PushOvershoot, R!PushClaim,
     R!PushFull, R!PushUndo, R!PushWrite, R!PushBegin
<1>3. \A s \in R!Slots : rBuffer'[s] \in Known'
  <2>1. CASE R!PushWrite(t)
    <3>1. /\ rBuffer' = [rBuffer EXCEPT ![R!Index(rLocalHead[t])] = rEntry[t]]
          /\ rPushPC[t] = "write"
      BY <2>1 DEF R!PushWrite
    <3>2. rEntry[t] \in Known
      BY <3>1, HolderTypes DEF RingKnown
    <3>3. \A s \in R!Slots : rBuffer'[s] = rBuffer[s] \/ rBuffer'[s] = rEntry[t]
      BY <3>1, HolderTypes
    <3> QED
      BY <1>1, <3>2, <3>3, HolderTypes DEF RingKnown
  <2>2. CASE rBuffer' = rBuffer
    BY <1>1, <2>2, HolderTypes DEF RingKnown
  <2> QED
    BY <2>1, <2>2 DEF R!PushStep, R!PushInside, R!PushRoom, R!PushReserve, R!PushOvershoot,
       R!PushClaim, R!PushFull, R!PushUndo, R!PushBegin
<1>4. \A u \in Loggers : u # t => rPushPC'[u] = rPushPC[u] /\ rEntry'[u] = rEntry[u]
  BY PlaceTypes, CallFacts DEF R!PushStep, R!PushInside, R!PushRoom, R!PushReserve,
     R!PushOvershoot, R!PushClaim, R!PushFull, R!PushUndo, R!PushWrite, R!PushBegin
<1>5. rPushPC'[t] = "write" => rEntry'[t] \in Known'
  <2>1. CASE R!PushClaim(t)
    <3>1. rEntry' = rEntry /\ rAccepted' = Append(rAccepted, rEntry[t])
      BY <2>1 DEF R!PushClaim
    <3>2. rEntry[t] \in Range(rAccepted')
      BY <3>1, CallFacts, RangeAppend
    <3> QED
      BY <3>1, <3>2 DEF Known
  <2>2. CASE ~R!PushClaim(t)
    BY <2>2, PlaceTypes DEF R!PushStep, R!PushInside, R!PushRoom, R!PushReserve,
       R!PushOvershoot, R!PushFull, R!PushUndo, R!PushWrite, R!PushBegin
  <2> QED
    BY <2>1, <2>2
<1> QED
  BY <1>1, <1>2, <1>3, <1>4, <1>5, HolderTypes DEF RingKnown, R!Slots

\* popAll of the ring buffer hands out only what its slots hold.
LEMMA RingPopKnown ==
    ASSUME LoggerInv, [AnyNext]_vars, NEW t \in Threads,
           R!PopCall(t) \/ R!PopStep(t) \/ R!PopThrow(t)
    PROVE  RingKnown'
<1>1. Known \subseteq Known'
  BY KnownGrows
<1> USE DEF R!PopGoto, R!PopReturn, R!producerVars
<1>2. rPushPC' = rPushPC /\ rEntry' = rEntry /\ rBuffer' = rBuffer
  BY DEF R!PopStep, R!PopInside, R!PopCall, R!PopThrow, R!PopEmpty, R!PopExchange,
     R!PopLoadTail, R!PopMove, R!PopStoreTail
<1>3. \A u \in Threads : Range(rBatch'[u]) \subseteq Known
  <2>1. CASE R!PopMove(t)
    <3> DEFINE moved == rBuffer[R!Index(rFrom[t] + rDone[t])]
    <3>1. rBatch' = [rBatch EXCEPT ![t] = Append(@, moved)]
      BY <2>1 DEF R!PopMove
    <3>2. moved \in Known
      BY HolderTypes DEF RingKnown
    <3> HIDE DEF moved
    <3>3. Range(rBatch'[t]) = Range(rBatch[t]) \cup {moved}
      BY <3>1, HolderTypes, RangeAppend
    <3>4. \A u \in Threads : u # t => rBatch'[u] = rBatch[u]
      BY <3>1, HolderTypes
    <3> QED
      BY <3>2, <3>3, <3>4, HolderTypes DEF RingKnown
  <2>2. CASE R!PopEmpty(t) \/ R!PopStoreTail(t)
    <3>1. rBatch' = [rBatch EXCEPT ![t] = <<>>]
      BY <2>2 DEF R!PopEmpty, R!PopStoreTail
    <3>2. \A u \in Threads : rBatch'[u] = <<>> \/ rBatch'[u] = rBatch[u]
      BY <3>1, HolderTypes
    <3> QED
      BY <3>2, HolderTypes, RangeEmpty DEF RingKnown
  <2>3. CASE rBatch' = rBatch
    BY <2>3, HolderTypes DEF RingKnown
  <2> QED
    BY <2>1, <2>2, <2>3 DEF R!PopStep, R!PopInside, R!PopCall, R!PopThrow, R!PopExchange,
       R!PopLoadTail
<1> QED
  BY <1>1, <1>2, <1>3, HolderTypes DEF RingKnown, R!Slots

\* flush() writes what it has popped and nothing else.
LEMMA FlushFileKnown ==
    ASSUME LoggerInv, [AnyNext]_vars, NEW t \in Threads, FlushStep(t)
    PROVE  FileKnown'
<1>1. Known \subseteq Known'
  BY KnownGrows
<1>2. \A u \in Threads : u # t => pending'[u] = pending[u]
  BY HolderTypes DEF FlushStep, FlushBegin, FlushInQueue, FlushQueuePopped, FlushInRing,
     FlushRingPopped, FlushThrows, WriteEntry, FlushReturn, EmergencyQueuePopped,
     EmergencyQueueWritten, flushVars
<1>3. Range(pending'[t]) \subseteq Known /\ Range(written') \subseteq Known
  <2>1. CASE FlushQueuePopped(t) \/ EmergencyQueuePopped(t)
    <3>1. pending'[t] = qBatch[t] /\ written' = written
      BY <2>1, HolderTypes DEF FlushQueuePopped, EmergencyQueuePopped
    <3> QED
      BY <3>1, HolderTypes DEF QueueKnown, FileKnown
  <2>2. CASE FlushRingPopped(t)
    <3>1. pending'[t] = pending[t] \o rBatch[t] /\ written' = written
      BY <2>2, HolderTypes DEF FlushRingPopped
    <3>2. Range(pending[t] \o rBatch[t]) \subseteq Range(pending[t]) \cup Range(rBatch[t])
      BY HolderTypes, RangeConcat
    <3> QED
      BY <3>1, <3>2, HolderTypes DEF RingKnown, FileKnown
  <2>3. CASE WriteEntry(t)
    <3>1. /\ pending'[t] = Tail(pending[t]) /\ written' = Append(written, Head(pending[t]))
          /\ pending[t] # <<>>
      BY <2>3, HolderTypes DEF WriteEntry
    <3>2. Head(pending[t]) \in Range(pending[t]) /\ Range(Tail(pending[t])) \subseteq Range(pending[t])
      BY <3>1, HolderTypes, RangeTail
    <3>3. Range(written') = Range(written) \cup {Head(pending[t])}
      BY <3>1, HolderTypes, RangeAppend
    <3> QED
      BY <3>1, <3>2, <3>3, HolderTypes DEF FileKnown
  <2>4. CASE UNCHANGED <<pending, written>>
    BY <2>4, HolderTypes DEF FileKnown
  <2> QED
    BY <2>1, <2>2, <2>3, <2>4 DEF FlushStep, FlushBegin, FlushInQueue, FlushInRing, FlushThrows,
       FlushReturn, EmergencyQueueWritten, flushVars
<1> QED
  BY <1>1, <1>2, <1>3, HolderTypes DEF FileKnown

\* Every step keeps all entries known.
LEMMA KnownStep ==
    ASSUME LoggerInv, [AnyNext]_vars
    PROVE  KnownInv'
<1>1. Known \subseteq Known'
  BY KnownGrows
<1>2. ASSUME NEW t \in Loggers, LogCall(t) \/ UserFlush(t) \/ LogStep(t) PROVE KnownInv'
  <2>1. QueueKnown'
    <3>1. CASE UNCHANGED qVars
      BY <1>1, <3>1, KnownKept DEF qVars
    <3>2. CASE ~UNCHANGED qVars
      <4>1. Q!PushStep(t) \/ Q!PushBegin(t, Message(t))
        BY <1>2, <3>2 DEF LogCall, UserFlush, LogStep, LogReturn, LogPush, LogInPush, LogPushed,
           LogNotify, LogFallback, LogInRingPush, LogDropped, LogRingPushed, Q!PushStep
      <4> QED
        BY <4>1, QueuePushKnown
    <3> QED
      BY <3>1, <3>2
  <2>2. RingKnown'
    <3>1. CASE UNCHANGED rVars
      BY <1>1, <3>1, KnownKept DEF rVars
    <3>2. CASE ~UNCHANGED rVars
      <4>1. R!PushStep(t) \/ R!PushBegin(t, Message(t))
        BY <1>2, <3>2 DEF LogCall, UserFlush, LogStep, LogReturn, LogPush, LogInPush, LogPushed,
           LogNotify, LogFallback, LogInRingPush, LogDropped, LogRingPushed, R!PushStep
      <4> QED
        BY <4>1, RingPushKnown
    <3> QED
      BY <3>1, <3>2
  <2>3. FileKnown'
    <3>1. UNCHANGED <<pending, written>>
      BY <1>2 DEF LogCall, UserFlush, LogStep, LogReturn, LogPush, LogInPush, LogPushed,
         LogNotify, LogFallback, LogInRingPush, LogDropped, LogRingPushed, flushVars
    <3> QED
      BY <1>1, <3>1, KnownKept
  <2> QED
    BY <2>1, <2>2, <2>3 DEF KnownInv
<1>3. ASSUME NEW t \in Threads, FlushStep(t) PROVE KnownInv'
  <2>1. QueueKnown'
    <3>1. CASE UNCHANGED qVars
      BY <1>1, <3>1, KnownKept DEF qVars
    <3>2. CASE ~UNCHANGED qVars
      <4>1. Q!PopLoadHead(t) \/ Q!PopStep(t)
        BY <1>3, <3>2 DEF FlushStep, FlushBegin, FlushInQueue, FlushQueuePopped, FlushInRing,
           FlushRingPopped, FlushThrows, WriteEntry, FlushReturn, EmergencyQueuePopped,
           EmergencyQueueWritten, Q!PopStep
      <4> QED
        BY <4>1, QueuePopKnown
    <3> QED
      BY <3>1, <3>2
  <2>2. RingKnown'
    <3>1. CASE UNCHANGED rVars
      BY <1>1, <3>1, KnownKept DEF rVars
    <3>2. CASE ~UNCHANGED rVars
      <4>1. R!PopCall(t) \/ R!PopStep(t) \/ R!PopThrow(t)
        BY <1>3, <3>2 DEF FlushStep, FlushBegin, FlushInQueue, FlushQueuePopped, FlushInRing,
           FlushRingPopped, FlushThrows, WriteEntry, FlushReturn, EmergencyQueuePopped,
           EmergencyQueueWritten, R!PopStep
      <4> QED
        BY <4>1, RingPopKnown
    <3> QED
      BY <3>1, <3>2
  <2> QED
    BY <1>3, <2>1, <2>2, FlushFileKnown DEF KnownInv
<1>4. CASE WriterStep \/ CloseStep \/ CloseRequestStop \/ EmergencyCall \/ UNCHANGED vars
  <2>1. UNCHANGED <<qVars, rVars, pending, written>>
    BY <1>4 DEF WriterStep, WriterLeave, WriterSleep, WriterWake, WriterChecksStop, CloseStep,
       CloseRelease, CloseJoin, CloseClear, CloseRequestStop, EmergencyCall, vars, flushVars
  <2> QED
    BY <1>1, <2>1, KnownKept DEF KnownInv, qVars, rVars
<1> QED
  BY <1>2, <1>3, <1>4, StepCases

-------------------------------------------------------------------------------
(* The theorems.                                                           *)

\* initialize() establishes the invariant.
THEOREM LoggerInvInit == Init => LoggerInv
<1> SUFFICES ASSUME Init PROVE LoggerInv
  OBVIOUS
<1>1. Q!TypeOK
  <2>1. qSeq \in [Q!Cells -> Nat] /\ qStorage \in [Q!Cells -> Messages \cup {NoEntry}]
    BY LoggerSizesAssumption DEF Init, Q!Init, Q!Cells
  <2>2. qBatch \in [Threads -> Seq(Messages)] /\ qAccepted \in Seq(Messages) /\ qDelivered \in Seq(Messages)
    BY DEF Init, Q!Init
  <2> QED
    BY <2>1, <2>2, WrappedTypes DEF Init, Q!Init, Q!TypeOK, Q!ProducerPC, Q!ConsumerPC
<1>2. R!TypeOK
  <2>1. /\ rBatch \in [Threads -> Seq(Messages \cup {Unwritten})] /\ rAccepted \in Seq(Messages)
        /\ rDelivered \in Seq(Messages \cup {Unwritten})
    BY DEF Init, R!Init
  <2> QED
    BY <2>1, WrappedTypes DEF Init, R!Init, R!TypeOK
<1>3. OwnTypeOK
  <2>1. calls \in 0 .. MaxCalls /\ current \in [Loggers -> 0 .. MaxCalls]
    BY LoggerBoundAssumption DEF Init
  <2>2. sem \in Nat
    BY LeftoverAssumption DEF Init
  <2>3. pending \in [Threads -> Seq(Messages \cup {Unwritten})] /\ written \in Seq(Messages \cup {Unwritten})
    BY DEF Init
  <2> QED
    BY <2>1, <2>2, <2>3 DEF Init, OwnTypeOK, Places, FlushPlaces
<1>4. PlaceInv
  BY ThreadsDiffer DEF Init, Q!Init, R!Init, PlaceInv, PlaceOK
<1>5. Range(qAccepted) = {} /\ Range(rAccepted) = {}
  BY RangeEmpty DEF Init, Q!Init, R!Init
<1>6. CallInv
  <2>1. ASSUME NEW t \in Loggers PROVE CallOK(t)
    <3>1. pc[t] = "idle" /\ current[t] = 0 /\ calls = 0
      BY ThreadsDiffer DEF Init
    <3> QED
      BY <3>1 DEF CallOK
  <2> QED
    BY <1>5, <2>1 DEF CallInv
<1>7. KnownInv
  BY <1>5, RangeEmpty DEF Init, Q!Init, R!Init, KnownInv, QueueKnown, RingKnown, FileKnown, Known
<1>8. WriterGoneAfterJoin
  BY ThreadsDiffer DEF Init, WriterGoneAfterJoin
<1> QED
  BY <1>1, <1>2, <1>3, <1>4, <1>6, <1>7, <1>8, TypeParts DEF LoggerInv

\* Every step of every thread keeps it.
THEOREM LoggerInvStep == LoggerInv /\ [AnyNext]_vars => LoggerInv'
<1> SUFFICES ASSUME LoggerInv, [AnyNext]_vars PROVE LoggerInv'
  OBVIOUS
<1>1. TypeOK'
  BY StepCases, LogTypes, FlushTypes, ControlTypes
<1>2. PlaceInv'
  BY StepCases, LogPlaces, FlushPlacesKept, ControlPlaces
<1>3. CallInv'
  BY LogCalls, OtherCalls
<1> QED
  BY <1>1, <1>2, <1>3, KnownStep, WriterStaysGone DEF LoggerInv

\* The invariant holds however log(), flush(), the writer, deinitialize() and
\* emergencyFlush() interleave.
THEOREM LoggerInvariant == AnySpec => []LoggerInv
BY LoggerInvInit, LoggerInvStep, PTL DEF AnySpec

\* The types of the logger and of both buffers hold in every specification, however
\* many threads are inside popAll at once (async_logger.cpp, log to deinitialize).
THEOREM TypeCorrect == Spec \/ OverloadSpec \/ FreeSpec \/ EmergencySpec => []TypeOK
<1>1. LoggerInv => TypeOK
  BY DEF LoggerInv
<1> QED
  BY <1>1, AnySpecCovers, LoggerInvariant, PTL

\* From the join of deinitialize() on the writer is gone for good, whoever else logs,
\* flushes or throws (async_logger.cpp, deinitialize and writerThread).
THEOREM WriterIsGone == Spec \/ OverloadSpec \/ FreeSpec \/ EmergencySpec => []WriterGoneAfterJoin
<1>1. LoggerInv => WriterGoneAfterJoin
  BY DEF LoggerInv
<1> QED
  BY <1>1, AnySpecCovers, LoggerInvariant, PTL

\* No message is accepted by both buffers: log() turns to the ring buffer only with an
\* entry the queue has refused.
THEOREM OneBufferAccepts == Spec \/ OverloadSpec \/ FreeSpec \/ EmergencySpec => []AcceptedByOneBuffer
<1>1. LoggerInv => AcceptedByOneBuffer
  <2> SUFFICES ASSUME LoggerInv, NEW j \in 1 .. Len(qAccepted), NEW k \in 1 .. Len(rAccepted)
               PROVE  qAccepted[j] # rAccepted[k]
    BY DEF AcceptedByOneBuffer
  <2>1. DOMAIN qAccepted = 1 .. Len(qAccepted) /\ DOMAIN rAccepted = 1 .. Len(rAccepted)
    BY CallFacts
  <2>2. qAccepted[j] \in Range(qAccepted) /\ rAccepted[k] \in Range(rAccepted)
    BY <2>1 DEF Range
  <2> QED
    BY <2>2, CallFacts DEF CallInv
<1> QED
  BY <1>1, AnySpecCovers, LoggerInvariant, PTL

\* A line of the file is a message that a buffer accepted or a slot never written, even
\* when flushes overlap and cells are freed twice (flush, emergencyFlush, writeEntries).
THEOREM LinesWereAccepted == Spec \/ OverloadSpec \/ FreeSpec \/ EmergencySpec => []WrittenWasAccepted
<1>1. LoggerInv => WrittenWasAccepted
  <2> SUFFICES ASSUME LoggerInv, NEW k \in 1 .. Len(written)
               PROVE  \/ written[k] = Unwritten
                      \/ InSeq(written[k], qAccepted) \/ InSeq(written[k], rAccepted)
    BY DEF WrittenWasAccepted
  <2>1. /\ DOMAIN qAccepted = 1 .. Len(qAccepted) /\ DOMAIN rAccepted = 1 .. Len(rAccepted)
        /\ DOMAIN written = 1 .. Len(written)
    BY CallFacts, HolderTypes
  <2>2. written[k] \in Known
    BY <2>1, HolderTypes DEF FileKnown, Range
  <2> QED
    BY <2>1, <2>2 DEF Known, Range, InSeq
<1> QED
  BY <1>1, AnySpecCovers, LoggerInvariant, PTL
===============================================================================
