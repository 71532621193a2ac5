------------------------- MODULE AsyncLoggerFlushProofs -------------------------
(***************************************************************************)
(* Proofs about AsyncLogger that rest on what the two buffers promise: no  *)
(* wakeup is lost, closing drains, the logger is a channel from log() to   *)
(* the file, and an emergency flush saves what was accepted before it.     *)
(*                                                                         *)
(* The lemmas of AsyncQueueProofs are used for the logger's queue: while   *)
(* no two flushes have overlapped (alone), popAll has one thread inside.   *)
(* Assumed besides what AsyncLoggerProofs assumes:                         *)
(* LoggerEntriesAssumption, and for what an emergency flush saves          *)
(* LoggersFitAssumption.                                                   *)
(***************************************************************************)
EXTENDS AsyncLoggerProofs

\* The queue of the logger, with what is proved about it.
QP == INSTANCE AsyncQueueProofs WITH
        Producers <- Loggers, Consumers <- Threads, Entries <- Messages,
        MaxTickets <- MaxCalls + 1,
        tail <- qTail, head <- qHead, size <- qSize, seq <- qSeq,
        storage <- qStorage, pPC <- qPushPC, entry <- qEntry,
        localTail <- qLocalTail, cPC <- qPopPC, from <- qFrom,
        count <- qCount, done <- qDone, batch <- qBatch,
        accepted <- qAccepted, delivered <- qDelivered

\* What AsyncQueue assumes of its constants is true of the logger's queue.
LEMMA QueueAssumptions ==
    /\ Capacity \in Nat \ {0}
    /\ Word \in Nat /\ Capacity < Word
    /\ NoEntry \notin Messages
BY LoggerSizesAssumption, LoggerEntriesAssumption DEF Messages

-------------------------------------------------------------------------------
(* One flush at a time.                                                    *)

OneFlusher == \A t, u \in Threads : flushPC[t] # "none" /\ flushPC[u] # "none" => t = u

\* As long as no two flushes have overlapped, the queue keeps its promises.
AloneInv == alone => QP!QueueInv /\ OneFlusher

\* The steps of tryPush are those of AsyncQueue.
LEMMA QueuePushBridge ==
    ASSUME NEW t \in Loggers
    PROVE  /\ Q!PushInside(t) => QP!PushStep(t)
           /\ Q!PushFull(t) => QP!PushStep(t)
           /\ Q!PushCount(t) => QP!PushStep(t)
           /\ \A e : Q!PushBegin(t, e) => QP!PushBegin(t, e)
BY DEF Q!PushInside, Q!PushLoadTail, Q!PushRoom, Q!PushReserve, Q!PushRetry, Q!PushAwait,
   Q!PushEmplace, Q!PushPublish, Q!PushFull, Q!PushCount, Q!PushBegin, Q!PushGoto,
   Q!PushReturn, Q!LooksFull, Q!Wrap, Q!Slot, Q!cells, Q!consumerVars, Q!history,
   QP!PushStep, QP!PushInside, QP!PushLoadTail, QP!PushRoom, QP!PushReserve, QP!PushRetry,
   QP!PushAwait, QP!PushEmplace, QP!PushPublish, QP!PushFull, QP!PushCount, QP!PushBegin,
   QP!PushGoto, QP!PushReturn, QP!LooksFull, QP!Wrap, QP!Slot, QP!cells, QP!consumerVars,
   QP!history

\* The steps of popAll are those of AsyncQueue.
LEMMA QueuePopBridge ==
    ASSUME NEW t \in Threads
    PROVE  /\ Q!PopInside(t) => QP!PopStep(t)
           /\ Q!PopEmpty(t) => QP!PopStep(t)
           /\ Q!PopCount(t) => QP!PopStep(t)
           /\ Q!PopLoadHead(t) => QP!PopLoadHead(t)
BY DEF Q!PopInside, Q!PopLoadTail, Q!PopAwait, Q!PopTake, Q!PopSkip, Q!PopReset, Q!PopFree,
   Q!PopAdvance, Q!PopEmpty, Q!PopCount, Q!PopLoadHead, Q!PopGoto, Q!PopReturn, Q!Ticket,
   Q!Wrap, Q!Slot, Q!cells, Q!producerVars, Q!history,
   QP!PopStep, QP!PopInside, QP!PopLoadTail, QP!PopAwait, QP!PopTake, QP!PopSkip,
   QP!PopReset, QP!PopFree, QP!PopAdvance, QP!PopEmpty, QP!PopCount, QP!PopLoadHead,
   QP!PopGoto, QP!PopReturn, QP!Ticket, QP!Wrap, QP!Slot, QP!cells, QP!producerVars,
   QP!history

\* Whatever the logger does to the queue under one flush at a time is a step of AsyncQueue.
LEMMA QueueMove ==
    ASSUME QP!QueueInv, QP!Next \/ UNCHANGED qVars
    PROVE  QP!QueueInv'
<1>1. QP!Next \/ UNCHANGED QP!vars
  BY DEF QP!vars, QP!cells, QP!producerVars, QP!consumerVars, QP!history, qVars
<1> QED
  BY <1>1, QP!QueueMoveInv, QueueAssumptions

\* A history that says overlap once says it for ever.
LEMMA AloneBefore ==
    ASSUME [AnyNext]_vars, alone'
    PROVE  alone
<1> USE DEF control
<1>1. CASE \E t \in Loggers : LogCall(t) \/ UserFlush(t) \/ LogStep(t)
  BY <1>1 DEF LogCall, UserFlush, LogStep, LogReturn, LogPush, LogInPush, LogPushed,
     LogNotify, LogFallback, LogInRingPush, LogDropped, LogRingPushed
<1>2. CASE \E t \in Threads : FlushStep(t)
  BY <1>2 DEF FlushStep, FlushBegin, FlushInQueue, FlushQueuePopped, FlushInRing,
     FlushRingPopped, FlushThrows, WriteEntry, FlushReturn, EmergencyQueuePopped,
     EmergencyQueueWritten
<1>3. CASE WriterStep \/ CloseStep \/ CloseRequestStop \/ EmergencyCall
  BY <1>3 DEF WriterStep, WriterLeave, WriterSleep, WriterWake, WriterChecksStop, CloseStep,
     CloseRelease, CloseJoin, CloseClear, CloseRequestStop, EmergencyCall
<1>4. CASE UNCHANGED vars
  BY <1>4 DEF vars
<1> QED
  BY <1>1, <1>2, <1>3, <1>4, StepCases

\* One flush at a time puts one thread at a time into popAll of the queue.
LEMMA QueueMoves ==
    ASSUME LoggerInv, [AnyNext]_vars, alone'
    PROVE  QP!Next \/ UNCHANGED qVars
<1>1. ASSUME NEW t \in Loggers, LogCall(t) \/ UserFlush(t) \/ LogStep(t)
      PROVE  QP!Next \/ UNCHANGED qVars
  <2>1. CASE LogPush(t)
    <3>1. Message(t) \in Messages
      BY <2>1, MessageTypes DEF LogPush, Goto
    <3>2. QP!PushBegin(t, Message(t))
      BY <2>1, QueuePushBridge DEF LogPush
    <3> QED
      BY <3>1, <3>2 DEF QP!Next, QP!Pushing
  <2>2. CASE LogInPush(t) \/ LogPushed(t) \/ LogFallback(t)
    <3>1. QP!PushStep(t)
      BY <2>2, QueuePushBridge DEF LogInPush, LogPushed, LogFallback
    <3> QED
      BY <3>1 DEF QP!Next, QP!Pushing
  <2> QED
    BY <1>1, <2>1, <2>2 DEF LogStep, LogCall, UserFlush, LogReturn, LogNotify, LogInRingPush,
       LogDropped, LogRingPushed
<1>2. ASSUME NEW t \in Threads, FlushStep(t) PROVE QP!Next \/ UNCHANGED qVars
  <2>1. CASE FlushBegin(t)
    <3>1. \A u \in Threads : flushPC[u] = "none"
      BY <2>1 DEF FlushBegin
    <3>2. QP!NoConsumerInside
      BY <3>1 DEF QP!NoConsumerInside, LoggerInv, PlaceInv, PlaceOK
    <3>3. QP!PopBegin(t)
      BY <2>1, <3>2, QueuePopBridge DEF FlushBegin, QP!PopBegin
    <3> QED
      BY <3>3 DEF QP!Next
  <2>2. CASE FlushInQueue(t) \/ FlushQueuePopped(t) \/ EmergencyQueuePopped(t)
    <3>1. QP!PopStep(t)
      BY <2>2, QueuePopBridge DEF FlushInQueue, FlushQueuePopped, EmergencyQueuePopped
    <3> QED
      BY <3>1 DEF QP!Next
  <2> QED
    BY <1>2, <2>1, <2>2 DEF FlushStep, FlushInRing, FlushRingPopped, FlushThrows, WriteEntry,
       FlushReturn, EmergencyQueueWritten
<1>3. WriterStep \/ CloseStep \/ CloseRequestStop \/ EmergencyCall => UNCHANGED qVars
  BY DEF WriterStep, WriterLeave, WriterSleep, WriterWake, WriterChecksStop, CloseStep,
     CloseRelease, CloseJoin, CloseClear, CloseRequestStop, EmergencyCall
<1> QED
  BY <1>1, <1>2, <1>3, StepCases DEF vars

\* Only the beginning of a flush can add a thread to those that flush.
LEMMA FlusherKept ==
    ASSUME LoggerInv, [AnyNext]_vars, alone', OneFlusher
    PROVE  OneFlusher'
<1> USE DEF flushVars
<1>0. flushPC \in [Threads -> FlushPlaces]
  BY TypeParts DEF LoggerInv, OwnTypeOK
<1>1. ASSUME UNCHANGED flushPC PROVE OneFlusher'
  BY <1>1 DEF OneFlusher
<1>2. ASSUME NEW t \in Threads, FlushStep(t) PROVE OneFlusher'
  <2>1. CASE FlushBegin(t)
    BY <1>0, <2>1 DEF FlushBegin, OneFlusher
  <2>2. CASE ~FlushBegin(t)
    <3>1. UNCHANGED flushPC \/ \E there \in FlushPlaces : flushPC[t] # "none"
                                  /\ flushPC' = [flushPC EXCEPT ![t] = there]
      <4> USE DEF FlushPlaces
      <4>1. FlushQueuePopped(t) \/ EmergencyQueuePopped(t) => flushPC[t] # "none"
        BY DEF FlushQueuePopped, EmergencyQueuePopped, Q!PopEmpty, Q!PopCount, Q!PopReturn,
           Q!PopGoto, LoggerInv, PlaceInv, PlaceOK
      <4>2. FlushRingPopped(t) \/ FlushThrows(t) => flushPC[t] # "none"
        BY DEF FlushRingPopped, FlushThrows, R!PopEmpty, R!PopStoreTail, R!PopThrow,
           R!PopReturn, R!PopGoto, LoggerInv, PlaceInv, PlaceOK
      <4> QED
        BY <1>2, <2>2, <4>1, <4>2 DEF FlushStep, FlushInQueue, FlushQueuePopped, FlushInRing,
           FlushRingPopped, FlushThrows, WriteEntry, FlushReturn, EmergencyQueuePopped,
           EmergencyQueueWritten
    <3> QED
      BY <1>0, <1>1, <3>1 DEF OneFlusher
  <2> QED
    BY <2>1, <2>2
<1>3. ASSUME NEW t \in Loggers, LogCall(t) \/ UserFlush(t) \/ LogStep(t) PROVE UNCHANGED flushPC
  BY <1>3 DEF LogCall, UserFlush, LogStep, LogReturn, LogPush, LogInPush, LogPushed,
     LogNotify, LogFallback, LogInRingPush, LogDropped, LogRingPushed
<1>4. WriterStep \/ CloseStep \/ CloseRequestStop \/ EmergencyCall => UNCHANGED flushPC
  BY DEF WriterStep, WriterLeave, WriterSleep, WriterWake, WriterChecksStop, CloseStep,
     CloseRelease, CloseJoin, CloseClear, CloseRequestStop, EmergencyCall
<1> QED
  BY <1>1, <1>2, <1>3, <1>4, StepCases DEF vars

\* initialize() establishes AloneInv.
LEMMA AloneInit == Init => AloneInv
<1> SUFFICES ASSUME Init PROVE AloneInv
  OBVIOUS
<1>1. QP!Init
  BY DEF Init, Q!Init, QP!Init, Q!Cells, QP!Cells
<1>2. QP!QueueInv
  BY <1>1, QP!QueueInvInit, QueueAssumptions
<1> QED
  BY <1>2 DEF AloneInv, OneFlusher, Init

\* Every step keeps AloneInv.
LEMMA AloneStep ==
    ASSUME LoggerInv, AloneInv, [AnyNext]_vars
    PROVE  AloneInv'
<1> SUFFICES ASSUME alone' PROVE QP!QueueInv' /\ OneFlusher'
  BY DEF AloneInv
<1>1. QP!QueueInv /\ OneFlusher
  BY AloneBefore DEF AloneInv
<1>2. QP!QueueInv'
  BY <1>1, QueueMoves, QueueMove
<1> QED
  BY <1>1, <1>2, FlusherKept

-------------------------------------------------------------------------------
(* What a step leaves alone.                                               *)

\* The state of the threads that flush.
flushState == <<flushPC, pending, qPopPC, qFrom, qCount, qDone, qBatch, qDelivered, qHead,
                rPopPC, rFrom, rCount, rDone, rBatch, rDelivered, written, alone>>
\* The state of the calls of log().
logState == <<qPushPC, qEntry, qLocalTail, rPushPC, rEntry, rLocalHead, callVars, qTail,
              qAccepted, rHead, rAccepted, rBuffer>>

\* The functions that hold the state of the threads.
LEMMA StateTypes ==
    ASSUME LoggerInv
    PROVE  /\ pc \in [Threads -> Places] /\ flushPC \in [Threads -> FlushPlaces]
           /\ pending \in [Threads -> Seq(Messages \cup {Unwritten})]
           /\ qPopPC \in [Threads -> Q!ConsumerPC]
           /\ qFrom \in [Threads -> Nat] /\ qCount \in [Threads -> Nat]
           /\ qDone \in [Threads -> Nat] /\ qBatch \in [Threads -> Seq(Messages)]
           /\ rPopPC \in [Threads -> {"idle", "exchange", "loadTail", "move", "storeTail"}]
           /\ rCount \in [Threads -> 0 .. (Word - 1)] /\ rDone \in [Threads -> Nat]
           /\ rBatch \in [Threads -> Seq(Messages \cup {Unwritten})]
           /\ rDelivered \in Seq(Messages \cup {Unwritten}) /\ rAccepted \in Seq(Messages)
           /\ written \in Seq(Messages \cup {Unwritten}) /\ sem \in Nat
           /\ qDelivered \in Seq(Messages) /\ qAccepted \in Seq(Messages)
           /\ qTail \in Nat /\ qHead \in Nat
           /\ qPushPC \in [Loggers -> Q!ProducerPC] /\ qLocalTail \in [Loggers -> Nat]
           /\ rPushPC \in [Loggers -> {"idle", "loadSize", "reserve", "undo", "claim", "write"}]
           /\ \A t \in Threads : PlaceOK(t)
<1>1. Q!TypeOK /\ R!TypeOK /\ OwnTypeOK
  BY TypeParts DEF LoggerInv
<1>2. /\ pc \in [Threads -> Places] /\ flushPC \in [Threads -> FlushPlaces]
      /\ pending \in [Threads -> Seq(Messages \cup {Unwritten})]
      /\ written \in Seq(Messages \cup {Unwritten}) /\ sem \in Nat
  BY <1>1 DEF OwnTypeOK
<1>3. /\ qPopPC \in [Threads -> Q!ConsumerPC]
      /\ qFrom \in [Threads -> Nat] /\ qCount \in [Threads -> Nat]
      /\ qDone \in [Threads -> Nat] /\ qBatch \in [Threads -> Seq(Messages)]
      /\ qDelivered \in Seq(Messages) /\ qAccepted \in Seq(Messages)
      /\ qTail \in Nat /\ qHead \in Nat
      /\ qPushPC \in [Loggers -> Q!ProducerPC] /\ qLocalTail \in [Loggers -> Nat]
  BY <1>1 DEF Q!TypeOK
<1>4. /\ rPopPC \in [Threads -> {"idle", "exchange", "loadTail", "move", "storeTail"}]
      /\ rCount \in [Threads -> 0 .. (Word - 1)] /\ rDone \in [Threads -> Nat]
      /\ rBatch \in [Threads -> Seq(Messages \cup {Unwritten})]
      /\ rDelivered \in Seq(Messages \cup {Unwritten}) /\ rAccepted \in Seq(Messages)
      /\ rPushPC \in [Loggers -> {"idle", "loadSize", "reserve", "undo", "claim", "write"}]
  BY <1>1 DEF R!TypeOK
<1> QED
  BY <1>2, <1>3, <1>4 DEF LoggerInv, PlaceInv

\* Only flush() and emergencyFlush() pop and write.
LEMMA OthersFlushNothing ==
    ASSUME [AnyNext]_vars, ~ \E t \in Threads : FlushStep(t)
    PROVE  UNCHANGED flushState
<1> USE DEF flushState, control, flushVars
<1>1. ASSUME NEW t \in Loggers, LogCall(t) \/ UserFlush(t) \/ LogStep(t)
      PROVE  UNCHANGED flushState
  <2> USE DEF qVars, rVars, Q!consumerVars, Q!history, R!consumerVars, R!history
  <2>1. CASE LogCall(t) \/ UserFlush(t) \/ LogReturn(t) \/ LogNotify(t)
    BY <2>1 DEF LogCall, UserFlush, LogReturn, LogNotify
  <2>2. CASE LogPush(t) \/ LogPushed(t)
    BY <2>2 DEF LogPush, LogPushed, Q!PushBegin, Q!PushCount
  <2>3. CASE LogInPush(t)
    BY <2>3 DEF LogInPush, Q!PushInside, Q!PushLoadTail, Q!PushRoom,
       Q!PushReserve, Q!PushRetry, Q!PushAwait, Q!PushEmplace, Q!PushPublish
  <2>4. CASE LogFallback(t)
    BY <2>4 DEF LogFallback, Q!PushFull, R!PushBegin
  <2>5. CASE LogInRingPush(t)
    BY <2>5 DEF LogInRingPush, R!PushInside, R!PushRoom, R!PushReserve, R!PushOvershoot,
       R!PushClaim
  <2>6. CASE LogDropped(t) \/ LogRingPushed(t)
    BY <2>6 DEF LogDropped, LogRingPushed, R!PushFull, R!PushUndo, R!PushWrite
  <2> QED
    BY <1>1, <2>1, <2>2, <2>3, <2>4, <2>5, <2>6 DEF LogStep
<1>2. CASE WriterStep \/ CloseStep \/ CloseRequestStop \/ EmergencyCall \/ UNCHANGED vars
  BY <1>2 DEF WriterStep, WriterLeave, WriterSleep, WriterWake, WriterChecksStop, CloseStep,
     CloseRelease, CloseJoin, CloseClear, CloseRequestStop, EmergencyCall, vars, qVars, rVars
<1> QED
  BY <1>1, <1>2, StepCases

\* A flush of t touches neither the other threads nor the calls of log().
LEMMA FlushElsewhere ==
    ASSUME LoggerInv, NEW t \in Threads, FlushStep(t)
    PROVE  /\ \A u \in Threads : u # t =>
                 /\ pc'[u] = pc[u] /\ flushPC'[u] = flushPC[u] /\ pending'[u] = pending[u]
                 /\ qPopPC'[u] = qPopPC[u] /\ qFrom'[u] = qFrom[u] /\ qCount'[u] = qCount[u]
                 /\ qBatch'[u] = qBatch[u]
                 /\ rPopPC'[u] = rPopPC[u] /\ rCount'[u] = rCount[u] /\ rDone'[u] = rDone[u]
                 /\ rBatch'[u] = rBatch[u]
           /\ UNCHANGED logState /\ UNCHANGED <<sem, stop, initialized, owed>>
<1> USE DEF logState, flushVars, qVars, rVars, control, Q!PopGoto, Q!PopReturn, Q!producerVars,
            Q!cells, Q!history, R!PopGoto, R!PopReturn, R!producerVars, R!history
<1>1. CASE FlushBegin(t)
  BY <1>1, StateTypes DEF FlushBegin, Q!PopLoadHead
<1>2. CASE FlushInQueue(t)
  <2>1. CASE Q!PopLoadTail(t) \/ Q!PopAwait(t)
    BY <1>2, <2>1, StateTypes DEF FlushInQueue, Q!PopLoadTail, Q!PopAwait
  <2>2. CASE Q!PopTake(t)
    BY <1>2, <2>2, StateTypes DEF FlushInQueue, Q!PopTake
  <2>3. CASE Q!PopSkip(t) \/ Q!PopReset(t)
    BY <1>2, <2>3, StateTypes DEF FlushInQueue, Q!PopSkip, Q!PopReset
  <2>4. CASE Q!PopFree(t) \/ Q!PopAdvance(t)
    BY <1>2, <2>4, StateTypes DEF FlushInQueue, Q!PopFree, Q!PopAdvance
  <2> QED
    BY <1>2, <2>1, <2>2, <2>3, <2>4 DEF FlushInQueue, Q!PopInside
<1>3. CASE FlushQueuePopped(t)
  <2>1. CASE Q!PopEmpty(t)
    BY <1>3, <2>1, StateTypes DEF FlushQueuePopped, Q!PopEmpty, R!PopCall
  <2>2. CASE Q!PopCount(t)
    BY <1>3, <2>2, StateTypes DEF FlushQueuePopped, Q!PopCount, R!PopCall
  <2> QED
    BY <1>3, <2>1, <2>2 DEF FlushQueuePopped
<1>4. CASE EmergencyQueuePopped(t)
  BY <1>4, StateTypes DEF EmergencyQueuePopped, Q!PopEmpty, Q!PopCount
<1>5. CASE EmergencyQueueWritten(t)
  BY <1>5, StateTypes DEF EmergencyQueueWritten, R!PopCall
<1>6. CASE FlushInRing(t)
  <2>1. CASE R!PopExchange(t) \/ R!PopLoadTail(t)
    BY <1>6, <2>1, StateTypes DEF FlushInRing, R!PopExchange, R!PopLoadTail
  <2>2. CASE R!PopMove(t)
    BY <1>6, <2>2, StateTypes DEF FlushInRing, R!PopMove
  <2> QED
    BY <1>6, <2>1, <2>2 DEF FlushInRing, R!PopInside
<1>7. CASE FlushRingPopped(t)
  <2>1. CASE R!PopEmpty(t)
    BY <1>7, <2>1, StateTypes DEF FlushRingPopped, R!PopEmpty
  <2>2. CASE R!PopStoreTail(t)
    BY <1>7, <2>2, StateTypes DEF FlushRingPopped, R!PopStoreTail
  <2> QED
    BY <1>7, <2>1, <2>2 DEF FlushRingPopped
<1>8. CASE FlushThrows(t)
  BY <1>8, StateTypes DEF FlushThrows, R!PopThrow
<1>9. CASE WriteEntry(t) \/ FlushReturn(t)
  BY <1>9, StateTypes DEF WriteEntry, FlushReturn
<1> QED
  BY <1>1, <1>2, <1>3, <1>4, <1>5, <1>6, <1>7, <1>8, <1>9 DEF FlushStep

\* A thread takes the steps of a flush where log(), writerThread() or deinitialize()
\* calls flush().
LEMMA FlushPlace ==
    ASSUME LoggerInv, NEW t \in Threads, FlushStep(t)
    PROVE  pc[t] \in {"flush", "lastFlush", "emergency"} /\ PlaceOK(t)
<1> USE DEF Q!PopGoto, Q!PopReturn, R!PopGoto, R!PopReturn, PlaceOK
<1>0. PlaceOK(t)
  BY StateTypes
<1>1. CASE FlushBegin(t) \/ EmergencyQueueWritten(t) \/ WriteEntry(t) \/ FlushReturn(t)
  BY <1>0, <1>1 DEF FlushBegin, EmergencyQueueWritten, WriteEntry, FlushReturn
<1>2. CASE FlushInQueue(t) \/ FlushQueuePopped(t) \/ EmergencyQueuePopped(t)
  <2>1. qPopPC[t] # "idle"
    BY <1>2 DEF FlushInQueue, FlushQueuePopped, EmergencyQueuePopped, Q!PopInside,
       Q!PopLoadTail, Q!PopAwait, Q!PopTake, Q!PopSkip, Q!PopReset, Q!PopFree, Q!PopAdvance,
       Q!PopEmpty, Q!PopCount
  <2> QED
    BY <1>0, <2>1
<1>3. CASE FlushInRing(t) \/ FlushRingPopped(t) \/ FlushThrows(t)
  <2>1. rPopPC[t] # "idle"
    BY <1>3 DEF FlushInRing, FlushRingPopped, FlushThrows, R!PopInside, R!PopExchange,
       R!PopLoadTail, R!PopMove, R!PopEmpty, R!PopStoreTail, R!PopThrow
  <2> QED
    BY <1>0, <2>1
<1> QED
  BY <1>1, <1>2, <1>3 DEF FlushStep

-------------------------------------------------------------------------------
(* Sequences.                                                              *)

\* The elements of two sequences are those of the one after the other.
LEMMA RangeOfConcat ==
    ASSUME NEW S, NEW s \in Seq(S), NEW u \in Seq(S)
    PROVE  Range(s \o u) = Range(s) \cup Range(u)
<1>1. s \o u \in Seq(S) /\ DOMAIN (s \o u) = 1 .. (Len(s) + Len(u))
      /\ DOMAIN s = 1 .. Len(s) /\ DOMAIN u = 1 .. Len(u) /\ Len(s) \in Nat /\ Len(u) \in Nat
  BY SMT
<1>2. \A k \in 1 .. (Len(s) + Len(u)) :
          (s \o u)[k] = IF k <= Len(s) THEN s[k] ELSE u[k - Len(s)]
  BY SMT
<1>3. ASSUME NEW k \in 1 .. Len(s) PROVE s[k] \in Range(s \o u)
  <2>1. k \in DOMAIN (s \o u) /\ (s \o u)[k] = s[k]
    BY <1>1, <1>2
  <2> QED
    BY <2>1 DEF Range
<1>4. ASSUME NEW k \in 1 .. Len(u) PROVE u[k] \in Range(s \o u)
  <2>1. k + Len(s) \in DOMAIN (s \o u) /\ (s \o u)[k + Len(s)] = u[k]
    BY <1>1, <1>2
  <2> QED
    BY <2>1 DEF Range
<1>5. Range(s) \subseteq Range(s \o u) /\ Range(u) \subseteq Range(s \o u)
  BY <1>1, <1>3, <1>4 DEF Range
<1> QED
  BY <1>5, RangeConcat

\* The elements of a sequence are its first one and the rest.
LEMMA RangeOfHeadTail ==
    ASSUME NEW S, NEW s \in Seq(S), s # <<>>
    PROVE  Range(s) = {Head(s)} \cup Range(Tail(s))
<1>1. Len(s) \in Nat \ {0} /\ DOMAIN s = 1 .. Len(s)
  BY SMT
<1>2. Len(Tail(s)) = Len(s) - 1 /\ DOMAIN Tail(s) = 1 .. (Len(s) - 1) /\ Head(s) = s[1]
  BY <1>1, SMT
<1>3. \A k \in 1 .. (Len(s) - 1) : Tail(s)[k] = s[k + 1]
  BY <1>1, SMT
<1>4. ASSUME NEW k \in 1 .. Len(s) PROVE s[k] \in {Head(s)} \cup Range(Tail(s))
  <2>1. CASE k = 1
    BY <1>2, <2>1
  <2>2. CASE k # 1
    <3>1. k - 1 \in 1 .. (Len(s) - 1) /\ (k - 1) + 1 = k
      BY <1>1, <2>2
    <3>2. s[k] = Tail(s)[k - 1]
      BY <1>3, <3>1
    <3> QED
      BY <1>2, <3>1, <3>2 DEF Range
  <2> QED
    BY <2>1, <2>2
<1>5. Range(s) \subseteq {Head(s)} \cup Range(Tail(s))
  BY <1>1, <1>4 DEF Range
<1> QED
  BY <1>5, RangeTail

-------------------------------------------------------------------------------
(* What the threads hold.                                                  *)

\* A thread holds entries only inside the flush that popped them, or because an
\* exception took it out of that flush.
HoldOK(t) ==
    /\ qPopPC[t] = "idle" => qBatch[t] = <<>>
    /\ rPopPC[t] \in {"idle", "exchange", "loadTail"} => rBatch[t] = <<>>
    /\ flushPC[t] = "queue" => qPopPC[t] # "idle" /\ pending[t] = <<>>
    /\ flushPC[t] = "ring" => rPopPC[t] # "idle" /\ (t = Monitor => pending[t] = <<>>)
    /\ flushPC[t] = "none" /\ pc[t] # "terminated" => pending[t] = <<>>
    /\ flushPC[t] = "writeQueue" => t = Monitor

HeldBy(t) == Range(pending[t]) \cup Range(qBatch[t]) \cup Range(rBatch[t])

\* What popAll has handed out is in the file or in the hands of a thread.
NothingLeft ==
    \A m \in Range(qDelivered) \cup Range(rDelivered) :
        m \in Range(written) \/ \E t \in Threads : m \in HeldBy(t)

HoldInv == (\A t \in Threads : HoldOK(t)) /\ NothingLeft

\* A step of a flush leaves its thread with what HoldOK says.
LEMMA HoldAfterFlush ==
    ASSUME LoggerInv, NEW t \in Threads, HoldOK(t), FlushStep(t)
    PROVE  HoldOK(t)'
<1> USE DEF HoldOK, flushVars, qVars, rVars, Q!PopGoto, Q!PopReturn, R!PopGoto, R!PopReturn
<1>0. PlaceOK(t)
  BY StateTypes
<1>1. CASE FlushBegin(t)
  BY <1>0, <1>1, StateTypes DEF FlushBegin, Q!PopLoadHead, PlaceOK
<1>2. CASE FlushInQueue(t)
  <2>1. qPopPC[t] # "idle" /\ qPopPC'[t] # "idle" /\ UNCHANGED <<rVars, pc, flushVars>>
    BY <1>2, StateTypes DEF FlushInQueue, Q!PopInside, Q!PopLoadTail, Q!PopAwait, Q!PopTake,
       Q!PopSkip, Q!PopReset, Q!PopFree, Q!PopAdvance
  <2> QED
    BY <1>0, <2>1 DEF PlaceOK
<1>3. CASE FlushQueuePopped(t) \/ EmergencyQueuePopped(t)
  <2>1. /\ pc' = pc /\ rBatch' = rBatch /\ qBatch'[t] = <<>> /\ qPopPC'[t] = "idle"
        /\ pending'[t] = qBatch[t] /\ qPopPC[t] # "idle"
    BY <1>3, StateTypes DEF FlushQueuePopped, EmergencyQueuePopped, Q!PopEmpty, Q!PopCount, R!PopCall
  <2>2. /\ flushPC'[t] = IF t = Monitor THEN "writeQueue" ELSE "ring"
        /\ rPopPC'[t] = IF t = Monitor THEN rPopPC[t] ELSE "exchange"
    BY <1>3, StateTypes DEF FlushQueuePopped, EmergencyQueuePopped, R!PopCall
  <2>3. rPopPC[t] = "idle"
    BY <1>0, <2>1 DEF PlaceOK
  <2> QED
    BY <1>0, <2>1, <2>2, <2>3 DEF PlaceOK
<1>4. CASE EmergencyQueueWritten(t)
  BY <1>0, <1>4, StateTypes DEF EmergencyQueueWritten, R!PopCall, PlaceOK
<1>5. CASE FlushInRing(t)
  <2>1. CASE R!PopMove(t)
    <3>1. rPopPC[t] = "move" /\ rPopPC'[t] \in {"move", "storeTail"} /\ UNCHANGED <<qVars, pc, flushVars>>
      BY <1>5, <2>1, StateTypes DEF FlushInRing, R!PopMove
    <3> QED
      BY <1>0, <3>1 DEF PlaceOK
  <2>2. CASE R!PopExchange(t) \/ R!PopLoadTail(t)
    BY <1>0, <1>5, <2>2, StateTypes DEF FlushInRing, R!PopExchange, R!PopLoadTail, PlaceOK
  <2> QED
    BY <1>5, <2>1, <2>2 DEF FlushInRing, R!PopInside
<1>6. CASE FlushRingPopped(t)
  BY <1>0, <1>6, StateTypes DEF FlushRingPopped, R!PopEmpty, R!PopStoreTail, PlaceOK
<1>7. CASE FlushThrows(t)
  BY <1>0, <1>7, StateTypes DEF FlushThrows, R!PopThrow, PlaceOK
<1>8. CASE WriteEntry(t) \/ FlushReturn(t)
  BY <1>0, <1>8, StateTypes DEF WriteEntry, FlushReturn, PlaceOK
<1> QED
  BY <1>1, <1>2, <1>3, <1>4, <1>5, <1>6, <1>7, <1>8 DEF FlushStep

\* Every step keeps what HoldOK says of every thread.
LEMMA HoldKept ==
    ASSUME LoggerInv, \A u \in Threads : HoldOK(u), [AnyNext]_vars
    PROVE  \A u \in Threads : HoldOK(u)'
<1>1. ASSUME NEW t \in Threads, FlushStep(t), NEW u \in Threads PROVE HoldOK(u)'
  <2>1. CASE u = t
    BY <1>1, <2>1, HoldAfterFlush
  <2>2. CASE u # t
    BY <1>1, <2>2, FlushElsewhere DEF HoldOK
  <2> QED
    BY <2>1, <2>2
<1>2. CASE ~ \E t \in Threads : FlushStep(t)
  <2>1. UNCHANGED flushState
    BY <1>2, OthersFlushNothing
  <2>2. \A u \in Threads : pc[u] = "terminated" => pc'[u] = "terminated"
    <3> USE DEF Goto, qVars, rVars, Q!PushGoto, R!PushGoto
    <3>1. ASSUME NEW t \in Loggers, LogCall(t) \/ UserFlush(t) \/ LogStep(t)
          PROVE  \A u \in Threads : pc[u] = "terminated" => pc'[u] = "terminated"
      BY <3>1, StateTypes DEF LogCall, UserFlush, LogStep, LogReturn, LogPush, LogInPush,
         LogPushed, LogNotify, LogFallback, LogInRingPush, LogDropped, LogRingPushed
    <3>2. CASE WriterStep \/ CloseStep \/ CloseRequestStop \/ EmergencyCall \/ UNCHANGED vars
      BY <3>2, StateTypes DEF WriterStep, WriterLeave, WriterSleep, WriterWake,
         WriterChecksStop, CloseStep, CloseRelease, CloseJoin, CloseClear, CloseRequestStop,
         EmergencyCall, vars
    <3> QED
      BY <1>2, <3>1, <3>2, StepCases
  <2> QED
    BY <2>1, <2>2 DEF HoldOK, flushState
<1> QED
  BY <1>1, <1>2

\* What popAll hands out on its way to the file does not leave the hands of the threads.
LEMMA NothingLeftAfterFlush ==
    ASSUME LoggerInv, HoldInv, NEW t \in Threads, FlushStep(t)
    PROVE  NothingLeft'
<1> USE DEF flushVars, qVars, rVars
<1>0. HoldOK(t) /\ NothingLeft /\ PlaceOK(t)
  BY StateTypes DEF HoldInv
\* It is enough that what t held, with what it takes now, stays with it or is written.
<1>1. SUFFICES
        /\ \A m \in HeldBy(t) : m \in Range(written)' \/ m \in HeldBy(t)'
        /\ Range(written) \subseteq Range(written)'
        /\ \A m \in Range(qDelivered)' \cup Range(rDelivered)' :
              m \in Range(qDelivered) \cup Range(rDelivered) \cup HeldBy(t)'
  <2>1. \A u \in Threads : u # t => HeldBy(u)' = HeldBy(u)
    BY FlushElsewhere DEF HeldBy
  <2> QED
    BY <1>0, <1>1, <2>1 DEF NothingLeft
<1>2. CASE Q!PopTake(t) /\ FlushInQueue(t)
  <2> DEFINE taken == qStorage[Q!Slot(Q!Ticket(t))]
  <2>1. /\ qBatch' = [qBatch EXCEPT ![t] = Append(@, taken)] /\ qDelivered' = Append(qDelivered, taken)
        /\ UNCHANGED <<rDelivered, rBatch, pending, written>>
    BY <1>2 DEF Q!PopTake, FlushInQueue
  <2> HIDE DEF taken
  <2>2. Range(qDelivered') = Range(qDelivered) \cup {taken}
    BY <2>1, StateTypes, RangeAppend
  <2>3. Range(qBatch'[t]) = Range(qBatch[t]) \cup {taken}
    BY <2>1, StateTypes, RangeAppend
  <2> QED
    BY <2>1, <2>2, <2>3 DEF HeldBy
<1>3. CASE R!PopMove(t) /\ FlushInRing(t)
  <2> DEFINE moved == rBuffer[R!Index(rFrom[t] + rDone[t])]
  <2>1. /\ rBatch' = [rBatch EXCEPT ![t] = Append(@, moved)] /\ rDelivered' = Append(rDelivered, moved)
        /\ UNCHANGED <<qDelivered, qBatch, pending, written>>
    BY <1>3 DEF R!PopMove, FlushInRing
  <2> HIDE DEF moved
  <2>2. Range(rDelivered') = Range(rDelivered) \cup {moved}
    BY <2>1, StateTypes, RangeAppend
  <2>3. Range(rBatch'[t]) = Range(rBatch[t]) \cup {moved}
    BY <2>1, StateTypes, RangeAppend
  <2> QED
    BY <2>1, <2>2, <2>3 DEF HeldBy
<1>4. CASE FlushQueuePopped(t) \/ EmergencyQueuePopped(t)
  <2>1. /\ flushPC[t] = "queue" /\ UNCHANGED <<qDelivered, rDelivered, rBatch, written>>
        /\ pending' = [pending EXCEPT ![t] = qBatch[t]]
    BY <1>0, <1>4 DEF FlushQueuePopped, EmergencyQueuePopped, Q!PopEmpty, Q!PopCount, Q!PopReturn,
       Q!PopGoto, Q!history, R!PopCall, R!history, PlaceOK
  <2>2. pending[t] = <<>> /\ pending'[t] = qBatch[t]
    BY <1>0, <2>1, StateTypes DEF HoldOK
  <2> QED
    BY <2>1, <2>2, RangeEmpty DEF HeldBy
<1>5. CASE FlushRingPopped(t)
  <2>1. /\ UNCHANGED <<qDelivered, rDelivered, qBatch, written>>
        /\ pending'[t] = pending[t] \o rBatch[t]
    BY <1>5, StateTypes DEF FlushRingPopped, R!PopEmpty, R!PopStoreTail, R!history
  <2>2. Range(pending'[t]) = Range(pending[t]) \cup Range(rBatch[t])
    <3>1. /\ pending[t] \in Seq(Messages \cup {Unwritten})
          /\ rBatch[t] \in Seq(Messages \cup {Unwritten})
      BY HolderTypes
    <3> QED
      BY <2>1, <3>1, RangeOfConcat
  <2>3. HeldBy(t) \subseteq HeldBy(t)'
    BY <2>1, <2>2 DEF HeldBy
  <2> QED
    BY <2>1, <2>3
<1>6. CASE WriteEntry(t)
  <2>1. /\ UNCHANGED <<qDelivered, rDelivered, qBatch, rBatch>> /\ pending[t] # <<>>
        /\ pending'[t] = Tail(pending[t]) /\ written' = Append(written, Head(pending[t]))
    BY <1>6, StateTypes DEF WriteEntry
  <2>2. Range(pending[t]) \subseteq {Head(pending[t])} \cup Range(Tail(pending[t]))
    BY <2>1, StateTypes, RangeOfHeadTail
  <2>3. Range(written') = Range(written) \cup {Head(pending[t])}
    BY <2>1, StateTypes, RangeAppend
  <2> QED
    BY <2>1, <2>2, <2>3 DEF HeldBy
<1>7. CASE UNCHANGED <<qDelivered, rDelivered, qBatch, rBatch, pending, written>>
  BY <1>7 DEF HeldBy
<1> QED
  <2>1. CASE FlushInQueue(t) /\ ~Q!PopTake(t)
    BY <1>7, <2>1 DEF FlushInQueue, Q!PopInside, Q!PopLoadTail, Q!PopAwait, Q!PopSkip, Q!PopReset,
       Q!PopFree, Q!PopAdvance, Q!history
  <2>2. CASE FlushInRing(t) /\ ~R!PopMove(t)
    BY <1>7, <2>2 DEF FlushInRing, R!PopInside, R!PopExchange, R!PopLoadTail, R!history
  <2>3. CASE FlushBegin(t) \/ FlushThrows(t) \/ FlushReturn(t) \/ EmergencyQueueWritten(t)
    BY <1>7, <2>3 DEF FlushBegin, FlushThrows, FlushReturn, EmergencyQueueWritten, Q!PopLoadHead,
       Q!history, R!PopThrow, R!PopCall, R!history
  <2> QED
    BY <1>2, <1>3, <1>4, <1>5, <1>6, <2>1, <2>2, <2>3 DEF FlushStep

\* Every step keeps HoldInv.
LEMMA HoldStep ==
    ASSUME LoggerInv, HoldInv, [AnyNext]_vars
    PROVE  HoldInv'
<1>1. \A u \in Threads : HoldOK(u)'
  BY HoldKept DEF HoldInv
<1>2. NothingLeft'
  <2>1. CASE ~ \E t \in Threads : FlushStep(t)
    BY <2>1, OthersFlushNothing DEF HoldInv, NothingLeft, HeldBy, flushState
  <2>2. CASE \E t \in Threads : FlushStep(t)
    BY <2>2, NothingLeftAfterFlush
  <2> QED
    BY <2>1, <2>2
<1> QED
  BY <1>1, <1>2 DEF HoldInv

-------------------------------------------------------------------------------
(* No wakeup is lost.                                                      *)

\* popAll has read tail_ and has yet to store head_.
Draining == {"await", "take", "reset", "free", "advance"}

\* Every ticket is behind head_ or in the range some popAll drains.
QueueDrained ==
    \/ qTail <= qHead
    \/ \E t \in Threads : qPopPC[t] \in Draining /\ qTail <= qFrom[t] + qCount[t]

\* A log() that was accepted and has yet to release the semaphore.
Announcing(t) ==
    pc[t] = "notify" \/ qPushPC[t] \in {"await", "emplace", "publish", "count"}

\* The flush of t has read tail_, so that it takes no later ticket.
Settled(t) ==
    flushPC[t] \in {"writeQueue", "ring", "write"} \/ qPopPC[t] \in Draining \cup {"count"}

\* The writer waits for a token, or is on its way there and looks at the queue no more.
WriterRests ==
    pc[Writer] \in {"test", "acquire"} \/ (pc[Writer] = "flush" /\ Settled(Writer))

\* What the writer does not see any more is drained by another flush, or a token is
\* there or on its way.
WakeInv ==
    alone /\ WriterRests => QueueDrained \/ sem > 0 \/ \E t \in Loggers : Announcing(t)

\* What AsyncQueue promises, in the words of the logger.
LEMMA QueueFacts ==
    ASSUME LoggerInv, QP!QueueInv
    PROVE  /\ qTail \in Nat /\ qHead \in Nat /\ qHead <= qTail /\ qTail <= qHead + Capacity
           /\ Len(qAccepted) = qTail /\ Len(qDelivered) <= qTail /\ qHead <= Len(qDelivered)
           /\ \A k \in 1 .. Len(qDelivered) : qDelivered[k] = qAccepted[k]
           /\ \A t \in Threads :
                 /\ qPopPC[t] \in Draining \cup {"loadTail"} => qFrom[t] = qHead
                 /\ qPopPC[t] \in Draining => qFrom[t] + qCount[t] <= qTail
                 /\ qPopPC[t] = "advance" => Len(qDelivered) = qFrom[t] + qCount[t]
           /\ (\A t \in Threads : qPopPC[t] \in {"idle", "loadTail", "count"})
                 => Len(qDelivered) = qHead
           /\ \A t, u \in Threads : qPopPC[t] # "idle" /\ qPopPC[u] # "idle" => t = u
<1> USE DEF QP!QueueInv
<1>1. /\ QP!Cursor \in {Len(qDelivered), Len(qDelivered) - 1}
      /\ (\A t \in Threads : qPopPC[t] \notin {"reset", "free"}) => QP!Cursor = Len(qDelivered)
  BY DEF QP!Cursor, QP!Taken
<1>2. /\ qTail \in Nat /\ qHead \in Nat /\ Len(qDelivered) \in Nat /\ Capacity \in Nat
      /\ qFrom \in [Threads -> Nat] /\ qCount \in [Threads -> Nat]
      /\ \A t \in Threads : qPopPC[t] \in QP!ConsumerPC
  BY LoggerSizesAssumption DEF QP!TypeOK
<1>3. \A t, u \in Threads : qPopPC[t] # "idle" /\ qPopPC[u] # "idle" => t = u
  BY DEF QP!OneConsumerInv
<1>4. /\ qHead <= QP!Cursor /\ qTail <= qHead + Capacity /\ Len(qAccepted) = qTail
      /\ qHead <= qTail
  BY <1>1, <1>2 DEF QP!CountersInv
<1>5. /\ Len(qDelivered) <= qTail
      /\ \A k \in 1 .. Len(qDelivered) : qDelivered[k] = qAccepted[k]
  BY <1>4 DEF QP!DeliveredInOrder
<1>6. ASSUME NEW t \in Threads
      PROVE  /\ qPopPC[t] \in Draining \cup {"loadTail"} => qFrom[t] = qHead
             /\ qPopPC[t] \in Draining => qFrom[t] + qCount[t] <= qTail
             /\ qPopPC[t] = "advance" => QP!Cursor = qFrom[t] + qCount[t]
  BY <1>2 DEF QP!ConsumerInv, QP!ConsumerPC, Draining
<1>7. ASSUME NEW t \in Threads, qPopPC[t] = "advance" PROVE Len(qDelivered) = qFrom[t] + qCount[t]
  <2>1. \A u \in Threads : qPopPC[u] \notin {"reset", "free"}
    BY <1>3, <1>7
  <2> QED
    BY <1>1, <1>6, <1>7, <2>1
<1>8. (\A t \in Threads : qPopPC[t] \in {"idle", "loadTail", "count"}) => Len(qDelivered) = qHead
  BY <1>1 DEF QP!ConsumerInv
<1>9. qHead <= Len(qDelivered)
  BY <1>1, <1>2, <1>4
<1> QED
  BY <1>2, <1>3, <1>4, <1>5, <1>6, <1>7, <1>8, <1>9

\* No step of a flush hides a ticket from popAll, and a flush that reads tail_ takes
\* them all.
LEMMA DrainedAfterFlush ==
    ASSUME LoggerInv, QP!QueueInv, NEW t \in Threads, FlushStep(t)
    PROVE  /\ QueueDrained => QueueDrained'
           /\ ~Settled(t) /\ Settled(t)' => QueueDrained'
<1> USE DEF flushVars, qVars, rVars, Q!PopGoto, Q!PopReturn
<1>0. /\ qTail' = qTail
      /\ \A u \in Threads : u # t =>
            qPopPC'[u] = qPopPC[u] /\ qFrom'[u] = qFrom[u] /\ qCount'[u] = qCount[u]
  BY FlushElsewhere DEF logState
<1>1. SUFFICES
        /\ QueueDrained =>
              \/ qTail <= qHead'
              \/ qHead <= qHead' /\ qPopPC[t] \notin Draining
              \/ /\ qPopPC'[t] \in Draining /\ qFrom'[t] = qFrom[t] /\ qCount'[t] = qCount[t]
                 /\ qHead' = qHead
              \/ qHead <= qHead' /\ qFrom[t] + qCount[t] <= qHead'
        /\ ~Settled(t) /\ Settled(t)' =>
              \/ qTail <= qHead'
              \/ qPopPC'[t] \in Draining /\ qTail <= qFrom'[t] + qCount'[t]
  <2>1. qTail \in Nat /\ qHead \in Nat /\ qHead' \in Nat
        /\ \A u \in Threads : qFrom[u] \in Nat /\ qCount[u] \in Nat
    <3>1. qHead' \in {qHead} \cup {qFrom[t] + qCount[t]}
      BY DEF FlushStep, FlushBegin, FlushInQueue, FlushQueuePopped, FlushInRing,
         FlushRingPopped, FlushThrows, WriteEntry, FlushReturn, EmergencyQueuePopped,
         EmergencyQueueWritten, Q!PopLoadHead, Q!PopInside, Q!PopLoadTail, Q!PopAwait, Q!PopTake,
         Q!PopSkip, Q!PopReset, Q!PopFree, Q!PopAdvance, Q!PopEmpty, Q!PopCount
    <3> QED
      BY SMTT(30), <3>1, StateTypes
  <2> QED
    BY <1>0, <1>1, <2>1 DEF QueueDrained
<1>2. qTail \in Nat /\ qHead \in Nat /\ qFrom[t] \in Nat /\ qCount[t] \in Nat /\ PlaceOK(t)
  BY StateTypes
<1>3. CASE FlushBegin(t)
  <2>1. qPopPC[t] = "idle" /\ qPopPC'[t] = "loadTail" /\ flushPC'[t] = "queue" /\ qHead' = qHead
    BY <1>3, StateTypes DEF FlushBegin, Q!PopLoadHead
  <2> QED
    BY <1>2, <2>1 DEF Settled, Draining
<1>4. CASE FlushInQueue(t) /\ Q!PopLoadTail(t)
  <2>1. /\ qPopPC[t] = "loadTail" /\ qPopPC'[t] = "await" /\ qHead' = qHead
        /\ qFrom' = qFrom /\ qCount'[t] = qTail - qFrom[t]
    BY <1>4, StateTypes DEF Q!PopLoadTail
  <2> QED
    BY <1>2, <2>1 DEF Draining
<1>5. CASE FlushInQueue(t) /\ (Q!PopAwait(t) \/ Q!PopTake(t) \/ Q!PopSkip(t) \/ Q!PopReset(t) \/ Q!PopFree(t))
  <2>1. /\ qPopPC[t] \in Draining /\ qPopPC'[t] \in Draining /\ qHead' = qHead
        /\ qFrom' = qFrom /\ qCount' = qCount
    BY <1>5, StateTypes DEF Q!PopAwait, Q!PopTake, Q!PopSkip, Q!PopReset, Q!PopFree, Draining
  <2> QED
    BY <1>2, <2>1 DEF Settled
<1>6. CASE FlushInQueue(t) /\ Q!PopAdvance(t)
  <2>1. /\ qPopPC[t] = "advance" /\ qHead' = qFrom[t] + qCount[t]
    BY <1>6 DEF Q!PopAdvance
  <2>2. qFrom[t] = qHead
    BY <2>1, QueueFacts DEF Draining
  <2> QED
    BY <1>2, <2>1, <2>2 DEF Settled, Draining
<1>7. CASE FlushQueuePopped(t) \/ EmergencyQueuePopped(t)
  <2>1. qHead' = qHead /\ qPopPC[t] \in {"loadTail", "count"} /\ qPopPC'[t] = "idle"
        /\ (qPopPC[t] = "loadTail" => qTail <= qFrom[t])
    BY <1>7, StateTypes DEF FlushQueuePopped, EmergencyQueuePopped, Q!PopEmpty, Q!PopCount
  <2>2. qPopPC[t] = "loadTail" => qFrom[t] = qHead
    BY QueueFacts
  <2> QED
    BY <1>2, <2>1, <2>2 DEF Settled, Draining
<1>8. CASE FlushInRing(t) \/ FlushRingPopped(t) \/ FlushThrows(t) \/ WriteEntry(t) \/ FlushReturn(t)
           \/ EmergencyQueueWritten(t)
  <2>1. UNCHANGED <<qHead, qPopPC, qFrom, qCount>>
    BY <1>8 DEF FlushInRing, FlushRingPopped, FlushThrows, WriteEntry, FlushReturn,
       EmergencyQueueWritten
  <2>2. Settled(t)' => Settled(t)
    BY <1>2, <1>8, StateTypes DEF FlushInRing, FlushRingPopped, FlushThrows, WriteEntry,
       FlushReturn, EmergencyQueueWritten, Settled, R!PopInside, R!PopExchange, R!PopLoadTail,
       R!PopMove, R!PopEmpty, R!PopStoreTail, R!PopThrow, R!PopGoto, R!PopReturn, PlaceOK
  <2> QED
    BY <1>2, <2>1, <2>2 DEF Draining
<1> QED
  BY <1>3, <1>4, <1>5, <1>6, <1>7, <1>8 DEF FlushStep, FlushInQueue, Q!PopInside

\* log() leaves popAll and the writer alone, and what it adds to the queue it announces.
LEMMA WakeAfterLog ==
    ASSUME LoggerInv, WakeInv, NEW t \in Loggers, LogCall(t) \/ UserFlush(t) \/ LogStep(t),
           UNCHANGED flushState
    PROVE  WakeInv'
<1> USE DEF qVars, rVars, Goto, control, Q!PushGoto, Q!PushReturn
<1>0. PlaceOK(t) /\ t \in Threads /\ t # Writer /\ sem \in Nat
  BY StateTypes, ThreadsDiffer
<1>1. (WriterRests' <=> WriterRests) /\ alone' = alone
  <2>1. pc'[Writer] = pc[Writer]
    BY <1>0, StateTypes, ThreadsDiffer DEF LogCall, UserFlush, LogStep, LogReturn, LogPush,
       LogInPush, LogPushed, LogNotify, LogFallback, LogInRingPush, LogDropped, LogRingPushed
  <2> QED
    BY <2>1 DEF flushState, WriterRests, Settled
<1>2. qTail' = qTail => (QueueDrained' <=> QueueDrained)
  BY DEF QueueDrained, flushState
<1>3. \A u \in Loggers : u # t => (Announcing(u)' <=> Announcing(u))
  <2>1. \A u \in Loggers : u # t => pc'[u] = pc[u]
    BY StateTypes, ThreadsDiffer DEF LogCall, UserFlush, LogStep, LogReturn, LogPush,
       LogInPush, LogPushed, LogNotify, LogFallback, LogInRingPush, LogDropped, LogRingPushed
  <2>2. \A u \in Loggers : u # t => qPushPC'[u] = qPushPC[u]
    <3>1. CASE LogPush(t) \/ LogPushed(t) \/ LogFallback(t)
      BY <3>1, StateTypes DEF LogPush, LogPushed, LogFallback, Q!PushBegin, Q!PushCount, Q!PushFull
    <3>2. CASE LogInPush(t)
      BY <3>2, StateTypes DEF LogInPush, Q!PushInside, Q!PushLoadTail, Q!PushRoom,
         Q!PushReserve, Q!PushRetry, Q!PushAwait, Q!PushEmplace, Q!PushPublish
    <3> QED
      BY <3>1, <3>2 DEF LogCall, UserFlush, LogStep, LogReturn, LogNotify, LogInRingPush,
         LogDropped, LogRingPushed
  <2> QED
    BY <2>1, <2>2 DEF Announcing
<1>4. \/ Announcing(t)' \/ sem' > 0
      \/ qTail' = qTail /\ sem' = sem /\ ~Announcing(t)
  <2>1. CASE LogCall(t) \/ UserFlush(t) \/ LogReturn(t) \/ LogPush(t)
    <3>1. pc[t] \in {"idle", "enter"} /\ sem' = sem /\ qTail' = qTail
      BY <2>1 DEF LogCall, UserFlush, LogReturn, LogPush, Q!PushBegin
    <3> QED
      BY <1>0, <3>1 DEF Announcing, PlaceOK
  <2>2. CASE LogInPush(t)
    <3>1. /\ sem' = sem
          /\ \/ qPushPC'[t] \in {"await", "emplace", "publish", "count"}
             \/ qTail' = qTail /\ qPushPC[t] \in {"loadTail", "loadHead", "reserve"}
      BY <2>2, StateTypes DEF LogInPush, Q!PushInside, Q!PushLoadTail, Q!PushRoom,
         Q!PushReserve, Q!PushRetry, Q!PushAwait, Q!PushEmplace, Q!PushPublish
    <3>2. qPushPC[t] # "idle" => pc[t] = "push"
      BY <1>0 DEF PlaceOK
    <3> QED
      BY <3>1, <3>2 DEF Announcing
  <2>3. CASE LogPushed(t)
    <3>1. pc'[t] = "notify"
      BY <1>0, <2>3, StateTypes DEF LogPushed
    <3> QED
      BY <3>1 DEF Announcing
  <2>4. CASE LogNotify(t)
    <3>1. sem' \in {1, sem + 1}
      BY <2>4 DEF LogNotify, SemRelease
    <3> QED
      BY <1>0, <3>1
  <2>5. CASE LogFallback(t)
    <3>1. pc[t] = "push" /\ sem' = sem /\ qTail' = qTail /\ qPushPC[t] = "loadHead"
      BY <2>5 DEF LogFallback, Q!PushFull
    <3> QED
      BY <3>1 DEF Announcing
  <2>6. CASE LogInRingPush(t) \/ LogDropped(t) \/ LogRingPushed(t)
    <3>1. rPushPC[t] # "idle" /\ sem' = sem /\ qTail' = qTail
      BY <2>6 DEF LogInRingPush, LogDropped, LogRingPushed, R!PushInside, R!PushRoom,
         R!PushReserve, R!PushOvershoot, R!PushClaim, R!PushFull, R!PushUndo, R!PushWrite,
         R!PushGoto, R!PushReturn
    <3>2. pc[t] = "ringPush" /\ qPushPC[t] = "idle"
      BY <1>0, <3>1 DEF PlaceOK
    <3> QED
      BY <3>1, <3>2 DEF Announcing
  <2> QED
    BY <2>1, <2>2, <2>3, <2>4, <2>5, <2>6 DEF LogStep
<1> QED
  BY <1>1, <1>2, <1>3, <1>4 DEF WakeInv

\* A flush that the writer comes back from has drained what it found.
LEMMA WakeAfterFlush ==
    ASSUME LoggerInv, WakeInv, AloneInv, NEW t \in Threads, FlushStep(t), alone, alone'
    PROVE  WakeInv'
<1>1. QP!QueueInv /\ PlaceOK(t) /\ t \in Threads
  BY StateTypes DEF AloneInv
<1>2. /\ QueueDrained => QueueDrained'
      /\ ~Settled(t) /\ Settled(t)' => QueueDrained'
  BY <1>1, DrainedAfterFlush
<1>3. sem' = sem /\ qPushPC' = qPushPC
  BY FlushElsewhere DEF logState
<1>4. \A u \in Loggers : Announcing(u) => Announcing(u)'
  <2>1. \A u \in Loggers : pc[u] = "notify" => pc'[u] = "notify"
    <3>1. pc[t] = "notify" => pc'[t] = pc[t]
      BY <1>1 DEF FlushStep, FlushBegin, FlushInQueue, FlushQueuePopped, FlushInRing,
         FlushRingPopped, FlushThrows, WriteEntry, FlushReturn, EmergencyQueuePopped,
         EmergencyQueueWritten, R!PopThrow, R!PopGoto, PlaceOK
    <3> QED
      BY <3>1, FlushElsewhere, ThreadsDiffer
  <2> QED
    BY <1>3, <2>1 DEF Announcing
<1>5. WriterRests' => WriterRests \/ QueueDrained'
  <2>1. CASE t # Writer
    <3>1. pc'[Writer] = pc[Writer] /\ flushPC'[Writer] = flushPC[Writer] /\ qPopPC'[Writer] = qPopPC[Writer]
      BY <2>1, FlushElsewhere, ThreadsDiffer
    <3> QED
      BY <3>1 DEF WriterRests, Settled
  <2>2. CASE t = Writer
    <3>1. pc[Writer] \in {"flush", "lastFlush"}
      BY <2>2, FlushPlace, ThreadsDiffer DEF PlaceOK
    <3>2. CASE FlushReturn(Writer)
      <4>1. flushPC[Writer] = "write" /\ pc' = [pc EXCEPT ![Writer] = AfterFlush(Writer)]
        BY <3>2 DEF FlushReturn
      <4>2. pc'[Writer] = IF pc[Writer] = "lastFlush" THEN "exited" ELSE "test"
        BY <4>1, StateTypes, ThreadsDiffer DEF AfterFlush
      <4> QED
        BY <3>1, <4>1, <4>2 DEF WriterRests, Settled
    <3>3. CASE FlushThrows(Writer)
      <4>1. pc'[Writer] = "terminated"
        BY <3>3, StateTypes, ThreadsDiffer DEF FlushThrows
      <4> QED
        BY <4>1 DEF WriterRests
    <3>4. CASE UNCHANGED pc
      BY <1>2, <2>2, <3>1, <3>4 DEF WriterRests
    <3> QED
      BY <2>2, <3>2, <3>3, <3>4 DEF FlushStep, FlushBegin, FlushInQueue, FlushQueuePopped,
         FlushInRing, FlushRingPopped, WriteEntry, EmergencyQueuePopped, EmergencyQueueWritten
  <2> QED
    BY <2>1, <2>2
<1> QED
  BY <1>2, <1>3, <1>4, <1>5 DEF WakeInv

\* Every step keeps WakeInv.
LEMMA WakeStep ==
    ASSUME LoggerInv, AloneInv, WakeInv, [AnyNext]_vars
    PROVE  WakeInv'
<1> SUFFICES ASSUME alone' PROVE WakeInv'
  BY DEF WakeInv
<1>0. alone
  BY AloneBefore
<1>1. CASE \E t \in Threads : FlushStep(t)
  BY <1>0, <1>1, WakeAfterFlush
<1>2. CASE ~ \E t \in Threads : FlushStep(t)
  <2>1. UNCHANGED flushState
    BY <1>2, OthersFlushNothing
  <2>2. CASE \E t \in Loggers : LogCall(t) \/ UserFlush(t) \/ LogStep(t)
    BY <2>1, <2>2, WakeAfterLog
  <2>3. CASE WriterStep
    <3>1. /\ flushPC[Writer] = "none" /\ UNCHANGED <<qVars, flushPC, alone>>
          /\ \/ pc'[Writer] \notin {"test", "acquire", "flush"}
             \/ pc[Writer] = "test" /\ sem' = sem
             \/ pc'[Writer] = "flush"
          /\ \A u \in Threads : u # Writer => pc'[u] = pc[u]
      BY <2>3, StateTypes, ThreadsDiffer DEF WriterStep, WriterLeave, WriterSleep, WriterWake,
         WriterChecksStop, Goto, flushVars, control
    <3>2. qPopPC[Writer] = "idle" /\ qPopPC' = qPopPC
      BY <3>1, StateTypes, ThreadsDiffer DEF PlaceOK, qVars
    <3>3. ~Settled(Writer)'
      BY <3>1, <3>2 DEF Settled, Draining
    <3>4. (QueueDrained' <=> QueueDrained) /\ \A u \in Loggers : Announcing(u)' <=> Announcing(u)
      BY <3>1, ThreadsDiffer DEF QueueDrained, Announcing, qVars
    <3>5. WriterRests' => WriterRests /\ sem' = sem
      BY <3>1, <3>3 DEF WriterRests
    <3> QED
      BY <1>0, <3>4, <3>5 DEF WakeInv
  <2>4. CASE CloseStep \/ CloseRequestStop \/ EmergencyCall \/ UNCHANGED vars
    <3>0. sem' = sem \/ sem' > 0
      <4>1. sem \in Nat /\ sem' \in {sem, 1, sem + 1}
        BY <2>4, StateTypes DEF CloseStep, CloseRelease, CloseJoin, CloseClear,
           CloseRequestStop, EmergencyCall, SemRelease, vars
      <4> QED
        BY <4>1
    <3>1. /\ UNCHANGED <<qVars, flushPC>>
          /\ \A u \in Threads : u \notin {Closer, Monitor} => pc'[u] = pc[u]
      BY <2>4, StateTypes DEF CloseStep, CloseRelease, CloseJoin, CloseClear,
         CloseRequestStop, EmergencyCall, Goto, vars, flushVars
    <3>2. /\ QueueDrained' <=> QueueDrained
          /\ \A u \in Loggers : Announcing(u)' <=> Announcing(u)
          /\ WriterRests' <=> WriterRests
      BY <3>1, ThreadsDiffer DEF QueueDrained, Announcing, WriterRests, Settled, qVars
    <3> QED
      BY <1>0, <3>0, <3>2 DEF WakeInv
  <2> QED
    BY <1>2, <2>2, <2>3, <2>4, StepCases
<1> QED
  BY <1>1, <1>2

\* Nothing waits and nobody holds anything when the logger starts.
LEMMA FlushInvInit == Init => HoldInv /\ WakeInv
<1> SUFFICES ASSUME Init PROVE HoldInv /\ WakeInv
  OBVIOUS
<1>1. /\ qTail = 0 /\ qHead = 0 /\ qDelivered = <<>> /\ rDelivered = <<>>
      /\ \A t \in Threads : qPopPC[t] = "idle" /\ rPopPC[t] = "idle" /\ flushPC[t] = "none"
      /\ \A t \in Threads : qBatch[t] = <<>> /\ rBatch[t] = <<>> /\ pending[t] = <<>>
  BY DEF Init, Q!Init, R!Init
<1>2. HoldInv
  BY <1>1, RangeEmpty DEF HoldInv, HoldOK, NothingLeft
<1>3. QueueDrained
  BY <1>1 DEF QueueDrained
<1> QED
  BY <1>2, <1>3 DEF WakeInv

\* What holds of every flush as long as none has overlapped another.
FlushInv == LoggerInv /\ AloneInv /\ HoldInv /\ WakeInv

\* FlushInv holds in every reachable state of every specification.
THEOREM FlushInvariant == AnySpec => []FlushInv
<1>1. Init => FlushInv
  BY LoggerInvInit, AloneInit, FlushInvInit DEF FlushInv
<1>2. FlushInv /\ [AnyNext]_vars => FlushInv'
  BY LoggerInvStep, AloneStep, HoldStep, WakeStep DEF FlushInv
<1> QED
  BY <1>1, <1>2, PTL DEF AnySpec

\* A thread that is outside flush() holds no entry.
LEMMA HandsEmpty ==
    ASSUME LoggerInv, HoldInv, NEW t \in Threads, flushPC[t] = "none", pc[t] # "terminated"
    PROVE  HeldBy(t) = {} /\ qPopPC[t] = "idle" /\ rPopPC[t] = "idle"
<1>1. qPopPC[t] = "idle" /\ rPopPC[t] = "idle"
  BY StateTypes DEF PlaceOK
<1>2. pending[t] = <<>> /\ qBatch[t] = <<>> /\ rBatch[t] = <<>>
  BY <1>1 DEF HoldInv, HoldOK
<1> QED
  BY <1>1, <1>2, RangeEmpty DEF HeldBy

\* When the queue is drained and nobody flushes, the file has what the queue accepted.
LEMMA DrainedIsWritten ==
    ASSUME FlushInv, alone, Running, QueueDrained, \A t \in Threads : flushPC[t] = "none"
    PROVE  /\ Len(qDelivered) = Len(qAccepted)
           /\ Range(qAccepted) \subseteq Range(written)
<1>1. \A t \in Threads : HeldBy(t) = {} /\ qPopPC[t] = "idle"
  BY HandsEmpty DEF FlushInv, Running
<1>2. LoggerInv /\ QP!QueueInv
  BY DEF FlushInv, AloneInv
<1>3. /\ qTail \in Nat /\ qHead \in Nat /\ qHead <= qTail /\ Len(qAccepted) = qTail
      /\ Len(qDelivered) = qHead /\ \A k \in 1 .. Len(qDelivered) : qDelivered[k] = qAccepted[k]
  BY <1>1, <1>2, QueueFacts
<1>4. qTail <= qHead
  BY <1>1 DEF QueueDrained, Draining
<1>5. Len(qDelivered) = Len(qAccepted)
  BY <1>3, <1>4
<1>6. Range(qAccepted) \subseteq Range(qDelivered)
  <2>1. DOMAIN qAccepted = 1 .. Len(qAccepted) /\ DOMAIN qDelivered = 1 .. Len(qDelivered)
    BY <1>2, StateTypes
  <2> QED
    BY <1>3, <1>5, <2>1 DEF Range
<1>7. Range(qDelivered) \subseteq Range(written)
  BY <1>1 DEF FlushInv, HoldInv, NothingLeft
<1> QED
  BY <1>5, <1>6, <1>7

\* No wakeup is lost although log() outpaces the writer from any number of threads: the
\* token that notify leaves is released after the push, and the writer drains the queue
\* after it has taken a token (async_logger.cpp, log and writerThread).
THEOREM NoWakeupLostUnderLoad ==
    Spec \/ OverloadSpec \/ FreeSpec \/ EmergencySpec => []NoLostWakeupUnderLoad
<1>1. FlushInv => NoLostWakeupUnderLoad
  <2> SUFFICES ASSUME FlushInv, pc[Writer] = "acquire", sem = 0, LoggersIdle, Running, alone,
                      \A t \in Threads : flushPC[t] = "none"
               PROVE  Range(qAccepted) \subseteq Range(written)
    BY DEF NoLostWakeupUnderLoad
  <2>1. \A t \in Loggers : ~Announcing(t)
    BY StateTypes, ThreadsDiffer DEF FlushInv, PlaceOK, Announcing, LoggersIdle
  <2>2. QueueDrained
    BY <2>1 DEF FlushInv, WakeInv, WriterRests
  <2> QED
    BY <2>2, DrainedIsWritten
<1> QED
  BY <1>1, AnySpecCovers, FlushInvariant, PTL

-------------------------------------------------------------------------------
(* Spec: one thread logs at the pace of the writer, and the close is        *)
(* orderly.                                                                *)

OneLogger == \A t, u \in Loggers : t = u

\* Nobody flushes but the writer and deinitialize(), one after the other, and nothing
\* goes to the ring buffer.
PacedPlaces ==
    /\ alone /\ pc[Monitor] = "idle" /\ Running
    /\ \A t \in Loggers : pc[t] \in {"idle", "enter", "push", "notify"}

\* The ring buffer stays empty.
RingUnused == rSize = 0 /\ \A t \in Threads : rPopPC[t] \in {"idle", "exchange"}

\* The queue has room for a log() that has yet to reserve its ticket.
RoomInv ==
    \A t \in Loggers :
        /\ pc[t] = "enter" \/ qPushPC[t] \in {"loadTail", "loadHead", "reserve"}
              => qTail - qHead < Capacity
        /\ qPushPC[t] \in {"loadHead", "reserve"} => qLocalTail[t] = qTail

\* What the queue has handed out is the file and what the flush under way holds.
HandsInv ==
    /\ \A t \in Threads :
          /\ flushPC[t] = "queue" => qDelivered = written \o qBatch[t]
          /\ flushPC[t] \in {"ring", "write"} => qDelivered = written \o pending[t]
    /\ (\A t \in Threads : flushPC[t] = "none") => qDelivered = written

\* head_ runs ahead of the file by one batch at most.
WaitInv ==
    /\ qHead <= Len(written) + Capacity
    /\ \A t \in Threads : qPopPC[t] \in {"loadTail"} \cup Draining => Len(written) = qHead

\* deinitialize() comes after the last log(), and its flush drains what that left.
CloseInv ==
    /\ stop => LoggersIdle /\ calls = MaxCalls
    /\ pc[Closer] # "idle" => stop
    /\ ~initialized => stop /\ pc[Closer] = "idle"
    /\ pc[Closer] = "clear" \/ ~initialized \/ Settled(Closer) => QueueDrained

PacedInv ==
    /\ FlushInv /\ PacedPlaces /\ RingUnused /\ RoomInv /\ HandsInv /\ WaitInv /\ CloseInv

\* The steps of Spec.
LEMMA PacedCases ==
    ASSUME [Next]_vars
    PROVE  /\ [AnyNext]_vars
           /\ \/ \E t \in Loggers : PacedCall(t) \/ LogStep(t)
              \/ \E t \in Threads : FlushStep(t)
              \/ WriterStep \/ CloseStep \/ OrderlyClose \/ UNCHANGED vars
BY DEF Next, AnyNext, ThreadStep, PacedCall, OrderlyClose

\* Nothing of Spec takes log() to the ring buffer.
LEMMA PacedLog ==
    ASSUME PacedInv, NEW t \in Loggers, LogStep(t)
    PROVE  LogReturn(t) \/ LogPush(t) \/ LogInPush(t) \/ LogPushed(t) \/ LogNotify(t)
<1> USE DEF PacedInv
<1>0. pc[t] \in {"idle", "enter", "push", "notify"} /\ t \in Threads /\ PlaceOK(t)
  BY StateTypes, ThreadsDiffer DEF PacedPlaces, FlushInv
<1>1. ~LogFallback(t)
  <2> SUFFICES ASSUME LogFallback(t) PROVE FALSE
    OBVIOUS
  <2>1. qPushPC[t] = "loadHead" /\ Q!LooksFull(t)
    BY DEF LogFallback, Q!PushFull, Q!PushReturn, Q!PushGoto
  <2>2. qLocalTail[t] - qHead < Capacity /\ qLocalTail[t] = qTail
    BY <2>1 DEF RoomInv
  <2>3. qTail \in Nat /\ qHead \in Nat /\ qHead <= qTail
    BY QueueFacts DEF FlushInv, AloneInv, PacedPlaces
  <2>4. qLocalTail[t] - qHead \in 0 .. (Word - 1)
    BY <2>2, <2>3, LoggerSizesAssumption
  <2>5. Q!Wrap(qLocalTail[t] - qHead) = qLocalTail[t] - qHead
    BY <2>4, LoggerSizesAssumption DEF Q!Wrap
  <2> QED
    BY <2>1, <2>2, <2>3, <2>5, LoggerSizesAssumption DEF Q!LooksFull
<1>2. ~(LogInRingPush(t) \/ LogDropped(t) \/ LogRingPushed(t))
  <2>1. rPushPC[t] = "idle"
    BY <1>0 DEF PlaceOK
  <2> QED
    BY <2>1 DEF LogInRingPush, LogDropped, LogRingPushed, R!PushInside, R!PushRoom,
       R!PushReserve, R!PushOvershoot, R!PushClaim, R!PushFull, R!PushUndo, R!PushWrite,
       R!PushGoto, R!PushReturn
<1> QED
  BY <1>1, <1>2 DEF LogStep

\* Who flushes in Spec: never two threads, and the closing thread only after the writer.
LEMMA PacedFlushers ==
    ASSUME PacedInv
    PROVE  /\ \A t \in Threads : flushPC[t] # "none" => t \in {Writer, Closer}
           /\ pc[Closer] \in {"flush", "clear"} \/ ~initialized => pc[Writer] = "exited"
           /\ pc[Writer] = "exited" => flushPC[Writer] = "none"
           /\ pc[Closer] # "flush" => flushPC[Closer] = "none"
<1>1. ASSUME NEW t \in Threads PROVE PlaceOK(t) /\ (t \in Loggers \/ t \in {Writer, Closer, Monitor})
  BY StateTypes DEF PacedInv, FlushInv, Threads
<1>2. \A t \in Loggers \cup {Monitor} : flushPC[t] = "none"
  BY <1>1, ThreadsDiffer DEF PacedInv, PacedPlaces, PlaceOK
<1>3. WriterGoneAfterJoin
  BY DEF PacedInv, FlushInv, LoggerInv
<1>4. pc[Writer] = "exited" => flushPC[Writer] = "none"
  BY <1>1, ThreadsDiffer DEF PlaceOK
<1>5. pc[Closer] # "flush" => flushPC[Closer] = "none"
  BY <1>1, ThreadsDiffer DEF PlaceOK
<1> QED
  BY <1>1, <1>2, <1>3, <1>4, <1>5 DEF WriterGoneAfterJoin

\* The steps of flush() in Spec.
FlushPaced(t) ==
    \/ FlushBegin(t) \/ FlushInQueue(t) \/ FlushQueuePopped(t)
    \/ FlushRingPopped(t) /\ R!PopEmpty(t)
    \/ WriteEntry(t) \/ FlushReturn(t)

\* In Spec a flush is of the writer or the closing thread, finds the ring buffer empty,
\* and begins when nobody else flushes.
LEMMA PacedFlush ==
    ASSUME PacedInv, NEW t \in Threads, FlushStep(t)
    PROVE  /\ t \in {Writer, Closer} /\ FlushPaced(t) /\ pc[t] \in {"flush", "lastFlush"}
           /\ \A u \in Threads : u # t => flushPC[u] = "none"
<1>0. PlaceOK(t) /\ pc[t] \in {"flush", "lastFlush", "emergency"} /\ FlushInv
  BY FlushPlace DEF PacedInv, FlushInv
<1>1. t \in {Writer, Closer} /\ pc[t] \in {"flush", "lastFlush"}
  BY <1>0, ThreadsDiffer DEF PacedInv, PacedPlaces, Threads, PlaceOK
<1>2. ASSUME NEW u \in Threads, u # t, flushPC[u] # "none" PROVE FALSE
  <2>1. u \in {Writer, Closer}
    BY <1>2, PacedFlushers
  <2>2. CASE t = Closer /\ u = Writer
    BY <1>0, <1>1, <1>2, <2>2, PacedFlushers, ThreadsDiffer DEF PlaceOK
  <2>3. CASE t = Writer /\ u = Closer
    BY <1>0, <1>1, <1>2, <2>3, PacedFlushers
  <2> QED
    BY <1>1, <1>2, <2>1, <2>2, <2>3
<1>3. FlushPaced(t)
  <2>1. rSize = 0 /\ rPopPC[t] \in {"idle", "exchange"} /\ t # Monitor
    BY <1>1, ThreadsDiffer DEF PacedInv, RingUnused
  <2>2. ~FlushInRing(t) /\ ~FlushThrows(t)
    BY <2>1 DEF FlushInRing, R!PopInside, R!PopExchange, R!PopLoadTail, R!PopMove, FlushThrows,
       R!PopThrow, R!PopGoto
  <2>3. FlushRingPopped(t) => R!PopEmpty(t)
    BY <2>1 DEF FlushRingPopped, R!PopStoreTail, R!PopReturn, R!PopGoto
  <2>4. ~EmergencyQueuePopped(t)
    BY <2>1 DEF EmergencyQueuePopped
  <2>5. ~EmergencyQueueWritten(t)
    <3>1. flushPC[t] = "writeQueue" => t = Monitor
      BY DEF PacedInv, FlushInv, HoldInv, HoldOK
    <3> QED
      BY <2>1, <3>1 DEF EmergencyQueueWritten
  <2> QED
    BY <2>2, <2>3, <2>4, <2>5 DEF FlushStep, FlushPaced
<1> QED
  BY <1>1, <1>2, <1>3

\* Every step of Spec keeps the places of its threads.
LEMMA PacedPlacesStep ==
    ASSUME PacedInv, [Next]_vars
    PROVE  PacedPlaces'
<1> USE DEF PacedInv, PacedPlaces, Goto, flushVars, qVars, rVars, control
<1>0. /\ pc \in [Threads -> Places] /\ \A t \in Threads : PlaceOK(t)
  BY StateTypes DEF FlushInv
<1>1. ASSUME NEW t \in Loggers, PacedCall(t) \/ LogStep(t) PROVE PacedPlaces'
  <2>1. PacedCall(t) \/ LogReturn(t) \/ LogPush(t) \/ LogInPush(t) \/ LogPushed(t) \/ LogNotify(t)
    BY <1>1, PacedLog
  <2>2. /\ alone' = alone
        /\ \/ pc' = pc
           \/ pc' = [pc EXCEPT ![t] = "idle"] \/ pc' = [pc EXCEPT ![t] = "enter"]
           \/ pc' = [pc EXCEPT ![t] = "push"] \/ pc' = [pc EXCEPT ![t] = "notify"]
    BY <2>1 DEF PacedCall, LogCall, LogReturn, LogPush, LogInPush, LogPushed, LogNotify
  <2> QED
    BY <1>0, <2>2, ThreadsDiffer DEF Running
<1>2. ASSUME NEW t \in Threads, FlushStep(t) PROVE PacedPlaces'
  <2>1. t \in {Writer, Closer} /\ FlushPaced(t) /\ \A u \in Threads : u # t => flushPC[u] = "none"
    BY <1>2, PacedFlush
  <2>2. alone'
    BY <2>1 DEF FlushPaced, FlushBegin, FlushInQueue, FlushQueuePopped, FlushRingPopped,
       WriteEntry, FlushReturn
  <2>3. pc'[t] # "terminated" /\ \A u \in Threads : u # t => pc'[u] = pc[u]
    <3>1. AfterFlush(t) # "terminated"
      BY <2>1, ThreadsDiffer DEF AfterFlush
    <3>2. pc' = pc \/ pc' = [pc EXCEPT ![t] = AfterFlush(t)]
      BY <2>1 DEF FlushPaced, FlushBegin, FlushInQueue, FlushQueuePopped, FlushRingPopped,
         WriteEntry, FlushReturn
    <3> QED
      BY <1>0, <3>1, <3>2 DEF Running
  <2> QED
    BY <2>1, <2>2, <2>3, ThreadsDiffer DEF Running
<1>3. CASE WriterStep \/ CloseStep \/ OrderlyClose \/ UNCHANGED vars
  <2>1. /\ alone' = alone /\ \A u \in Threads : u \notin {Writer, Closer} => pc'[u] = pc[u]
        /\ pc'[Writer] # "terminated" /\ pc'[Closer] # "terminated"
    BY <1>0, <1>3, ThreadsDiffer DEF WriterStep, WriterLeave, WriterSleep, WriterWake,
       WriterChecksStop, CloseStep, CloseRelease, CloseJoin, CloseClear, OrderlyClose,
       CloseRequestStop, vars, Running
  <2> QED
    BY <2>1, ThreadsDiffer DEF Running
<1> QED
  BY <1>1, <1>2, <1>3, PacedCases

\* Every step of Spec leaves the ring buffer empty.
LEMMA RingUnusedStep ==
    ASSUME PacedInv, [Next]_vars
    PROVE  RingUnused'
<1> USE DEF PacedInv, rVars
<1>1. ASSUME UNCHANGED rVars PROVE RingUnused'
  BY <1>1 DEF RingUnused
<1>2. ASSUME NEW t \in Loggers, PacedCall(t) \/ LogStep(t) PROVE UNCHANGED rVars
  <2>1. PacedCall(t) \/ LogReturn(t) \/ LogPush(t) \/ LogInPush(t) \/ LogPushed(t) \/ LogNotify(t)
    BY <1>2, PacedLog
  <2> QED
    BY <2>1 DEF PacedCall, LogCall, LogReturn, LogPush, LogInPush, LogPushed, LogNotify
<1>3. ASSUME NEW t \in Threads, FlushStep(t) PROVE RingUnused'
  <2>1. FlushPaced(t)
    BY <1>3, PacedFlush
  <2>2. CASE FlushQueuePopped(t) \/ (FlushRingPopped(t) /\ R!PopEmpty(t))
    <3>1. rSize' = rSize /\ (rPopPC' = [rPopPC EXCEPT ![t] = "exchange"]
                             \/ rPopPC' = [rPopPC EXCEPT ![t] = "idle"])
      BY <2>2 DEF FlushQueuePopped, R!PopCall, R!PopEmpty, R!PopReturn, R!PopGoto
    <3> QED
      BY <3>1, StateTypes DEF RingUnused, FlushInv
  <2>3. CASE FlushBegin(t) \/ FlushInQueue(t) \/ WriteEntry(t) \/ FlushReturn(t)
    BY <1>1, <2>3 DEF FlushBegin, FlushInQueue, WriteEntry, FlushReturn
  <2> QED
    BY <2>1, <2>2, <2>3 DEF FlushPaced
<1>4. CASE WriterStep \/ CloseStep \/ OrderlyClose \/ UNCHANGED vars
  BY <1>1, <1>4 DEF WriterStep, WriterLeave, WriterSleep, WriterWake, WriterChecksStop,
     CloseStep, CloseRelease, CloseJoin, CloseClear, OrderlyClose, CloseRequestStop, vars
<1> QED
  BY <1>1, <1>2, <1>3, <1>4, PacedCases

\* head_ never goes back, so that the room a log() found when it was called stays.
LEMMA RoomStep ==
    ASSUME OneLogger, PacedInv, [Next]_vars
    PROVE  RoomInv'
<1> USE DEF PacedInv, flushVars, qVars, Goto
<1>0. /\ qTail \in Nat /\ qHead \in Nat /\ \A t \in Threads : PlaceOK(t)
      /\ Loggers \subseteq Threads
  BY StateTypes, ThreadsDiffer DEF FlushInv
<1>1. ASSUME NEW t \in Loggers, PacedCall(t) \/ LogStep(t) PROVE RoomInv'
  <2> SUFFICES
        /\ pc'[t] = "enter" \/ qPushPC'[t] \in {"loadTail", "loadHead", "reserve"}
              => qTail' - qHead' < Capacity
        /\ qPushPC'[t] \in {"loadHead", "reserve"} => qLocalTail'[t] = qTail'
    BY DEF RoomInv, OneLogger
  <2> USE DEF Q!PushGoto, Q!PushReturn
  <2>0. PlaceOK(t) /\ t \in Threads
    BY <1>0
  <2>1. CASE PacedCall(t)
    <3>1. UNCHANGED qVars /\ qTail - qHead < Capacity /\ pc[t] = "idle"
      BY <2>1 DEF PacedCall, LogCall
    <3> QED
      BY <2>0, <3>1 DEF PlaceOK
  <2>2. CASE LogReturn(t) \/ LogNotify(t)
    <3>1. UNCHANGED qVars /\ pc[t] \in {"enter", "notify"}
      BY <2>2 DEF LogReturn, LogNotify
    <3>2. pc'[t] = "idle"
      BY <2>0, <2>2, StateTypes DEF LogReturn, LogNotify, FlushInv
    <3> QED
      BY <2>0, <3>1, <3>2 DEF PlaceOK
  <2>3. CASE LogPush(t)
    <3>1. /\ pc[t] = "enter" /\ qTail' = qTail /\ qHead' = qHead /\ qPushPC'[t] = "loadTail"
      BY <2>3, StateTypes DEF LogPush, Q!PushBegin, FlushInv
    <3> QED
      BY <3>1 DEF RoomInv
  <2>4. CASE LogInPush(t)
    <3>1. qPushPC[t] # "idle" /\ pc' = pc /\ qHead' = qHead
      BY <2>4 DEF LogInPush, Q!PushInside, Q!PushLoadTail, Q!PushRoom, Q!PushReserve,
         Q!PushRetry, Q!PushAwait, Q!PushEmplace, Q!PushPublish, Q!consumerVars
    <3>2. pc'[t] # "enter"
      BY <2>0, <3>1 DEF PlaceOK
    <3>3. CASE Q!PushLoadTail(t) \/ Q!PushRoom(t) \/ Q!PushRetry(t)
      <4>1. /\ qPushPC[t] \in {"loadTail", "loadHead", "reserve"} /\ qTail' = qTail
            /\ qPushPC'[t] \in {"loadHead", "reserve"} => qLocalTail'[t] = qTail
        BY <3>3, StateTypes DEF Q!PushLoadTail, Q!PushRoom, Q!PushRetry, FlushInv, RoomInv
      <4> QED
        BY <3>1, <3>2, <4>1 DEF RoomInv
    <3>4. CASE Q!PushReserve(t) \/ Q!PushAwait(t) \/ Q!PushEmplace(t) \/ Q!PushPublish(t)
      <4>1. qPushPC'[t] \notin {"loadTail", "loadHead", "reserve"}
        BY <3>4, StateTypes DEF Q!PushReserve, Q!PushAwait, Q!PushEmplace, Q!PushPublish, FlushInv
      <4> QED
        BY <3>2, <4>1
    <3> QED
      BY <2>4, <3>3, <3>4 DEF LogInPush, Q!PushInside
  <2>5. CASE LogPushed(t)
    <3>1. pc'[t] = "notify" /\ qPushPC'[t] = "idle"
      BY <2>0, <2>5, StateTypes DEF LogPushed, Q!PushCount, FlushInv
    <3> QED
      BY <3>1
  <2> QED
    BY <1>1, <2>1, <2>2, <2>3, <2>4, <2>5, PacedLog
<1>2. ASSUME NEW t \in Threads, FlushStep(t) PROVE RoomInv'
  <2>1. /\ UNCHANGED <<qTail, qPushPC, qLocalTail>> /\ t \notin Loggers
        /\ \A u \in Threads : u # t => pc'[u] = pc[u]
    BY <1>2, FlushElsewhere, PacedFlush, ThreadsDiffer DEF FlushInv, logState
  <2>2. qHead' \in Nat /\ qHead <= qHead'
    <3>1. qHead' = qHead \/ (qPopPC[t] = "advance" /\ qHead' = qFrom[t] + qCount[t])
      BY <1>2 DEF FlushStep, FlushBegin, FlushInQueue, FlushQueuePopped, FlushInRing,
         FlushRingPopped, FlushThrows, WriteEntry, FlushReturn, EmergencyQueuePopped,
         EmergencyQueueWritten, Q!PopLoadHead, Q!PopInside, Q!PopLoadTail, Q!PopAwait, Q!PopTake,
         Q!PopSkip, Q!PopReset, Q!PopFree, Q!PopAdvance, Q!PopEmpty, Q!PopCount, Q!PopGoto
    <3>2. qPopPC[t] = "advance" => qFrom[t] = qHead
      BY QueueFacts DEF FlushInv, AloneInv, PacedPlaces, Draining
    <3>3. qFrom[t] \in Nat /\ qCount[t] \in Nat
      BY StateTypes DEF FlushInv
    <3> QED
      BY <1>0, <3>1, <3>2, <3>3
  <2> QED
    BY <1>0, <2>1, <2>2, LoggerSizesAssumption DEF RoomInv
<1>3. CASE WriterStep \/ CloseStep \/ OrderlyClose \/ UNCHANGED vars
  <2>1. UNCHANGED qVars /\ \A u \in Loggers : pc'[u] = pc[u]
    BY <1>3, ThreadsDiffer, StateTypes DEF WriterStep, WriterLeave, WriterSleep, WriterWake,
       WriterChecksStop, CloseStep, CloseRelease, CloseJoin, CloseClear, OrderlyClose,
       CloseRequestStop, vars, FlushInv
  <2> QED
    BY <2>1 DEF RoomInv
<1> QED
  BY <1>1, <1>2, <1>3, PacedCases

\* Nothing after a sequence, and moving the head of the second of two to the first.
LEMMA ConcatMoves ==
    ASSUME NEW S, NEW s \in Seq(S), NEW u \in Seq(S)
    PROVE  /\ s \o <<>> = s
           /\ u # <<>> => Append(s, Head(u)) \o Tail(u) = s \o u
<1>1. s \o <<>> = s
  BY SMT
<1>2. ASSUME u # <<>> PROVE Append(s, Head(u)) \o Tail(u) = s \o u
  BY <1>2, SMT
<1> QED
  BY <1>1, <1>2

\* The flush under way hands what it popped on to the file, in order.
LEMMA HandsAfterFlush ==
    ASSUME PacedInv, NEW t \in Threads, FlushStep(t), HoldOK(t)'
    PROVE  HandsInv'
<1> USE DEF flushVars, qVars, rVars, Q!PopGoto, Q!PopReturn, R!PopGoto, R!PopReturn
<1>0. /\ FlushPaced(t) /\ PlaceOK(t) /\ HoldOK(t) /\ LoggerInv /\ t # Monitor
      /\ written \in Seq(Messages \cup {Unwritten}) /\ qBatch[t] \in Seq(Messages \cup {Unwritten})
      /\ pending[t] \in Seq(Messages \cup {Unwritten})
  <2>1. written \in Seq(Messages \cup {Unwritten}) /\ qBatch[t] \in Seq(Messages)
        /\ pending[t] \in Seq(Messages \cup {Unwritten})
    BY HolderTypes DEF PacedInv, FlushInv
  <2>2. qBatch[t] \in Seq(Messages \cup {Unwritten})
    BY <2>1
  <2> QED
    BY <2>1, <2>2, PacedFlush, StateTypes, ThreadsDiffer DEF PacedInv, FlushInv, HoldInv
<1>1. \A u \in Threads : u # t => flushPC[u] = "none" /\ flushPC'[u] = "none"
  BY <1>0, PacedFlush, FlushElsewhere
<1>C. /\ \A e \in Messages : Append(written \o qBatch[t], e) = written \o Append(qBatch[t], e)
      /\ written \o <<>> = written /\ pending[t] \o <<>> = pending[t]
      /\ pending[t] # <<>> =>
            Append(written, Head(pending[t])) \o Tail(pending[t]) = written \o pending[t]
  <2> DEFINE Lines == Messages \cup {Unwritten}
  <2>1. /\ written \in Seq(Lines) /\ qBatch[t] \in Seq(Lines) /\ pending[t] \in Seq(Lines)
        /\ Messages \subseteq Lines
    BY <1>0
  <2> HIDE DEF Lines
  <2>2. ASSUME NEW e \in Lines
        PROVE  Append(written \o qBatch[t], e) = written \o Append(qBatch[t], e)
    <3> DEFINE held == qBatch[t]
    <3>1. held \in Seq(Lines) /\ written \in Seq(Lines)
      BY <2>1
    <3> HIDE DEF held
    <3>2. Append(written \o held, e) = written \o Append(held, e)
      BY <3>1, SMT
    <3> QED
      BY <3>2 DEF held
  <2>3. written \o <<>> = written /\ pending[t] \o <<>> = pending[t]
    BY <2>1, ConcatMoves
  <2>4. pending[t] # <<>> =>
            Append(written, Head(pending[t])) \o Tail(pending[t]) = written \o pending[t]
    BY <2>1, ConcatMoves
  <2> QED
    BY <2>1, <2>2, <2>3, <2>4
\* It is enough to look at t.
<1>2. SUFFICES /\ flushPC'[t] = "queue" => qDelivered' = written' \o qBatch'[t]
               /\ flushPC'[t] \in {"ring", "write"} => qDelivered' = written' \o pending'[t]
               /\ flushPC'[t] = "none" => qDelivered' = written'
  BY <1>1 DEF HandsInv
<1>3. /\ flushPC[t] = "queue" => qDelivered = written \o qBatch[t]
      /\ flushPC[t] \in {"ring", "write"} => qDelivered = written \o pending[t]
      /\ flushPC[t] = "none" => qDelivered = written
  BY <1>1 DEF PacedInv, HandsInv
<1>4. CASE FlushBegin(t)
  <2>1. /\ flushPC[t] = "none" /\ flushPC'[t] = "queue" /\ qPopPC[t] = "idle"
        /\ UNCHANGED <<written, qDelivered, qBatch>>
    BY <1>0, <1>4, StateTypes DEF FlushBegin, Q!PopLoadHead, Q!history
  <2>2. qBatch[t] = <<>>
    BY <1>0, <2>1 DEF HoldOK
  <2> QED
    BY <1>C, <1>3, <2>1, <2>2
<1>5. CASE FlushInQueue(t)
  <2>1. /\ qPopPC[t] # "idle" /\ UNCHANGED <<flushPC, written>>
        /\ ~Q!PopTake(t) => UNCHANGED <<qDelivered, qBatch>>
    BY <1>5 DEF FlushInQueue, Q!PopInside, Q!PopLoadTail, Q!PopAwait, Q!PopTake, Q!PopSkip,
       Q!PopReset, Q!PopFree, Q!PopAdvance, Q!history
  <2>2. flushPC[t] = "queue"
    BY <1>0, <2>1 DEF PlaceOK
  <2>3. CASE Q!PopTake(t)
    <3> DEFINE taken == qStorage[Q!Slot(Q!Ticket(t))]
    <3>1. /\ taken # NoEntry /\ qDelivered' = Append(qDelivered, taken)
          /\ qBatch'[t] = Append(qBatch[t], taken)
      BY <1>0, <2>3, StateTypes DEF Q!PopTake
    <3>2. taken \in Messages
      <4>1. Q!TypeOK
        BY <1>0, TypeParts DEF LoggerInv
      <4>2. Q!Slot(Q!Ticket(t)) \in Q!Cells
        BY <4>1, WrappedTypes DEF Q!TypeOK, Q!Ticket
      <4> QED
        BY <3>1, <4>1, <4>2 DEF Q!TypeOK
    <3> HIDE DEF taken
    <3>3. Append(written \o qBatch[t], taken) = written \o Append(qBatch[t], taken)
      BY <1>C, <3>2
    <3> QED
      BY <1>3, <2>1, <2>2, <3>1, <3>3
  <2> QED
    BY <1>3, <2>1, <2>2, <2>3
<1>6. CASE FlushQueuePopped(t)
  <2>1. /\ qPopPC[t] # "idle" /\ flushPC'[t] = "ring" /\ pending'[t] = qBatch[t]
        /\ UNCHANGED <<written, qDelivered>>
    BY <1>0, <1>6, StateTypes DEF FlushQueuePopped, Q!PopEmpty, Q!PopCount, Q!history
  <2> QED
    BY <1>0, <1>3, <2>1 DEF PlaceOK
<1>7. CASE FlushRingPopped(t) /\ R!PopEmpty(t)
  <2>1. /\ rPopPC[t] = "exchange" /\ flushPC'[t] = "write" /\ pending'[t] = pending[t] \o rBatch[t]
        /\ UNCHANGED <<written, qDelivered>>
    BY <1>0, <1>7, StateTypes DEF FlushRingPopped, R!PopEmpty
  <2>2. rBatch[t] = <<>> /\ flushPC[t] = "ring"
    BY <1>0, <2>1 DEF HoldOK, PlaceOK
  <2>3. pending'[t] = pending[t]
    BY <1>C, <2>1, <2>2
  <2> QED
    BY <1>3, <2>1, <2>2, <2>3
<1>8. CASE WriteEntry(t)
  <2>1. /\ flushPC[t] = "write" /\ pending[t] # <<>> /\ UNCHANGED <<flushPC, qDelivered>>
        /\ written' = Append(written, Head(pending[t])) /\ pending'[t] = Tail(pending[t])
    BY <1>0, <1>8, StateTypes DEF WriteEntry, HoldOK
  <2>2. written' \o pending'[t] = written \o pending[t]
    BY <1>C, <2>1
  <2> QED
    BY <1>3, <2>1, <2>2
<1>9. CASE FlushReturn(t)
  <2>1. /\ flushPC[t] = "write" /\ pending[t] = <<>> /\ flushPC'[t] = "none"
        /\ UNCHANGED <<written, qDelivered>>
    BY <1>0, <1>9, StateTypes DEF FlushReturn
  <2> QED
    BY <1>3, <1>C, <2>1
<1> QED
  BY <1>0, <1>4, <1>5, <1>6, <1>7, <1>8, <1>9 DEF FlushPaced

\* Every step of Spec keeps HandsInv and WaitInv.
LEMMA HandsStep ==
    ASSUME PacedInv, [Next]_vars, \A t \in Threads : HoldOK(t)'
    PROVE  HandsInv' /\ WaitInv'
<1>1. CASE ~ \E t \in Threads : FlushStep(t)
  <2>1. UNCHANGED flushState
    BY <1>1, PacedCases, OthersFlushNothing
  <2> QED
    BY <2>1 DEF PacedInv, HandsInv, WaitInv, flushState
<1>2. ASSUME NEW t \in Threads, FlushStep(t) PROVE HandsInv' /\ WaitInv'
  <2>0. HandsInv'
    BY <1>2, HandsAfterFlush
  <2> USE DEF flushVars, qVars, rVars, Q!PopGoto, Q!PopReturn
  <2>1. /\ FlushPaced(t) /\ LoggerInv /\ QP!QueueInv /\ PlaceOK(t) /\ Capacity \in Nat
        /\ \A u \in Threads : u # t => flushPC[u] = "none"
    BY <1>2, PacedFlush, StateTypes, LoggerSizesAssumption
       DEF PacedInv, FlushInv, AloneInv, PacedPlaces
  <2>2. /\ qHead \in Nat /\ qTail \in Nat /\ qTail <= qHead + Capacity /\ Len(written) \in Nat
        /\ qFrom[t] \in Nat /\ qCount[t] \in Nat
        /\ qHead <= Len(written) + Capacity
    BY <2>1, QueueFacts, StateTypes DEF PacedInv, WaitInv
  <2>3. \A u \in Threads : u # t => qPopPC[u] = "idle" /\ qPopPC'[u] = "idle"
    <3>1. \A u \in Threads : PlaceOK(u)
      BY <2>1, StateTypes
    <3>2. \A u \in Threads : u # t => qPopPC'[u] = qPopPC[u]
      BY <1>2, <2>1, FlushElsewhere
    <3> QED
      BY <2>1, <3>1, <3>2 DEF PlaceOK
  <2>4. SUFFICES /\ qHead' <= Len(written') + Capacity
                 /\ qPopPC'[t] \in {"loadTail"} \cup Draining => Len(written') = qHead'
    BY <2>0, <2>3 DEF WaitInv, Draining
  <2>5. CASE FlushBegin(t)
    <3>1. /\ flushPC[t] = "none" /\ qPopPC[t] = "idle" /\ UNCHANGED <<qHead, written>>
      BY <2>1, <2>5 DEF FlushBegin, Q!PopLoadHead
    <3>2. Len(qDelivered) = qHead
      BY <2>1, <2>3, <3>1, QueueFacts
    <3>3. qDelivered = written
      BY <2>1, <3>1 DEF PacedInv, HandsInv
    <3> QED
      BY <2>2, <3>1, <3>2, <3>3
  <2>6. CASE FlushInQueue(t) /\ ~Q!PopAdvance(t)
    <3>1. qPopPC[t] \in {"loadTail"} \cup Draining /\ UNCHANGED <<qHead, written>>
      BY <2>6 DEF FlushInQueue, Q!PopInside, Q!PopLoadTail, Q!PopAwait, Q!PopTake, Q!PopSkip,
         Q!PopReset, Q!PopFree, Draining
    <3> QED
      BY <2>2, <3>1 DEF PacedInv, WaitInv
  <2>7. CASE FlushInQueue(t) /\ Q!PopAdvance(t)
    <3>1. /\ qPopPC[t] = "advance" /\ qPopPC'[t] = "count" /\ written' = written
          /\ qHead' = qFrom[t] + qCount[t]
      BY <2>1, <2>7, StateTypes DEF FlushInQueue, Q!PopAdvance
    <3>2. qFrom[t] + qCount[t] <= qTail /\ Len(written) = qHead
      BY <2>1, <3>1, QueueFacts DEF PacedInv, WaitInv, Draining
    <3> QED
      BY <2>1, <2>2, <3>1, <3>2 DEF Draining
  <2>8. CASE FlushQueuePopped(t)
    <3>1. qPopPC'[t] = "idle" /\ UNCHANGED <<qHead, written>>
      BY <2>1, <2>8, StateTypes DEF FlushQueuePopped, Q!PopEmpty, Q!PopCount
    <3> QED
      BY <2>2, <3>1 DEF Draining
  <2>9. CASE (FlushRingPopped(t) /\ R!PopEmpty(t)) \/ WriteEntry(t) \/ FlushReturn(t)
    <3>1. flushPC[t] # "queue"
      BY <2>1, <2>9 DEF FlushRingPopped, R!PopEmpty, R!PopReturn, R!PopGoto, WriteEntry,
         FlushReturn, PlaceOK
    <3>2. qHead' = qHead /\ qPopPC'[t] = "idle"
      BY <2>1, <2>9, <3>1 DEF FlushRingPopped, WriteEntry, FlushReturn, PlaceOK
    <3>3. Len(written') \in Nat /\ Len(written') >= Len(written)
      <4>1. written' = written \/ written' = Append(written, Head(pending[t]))
        BY <2>9 DEF FlushRingPopped, WriteEntry, FlushReturn
      <4>2. Len(Append(written, Head(pending[t]))) = Len(written) + 1
        BY <2>1, HolderTypes
      <4> QED
        BY <2>2, <4>1, <4>2
    <3> QED
      BY <2>1, <2>2, <3>2, <3>3 DEF Draining
  <2> QED
    BY <2>1, <2>5, <2>6, <2>7, <2>8, <2>9 DEF FlushPaced
<1> QED
  BY <1>1, <1>2

\* Every step of Spec keeps CloseInv.
LEMMA CloseInvStep ==
    ASSUME PacedInv, [Next]_vars
    PROVE  CloseInv'
<1> USE DEF qVars, rVars, flushVars, control, callVars, Goto
<1>0. /\ CloseInv /\ LoggerInv /\ QP!QueueInv /\ pc \in [Threads -> Places]
      /\ \A t \in Threads : PlaceOK(t)
  BY StateTypes DEF PacedInv, FlushInv, AloneInv, PacedPlaces
<1>1. Settled(Closer) => pc[Closer] = "flush"
  BY <1>0, PacedFlushers, ThreadsDiffer DEF PacedInv, Settled, PlaceOK, Draining
<1>2. ASSUME NEW t \in Loggers, PacedCall(t) \/ LogStep(t) PROVE CloseInv'
  <2>1. PacedCall(t) \/ LogReturn(t) \/ LogPush(t) \/ LogInPush(t) \/ LogPushed(t) \/ LogNotify(t)
    BY <1>2, PacedLog
  <2>2. ~stop
    <3>1. PacedCall(t) => calls < MaxCalls
      BY DEF PacedCall, LogCall
    <3>2. LogInPush(t) => pc[t] # "idle"
      BY <1>0, ThreadsDiffer DEF LogInPush, Q!PushInside, Q!PushLoadTail, Q!PushRoom,
         Q!PushReserve, Q!PushRetry, Q!PushAwait, Q!PushEmplace, Q!PushPublish, Q!PushGoto, PlaceOK
    <3>3. stop => calls = MaxCalls /\ pc[t] = "idle"
      BY <1>0 DEF CloseInv, LoggersIdle
    <3>4. calls \in Nat /\ MaxCalls \in Nat
      BY <1>0, TypeParts, LoggerBoundAssumption DEF LoggerInv, OwnTypeOK
    <3> QED
      BY <2>1, <3>1, <3>2, <3>3, <3>4 DEF LogReturn, LogPush, LogPushed, LogNotify
  <2>3. /\ UNCHANGED <<stop, initialized, flushPC, qPopPC>>
        /\ pc'[Closer] = pc[Closer]
    <3>1. UNCHANGED <<stop, initialized, flushPC>> /\ pc'[Closer] = pc[Closer]
      BY <1>0, <2>1, ThreadsDiffer DEF PacedCall, LogCall, LogReturn, LogPush, LogInPush,
         LogPushed, LogNotify
    <3>2. qPopPC' = qPopPC
      BY <2>1 DEF PacedCall, LogCall, LogReturn, LogPush, LogInPush, LogPushed, LogNotify,
         Q!PushBegin, Q!PushCount, Q!PushInside, Q!PushLoadTail, Q!PushRoom, Q!PushReserve,
         Q!PushRetry, Q!PushAwait, Q!PushEmplace, Q!PushPublish, Q!consumerVars
    <3> QED
      BY <3>1, <3>2
  <2>4. initialized /\ pc[Closer] = "idle" /\ ~Settled(Closer)
    BY <1>0, <1>1, <2>2 DEF CloseInv
  <2> QED
    BY <2>2, <2>3, <2>4 DEF CloseInv, Settled
<1>3. ASSUME NEW t \in Threads, FlushStep(t) PROVE CloseInv'
  <2>1. /\ t \in {Writer, Closer} /\ FlushPaced(t) /\ pc[t] \in {"flush", "lastFlush"}
    BY <1>3, PacedFlush
  <2>2. /\ QueueDrained => QueueDrained'
        /\ ~Settled(t) /\ Settled(t)' => QueueDrained'
    BY <1>0, <1>3, DrainedAfterFlush
  <2>3. /\ UNCHANGED <<stop, initialized, calls>>
        /\ \A u \in Threads : u # t =>
              pc'[u] = pc[u] /\ flushPC'[u] = flushPC[u] /\ qPopPC'[u] = qPopPC[u]
    BY <1>0, <1>3, FlushElsewhere DEF logState
  <2>4. LoggersIdle => LoggersIdle'
    BY <2>1, <2>3, ThreadsDiffer DEF LoggersIdle
  <2>5. CASE t = Writer
    <3>1. pc'[Closer] = pc[Closer] /\ (Settled(Closer)' <=> Settled(Closer))
      BY <2>3, <2>5, ThreadsDiffer DEF Settled
    <3> QED
      BY <1>0, <2>2, <2>3, <2>4, <3>1 DEF CloseInv
  <2>6. CASE t = Closer
    <3>1. pc[Closer] = "flush" /\ stop /\ initialized
      BY <1>0, <2>1, <2>6, ThreadsDiffer DEF PlaceOK, CloseInv
    <3>2. pc'[Closer] = "clear" => Settled(Closer)
      BY <1>0, <2>1, <2>6, <3>1 DEF FlushPaced, FlushBegin, FlushInQueue, FlushQueuePopped,
         FlushRingPopped, WriteEntry, FlushReturn, Settled
    <3> QED
      BY <1>0, <2>2, <2>3, <2>4, <2>6, <3>1, <3>2 DEF CloseInv
  <2> QED
    BY <2>1, <2>5, <2>6
<1>4. CASE WriterStep
  <2>1. /\ UNCHANGED <<qVars, stop, initialized, calls, flushPC>>
        /\ \A u \in Threads : u # Writer => pc'[u] = pc[u]
    BY <1>0, <1>4, ThreadsDiffer DEF WriterStep, WriterLeave, WriterSleep, WriterWake,
       WriterChecksStop
  <2> QED
    BY <1>0, <2>1, ThreadsDiffer DEF CloseInv, LoggersIdle, QueueDrained, Settled
<1>5. CASE CloseStep \/ OrderlyClose
  <2>1. /\ UNCHANGED <<qVars, calls, flushPC>> /\ flushPC[Closer] = "none"
        /\ \A u \in Threads : u # Closer => pc'[u] = pc[u]
    BY <1>0, <1>5, ThreadsDiffer DEF CloseStep, CloseRelease, CloseJoin, CloseClear,
       OrderlyClose, CloseRequestStop
  <2>2. (LoggersIdle' <=> LoggersIdle) /\ (QueueDrained' <=> QueueDrained)
    BY <2>1, ThreadsDiffer DEF LoggersIdle, QueueDrained
  <2>3. ~Settled(Closer)'
    BY <1>0, <2>1, ThreadsDiffer DEF Settled, PlaceOK, Draining
  <2>4. CASE CloseStep
    <3>1. /\ stop' = stop /\ pc[Closer] # "idle"
          /\ \/ pc'[Closer] \in {"join", "flush"} /\ initialized' = initialized
             \/ pc[Closer] = "clear" /\ pc'[Closer] = "idle"
      BY <1>0, <2>4, ThreadsDiffer DEF CloseStep, CloseRelease, CloseJoin, CloseClear
    <3> QED
      BY <1>0, <2>1, <2>2, <2>3, <3>1 DEF CloseInv
  <2>5. CASE OrderlyClose
    <3>1. /\ LoggersIdle /\ calls = MaxCalls /\ stop' /\ initialized /\ initialized'
          /\ pc'[Closer] = "release"
      BY <1>0, <2>5, ThreadsDiffer DEF OrderlyClose, CloseRequestStop
    <3> QED
      BY <2>1, <2>2, <2>3, <3>1 DEF CloseInv
  <2> QED
    BY <1>5, <2>4, <2>5
<1>6. CASE UNCHANGED vars
  BY <1>0, <1>6 DEF vars, CloseInv, LoggersIdle, QueueDrained, Settled
<1> QED
  BY <1>2, <1>3, <1>4, <1>5, <1>6, PacedCases

\* initialize() establishes PacedInv.
LEMMA PacedInit == Init => PacedInv
<1> SUFFICES ASSUME Init PROVE PacedInv
  OBVIOUS
<1>1. FlushInv
  BY LoggerInvInit, AloneInit, FlushInvInit DEF FlushInv
<1>2. /\ qHead = 0 /\ qTail = 0 /\ rSize = 0 /\ alone /\ ~stop /\ initialized
      /\ written = <<>> /\ qDelivered = <<>>
      /\ pc = [t \in Threads |-> IF t = Writer THEN "test" ELSE "idle"]
      /\ \A t \in Threads : qPopPC[t] = "idle" /\ rPopPC[t] = "idle" /\ flushPC[t] = "none"
      /\ \A t \in Loggers : qPushPC[t] = "idle"
  BY DEF Init, Q!Init, R!Init
<1>3. /\ pc[Closer] = "idle" /\ pc[Monitor] = "idle" /\ \A t \in Loggers : pc[t] = "idle"
      /\ Running
  BY <1>2, ThreadsDiffer DEF Running
<1>4. PacedPlaces /\ RingUnused /\ RoomInv /\ HandsInv
  BY <1>2, <1>3 DEF PacedPlaces, RingUnused, RoomInv, HandsInv
<1>5. WaitInv
  BY <1>2, LoggerSizesAssumption DEF WaitInv, Draining
<1>6. CloseInv
  BY <1>2, <1>3, ThreadsDiffer DEF CloseInv, Settled, Draining
<1> QED
  BY <1>1, <1>4, <1>5, <1>6 DEF PacedInv

\* Every step of Spec keeps PacedInv.
LEMMA PacedStep ==
    ASSUME OneLogger, PacedInv, [Next]_vars
    PROVE  PacedInv'
<1>1. FlushInv'
  BY PacedCases, LoggerInvStep, AloneStep, HoldStep, WakeStep DEF PacedInv, FlushInv
<1>2. \A t \in Threads : HoldOK(t)'
  BY <1>1 DEF FlushInv, HoldInv
<1> QED
  BY <1>1, <1>2, PacedPlacesStep, RingUnusedStep, RoomStep, HandsStep, CloseInvStep DEF PacedInv

\* With one thread that logs, PacedInv holds in every reachable state of Spec.
THEOREM PacedInvariant == ASSUME OneLogger PROVE Spec => []PacedInv
<1>1. PacedInv /\ [Next]_vars => PacedInv'
  BY PacedStep
<1> QED
  BY <1>1, PacedInit, PTL DEF Spec

\* Sequences with the same elements at the same places are the same.
LEMMA SameSequence ==
    ASSUME NEW S, NEW s \in Seq(S), NEW u \in Seq(S), Len(s) = Len(u),
           \A k \in 1 .. Len(s) : s[k] = u[k]
    PROVE  s = u
BY SMT

\* When the queue is drained and nobody flushes, the file is what was accepted.
LEMMA DrainedIsFile ==
    ASSUME PacedInv, QueueDrained, \A t \in Threads : flushPC[t] = "none"
    PROVE  written = qAccepted
<1>1. Len(qDelivered) = Len(qAccepted)
  BY DrainedIsWritten DEF PacedInv, PacedPlaces
<1>2. \A k \in 1 .. Len(qDelivered) : qDelivered[k] = qAccepted[k]
  BY QueueFacts DEF PacedInv, FlushInv, AloneInv, PacedPlaces
<1>3. qDelivered \in Seq(Messages) /\ qAccepted \in Seq(Messages)
  BY StateTypes DEF PacedInv, FlushInv
<1>4. qDelivered = qAccepted
  BY <1>1, <1>2, <1>3, SameSequence
<1> QED
  BY <1>4 DEF PacedInv, HandsInv

\* No wakeup is lost: when the writer sleeps with no token left and no log() is under
\* way, the file is what log() accepted, in order (async_logger.cpp, log: notify after
\* the push; writerThread: flush after the token was taken).
THEOREM NoWakeupIsLost == ASSUME OneLogger PROVE Spec => []NoLostWakeup
<1>1. PacedInv => NoLostWakeup
  <2> SUFFICES ASSUME PacedInv, pc[Writer] = "acquire", sem = 0, LoggersIdle
               PROVE  written = qAccepted
    BY DEF NoLostWakeup
  <2>1. \A t \in Threads : PlaceOK(t)
    BY StateTypes DEF PacedInv, FlushInv
  <2>2. \A t \in Loggers : ~Announcing(t)
    BY <2>1, ThreadsDiffer DEF PlaceOK, Announcing, LoggersIdle
  <2>3. QueueDrained
    BY <2>2 DEF PacedInv, FlushInv, PacedPlaces, WakeInv, WriterRests
  <2>4. \A t \in Threads : flushPC[t] = "none"
    BY <2>1, PacedFlushers, ThreadsDiffer DEF PlaceOK
  <2> QED
    BY <2>3, <2>4, DrainedIsFile
<1> QED
  BY <1>1, PacedInvariant, PTL

\* Closing drains: once deinitialize() has cleared initialized_, the file is what log()
\* accepted, in order (async_logger.cpp, deinitialize: the flush after the join).
THEOREM ClosingDrains == ASSUME OneLogger PROVE Spec => []CloseDrains
<1>1. PacedInv => CloseDrains
  <2> SUFFICES ASSUME PacedInv, ~initialized PROVE written = qAccepted
    BY DEF CloseDrains
  <2>1. QueueDrained /\ pc[Closer] = "idle"
    BY DEF PacedInv, CloseInv
  <2>2. \A t \in Threads : flushPC[t] = "none"
    BY <2>1, PacedFlushers
  <2> QED
    BY <2>1, <2>2, DrainedIsFile
<1> QED
  BY <1>1, PacedInvariant, PTL

\* The first of what comes after a sequence.
LEMMA ConcatHead ==
    ASSUME NEW S, NEW s \in Seq(S), NEW u \in Seq(S), u # <<>>
    PROVE  /\ Len(s) \in Nat /\ Len(s \o u) \in Nat /\ Len(s) + 1 <= Len(s \o u)
           /\ (s \o u)[Len(s) + 1] = Head(u)
BY SMT

\* A line of the file is the next message that log() accepted.
LEMMA WriteDelivers ==
    ASSUME PacedInv, NEW t \in Threads, FlushStep(t), WriteEntry(t)
    PROVE  Service!Deliver
<1> USE DEF qVars
<1>0. LoggerInv /\ QP!QueueInv /\ t # Monitor
  BY PacedFlush, ThreadsDiffer DEF PacedInv, FlushInv, AloneInv, PacedPlaces
<1>1. flushPC[t] = "write"
  BY <1>0 DEF WriteEntry, PacedInv, FlushInv, HoldInv, HoldOK
<1>2. /\ pending[t] # <<>> /\ written' = Append(written, Head(pending[t]))
      /\ qAccepted' = qAccepted
  BY DEF WriteEntry
<1>3. qDelivered = written \o pending[t]
  BY <1>1 DEF PacedInv, HandsInv
<1>4. written \in Seq(Messages \cup {Unwritten}) /\ pending[t] \in Seq(Messages \cup {Unwritten})
  BY <1>0, HolderTypes
<1>5. /\ Len(written) \in Nat /\ Len(qDelivered) \in Nat /\ Len(written) + 1 <= Len(qDelivered)
      /\ qDelivered[Len(written) + 1] = Head(pending[t])
  <2> DEFINE lines == Messages \cup {Unwritten}
             held == pending[t]
  <2>1. written \in Seq(lines) /\ held \in Seq(lines) /\ held # <<>>
    BY <1>2, <1>4
  <2> HIDE DEF lines, held
  <2>2. /\ Len(written) \in Nat /\ Len(written \o held) \in Nat
        /\ Len(written) + 1 <= Len(written \o held)
        /\ (written \o held)[Len(written) + 1] = Head(held)
    BY <2>1, ConcatHead
  <2> QED
    BY <1>3, <2>2 DEF held
<1>6. /\ Len(qDelivered) <= Len(qAccepted) /\ Len(qAccepted) \in Nat
      /\ \A k \in 1 .. Len(qDelivered) : qDelivered[k] = qAccepted[k]
  BY <1>0, QueueFacts
<1>7. Len(written) < Len(qAccepted) /\ qAccepted[Len(written) + 1] = Head(pending[t])
  <2>1. Len(written) + 1 \in 1 .. Len(qDelivered)
    BY <1>5
  <2> QED
    BY <1>5, <1>6, <2>1
<1> QED
  BY <1>2, <1>7 DEF Service!Deliver

\* A reserved ticket is a message that the channel has room for: one queue of messages
\* waits, and one batch of a flush.
LEMMA ReserveSubmits ==
    ASSUME PacedInv, NEW t \in Loggers, LogInPush(t), Q!PushReserve(t)
    PROVE  \E e \in Messages : Service!Submit(e)
<1>0. LoggerInv /\ QP!QueueInv /\ PlaceOK(t)
  BY StateTypes, ThreadsDiffer DEF PacedInv, FlushInv, AloneInv, PacedPlaces
<1>1. /\ qPushPC[t] = "reserve" /\ qAccepted' = Append(qAccepted, qEntry[t])
      /\ written' = written
  BY DEF LogInPush, Q!PushReserve, Q!PushGoto
<1>2. qEntry[t] \in Messages
  <2>1. pc[t] = "push"
    BY <1>0, <1>1 DEF PlaceOK
  <2>2. qEntry[t] = Message(t)
    BY <1>0, <2>1 DEF LoggerInv, CallInv, CallOK
  <2> QED
    BY <1>0, <2>1, <2>2, MessageTypes
<1>3. qTail - qHead < Capacity /\ qHead <= Len(written) + Capacity
  BY <1>1 DEF PacedInv, RoomInv, WaitInv
<1>4. Len(qAccepted) = qTail /\ qTail \in Nat /\ qHead \in Nat /\ Len(written) \in Nat
  <2>1. Len(written) \in Nat
    BY <1>0, HolderTypes
  <2> QED
    BY <1>0, <2>1, QueueFacts
<1>5. Len(qAccepted) - Len(written) < 2 * Capacity
  BY <1>3, <1>4, LoggerSizesAssumption
<1> QED
  BY <1>1, <1>2, <1>5 DEF Service!Submit

\* Every step of Spec is a step of the channel or leaves it alone.
LEMMA ServiceStep ==
    ASSUME PacedInv, [Next]_vars
    PROVE  [Service!Next]_(Service!channelVars)
<1> USE DEF Service!channelVars, qVars
<1>1. ASSUME NEW t \in Loggers, PacedCall(t) \/ LogStep(t)
      PROVE  [Service!Next]_(Service!channelVars)
  <2>1. CASE LogInPush(t) /\ Q!PushReserve(t)
    <3>1. \E e \in Messages : Service!Submit(e)
      BY <2>1, ReserveSubmits
    <3> QED
      BY <3>1 DEF Service!Next
  <2>2. CASE LogInPush(t) /\ ~Q!PushReserve(t)
    BY <2>2 DEF LogInPush, Q!PushInside, Q!PushLoadTail, Q!PushRoom, Q!PushRetry, Q!PushAwait,
       Q!PushEmplace, Q!PushPublish, Q!history
  <2>3. CASE PacedCall(t) \/ LogReturn(t) \/ LogPush(t) \/ LogPushed(t) \/ LogNotify(t)
    BY <2>3 DEF PacedCall, LogCall, LogReturn, LogPush, LogPushed, LogNotify, Q!PushBegin,
       Q!PushCount, Q!history
  <2> QED
    BY <1>1, <2>1, <2>2, <2>3, PacedLog
<1>2. ASSUME NEW t \in Threads, FlushStep(t)
      PROVE  [Service!Next]_(Service!channelVars)
  <2>1. CASE WriteEntry(t)
    BY <1>2, <2>1, WriteDelivers DEF Service!Next
  <2>2. CASE ~WriteEntry(t)
    <3>1. qAccepted' = qAccepted
      BY <1>2, FlushElsewhere DEF PacedInv, FlushInv, logState
    <3>2. written' = written
      BY <1>2, <2>2 DEF FlushStep, FlushBegin, FlushInQueue, FlushQueuePopped, FlushInRing,
         FlushRingPopped, FlushThrows, FlushReturn, EmergencyQueuePopped, EmergencyQueueWritten
    <3> QED
      BY <3>1, <3>2
  <2> QED
    BY <2>1, <2>2
<1>3. CASE WriterStep \/ CloseStep \/ OrderlyClose \/ UNCHANGED vars
  BY <1>3 DEF WriterStep, WriterLeave, WriterSleep, WriterWake, WriterChecksStop, CloseStep,
     CloseRelease, CloseJoin, CloseClear, OrderlyClose, CloseRequestStop, vars
<1> QED
  BY <1>1, <1>2, <1>3, PacedCases

\* The logger is a channel from log() to the file: first in, first out, each message once,
\* and no more than two queues of messages between the two (async_logger.cpp).
THEOREM LoggerIsChannel == ASSUME OneLogger PROVE Spec => Service!SafeSpec
<1>1. Init => Service!Init
  BY DEF Init, Q!Init, Service!Init
<1>2. PacedInv /\ [Next]_vars => [Service!Next]_(Service!channelVars)
  BY ServiceStep
<1> QED
  BY <1>1, <1>2, PacedInvariant, PTL DEF Spec, Service!SafeSpec

-------------------------------------------------------------------------------
(* What an emergency flush saves.                                          *)

\* What EmergencySaves takes for granted: no two flushes have overlapped, and the ring
\* has handed out what it accepted, in order.
Sound == alone /\ R!DeliveredInOrder

\* The loggers that have counted themselves in the ring's size_ and hold no index.
Claiming == {t \in Loggers : rPushPC[t] = "claim"}
Undoing == {t \in Loggers : rPushPC[t] = "undo"}

\* What the ring has accepted or is about to, and the refused increments to be undone.
Load == Len(rAccepted) + Cardinality(Claiming)
Slack == Cardinality(Undoing)

\* popAll of the ring has taken its count out of size_, and has this many still to move.
Taken(t) == rPopPC[t] \in {"loadTail", "move", "storeTail"}
Rest(t) == rCount[t] - rDone[t]

\* size_ counts what waits for the popAll after the present one, which has rest entries to
\* move.  It is below zero, so to speak, where popAll took refused increments for entries.
Left(rest) == Load - Len(rDelivered) - rest
Accounted(rest) ==
    /\ -Cardinality(Loggers) <= Left(rest) /\ Left(rest) <= Capacity
    /\ rSize = R!Wrap(Left(rest) + Slack)

PopOK(t) ==
    /\ Taken(t) => Accounted(Rest(t))
    /\ rPopPC[t] \in {"idle", "exchange", "loadTail"} => rDone[t] = 0
    /\ rPopPC[t] = "loadTail" => rCount[t] \in 1 .. MaxReserve
    /\ rPopPC[t] = "move" => rDone[t] < rCount[t]
    /\ rPopPC[t] = "storeTail" => rDone[t] = rCount[t]

RingAccount ==
    /\ (\A t \in Threads : ~Taken(t)) => Accounted(0)
    /\ \A t \in Threads : PopOK(t)

\* reserve() of the ring's popAll never throws.
NoThrow == \A t \in Threads : pc[t] # "terminated"

\* A message on its way into the ring is not in it.
FreshInv ==
    \A t \in Loggers :
        rPushPC[t] \in {"loadSize", "reserve", "claim"} => Message(t) \notin Range(rAccepted)

\* The queue's popAll of the monitor reaches every message that is owed, and has them
\* all once it is over.
QueueOwed ==
    /\ qPopPC[Monitor] \in Draining =>
          \A k \in 1 .. Len(qAccepted) :
              qAccepted[k] \in owed => k <= qFrom[Monitor] + qCount[Monitor]
    /\ qPopPC[Monitor] = "count" \/ flushPC[Monitor] \in {"writeQueue", "ring", "write"} =>
          owed \cap Range(qAccepted) \subseteq Range(qDelivered)

\* So does its popAll of the ring.
RingOwed ==
    /\ Taken(Monitor) =>
          \A k \in 1 .. Len(rAccepted) :
              rAccepted[k] \in owed => k <= Len(rDelivered) + Rest(Monitor)
    /\ flushPC[Monitor] = "write" => owed \cap Range(rAccepted) \subseteq Range(rDelivered)

OwedWritten == pc[Monitor] = "flushed" => owed \subseteq Range(written)

\* What is known of the ring and of owed in any case, and as long as all is sound.
OriginInv ==
    /\ FreshInv
    /\ Range(rDelivered) \subseteq Known
    /\ owed \subseteq Range(qAccepted) \cup Range(rAccepted)
SoundInv == RingAccount /\ NoThrow /\ QueueOwed /\ RingOwed /\ OwedWritten

SaveInv == OriginInv /\ (Sound => SoundInv)

\* Counting loggers gives a number that is at most all of them.
LEMMA RingCounts ==
    /\ IsFiniteSet(Claiming) /\ IsFiniteSet(Undoing)
    /\ Cardinality(Claiming) \in Nat /\ Slack \in Nat /\ Cardinality(Loggers) \in Nat
    /\ Slack <= Cardinality(Loggers) /\ Slack' \in Nat /\ Slack' <= Cardinality(Loggers)
<1>1. Claiming \in SUBSET Loggers /\ Undoing \in SUBSET Loggers /\ Undoing' \in SUBSET Loggers
  BY DEF Claiming, Undoing
<1> QED
  BY <1>1, LoggersFitAssumption, FS_Subset, FS_CardinalityType DEF Slack

\* A logger that moves on in the ring's tryPush is counted where it arrives and no
\* longer where it was.
LEMMA RingCountMoves ==
    ASSUME LoggerInv, NEW t \in Loggers, NEW there, there # rPushPC[t],
           rPushPC' = [rPushPC EXCEPT ![t] = there]
    PROVE  /\ Cardinality(Claiming') =
                IF there = "claim" THEN Cardinality(Claiming) + 1
                ELSE IF rPushPC[t] = "claim" THEN Cardinality(Claiming) - 1
                ELSE Cardinality(Claiming)
           /\ Slack' = IF there = "undo" THEN Slack + 1
                       ELSE IF rPushPC[t] = "undo" THEN Slack - 1
                       ELSE Slack
<1>1. \A u \in Loggers : rPushPC'[u] = IF u = t THEN there ELSE rPushPC[u]
  BY StateTypes
<1>2. Claiming' = IF there = "claim" THEN Claiming \cup {t} ELSE Claiming \ {t}
  BY <1>1 DEF Claiming
<1>3. Undoing' = IF there = "undo" THEN Undoing \cup {t} ELSE Undoing \ {t}
  BY <1>1 DEF Undoing
<1>4. (t \in Claiming <=> rPushPC[t] = "claim") /\ (t \in Undoing <=> rPushPC[t] = "undo")
  BY DEF Claiming, Undoing
<1>5. /\ Cardinality(Claiming \cup {t}) =
           IF t \in Claiming THEN Cardinality(Claiming) ELSE Cardinality(Claiming) + 1
      /\ Cardinality(Claiming \ {t}) =
           IF t \in Claiming THEN Cardinality(Claiming) - 1 ELSE Cardinality(Claiming)
  BY RingCounts, FS_AddElement, FS_RemoveElement
<1>6. /\ Cardinality(Undoing \cup {t}) =
           IF t \in Undoing THEN Cardinality(Undoing) ELSE Cardinality(Undoing) + 1
      /\ Cardinality(Undoing \ {t}) =
           IF t \in Undoing THEN Cardinality(Undoing) - 1 ELSE Cardinality(Undoing)
  BY RingCounts, FS_AddElement, FS_RemoveElement
<1>7. Cardinality(Claiming') =
        IF there = "claim" THEN Cardinality(Claiming) + 1
        ELSE IF rPushPC[t] = "claim" THEN Cardinality(Claiming) - 1
        ELSE Cardinality(Claiming)
  BY <1>2, <1>4, <1>5
<1>8. Cardinality(Undoing') =
        IF there = "undo" THEN Cardinality(Undoing) + 1
        ELSE IF rPushPC[t] = "undo" THEN Cardinality(Undoing) - 1
        ELSE Cardinality(Undoing)
  BY <1>3, <1>4, <1>6
<1> QED
  BY <1>7, <1>8 DEF Slack

\* A number close to zero, as size_t has it.
LEMMA WrapNear ==
    ASSUME NEW z \in Int, -Word < z, z < Word
    PROVE  R!Wrap(z) = IF z < 0 THEN z + Word ELSE z
<1>1. Word \in Nat /\ Word > 0
  BY LoggerSizesAssumption
<1>2. CASE z >= 0
  BY <1>1, <1>2, SMT DEF R!Wrap
<1>3. CASE z < 0
  <2>1. z % Word \in 0 .. (Word - 1) /\ z = Word * (z \div Word) + (z % Word) /\ z \div Word \in Int
    BY <1>1, SMT
  <2>2. z \div Word = -1
    BY <1>1, <1>3, <2>1, SMT
  <2> QED
    BY <1>1, <1>3, <2>1, <2>2, SMT DEF R!Wrap
<1> QED
  BY <1>2, <1>3

\* What log() adds to a buffer was in none.
LEMMA LogAccepts ==
    ASSUME LoggerInv, FreshInv, NEW t \in Loggers, LogCall(t) \/ UserFlush(t) \/ LogStep(t)
    PROVE  \/ UNCHANGED <<qAccepted, rAccepted>>
           \/ /\ Message(t) \in Messages \ Known /\ UNCHANGED <<rAccepted, rPushPC, current>>
              /\ qAccepted' = Append(qAccepted, Message(t))
           \/ /\ Message(t) \in Messages \ Known /\ UNCHANGED <<qAccepted, current>>
              /\ rAccepted' = Append(rAccepted, Message(t))
              /\ rPushPC' = [rPushPC EXCEPT ![t] = "write"] /\ rPushPC[t] = "claim"
<1> USE DEF qVars, rVars, callVars, Q!PushGoto, Q!PushReturn, Q!history, R!PushGoto,
            R!PushReturn, R!history
<1>1. CASE LogInPush(t) /\ Q!PushReserve(t)
  <2>1. /\ qAccepted' = Append(qAccepted, qEntry[t]) /\ UNCHANGED <<rAccepted, rPushPC, current>>
        /\ qPushPC[t] = "reserve"
    BY <1>1 DEF LogInPush, Q!PushReserve
  <2>2. pc[t] = "push"
    BY <2>1, StateTypes, ThreadsDiffer DEF PlaceOK
  <2>3. qEntry[t] = Message(t) /\ Message(t) \notin Range(qAccepted) \cup Range(rAccepted)
    BY <2>1, <2>2, CallFacts DEF CallOK
  <2>4. Message(t) \in Messages /\ Message(t) # Unwritten
    BY <2>2, MessageTypes, LoggerEntriesAssumption DEF Messages
  <2> QED
    BY <2>1, <2>3, <2>4 DEF Known
<1>2. CASE LogInRingPush(t) /\ R!PushClaim(t)
  <2>1. /\ rAccepted' = Append(rAccepted, rEntry[t]) /\ UNCHANGED <<qAccepted, current>>
        /\ rPushPC' = [rPushPC EXCEPT ![t] = "write"] /\ rPushPC[t] = "claim"
    BY <1>2 DEF LogInRingPush, R!PushClaim
  <2>2. pc[t] = "ringPush"
    BY <2>1, StateTypes, ThreadsDiffer DEF PlaceOK
  <2>3. rEntry[t] = Message(t) /\ Message(t) \notin Range(qAccepted) \cup Range(rAccepted)
    BY <2>1, <2>2, CallFacts DEF CallOK, FreshInv
  <2>4. Message(t) \in Messages /\ Message(t) # Unwritten
    BY <2>2, MessageTypes, LoggerEntriesAssumption DEF Messages
  <2> QED
    BY <2>1, <2>3, <2>4 DEF Known
<1>3. CASE LogInPush(t) /\ ~Q!PushReserve(t)
  BY <1>3 DEF LogInPush, Q!PushInside, Q!PushLoadTail, Q!PushRoom, Q!PushRetry, Q!PushAwait,
     Q!PushEmplace, Q!PushPublish
<1>4. CASE LogInRingPush(t) /\ ~R!PushClaim(t)
  BY <1>4 DEF LogInRingPush, R!PushInside, R!PushRoom, R!PushReserve, R!PushOvershoot
<1>5. CASE LogCall(t) \/ UserFlush(t) \/ LogReturn(t) \/ LogPush(t) \/ LogPushed(t) \/ LogNotify(t)
  BY <1>5 DEF LogCall, UserFlush, LogReturn, LogPush, LogPushed, LogNotify, Q!PushBegin,
     Q!PushCount
<1>6. CASE LogFallback(t) \/ LogDropped(t) \/ LogRingPushed(t)
  BY <1>6 DEF LogFallback, LogDropped, LogRingPushed, Q!PushFull, R!PushBegin, R!PushFull,
     R!PushUndo, R!PushWrite
<1> QED
  BY <1>1, <1>2, <1>3, <1>4, <1>5, <1>6 DEF LogStep

\* A call of log() touches the place in the ring's tryPush of its own thread only.
LEMMA RingPlaces ==
    ASSUME LoggerInv, NEW t \in Loggers, LogCall(t) \/ UserFlush(t) \/ LogStep(t)
    PROVE  /\ \A u \in Loggers : u # t => rPushPC'[u] = rPushPC[u] /\ current'[u] = current[u]
           /\ \/ rPushPC'[t] = "loadSize" /\ pc[t] = "push"
              \/ rPushPC'[t] = rPushPC[t] /\ (current'[t] = current[t] \/ rPushPC[t] = "idle")
              \/ /\ current'[t] = current[t]
                 /\ rPushPC'[t] \in {"loadSize", "reserve", "claim"} =>
                       rPushPC[t] \in {"loadSize", "reserve"}
<1> USE DEF rVars, callVars, R!PushGoto, R!PushReturn
<1>0. PlaceOK(t) /\ current \in [Loggers -> Nat]
  BY StateTypes, CallFacts, ThreadsDiffer
<1>1. CASE LogCall(t)
  BY <1>0, <1>1 DEF LogCall, Goto, PlaceOK
<1>2. CASE UserFlush(t) \/ LogReturn(t) \/ LogPush(t) \/ LogInPush(t) \/ LogPushed(t) \/ LogNotify(t)
  BY <1>2 DEF UserFlush, LogReturn, LogPush, LogInPush, LogPushed, LogNotify
<1>3. CASE LogFallback(t)
  BY <1>3, StateTypes DEF LogFallback, R!PushBegin, Goto
<1>4. CASE LogInRingPush(t)
  BY <1>4, StateTypes DEF LogInRingPush, R!PushInside, R!PushRoom, R!PushReserve,
     R!PushOvershoot, R!PushClaim
<1>5. CASE LogDropped(t) \/ LogRingPushed(t)
  BY <1>5, StateTypes DEF LogDropped, LogRingPushed, R!PushFull, R!PushUndo, R!PushWrite
<1> QED
  BY <1>1, <1>2, <1>3, <1>4, <1>5 DEF LogStep

\* Every step keeps FreshInv.
LEMMA FreshStep ==
    ASSUME LoggerInv, FreshInv, [AnyNext]_vars
    PROVE  FreshInv'
<1>1. ASSUME NEW t \in Loggers, LogCall(t) \/ UserFlush(t) \/ LogStep(t),
             NEW u \in Loggers, rPushPC'[u] \in {"loadSize", "reserve", "claim"}
      PROVE  Message(u)' \notin Range(rAccepted')
  <2>1. Range(Append(rAccepted, Message(t))) = Range(rAccepted) \cup {Message(t)}
    BY CallFacts, RangeAppend
  <2>2. CASE u # t
    <3>1. Message(u)' = Message(u) /\ rPushPC'[u] = rPushPC[u] /\ Message(u) # Message(t)
      BY <1>1, <2>2, RingPlaces, MessageFacts DEF Message
    <3>2. Message(u) \notin Range(rAccepted)
      BY <1>1, <3>1 DEF FreshInv
    <3> QED
      BY <1>1, <2>1, <3>1, <3>2, LogAccepts
  <2>3. CASE u = t
    <3>1. Range(rAccepted') = Range(rAccepted)
      <4>1. rPushPC' = [rPushPC EXCEPT ![t] = "write"] => rPushPC'[t] = "write"
        BY StateTypes
      <4>2. rPushPC'[t] # "write"
        BY <1>1, <2>3
      <4>3. rAccepted' = rAccepted \/ rPushPC' = [rPushPC EXCEPT ![t] = "write"]
        BY <1>1, LogAccepts
      <4> QED
        BY <4>1, <4>2, <4>3
    <3>2. CASE rPushPC'[t] = "loadSize" /\ pc[t] = "push"
      <4>1. Message(t) \notin Range(rAccepted)
        BY <3>2, CallFacts DEF CallOK
      <4>2. current' = current
        <5>1. ~LogCall(t)
          BY <3>2 DEF LogCall, Goto
        <5> QED
          BY <1>1, <5>1 DEF LogStep, UserFlush, LogReturn, LogPush, LogInPush, LogPushed,
             LogNotify, LogFallback, LogInRingPush, LogDropped, LogRingPushed, callVars
      <4> QED
        BY <2>3, <3>1, <4>1, <4>2 DEF Message
    <3>3. CASE ~(rPushPC'[t] = "loadSize" /\ pc[t] = "push")
      <4>1. current'[t] = current[t] /\ rPushPC[t] \in {"loadSize", "reserve", "claim"}
        BY <1>1, <2>3, <3>3, RingPlaces
      <4> QED
        BY <2>3, <3>1, <4>1 DEF FreshInv, Message
    <3> QED
      BY <3>2, <3>3
  <2> QED
    BY <2>2, <2>3
<1>2. CASE ~ \E t \in Loggers : LogCall(t) \/ UserFlush(t) \/ LogStep(t)
  <2>1. UNCHANGED <<callVars, rAccepted>>
    BY <1>2, OthersAcceptNothing
  <2>2. rPushPC' = rPushPC
    <3>1. CASE \E t \in Threads : FlushStep(t)
      BY <3>1, FlushElsewhere DEF logState
    <3>2. CASE WriterStep \/ CloseStep \/ CloseRequestStop \/ EmergencyCall \/ UNCHANGED vars
      BY <3>2 DEF WriterStep, WriterLeave, WriterSleep, WriterWake, WriterChecksStop, CloseStep,
         CloseRelease, CloseJoin, CloseClear, CloseRequestStop, EmergencyCall, vars, rVars
    <3> QED
      BY <1>2, <3>1, <3>2, StepCases
  <2> QED
    BY <2>1, <2>2 DEF FreshInv, Message, callVars
<1> QED
  BY <1>1, <1>2 DEF FreshInv

\* Buffers forget nothing that they accepted.
LEMMA AcceptedGrows ==
    ASSUME LoggerInv, FreshInv, [AnyNext]_vars
    PROVE  /\ Range(qAccepted) \subseteq Range(qAccepted')
           /\ Range(rAccepted) \subseteq Range(rAccepted')
<1>1. ASSUME NEW t \in Loggers, LogCall(t) \/ UserFlush(t) \/ LogStep(t)
      PROVE  /\ Range(qAccepted) \subseteq Range(qAccepted')
             /\ Range(rAccepted) \subseteq Range(rAccepted')
  <2>1. /\ Range(Append(qAccepted, Message(t))) = Range(qAccepted) \cup {Message(t)}
        /\ Range(Append(rAccepted, Message(t))) = Range(rAccepted) \cup {Message(t)}
    BY CallFacts, RangeAppend
  <2> QED
    BY <1>1, <2>1, LogAccepts
<1>2. CASE ~ \E t \in Loggers : LogCall(t) \/ UserFlush(t) \/ LogStep(t)
  BY <1>2, OthersAcceptNothing
<1> QED
  BY <1>1, <1>2

\* Only the call of the emergency flush decides what is owed.
LEMMA OwedKept ==
    ASSUME [AnyNext]_vars, ~EmergencyCall
    PROVE  owed' = owed
<1> USE DEF control
<1>1. CASE \E t \in Loggers : LogCall(t) \/ UserFlush(t) \/ LogStep(t)
  BY <1>1 DEF LogCall, UserFlush, LogStep, LogReturn, LogPush, LogInPush, LogPushed,
     LogNotify, LogFallback, LogInRingPush, LogDropped, LogRingPushed
<1>2. CASE \E t \in Threads : FlushStep(t)
  BY <1>2 DEF FlushStep, FlushBegin, FlushInQueue, FlushQueuePopped, FlushInRing,
     FlushRingPopped, FlushThrows, WriteEntry, FlushReturn, EmergencyQueuePopped,
     EmergencyQueueWritten
<1>3. CASE WriterStep \/ CloseStep \/ CloseRequestStop \/ UNCHANGED vars
  BY <1>3 DEF WriterStep, WriterLeave, WriterSleep, WriterWake, WriterChecksStop, CloseStep,
     CloseRelease, CloseJoin, CloseClear, CloseRequestStop, vars
<1> QED
  BY <1>1, <1>2, <1>3, StepCases

\* The ring's popAll hands out what a slot holds.
LEMMA RingDelivers ==
    ASSUME LoggerInv, NEW t \in Threads, FlushStep(t)
    PROVE  \/ rDelivered' = rDelivered
           \/ \E e \in Known : e \in Messages \cup {Unwritten} /\ rDelivered' = Append(rDelivered, e)
<1> USE DEF rVars, R!PopGoto, R!PopReturn, R!history
<1>1. CASE FlushInRing(t) /\ R!PopMove(t)
  <2> DEFINE moved == rBuffer[R!Index(rFrom[t] + rDone[t])]
  <2>1. rFrom[t] + rDone[t] \in Int
    BY LoggerSizesAssumption DEF LoggerInv, TypeOK, R!TypeOK, R!Slots
  <2>2. R!Index(rFrom[t] + rDone[t]) \in R!Slots
    BY <2>1, WrappedTypes
  <2>3. moved \in Known /\ moved \in Messages \cup {Unwritten}
    BY <2>2, HolderTypes DEF LoggerInv, KnownInv, RingKnown
  <2>4. rDelivered' = Append(rDelivered, moved)
    BY <1>1 DEF R!PopMove
  <2> HIDE DEF moved
  <2> QED
    BY <2>3, <2>4
<1>2. CASE FlushInRing(t) /\ ~R!PopMove(t)
  BY <1>2 DEF FlushInRing, R!PopInside, R!PopExchange, R!PopLoadTail
<1>3. CASE ~FlushInRing(t)
  BY <1>3 DEF FlushStep, FlushBegin, FlushInQueue, FlushQueuePopped, FlushRingPopped, FlushThrows,
     WriteEntry, FlushReturn, EmergencyQueuePopped, EmergencyQueueWritten, R!PopCall, R!PopThrow,
     R!PopEmpty, R!PopStoreTail
<1> QED
  BY <1>1, <1>2, <1>3

\* Every step keeps OriginInv.
LEMMA OriginStep ==
    ASSUME LoggerInv, OriginInv, [AnyNext]_vars
    PROVE  OriginInv'
<1>1. FreshInv' /\ FreshInv
  BY FreshStep DEF OriginInv
<1>2. Range(rDelivered') \subseteq Known'
  <2>1. Known \subseteq Known' /\ Range(rDelivered) \subseteq Known
    BY KnownGrows DEF OriginInv
  <2>2. CASE \E t \in Threads : FlushStep(t)
    <3>1. ASSUME NEW e \in Known, rDelivered' = Append(rDelivered, e)
          PROVE  Range(rDelivered') \subseteq Known
      BY <2>1, <3>1, StateTypes, RangeAppend
    <3> QED
      BY <2>1, <2>2, <3>1, RingDelivers
  <2>3. CASE ~ \E t \in Threads : FlushStep(t)
    BY <2>1, <2>3, OthersFlushNothing DEF flushState
  <2> QED
    BY <2>2, <2>3
<1>3. owed' \subseteq Range(qAccepted') \cup Range(rAccepted')
  <2>1. owed' \subseteq Range(qAccepted) \cup Range(rAccepted)
    BY OwedKept DEF OriginInv, EmergencyCall
  <2> QED
    BY <1>1, <2>1, AcceptedGrows
<1> QED
  BY <1>1, <1>2, <1>3 DEF OriginInv

\* What has gone wrong once stays wrong.
LEMMA SoundBefore ==
    ASSUME LoggerInv, OriginInv, [AnyNext]_vars, Sound'
    PROVE  Sound
<1>1. alone
  BY AloneBefore DEF Sound
<1>2. /\ rDelivered \in Seq(Messages \cup {Unwritten}) /\ rAccepted \in Seq(Messages)
      /\ Len(rDelivered') <= Len(rAccepted')
      /\ \A k \in 1 .. Len(rDelivered') : rDelivered'[k] = rAccepted'[k]
  BY StateTypes DEF Sound, R!DeliveredInOrder
<1>3. ASSUME NEW t \in Loggers, LogCall(t) \/ UserFlush(t) \/ LogStep(t), UNCHANGED rDelivered,
             rAccepted' # rAccepted
      PROVE  R!DeliveredInOrder
  <2>1. rAccepted' = Append(rAccepted, Message(t)) /\ Message(t) \notin Known
    BY <1>3, LogAccepts DEF OriginInv
  <2>2. /\ Len(rAccepted') = Len(rAccepted) + 1 /\ rAccepted'[Len(rAccepted) + 1] = Message(t)
        /\ \A k \in 1 .. Len(rAccepted) : rAccepted'[k] = rAccepted[k]
        /\ Len(rAccepted) \in Nat /\ Len(rDelivered) \in Nat
    BY <1>2, <2>1, SMT
  <2>3. Len(rDelivered) # Len(rAccepted) + 1
    <3>1. SUFFICES ASSUME Len(rDelivered) = Len(rAccepted) + 1 PROVE FALSE
      OBVIOUS
    <3>2. rDelivered[Len(rAccepted) + 1] = Message(t)
      BY <1>2, <1>3, <2>2, <3>1
    <3>3. DOMAIN rDelivered = 1 .. Len(rDelivered)
      BY <1>2
    <3>4. Message(t) \in Range(rDelivered)
      BY <2>2, <3>1, <3>2, <3>3 DEF Range
    <3> QED
      BY <2>1, <3>4 DEF OriginInv
  <2> QED
    BY <1>2, <1>3, <2>2, <2>3 DEF R!DeliveredInOrder
<1>4. ASSUME rAccepted' = rAccepted, NEW e, rDelivered' = Append(rDelivered, e)
      PROVE  R!DeliveredInOrder
  <2>1. /\ Len(rDelivered') = Len(rDelivered) + 1 /\ Len(rDelivered) \in Nat /\ Len(rAccepted) \in Nat
        /\ \A k \in 1 .. Len(rDelivered) : rDelivered'[k] = rDelivered[k]
    BY <1>2, <1>4, SMT
  <2> QED
    BY <1>2, <1>4, <2>1 DEF R!DeliveredInOrder
<1>5. UNCHANGED <<rAccepted, rDelivered>> => R!DeliveredInOrder
  BY <1>2 DEF R!DeliveredInOrder
<1>6. R!DeliveredInOrder
  <2>1. CASE \E t \in Threads : FlushStep(t)
    <3>1. rAccepted' = rAccepted
      BY <2>1, FlushElsewhere DEF logState
    <3> QED
      BY <1>4, <1>5, <2>1, <3>1, RingDelivers
  <2>2. CASE ~ \E t \in Threads : FlushStep(t)
    <3>1. rDelivered' = rDelivered
      BY <2>2, OthersFlushNothing DEF flushState
    <3>2. (~ \E t \in Loggers : LogCall(t) \/ UserFlush(t) \/ LogStep(t)) => rAccepted' = rAccepted
      BY OthersAcceptNothing
    <3> QED
      BY <1>3, <1>5, <3>1, <3>2
  <2> QED
    BY <2>1, <2>2
<1> QED
  BY <1>1, <1>6 DEF Sound

\* Counting up and down by one, as size_t does.
LEMMA WrapSteps ==
    ASSUME NEW z \in Int, -Word < z, z < Word
    PROVE  /\ z + 1 < Word => R!Wrap(R!Wrap(z) + 1) = R!Wrap(z + 1)
           /\ -Word < z - 1 => R!Wrap(R!Wrap(z) - 1) = R!Wrap(z - 1)
<1>1. Word \in Nat /\ Word > 0
  BY LoggerSizesAssumption
<1>2. R!Wrap(z) = IF z < 0 THEN z + Word ELSE z
  BY WrapNear
<1>3. ASSUME z + 1 < Word PROVE R!Wrap(R!Wrap(z) + 1) = R!Wrap(z + 1)
  <2>1. CASE z >= 0
    BY <1>2, <2>1
  <2>2. CASE z = -1
    <3>1. R!Wrap(z) + 1 = Word /\ z + 1 = 0
      BY <1>1, <1>2, <2>2
    <3>2. R!Wrap(Word) = 0 /\ R!Wrap(0) = 0
      BY <1>1, SMT DEF R!Wrap
    <3> QED
      BY <3>1, <3>2
  <2>3. CASE z < -1
    <3>1. /\ R!Wrap(z + 1) = z + 1 + Word
          /\ R!Wrap(z + Word + 1) = z + Word + 1
      BY <1>1, <2>3, WrapNear
    <3>2. R!Wrap(z) + 1 = z + Word + 1
      BY <1>1, <1>2, <2>3
    <3> QED
      BY <1>1, <3>1, <3>2
  <2> QED
    BY <2>1, <2>2, <2>3
<1>4. ASSUME -Word < z - 1 PROVE R!Wrap(R!Wrap(z) - 1) = R!Wrap(z - 1)
  <2>1. CASE z >= 0
    BY <1>2, <2>1
  <2>2. CASE z < 0
    <3>1. /\ R!Wrap(z - 1) = z - 1 + Word
          /\ R!Wrap(z + Word - 1) = z + Word - 1
      BY <1>1, <1>4, <2>2, WrapNear
    <3>2. R!Wrap(z) - 1 = z + Word - 1
      BY <1>1, <1>2, <2>2
    <3> QED
      BY <1>1, <3>1, <3>2
  <2> QED
    BY <2>1, <2>2
<1> QED
  BY <1>3, <1>4

\* What log() does to the count of the ring.
RingCounted ==
    \/ Load' = Load /\ Slack' = Slack /\ rSize' = rSize
    \/ rSize < Capacity /\ Load' = Load + 1 /\ Slack' = Slack /\ rSize' = R!Wrap(rSize + 1)
    \/ Load' = Load /\ Slack' = Slack + 1 /\ rSize' = R!Wrap(rSize + 1)
    \/ Load' = Load /\ Slack' = Slack - 1 /\ rSize' = R!Wrap(rSize - 1)

LEMMA LogCounts ==
    ASSUME LoggerInv, NEW t \in Loggers, LogCall(t) \/ UserFlush(t) \/ LogStep(t)
    PROVE  RingCounted
<1> USE DEF rVars, R!PushGoto, R!PushReturn, R!history
<1>0. Len(rAccepted) \in Nat /\ Cardinality(Claiming) \in Nat /\ Slack \in Nat /\ Load \in Nat
  BY StateTypes, RingCounts DEF Load
<1>1. ASSUME UNCHANGED <<rAccepted, rPushPC>> PROVE Load' = Load /\ Slack' = Slack
  <2>1. Claiming' = Claiming /\ Undoing' = Undoing
    BY <1>1 DEF Claiming, Undoing
  <2> QED
    BY <1>1, <2>1 DEF Load, Slack
<1>2. ASSUME NEW there, there # rPushPC[t], rPushPC' = [rPushPC EXCEPT ![t] = there],
             rAccepted' = rAccepted
      PROVE  /\ there = "claim" /\ rPushPC[t] = "reserve" => Load' = Load + 1 /\ Slack' = Slack
             /\ there = "undo" /\ rPushPC[t] = "reserve" => Load' = Load /\ Slack' = Slack + 1
             /\ there = "idle" /\ rPushPC[t] = "undo" => Load' = Load /\ Slack' = Slack - 1
             /\ there \notin {"claim", "undo"} /\ rPushPC[t] \notin {"claim", "undo"}
                   => Load' = Load /\ Slack' = Slack
  <2> DEFINE claiming == Cardinality(Claiming')
  <2>1. /\ claiming = IF there = "claim" THEN Cardinality(Claiming) + 1
                      ELSE IF rPushPC[t] = "claim" THEN Cardinality(Claiming) - 1
                      ELSE Cardinality(Claiming)
        /\ Slack' = IF there = "undo" THEN Slack + 1
                    ELSE IF rPushPC[t] = "undo" THEN Slack - 1
                    ELSE Slack
    BY <1>2, RingCountMoves
  <2>2. Load' = Len(rAccepted) + claiming
    BY <1>2 DEF Load
  <2>3. Load = Len(rAccepted) + Cardinality(Claiming)
    BY DEF Load
  <2> HIDE DEF claiming
  <2> QED
    BY <1>0, <2>1, <2>2, <2>3
<1>3. CASE UNCHANGED <<rAccepted, rPushPC, rSize>>
  BY <1>1, <1>3 DEF RingCounted
<1>4. CASE LogFallback(t) \/ (LogInRingPush(t) /\ R!PushRoom(t))
  <2>1. \E there \in {"loadSize", "reserve"} :
          /\ rPushPC' = [rPushPC EXCEPT ![t] = there] /\ there # rPushPC[t]
          /\ rPushPC[t] \notin {"claim", "undo"} /\ rAccepted' = rAccepted /\ rSize' = rSize
    BY <1>4 DEF LogFallback, R!PushBegin, R!PushRoom
  <2> QED
    BY <1>2, <2>1 DEF RingCounted
<1>6. CASE LogInRingPush(t) /\ R!PushReserve(t)
  <2>1. /\ rPushPC' = [rPushPC EXCEPT ![t] = "claim"] /\ rPushPC[t] = "reserve"
        /\ rAccepted' = rAccepted /\ rSize' = R!Wrap(rSize + 1) /\ rSize < Capacity
    BY <1>6 DEF R!PushReserve
  <2> QED
    BY <1>2, <2>1 DEF RingCounted
<1>7. CASE LogInRingPush(t) /\ R!PushOvershoot(t)
  <2>1. /\ rPushPC' = [rPushPC EXCEPT ![t] = "undo"] /\ rPushPC[t] = "reserve"
        /\ rAccepted' = rAccepted /\ rSize' = R!Wrap(rSize + 1)
    BY <1>7 DEF R!PushOvershoot
  <2> QED
    BY <1>2, <2>1 DEF RingCounted
<1>8. CASE LogInRingPush(t) /\ R!PushClaim(t)
  <2>1. /\ rPushPC[t] = "claim" /\ rPushPC' = [rPushPC EXCEPT ![t] = "write"]
        /\ rAccepted' = Append(rAccepted, rEntry[t]) /\ rSize' = rSize
    BY <1>8 DEF R!PushClaim
  <2>2. Cardinality(Claiming') = Cardinality(Claiming) - 1 /\ Slack' = Slack
    <3>1. PICK there : there = "write" /\ rPushPC' = [rPushPC EXCEPT ![t] = there]
      BY <2>1
    <3>2. there # rPushPC[t] /\ there # "claim" /\ there # "undo" /\ rPushPC[t] # "undo"
      BY <2>1, <3>1
    <3> QED
      BY <2>1, <3>1, <3>2, RingCountMoves
  <2>3. Len(rAccepted') = Len(rAccepted) + 1
    BY <2>1, StateTypes, SMT
  <2> QED
    BY <1>0, <2>1, <2>2, <2>3 DEF Load, RingCounted
<1>9. CASE LogDropped(t) \/ LogRingPushed(t)
  <2>1. /\ rPushPC' = [rPushPC EXCEPT ![t] = "idle"] /\ rAccepted' = rAccepted
        /\ \/ rPushPC[t] \in {"loadSize", "write"} /\ rSize' = rSize
           \/ rPushPC[t] = "undo" /\ rSize' = R!Wrap(rSize - 1)
    BY <1>9 DEF LogDropped, LogRingPushed, R!PushFull, R!PushUndo, R!PushWrite
  <2>2. PICK there : there = "idle" /\ rPushPC' = [rPushPC EXCEPT ![t] = there]
    BY <2>1
  <2>3. there # rPushPC[t]
    BY <2>1, <2>2
  <2>4. CASE rPushPC[t] = "undo"
    BY <1>2, <2>1, <2>2, <2>3, <2>4 DEF RingCounted
  <2>5. CASE rPushPC[t] # "undo"
    <3>1. there \notin {"claim", "undo"} /\ rPushPC[t] \notin {"claim", "undo"} /\ rSize' = rSize
      BY <2>1, <2>2, <2>5
    <3> QED
      BY <1>2, <2>1, <2>2, <2>3, <3>1 DEF RingCounted
  <2> QED
    BY <2>4, <2>5
<1>10. CASE LogCall(t) \/ UserFlush(t) \/ LogReturn(t) \/ LogPush(t) \/ LogInPush(t) \/ LogPushed(t)
            \/ LogNotify(t)
  BY <1>3, <1>10 DEF LogCall, UserFlush, LogReturn, LogPush, LogInPush, LogPushed, LogNotify
<1> QED
  BY <1>4, <1>6, <1>7, <1>8, <1>9, <1>10 DEF LogStep, LogInRingPush, R!PushInside

\* So the count stays exact, whatever popAll has still to move.
LEMMA CountedKeeps ==
    ASSUME LoggerInv, RingCounted, rDelivered' = rDelivered, NEW rest \in Int, Accounted(rest)
    PROVE  /\ -Cardinality(Loggers) <= Load' - Len(rDelivered') - rest
           /\ Load' - Len(rDelivered') - rest <= Capacity
           /\ rSize' = R!Wrap(Load' - Len(rDelivered') - rest + Slack')
<1> DEFINE left == Load - Len(rDelivered) - rest
           all == Cardinality(Loggers)
<1>1. /\ Load \in Int /\ Len(rDelivered) \in Nat /\ left \in Int /\ all \in Nat
      /\ Slack \in Nat /\ Slack <= all /\ Slack' \in Nat /\ Slack' <= all
      /\ Capacity \in Nat /\ Capacity > 0 /\ Word \in Nat /\ Capacity + all < Word
  <2>1. all \in Nat /\ Slack \in Nat /\ Slack <= all /\ Slack' \in Nat /\ Slack' <= all
    BY RingCounts
  <2>2. /\ Capacity \in Nat /\ Capacity > 0 /\ Word \in Nat /\ MaxReserve \in Nat
        /\ Capacity + all <= MaxReserve /\ MaxReserve < Word
    BY LoggerSizesAssumption, LoggersFitAssumption
  <2>3. Load \in Int /\ Len(rDelivered) \in Nat
    BY StateTypes, RingCounts DEF Load
  <2> HIDE DEF all
  <2>4. Capacity + all < Word
    BY <2>1, <2>2
  <2>5. left \in Int
    BY <2>3
  <2> QED
    BY <2>1, <2>2, <2>3, <2>4, <2>5
<1>2. -all <= left /\ left <= Capacity /\ rSize = R!Wrap(left + Slack)
  BY DEF Accounted, Left
<1> HIDE DEF left, all
<1>10. left + Slack \in Int /\ -Word < left + Slack /\ left + Slack < Word
  BY <1>1, <1>2
<1>3. rSize = IF left + Slack < 0 THEN left + Slack + Word ELSE left + Slack
  BY <1>2, <1>10, WrapNear
<1>4. /\ left + Slack + 1 < Word => R!Wrap(rSize + 1) = R!Wrap(left + Slack + 1)
      /\ -Word < (left + Slack) - 1 => R!Wrap(rSize - 1) = R!Wrap((left + Slack) - 1)
  <2> DEFINE z == left + Slack
  <2>1. z \in Int /\ -Word < z /\ z < Word
    BY <1>10
  <2> HIDE DEF z
  <2>2. /\ z + 1 < Word => R!Wrap(R!Wrap(z) + 1) = R!Wrap(z + 1)
        /\ -Word < z - 1 => R!Wrap(R!Wrap(z) - 1) = R!Wrap(z - 1)
    BY <2>1, WrapSteps
  <2>3. rSize = R!Wrap(z)
    BY <1>2 DEF z
  <2>4. /\ z + 1 < Word => R!Wrap(rSize + 1) = R!Wrap(z + 1)
        /\ -Word < z - 1 => R!Wrap(rSize - 1) = R!Wrap(z - 1)
    BY <2>2, <2>3
  <2> QED
    BY <2>4 DEF z
<1>5. Load' \in {Load, Load + 1}
      => Load' - Len(rDelivered') - rest = left + (Load' - Load)
  BY <1>1 DEF left
<1>6. CASE Load' = Load /\ Slack' = Slack /\ rSize' = rSize
  BY <1>1, <1>2, <1>5, <1>6 DEF all
<1>7. CASE rSize < Capacity /\ Load' = Load + 1 /\ Slack' = Slack /\ rSize' = R!Wrap(rSize + 1)
  <2>1. left < Capacity
    BY <1>1, <1>3, <1>7
  <2>2. left + Slack + 1 < Word /\ left + 1 + Slack' = left + Slack + 1
    BY <1>1, <1>7, <2>1
  <2>3. Load' - Len(rDelivered') - rest = left + 1
    BY <1>1, <1>5, <1>7
  <2>4. Load' - Len(rDelivered') - rest + Slack' = left + Slack + 1
    BY <2>2, <2>3
  <2>5. rSize' = R!Wrap(left + Slack + 1)
    BY <1>4, <1>7, <2>2
  <2>6. -all <= left + 1 /\ left + 1 <= Capacity
    BY <1>1, <1>2, <2>1
  <2> QED
    BY <2>3, <2>4, <2>5, <2>6 DEF all
<1>8. CASE Load' = Load /\ Slack' = Slack + 1 /\ rSize' = R!Wrap(rSize + 1)
  <2>1. left + Slack + 1 < Word /\ left + Slack' = left + Slack + 1
    BY <1>1, <1>2, <1>8
  <2>2. Load' - Len(rDelivered') - rest = left
    BY <1>1, <1>5, <1>8
  <2> QED
    BY <1>1, <1>2, <1>4, <1>8, <2>1, <2>2 DEF all
<1>9. CASE Load' = Load /\ Slack' = Slack - 1 /\ rSize' = R!Wrap(rSize - 1)
  <2>1. -Word < (left + Slack) - 1 /\ left + Slack' = (left + Slack) - 1
    BY <1>1, <1>2, <1>9
  <2>2. Load' - Len(rDelivered') - rest = left
    BY <1>1, <1>5, <1>9
  <2> QED
    BY <1>1, <1>2, <1>4, <1>9, <2>1, <2>2 DEF all
<1> QED
  BY <1>6, <1>7, <1>8, <1>9 DEF RingCounted

\* While one thread flushes alone, the others are outside both buffers' popAll.
LEMMA OthersRest ==
    ASSUME LoggerInv, AloneInv, alone, alone', NEW t \in Threads, FlushStep(t),
           NEW u \in Threads, u # t
    PROVE  flushPC[u] = "none" /\ qPopPC[u] = "idle" /\ rPopPC[u] = "idle"
<1>1. flushPC[u] = "none"
  <2>1. CASE FlushBegin(t)
    BY <2>1 DEF FlushBegin
  <2>2. CASE ~FlushBegin(t)
    <3>1. PlaceOK(t)
      BY StateTypes
    <3>2. flushPC[t] # "none"
      BY <2>2, <3>1 DEF PlaceOK, FlushStep, FlushInQueue, FlushQueuePopped, FlushInRing,
         FlushRingPopped, FlushThrows, WriteEntry, FlushReturn, EmergencyQueuePopped,
         EmergencyQueueWritten, Q!PopInside, Q!PopLoadTail, Q!PopAwait, Q!PopTake, Q!PopSkip,
         Q!PopReset, Q!PopFree, Q!PopAdvance, Q!PopEmpty, Q!PopCount, Q!PopGoto, Q!PopReturn,
         R!PopInside, R!PopExchange, R!PopLoadTail, R!PopMove, R!PopEmpty, R!PopStoreTail,
         R!PopThrow, R!PopGoto, R!PopReturn
    <3> QED
      BY <3>2 DEF AloneInv, OneFlusher
  <2> QED
    BY <2>1, <2>2
<1> QED
  BY <1>1, StateTypes DEF PlaceOK

\* log() keeps the ring's account.
LEMMA AccountAfterLog ==
    ASSUME LoggerInv, RingAccount, UNCHANGED flushState, RingCounted
    PROVE  RingAccount'
<1>1. /\ rDelivered' = rDelivered /\ rPopPC' = rPopPC /\ rCount' = rCount /\ rDone' = rDone
  BY DEF flushState
<1>2. ASSUME NEW t \in Threads PROVE PopOK(t)'
  <2>1. ASSUME Taken(t) PROVE Accounted(Rest(t))'
    <3>1. Rest(t) \in Int /\ Accounted(Rest(t))
      BY <2>1, StateTypes DEF RingAccount, PopOK, Rest
    <3>2. /\ -Cardinality(Loggers) <= Load' - Len(rDelivered') - Rest(t)
          /\ Load' - Len(rDelivered') - Rest(t) <= Capacity
          /\ rSize' = R!Wrap(Load' - Len(rDelivered') - Rest(t) + Slack')
      BY <1>1, <3>1, CountedKeeps
    <3>3. Rest(t)' = Rest(t)
      BY <1>1 DEF Rest
    <3> QED
      BY <3>2, <3>3 DEF Accounted, Left
  <2> QED
    BY <1>1, <2>1 DEF RingAccount, PopOK, Taken
<1>3. ASSUME Accounted(0) PROVE Accounted(0)'
  BY <1>1, <1>3, CountedKeeps DEF Accounted, Left
<1> QED
  BY <1>1, <1>2, <1>3 DEF RingAccount, Taken

\* Before a popAll takes it, size_ is what waits with the increments to be undone.
LEMMA SizeBeforePop ==
    ASSUME LoggerInv, RingAccount, R!DeliveredInOrder, \A t \in Threads : ~Taken(t)
    PROVE  /\ Load \in Nat /\ Len(rDelivered) \in Nat /\ Len(rDelivered) <= Load
           /\ rSize = Load - Len(rDelivered) + Slack /\ rSize <= MaxReserve
<1> DEFINE left == Load - Len(rDelivered)
<1>1. Load \in Nat /\ Len(rDelivered) \in Nat /\ Len(rDelivered) <= Load
  <2>1. Len(rDelivered) \in Nat /\ Len(rAccepted) \in Nat /\ Cardinality(Claiming) \in Nat
    BY StateTypes, RingCounts
  <2>2. Load = Len(rAccepted) + Cardinality(Claiming) /\ Len(rDelivered) <= Len(rAccepted)
    BY DEF Load, R!DeliveredInOrder
  <2> QED
    BY <2>1, <2>2
<1>2. left \in Nat /\ left <= Capacity /\ rSize = R!Wrap(left + Slack)
  <2>1. Accounted(0)
    BY DEF RingAccount
  <2> QED
    BY <1>1, <2>1 DEF Accounted, Left
<1> HIDE DEF left
<1>3. /\ left + Slack <= MaxReserve /\ left + Slack < Word /\ Word \in Nat
      /\ left + Slack \in Int /\ left + Slack >= 0
  <2>1. /\ Capacity \in Nat /\ MaxReserve \in Nat /\ Word \in Nat /\ MaxReserve < Word
        /\ Capacity + Cardinality(Loggers) <= MaxReserve
    BY LoggerSizesAssumption, LoggersFitAssumption
  <2> QED
    BY <1>2, <2>1, RingCounts
<1>4. rSize = left + Slack
  BY <1>2, <1>3, WrapNear
<1> QED
  BY <1>1, <1>3, <1>4 DEF left

\* popAll of the ring keeps the account, and never asks reserve() for too much.
LEMMA AccountAfterFlush ==
    ASSUME LoggerInv, AloneInv, RingAccount, R!DeliveredInOrder, alone, alone',
           NEW t \in Threads, FlushStep(t)
    PROVE  RingAccount' /\ ~FlushThrows(t)
<1> USE DEF flushVars, qVars, rVars, R!PopGoto, R!PopReturn, R!history, R!producerVars
<1>0. /\ PopOK(t) /\ rCount[t] \in Nat /\ rDone[t] \in Nat /\ Len(rDelivered) \in Nat
      /\ Load \in Nat /\ Slack \in Nat /\ Slack <= Cardinality(Loggers)
      /\ Cardinality(Loggers) \in Nat /\ Len(rDelivered) <= Load
  <2>1. rCount[t] \in 0 .. (Word - 1) /\ Word \in Nat /\ rDone[t] \in Nat
    BY StateTypes, LoggerSizesAssumption
  <2>2. Len(rDelivered) \in Nat /\ Len(rAccepted) \in Nat
    BY StateTypes
  <2>3. Load = Len(rAccepted) + Cardinality(Claiming) /\ Len(rDelivered) <= Len(rAccepted)
    BY DEF Load, R!DeliveredInOrder
  <2>4. PopOK(t)
    BY DEF RingAccount
  <2> QED
    BY <2>1, <2>2, <2>3, <2>4, RingCounts
<1>1. \A u \in Threads : u # t =>
        /\ rPopPC[u] = "idle" /\ rPopPC'[u] = "idle" /\ rDone'[u] = rDone[u]
  BY OthersRest, FlushElsewhere
<1>2. ~Taken(t) => Accounted(0)
  BY <1>1 DEF RingAccount, Taken
<1>3. Load' = Load /\ Slack' = Slack
  <2>1. rPushPC' = rPushPC /\ rAccepted' = rAccepted
    BY FlushElsewhere DEF logState
  <2>2. Claiming' = Claiming /\ Undoing' = Undoing
    BY <2>1 DEF Claiming, Undoing
  <2> QED
    BY <2>1, <2>2 DEF Load, Slack
<1>4. ~FlushThrows(t)
  <2> SUFFICES ASSUME FlushThrows(t) PROVE FALSE
    OBVIOUS
  <2>1. rPopPC[t] = "loadTail" /\ rCount[t] > MaxReserve
    BY DEF FlushThrows, R!PopThrow
  <2> QED
    BY <1>0, <2>1, LoggerSizesAssumption DEF PopOK
<1>5. SUFFICES PopOK(t)' /\ (~Taken(t)' => Accounted(0)')
  <2>1. \A u \in Threads : PopOK(u)'
    <3>1. \A u \in Threads : u # t => rDone[u] = 0
      BY <1>1 DEF RingAccount, PopOK
    <3> QED
      BY <1>1, <1>5, <3>1 DEF PopOK, Taken
  <2> QED
    BY <1>4, <1>5, <2>1 DEF RingAccount
<1>7. CASE FlushInRing(t) /\ R!PopExchange(t)
  <2>1. /\ rPopPC[t] = "exchange" /\ rPopPC'[t] = "loadTail" /\ rSize # 0 /\ rSize' = 0
        /\ rCount'[t] = rSize /\ rDone' = rDone /\ rDelivered' = rDelivered
    BY <1>7, StateTypes DEF R!PopExchange
  <2>2. rDone[t] = 0 /\ \A u \in Threads : ~Taken(u)
    BY <1>0, <1>1, <2>1 DEF Taken, PopOK
  <2>3. rSize = Load - Len(rDelivered) + Slack /\ rSize <= MaxReserve
    BY <2>2, SizeBeforePop
  <2>4. rCount'[t] \in 1 .. MaxReserve
    BY <1>0, <2>1, <2>3, LoggerSizesAssumption
  <2>7. Rest(t)' = Load - Len(rDelivered) + Slack
    <3>1. rCount'[t] - rDone'[t] = rSize
      BY <1>0, <2>1, <2>2, <2>3
    <3> QED
      BY <2>3, <3>1 DEF Rest
  <2>8. Left(Rest(t))' = -Slack /\ -Slack + Slack = 0
    BY <1>0, <1>3, <2>1, <2>7 DEF Left
  <2>9. R!Wrap(0) = 0
    BY LoggerSizesAssumption, SMT DEF R!Wrap
  <2>10. Accounted(Rest(t))'
    <3>1. -Cardinality(Loggers) <= -Slack /\ -Slack <= Capacity
      BY <1>0, LoggerSizesAssumption
    <3> QED
      BY <1>3, <2>1, <2>8, <2>9, <3>1 DEF Accounted
  <2> QED
    BY <2>1, <2>2, <2>4, <2>10 DEF PopOK, Taken
<1>8. CASE FlushInRing(t) /\ R!PopLoadTail(t)
  <2>1. /\ rPopPC[t] = "loadTail" /\ rPopPC'[t] = "move" /\ rSize' = rSize
        /\ rCount' = rCount /\ rDone' = rDone /\ rDelivered' = rDelivered
    BY <1>8, StateTypes DEF R!PopLoadTail
  <2>2. Accounted(Rest(t)) /\ rDone[t] < rCount[t]
    BY <1>0, <2>1, LoggerSizesAssumption DEF PopOK, Taken
  <2>3. Accounted(Rest(t))'
    BY <1>3, <2>1, <2>2 DEF Accounted, Left, Rest
  <2> QED
    BY <2>1, <2>2, <2>3 DEF PopOK, Taken
<1>9. CASE FlushInRing(t) /\ R!PopMove(t)
  <2>1. /\ rPopPC[t] = "move" /\ rSize' = rSize /\ rCount' = rCount /\ rDone'[t] = rDone[t] + 1
        /\ rPopPC'[t] = IF rDone[t] + 1 < rCount[t] THEN "move" ELSE "storeTail"
        /\ Len(rDelivered') = Len(rDelivered) + 1
    <3> DEFINE moved == rBuffer[R!Index(rFrom[t] + rDone[t])]
    <3>1. /\ rPopPC[t] = "move" /\ rSize' = rSize /\ rCount' = rCount
          /\ rDone' = [rDone EXCEPT ![t] = rDone[t] + 1]
          /\ rPopPC' = [rPopPC EXCEPT ![t] = IF rDone[t] + 1 < rCount[t] THEN "move" ELSE "storeTail"]
          /\ rDelivered' = Append(rDelivered, moved)
      BY <1>9 DEF R!PopMove
    <3> HIDE DEF moved
    <3>2. Len(rDelivered') = Len(rDelivered) + 1
      BY <3>1, StateTypes, SMT
    <3> QED
      BY <3>1, <3>2, StateTypes
  <2>2. Accounted(Rest(t)) /\ rDone[t] < rCount[t] /\ Rest(t) \in Int
    BY <1>0, <2>1 DEF PopOK, Taken, Rest
  <2>3. Rest(t)' = Rest(t) - 1
    BY <1>0, <2>1 DEF Rest
  <2>4. Load' - Len(rDelivered') - Rest(t)' = Load - Len(rDelivered) - Rest(t)
    BY <1>0, <1>3, <2>1, <2>2, <2>3
  <2>5. Accounted(Rest(t))'
    BY <1>3, <2>1, <2>2, <2>4 DEF Accounted, Left
  <2>6. rDone'[t] < rCount'[t] \/ (rPopPC'[t] = "storeTail" /\ rDone'[t] = rCount'[t])
    BY <1>0, <2>1, <2>2
  <2> QED
    BY <2>1, <2>5, <2>6 DEF PopOK, Taken
<1>10. CASE FlushRingPopped(t)
  <2>1. /\ rSize' = rSize /\ rDelivered' = rDelivered /\ rPopPC'[t] = "idle" /\ rDone'[t] = 0
        /\ rPopPC[t] \in {"exchange", "storeTail"}
    BY <1>10, StateTypes DEF FlushRingPopped, R!PopEmpty, R!PopStoreTail
  <2>2. Accounted(0)
    <3>1. rPopPC[t] = "storeTail" => Rest(t) = 0 /\ Accounted(Rest(t))
      BY <1>0 DEF PopOK, Taken, Rest
    <3> QED
      BY <1>2, <2>1, <3>1 DEF Taken
  <2> QED
    BY <1>3, <2>1, <2>2 DEF PopOK, Taken, Accounted, Left
<1>11. CASE FlushQueuePopped(t) \/ EmergencyQueueWritten(t)
  <2>1. /\ rSize' = rSize /\ rDelivered' = rDelivered /\ rPopPC'[t] = "exchange" /\ rDone' = rDone
        /\ rPopPC[t] = "idle"
    BY <1>11, StateTypes DEF FlushQueuePopped, EmergencyQueueWritten, R!PopCall
  <2> QED
    BY <1>0, <1>2, <1>3, <2>1 DEF PopOK, Taken, Accounted, Left
<1>12. CASE UNCHANGED rVars
  <2>1. Rest(t)' = Rest(t) /\ (Taken(t)' <=> Taken(t))
    BY <1>12 DEF Rest, Taken
  <2> QED
    BY <1>0, <1>2, <1>3, <1>12, <2>1 DEF PopOK, Accounted, Left
<1> QED
  BY <1>4, <1>7, <1>8, <1>9, <1>10, <1>11, <1>12 DEF FlushStep, FlushBegin, FlushInQueue, FlushInRing,
     WriteEntry, FlushReturn, EmergencyQueuePopped, R!PopInside

\* What log() adds to a buffer is not owed.
LEMMA OwedOld ==
    ASSUME LoggerInv, OriginInv, NEW t \in Loggers, LogCall(t) \/ UserFlush(t) \/ LogStep(t)
    PROVE  /\ \A k \in 1 .. Len(qAccepted') :
                 qAccepted'[k] \in owed => k \in 1 .. Len(qAccepted) /\ qAccepted'[k] = qAccepted[k]
           /\ \A k \in 1 .. Len(rAccepted') :
                 rAccepted'[k] \in owed => k \in 1 .. Len(rAccepted) /\ rAccepted'[k] = rAccepted[k]
           /\ owed \cap Range(qAccepted') \subseteq Range(qAccepted)
           /\ owed \cap Range(rAccepted') \subseteq Range(rAccepted)
<1> DEFINE e == Message(t)
<1>1. qAccepted \in Seq(Messages) /\ rAccepted \in Seq(Messages)
  BY StateTypes
<1>2. FreshInv /\ owed \subseteq Known
  BY DEF OriginInv, Known
<1>3. /\ qAccepted' \in {qAccepted, Append(qAccepted, e)}
      /\ rAccepted' \in {rAccepted, Append(rAccepted, e)}
      /\ qAccepted' # qAccepted \/ rAccepted' # rAccepted => e \notin owed
  BY <1>2, LogAccepts
<1> HIDE DEF e
<1>4. ASSUME NEW s \in Seq(Messages), NEW k \in 1 .. Len(Append(s, e)), Append(s, e)[k] # e
      PROVE  k \in 1 .. Len(s) /\ Append(s, e)[k] = s[k]
  BY <1>4, SMT
<1>5. \A s \in Seq(Messages) : Range(Append(s, e)) = Range(s) \cup {e}
  BY RangeAppend
<1>6. ASSUME NEW s \in Seq(Messages), NEW more \in {s, Append(s, e)}, more # s => e \notin owed
      PROVE  /\ \A k \in 1 .. Len(more) : more[k] \in owed => k \in 1 .. Len(s) /\ more[k] = s[k]
             /\ owed \cap Range(more) \subseteq Range(s)
  BY <1>4, <1>5, <1>6
<1> QED
  BY <1>1, <1>3, <1>6

\* So log() owes nothing more.
LEMMA OwedAfterLog ==
    ASSUME LoggerInv, OriginInv, QueueOwed, RingOwed, OwedWritten, UNCHANGED <<flushState, owed>>,
           NEW t \in Loggers, LogCall(t) \/ UserFlush(t) \/ LogStep(t)
    PROVE  QueueOwed' /\ RingOwed' /\ OwedWritten'
<1>1. /\ qPopPC' = qPopPC /\ qFrom' = qFrom /\ qCount' = qCount /\ flushPC' = flushPC
      /\ rPopPC' = rPopPC /\ rCount' = rCount /\ rDone' = rDone /\ qDelivered' = qDelivered
      /\ rDelivered' = rDelivered /\ written' = written /\ owed' = owed
  BY DEF flushState
<1>2. pc'[Monitor] = pc[Monitor]
  <2>1. Monitor # t /\ Monitor \in Threads
    BY ThreadsDiffer
  <2> QED
    BY <2>1, StateTypes DEF LogCall, UserFlush, LogStep, LogReturn, LogPush, LogInPush, LogPushed,
       LogNotify, LogFallback, LogInRingPush, LogDropped, LogRingPushed, Goto
<1>3. QueueOwed'
  BY <1>1, OwedOld DEF QueueOwed
<1>4. RingOwed'
  BY <1>1, OwedOld DEF RingOwed, Taken, Rest
<1> QED
  BY <1>1, <1>2, <1>3, <1>4 DEF OwedWritten

\* A call of emergencyFlush() begins with neither buffer popped, and the writer and the
\* closing thread owe nothing.
LEMMA OwedAfterControl ==
    ASSUME LoggerInv, QueueOwed, RingOwed, OwedWritten, UNCHANGED flushState,
           UNCHANGED <<qAccepted, rAccepted>>, EmergencyCall \/ owed' = owed,
           WriterStep \/ CloseStep \/ CloseRequestStop \/ EmergencyCall \/ UNCHANGED vars
    PROVE  QueueOwed' /\ RingOwed' /\ OwedWritten'
<1>1. /\ qPopPC' = qPopPC /\ qFrom' = qFrom /\ qCount' = qCount /\ flushPC' = flushPC
      /\ rPopPC' = rPopPC /\ rCount' = rCount /\ rDone' = rDone /\ qDelivered' = qDelivered
      /\ rDelivered' = rDelivered /\ written' = written
  BY DEF flushState
<1>2. CASE EmergencyCall
  <2>1. flushPC[Monitor] = "none" /\ pc'[Monitor] = "emergency" /\ PlaceOK(Monitor)
    BY <1>2, StateTypes, ThreadsDiffer DEF EmergencyCall, Goto
  <2>2. qPopPC[Monitor] = "idle" /\ rPopPC[Monitor] = "idle"
    BY <2>1 DEF PlaceOK
  <2> QED
    BY <1>1, <2>1, <2>2 DEF QueueOwed, RingOwed, OwedWritten, Draining, Taken
<1>3. CASE ~EmergencyCall
  <2>1. pc'[Monitor] = pc[Monitor] /\ owed' = owed
    BY <1>3, StateTypes, ThreadsDiffer DEF WriterStep, WriterLeave, WriterSleep, WriterWake,
       WriterChecksStop, CloseStep, CloseRelease, CloseJoin, CloseClear, CloseRequestStop, Goto, vars
  <2> QED
    BY <1>1, <2>1 DEF QueueOwed, RingOwed, OwedWritten, Taken, Rest
<1> QED
  BY <1>2, <1>3

\* A flush unwrites and unpops nothing.
LEMMA DeliveredGrows ==
    ASSUME LoggerInv, NEW t \in Threads, FlushStep(t)
    PROVE  /\ Range(written) \subseteq Range(written')
           /\ Range(qDelivered) \subseteq Range(qDelivered')
           /\ Range(rDelivered) \subseteq Range(rDelivered')
<1> USE DEF qVars, rVars, Q!history, R!history, R!PopReturn
<1>1. /\ written' = written \/ \E e : written' = Append(written, e)
      /\ qDelivered' = qDelivered \/ \E e : qDelivered' = Append(qDelivered, e)
  BY DEF FlushStep, FlushBegin, FlushInQueue, FlushQueuePopped, FlushInRing, FlushRingPopped,
     FlushThrows, WriteEntry, FlushReturn, EmergencyQueuePopped, EmergencyQueueWritten,
     Q!PopLoadHead, Q!PopInside, Q!PopLoadTail, Q!PopAwait, Q!PopTake, Q!PopSkip, Q!PopReset,
     Q!PopFree, Q!PopAdvance, Q!PopEmpty, Q!PopCount
<1>2. rDelivered' = rDelivered \/ \E e : rDelivered' = Append(rDelivered, e)
  BY RingDelivers
<1>3. /\ written \in Seq(Messages \cup {Unwritten}) /\ qDelivered \in Seq(Messages)
      /\ rDelivered \in Seq(Messages \cup {Unwritten})
  BY StateTypes
<1>4. ASSUME NEW S, NEW s \in Seq(S), NEW more, more = s \/ \E e : more = Append(s, e)
      PROVE  Range(s) \subseteq Range(more)
  <2>1. ASSUME NEW e PROVE Range(s) \subseteq Range(Append(s, e))
    <3>1. Range(Append(s, e)) = Range(s) \cup {e}
      BY RangeAppend
    <3> QED
      BY <3>1
  <2> QED
    BY <1>4, <2>1
<1>5. Range(written) \subseteq Range(written')
  BY <1>1, <1>3, <1>4
<1>6. Range(qDelivered) \subseteq Range(qDelivered')
  BY <1>1, <1>3, <1>4
<1>7. Range(rDelivered) \subseteq Range(rDelivered')
  BY <1>2, <1>3, <1>4
<1> QED
  BY <1>5, <1>6, <1>7

\* A prefix that reaches every owed place holds what is owed.
LEMMA ReachedIsHeld ==
    ASSUME NEW S, NEW D, NEW s \in Seq(S), NEW d \in Seq(D), NEW debt,
           \A k \in 1 .. Len(d) : d[k] = s[k],
           \A k \in 1 .. Len(s) : s[k] \in debt => k <= Len(d)
    PROVE  debt \cap Range(s) \subseteq Range(d)
<1>1. DOMAIN s = 1 .. Len(s) /\ DOMAIN d = 1 .. Len(d) /\ Len(s) \in Nat /\ Len(d) \in Nat
  OBVIOUS
<1>2. SUFFICES ASSUME NEW k \in 1 .. Len(s), s[k] \in debt PROVE s[k] \in Range(d)
  BY <1>1 DEF Range
<1>3. k \in 1 .. Len(d) /\ d[k] = s[k]
  BY <1>1, <1>2
<1> QED
  BY <1>1, <1>3 DEF Range

\* The popAll of the monitor takes all of the queue that is owed.
LEMMA QueueOwedAfterFlush ==
    ASSUME LoggerInv, AloneInv, alone, alone', QueueOwed, FlushStep(Monitor)
    PROVE  QueueOwed'
<1> USE DEF flushVars, qVars, rVars, Q!PopGoto, Q!PopReturn, Q!history
<1>1. Monitor \in Threads /\ owed' = owed /\ qAccepted' = qAccepted
  BY ThreadsDiffer, FlushElsewhere DEF logState
<1>2. PlaceOK(Monitor) /\ qPopPC \in [Threads -> Q!ConsumerPC]
      /\ qFrom \in [Threads -> Nat] /\ qCount \in [Threads -> Nat] /\ flushPC \in [Threads -> FlushPlaces]
      /\ qAccepted \in Seq(Messages) /\ qDelivered \in Seq(Messages)
  BY <1>1, StateTypes
<1>3. QP!QueueInv
  BY DEF AloneInv
<1>4. (\A k \in 1 .. Len(qAccepted) : qAccepted[k] \in owed => k <= Len(qDelivered))
        => owed \cap Range(qAccepted) \subseteq Range(qDelivered)
  <2>1. \A k \in 1 .. Len(qDelivered) : qDelivered[k] = qAccepted[k]
    BY <1>3, QueueFacts
  <2> QED
    BY <1>2, <2>1, ReachedIsHeld
<1>5. CASE FlushBegin(Monitor)
  <2>1. qPopPC'[Monitor] = "loadTail" /\ flushPC'[Monitor] = "queue"
    BY <1>1, <1>2, <1>5 DEF FlushBegin, Q!PopLoadHead
  <2> QED
    BY <2>1 DEF QueueOwed, Draining
<1>6. CASE FlushInQueue(Monitor) /\ Q!PopLoadTail(Monitor)
  <2>1. /\ qPopPC[Monitor] = "loadTail" /\ qPopPC'[Monitor] = "await" /\ qFrom' = qFrom
        /\ qCount'[Monitor] = qTail - qFrom[Monitor] /\ flushPC' = flushPC
    BY <1>1, <1>2, <1>6 DEF FlushInQueue, Q!PopLoadTail
  <2>2. flushPC'[Monitor] = "queue"
    BY <1>2, <2>1 DEF PlaceOK
  <2>3. qFrom'[Monitor] + qCount'[Monitor] = Len(qAccepted) /\ Len(qAccepted) \in Nat
    BY <1>1, <1>2, <1>3, <2>1, QueueFacts
  <2> QED
    BY <1>1, <2>1, <2>2, <2>3 DEF QueueOwed
<1>7. CASE /\ FlushInQueue(Monitor)
           /\ \/ Q!PopAwait(Monitor) \/ Q!PopTake(Monitor) \/ Q!PopSkip(Monitor)
              \/ Q!PopReset(Monitor) \/ Q!PopFree(Monitor)
  <2>1. /\ qPopPC[Monitor] \in Draining /\ qPopPC'[Monitor] \in Draining
        /\ qFrom' = qFrom /\ qCount' = qCount /\ flushPC' = flushPC
    BY <1>1, <1>2, <1>7 DEF FlushInQueue, Q!PopAwait, Q!PopTake, Q!PopSkip, Q!PopReset,
       Q!PopFree, Draining
  <2>2. flushPC'[Monitor] = "queue"
    BY <1>2, <2>1 DEF PlaceOK, Draining
  <2> QED
    BY <1>1, <2>1, <2>2 DEF QueueOwed, Draining
<1>8. CASE FlushInQueue(Monitor) /\ Q!PopAdvance(Monitor)
  <2>1. /\ qPopPC[Monitor] = "advance" /\ qPopPC'[Monitor] = "count" /\ qDelivered' = qDelivered
    BY <1>1, <1>2, <1>8 DEF Q!PopAdvance
  <2>2. Len(qDelivered) = qFrom[Monitor] + qCount[Monitor]
    BY <1>1, <1>3, <2>1, QueueFacts
  <2>3. owed \cap Range(qAccepted) \subseteq Range(qDelivered)
    BY <1>4, <2>1, <2>2 DEF QueueOwed, Draining
  <2> QED
    BY <1>1, <2>1, <2>3 DEF QueueOwed, Draining
<1>9. CASE EmergencyQueuePopped(Monitor)
  <2>1. /\ qPopPC'[Monitor] = "idle" /\ qDelivered' = qDelivered
        /\ qPopPC[Monitor] = "count" \/ (qPopPC[Monitor] = "loadTail" /\ qTail <= qFrom[Monitor])
    BY <1>1, <1>2, <1>9 DEF EmergencyQueuePopped, Q!PopEmpty, Q!PopCount
  <2>2. CASE qPopPC[Monitor] = "loadTail" /\ qTail <= qFrom[Monitor]
    <3>1. \A u \in Threads : qPopPC[u] \in {"idle", "loadTail", "count"}
      BY <1>1, <2>2, OthersRest
    <3>2. Len(qAccepted) <= Len(qDelivered) /\ Len(qAccepted) \in Nat /\ Len(qDelivered) \in Nat
      BY <1>1, <1>2, <1>3, <2>2, <3>1, QueueFacts
    <3>3. owed \cap Range(qAccepted) \subseteq Range(qDelivered)
      BY <1>4, <3>2
    <3> QED
      BY <1>1, <2>1, <3>3 DEF QueueOwed, Draining
  <2>3. CASE qPopPC[Monitor] = "count"
    BY <1>1, <2>1, <2>3 DEF QueueOwed, Draining
  <2> QED
    BY <2>1, <2>2, <2>3
<1>10. CASE FlushInRing(Monitor) \/ FlushRingPopped(Monitor) \/ FlushThrows(Monitor)
            \/ WriteEntry(Monitor) \/ FlushReturn(Monitor) \/ EmergencyQueueWritten(Monitor)
  <2>1. UNCHANGED <<qPopPC, qFrom, qCount, qDelivered>>
    BY <1>10 DEF FlushInRing, FlushRingPopped, FlushThrows, WriteEntry, FlushReturn,
       EmergencyQueueWritten
  <2>2. flushPC'[Monitor] \in {"writeQueue", "ring", "write"}
          => flushPC[Monitor] \in {"writeQueue", "ring", "write"}
    BY <1>1, <1>2, <1>10 DEF FlushInRing, FlushRingPopped, FlushThrows, WriteEntry, FlushReturn,
       EmergencyQueueWritten, R!PopEmpty, R!PopStoreTail, R!PopThrow, R!PopGoto, R!PopReturn, PlaceOK
  <2> QED
    BY <1>1, <2>1, <2>2 DEF QueueOwed
<1> QED
  BY <1>5, <1>6, <1>7, <1>8, <1>9, <1>10 DEF FlushStep, FlushInQueue, FlushQueuePopped, Q!PopInside

\* The popAll of the monitor takes all of the ring that is owed.
LEMMA RingOwedAfterFlush ==
    ASSUME LoggerInv, AloneInv, alone, alone', RingAccount, R!DeliveredInOrder, RingOwed,
           FlushStep(Monitor)
    PROVE  RingOwed'
<1> USE DEF flushVars, qVars, rVars, R!PopGoto, R!PopReturn, R!history
<1>1. Monitor \in Threads /\ owed' = owed /\ rAccepted' = rAccepted
  BY ThreadsDiffer, FlushElsewhere DEF logState
<1>2. /\ PlaceOK(Monitor) /\ PopOK(Monitor) /\ flushPC \in [Threads -> FlushPlaces]
      /\ rPopPC \in [Threads -> {"idle", "exchange", "loadTail", "move", "storeTail"}]
      /\ rCount \in [Threads -> 0 .. (Word - 1)] /\ rDone \in [Threads -> Nat] /\ Word \in Nat
      /\ rAccepted \in Seq(Messages) /\ rDelivered \in Seq(Messages \cup {Unwritten})
  BY <1>1, StateTypes, LoggerSizesAssumption DEF RingAccount
<1>3. rCount[Monitor] \in Nat /\ rDone[Monitor] \in Nat /\ Len(rDelivered) \in Nat
      /\ Rest(Monitor) \in Int
  BY <1>1, <1>2 DEF Rest
<1>4. (\A k \in 1 .. Len(rAccepted) : rAccepted[k] \in owed => k <= Len(rDelivered))
        => owed \cap Range(rAccepted) \subseteq Range(rDelivered)
  BY <1>2, ReachedIsHeld DEF R!DeliveredInOrder
<1>5. ASSUME ~Taken(Monitor)
      PROVE  rSize = Load - Len(rDelivered) + Slack /\ Len(rAccepted) <= Load
             /\ Len(rAccepted) \in Nat /\ Load \in Nat /\ Slack \in Nat /\ Len(rDelivered) <= Load
  <2>1. \A u \in Threads : ~Taken(u)
    BY <1>1, <1>5, OthersRest DEF Taken
  <2>2. Load = Len(rAccepted) + Cardinality(Claiming) /\ Len(rAccepted) \in Nat
    BY <1>2 DEF Load
  <2> QED
    BY <2>1, <2>2, SizeBeforePop, RingCounts
<1>6. CASE FlushInRing(Monitor)
  <2>0. flushPC' = flushPC /\ rPopPC[Monitor] # "idle"
    BY <1>6 DEF FlushInRing, R!PopInside, R!PopExchange, R!PopLoadTail, R!PopMove
  <2>1. flushPC'[Monitor] = "ring"
    BY <1>2, <2>0 DEF PlaceOK
  <2>2. CASE R!PopExchange(Monitor)
    <3>1. /\ rPopPC[Monitor] = "exchange" /\ rDelivered' = rDelivered
          /\ rCount'[Monitor] = rSize /\ rDone' = rDone
      BY <1>1, <1>2, <2>2 DEF R!PopExchange
    <3>2. rDone[Monitor] = 0 /\ ~Taken(Monitor)
      BY <1>2, <3>1 DEF PopOK, Taken
    <3>3. rCount'[Monitor] = Load - Len(rDelivered) + Slack
      BY <1>5, <3>1, <3>2
    <3>4. Rest(Monitor)' = Load - Len(rDelivered) + Slack
      BY <1>3, <1>5, <3>1, <3>2, <3>3 DEF Rest
    <3>5. Len(rAccepted) <= Len(rDelivered') + Rest(Monitor)'
      BY <1>3, <1>5, <3>1, <3>2, <3>4
    <3>6. Len(rDelivered') + Rest(Monitor)' \in Int
      BY <1>3, <1>5, <3>1, <3>2, <3>4
    <3>7. \A k \in 1 .. Len(rAccepted) : k <= Len(rDelivered') + Rest(Monitor)'
      BY <1>5, <3>2, <3>5, <3>6
    <3> QED
      BY <1>1, <2>1, <3>7 DEF RingOwed
  <2>3. CASE R!PopLoadTail(Monitor)
    <3>1. /\ rPopPC[Monitor] = "loadTail" /\ rDelivered' = rDelivered
          /\ rCount' = rCount /\ rDone' = rDone
      BY <1>1, <1>2, <2>3 DEF R!PopLoadTail
    <3>2. Rest(Monitor)' = Rest(Monitor)
      BY <3>1 DEF Rest
    <3> QED
      BY <1>1, <2>1, <3>1, <3>2 DEF RingOwed, Taken
  <2>4. CASE R!PopMove(Monitor)
    <3>1. /\ rPopPC[Monitor] = "move" /\ \E e : rDelivered' = Append(rDelivered, e)
          /\ rCount' = rCount /\ rDone'[Monitor] = rDone[Monitor] + 1
      BY <1>1, <1>2, <2>4 DEF R!PopMove
    <3>2. Len(rDelivered') = Len(rDelivered) + 1
      BY <1>2, <3>1
    <3>3. Rest(Monitor)' = Rest(Monitor) - 1
      BY <1>3, <3>1 DEF Rest
    <3>4. Len(rDelivered') + Rest(Monitor)' = Len(rDelivered) + Rest(Monitor)
      BY <1>3, <3>2, <3>3
    <3> QED
      BY <1>1, <2>1, <3>1, <3>4 DEF RingOwed, Taken
  <2> QED
    BY <1>6, <2>2, <2>3, <2>4 DEF FlushInRing, R!PopInside
<1>7. CASE FlushRingPopped(Monitor)
  <2>1. /\ rPopPC'[Monitor] = "idle" /\ rDelivered' = rDelivered
        /\ rPopPC[Monitor] = "storeTail" \/ (rPopPC[Monitor] = "exchange" /\ rSize = 0)
    BY <1>1, <1>2, <1>7 DEF FlushRingPopped, R!PopEmpty, R!PopStoreTail
  <2>2. \A k \in 1 .. Len(rAccepted) : rAccepted[k] \in owed => k <= Len(rDelivered)
    <3>1. CASE rPopPC[Monitor] = "storeTail"
      <4>1. Rest(Monitor) = 0
        BY <1>2, <1>3, <3>1 DEF PopOK, Rest
      <4>2. Len(rDelivered) + Rest(Monitor) = Len(rDelivered)
        BY <1>3, <4>1
      <4> QED
        BY <3>1, <4>2 DEF RingOwed, Taken
    <3>2. CASE rPopPC[Monitor] = "exchange" /\ rSize = 0
      <4>1. ~Taken(Monitor)
        BY <3>2 DEF Taken
      <4>2. Len(rAccepted) <= Len(rDelivered) /\ Len(rAccepted) \in Nat
        BY <1>3, <1>5, <3>2, <4>1
      <4> QED
        BY <1>3, <4>2
    <3> QED
      BY <2>1, <3>1, <3>2
  <2> QED
    BY <1>1, <1>4, <2>1, <2>2 DEF RingOwed, Taken
<1>8. CASE FlushThrows(Monitor)
  BY <1>1, <1>8, AccountAfterFlush
<1>9. CASE \/ FlushBegin(Monitor) \/ FlushInQueue(Monitor) \/ EmergencyQueuePopped(Monitor)
           \/ WriteEntry(Monitor) \/ FlushReturn(Monitor)
  <2>1. UNCHANGED rVars /\ (flushPC'[Monitor] = "write" => flushPC[Monitor] = "write")
    BY <1>1, <1>2, <1>9 DEF FlushBegin, FlushInQueue, EmergencyQueuePopped, WriteEntry, FlushReturn
  <2> QED
    BY <1>1, <2>1 DEF RingOwed, Taken, Rest
<1>10. CASE EmergencyQueueWritten(Monitor)
  <2>1. rPopPC'[Monitor] = "exchange" /\ flushPC'[Monitor] = "ring"
    BY <1>1, <1>2, <1>10 DEF EmergencyQueueWritten, R!PopCall
  <2> QED
    BY <2>1 DEF RingOwed, Taken
<1> QED
  BY <1>6, <1>7, <1>8, <1>9, <1>10 DEF FlushStep, FlushQueuePopped

\* With nothing left in any hand at the end of it, all that is owed is in the file.
LEMMA OwedIsWritten ==
    ASSUME LoggerInv, AloneInv, HoldInv, OriginInv, SoundInv, alone, alone', FlushReturn(Monitor)
    PROVE  owed \subseteq Range(written)
<1>1. Monitor \in Threads /\ FlushStep(Monitor) /\ flushPC[Monitor] = "write"
      /\ pending[Monitor] = <<>> /\ PlaceOK(Monitor)
  BY ThreadsDiffer, StateTypes DEF FlushStep, FlushReturn
<1>2. owed \subseteq Range(qDelivered) \cup Range(rDelivered)
  BY <1>1 DEF OriginInv, SoundInv, QueueOwed, RingOwed
<1>3. HeldBy(Monitor) = {}
  <2>1. qBatch[Monitor] = <<>> /\ rBatch[Monitor] = <<>>
    BY <1>1 DEF PlaceOK, HoldInv, HoldOK
  <2> QED
    BY <1>1, <2>1, RangeEmpty DEF HeldBy
<1>4. ASSUME NEW u \in Threads, u # Monitor PROVE HeldBy(u) = {}
  <2>1. flushPC[u] = "none"
    BY <1>1, <1>4, OthersRest
  <2>2. pc[u] # "terminated"
    BY DEF SoundInv, NoThrow
  <2> QED
    BY <2>1, <2>2, HandsEmpty
<1> QED
  BY <1>2, <1>3, <1>4 DEF HoldInv, NothingLeft

\* A flush of any thread keeps what is known as long as all is sound.
LEMMA SoundAfterFlush ==
    ASSUME LoggerInv, AloneInv, HoldInv, OriginInv, SoundInv, Sound, Sound',
           NEW t \in Threads, FlushStep(t)
    PROVE  SoundInv'
<1> USE DEF flushVars
<1>1. RingAccount /\ NoThrow /\ QueueOwed /\ RingOwed /\ OwedWritten
  BY DEF SoundInv
<1>2. alone /\ alone' /\ R!DeliveredInOrder
  BY DEF Sound
<1>3. RingAccount' /\ ~FlushThrows(t)
  BY <1>1, <1>2, AccountAfterFlush
<1>4. owed' = owed /\ Monitor \in Threads /\ Range(written) \subseteq Range(written')
  BY FlushElsewhere, ThreadsDiffer, DeliveredGrows
<1>5. pc' = pc \/ (FlushReturn(t) /\ pc' = [pc EXCEPT ![t] = AfterFlush(t)])
  BY <1>3 DEF FlushStep, FlushBegin, FlushInQueue, FlushQueuePopped, FlushInRing, FlushRingPopped,
     WriteEntry, FlushReturn, EmergencyQueuePopped, EmergencyQueueWritten
<1>6. NoThrow'
  <2>1. AfterFlush(t) # "terminated"
    BY ThreadsDiffer DEF AfterFlush, Threads
  <2> QED
    BY <1>1, <1>5, <2>1, StateTypes DEF NoThrow
<1>7. CASE t # Monitor
  <2>1. flushPC[Monitor] = "none" /\ qPopPC[Monitor] = "idle" /\ rPopPC[Monitor] = "idle"
    BY <1>2, <1>4, <1>7, OthersRest
  <2>2. /\ flushPC'[Monitor] = "none" /\ qPopPC'[Monitor] = "idle" /\ rPopPC'[Monitor] = "idle"
        /\ pc'[Monitor] = pc[Monitor]
    BY <1>4, <1>7, <2>1, FlushElsewhere
  <2>3. QueueOwed' /\ RingOwed'
    BY <2>2 DEF QueueOwed, RingOwed, Draining, Taken
  <2>4. OwedWritten'
    BY <1>1, <1>4, <2>2 DEF OwedWritten
  <2> QED
    BY <1>3, <1>6, <2>3, <2>4 DEF SoundInv
<1>8. CASE t = Monitor
  <2>1. QueueOwed' /\ RingOwed'
    BY <1>1, <1>2, <1>8, QueueOwedAfterFlush, RingOwedAfterFlush
  <2>2. OwedWritten'
    <3>1. CASE FlushReturn(Monitor)
      <4>1. owed \subseteq Range(written)
        BY <1>2, <3>1, OwedIsWritten
      <4> QED
        BY <1>4, <4>1 DEF OwedWritten
    <3>2. CASE pc' = pc
      BY <1>1, <1>4, <3>2 DEF OwedWritten
    <3> QED
      BY <1>5, <1>8, <3>1, <3>2
  <2> QED
    BY <1>3, <1>6, <2>1, <2>2 DEF SoundInv
<1> QED
  BY <1>7, <1>8

\* So does every other step.
LEMMA SoundElsewhere ==
    ASSUME LoggerInv, OriginInv, SoundInv, [AnyNext]_vars, ~ \E t \in Threads : FlushStep(t)
    PROVE  SoundInv'
<1>1. UNCHANGED flushState
  BY OthersFlushNothing
<1>2. RingAccount /\ NoThrow /\ QueueOwed /\ RingOwed /\ OwedWritten
  BY DEF SoundInv
<1>3. CASE \E t \in Loggers : LogCall(t) \/ UserFlush(t) \/ LogStep(t)
  <2> PICK t \in Loggers : LogCall(t) \/ UserFlush(t) \/ LogStep(t)
    BY <1>3
  <2>1. RingAccount'
    BY <1>1, <1>2, LogCounts, AccountAfterLog
  <2>2. owed' = owed
    BY OwedKept DEF LogCall, UserFlush, LogStep, LogReturn, LogPush, LogInPush, LogPushed, LogNotify,
       LogFallback, LogInRingPush, LogDropped, LogRingPushed, control
  <2>3. QueueOwed' /\ RingOwed' /\ OwedWritten'
    BY <1>1, <1>2, <2>2, OwedAfterLog
  <2>4. NoThrow'
    BY <1>2, StateTypes DEF NoThrow, LogCall, UserFlush, LogStep, LogReturn, LogPush, LogInPush,
       LogPushed, LogNotify, LogFallback, LogInRingPush, LogDropped, LogRingPushed, Goto
  <2> QED
    BY <2>1, <2>3, <2>4 DEF SoundInv
<1>4. CASE WriterStep \/ CloseStep \/ CloseRequestStop \/ EmergencyCall \/ UNCHANGED vars
  <2>1. UNCHANGED <<qAccepted, rVars>>
    BY <1>4 DEF WriterStep, WriterLeave, WriterSleep, WriterWake, WriterChecksStop, CloseStep,
       CloseRelease, CloseJoin, CloseClear, CloseRequestStop, EmergencyCall, vars, qVars
  <2>2. RingCounted
    <3>1. rPushPC' = rPushPC /\ rAccepted' = rAccepted /\ rSize' = rSize
      BY <2>1 DEF rVars
    <3>2. Claiming' = Claiming /\ Undoing' = Undoing
      BY <3>1 DEF Claiming, Undoing
    <3> QED
      BY <3>1, <3>2 DEF RingCounted, Load, Slack
  <2>3. RingAccount'
    BY <1>1, <1>2, <2>2, AccountAfterLog
  <2>4. EmergencyCall \/ owed' = owed
    BY OwedKept
  <2>5. QueueOwed' /\ RingOwed' /\ OwedWritten'
    BY <1>1, <1>2, <1>4, <2>1, <2>4, OwedAfterControl DEF rVars
  <2>6. NoThrow'
    BY <1>2, <1>4, StateTypes DEF NoThrow, WriterStep, WriterLeave, WriterSleep, WriterWake,
       WriterChecksStop, CloseStep, CloseRelease, CloseJoin, CloseClear, CloseRequestStop,
       EmergencyCall, Goto, vars
  <2> QED
    BY <2>3, <2>5, <2>6 DEF SoundInv
<1> QED
  BY <1>3, <1>4, StepCases

\* initialize() establishes SaveInv.
LEMMA SaveInit == Init => SaveInv
<1> SUFFICES ASSUME Init PROVE SaveInv
  OBVIOUS
<1> USE DEF Init
<1>1. /\ rAccepted = <<>> /\ rDelivered = <<>> /\ rSize = 0 /\ owed = {}
      /\ \A t \in Loggers : rPushPC[t] = "idle"
      /\ \A t \in Threads : qPopPC[t] = "idle" /\ rPopPC[t] = "idle" /\ rDone[t] = 0
      /\ \A t \in Threads : flushPC[t] = "none" /\ pc[t] \in {"test", "idle"}
  BY DEF Q!Init, R!Init
<1>2. OriginInv
  BY <1>1, RangeEmpty DEF OriginInv, FreshInv
<1>3. Claiming = {} /\ Undoing = {}
  BY <1>1 DEF Claiming, Undoing
<1>4. Load = 0 /\ Slack = 0 /\ Len(rDelivered) = 0
  BY <1>1, <1>3, FS_EmptySet DEF Load, Slack
<1>5. Accounted(0)
  <2>1. R!Wrap(0) = 0 /\ Capacity \in Nat
    BY LoggerSizesAssumption, SMT DEF R!Wrap
  <2>2. Left(0) = 0
    BY <1>4 DEF Left
  <2>3. -Cardinality(Loggers) <= 0
    BY RingCounts
  <2> QED
    BY <1>1, <1>4, <2>1, <2>2, <2>3 DEF Accounted
<1>6. RingAccount
  BY <1>1, <1>5 DEF RingAccount, PopOK, Taken
<1>7. NoThrow /\ QueueOwed /\ RingOwed /\ OwedWritten
  BY <1>1, ThreadsDiffer DEF NoThrow, QueueOwed, RingOwed, OwedWritten, Draining, Taken
<1> QED
  BY <1>2, <1>6, <1>7 DEF SaveInv, SoundInv

\* Every step keeps it.
LEMMA SaveStep ==
    ASSUME FlushInv, SaveInv, [AnyNext]_vars
    PROVE  SaveInv'
<1>1. LoggerInv /\ AloneInv /\ HoldInv /\ OriginInv
  BY DEF FlushInv, SaveInv
<1>2. OriginInv'
  BY <1>1, OriginStep
<1>3. ASSUME Sound' PROVE SoundInv'
  <2>1. Sound /\ SoundInv
    BY <1>1, <1>3, SoundBefore DEF SaveInv
  <2> QED
    BY <1>1, <1>3, <2>1, SoundAfterFlush, SoundElsewhere
<1> QED
  BY <1>2, <1>3 DEF SaveInv

\* The ring's account and what the monitor owes (fallback tryPush, popAll,
\* emergencyFlush): SaveInv is an invariant whatever calls come.
THEOREM SaveInvariant == AnySpec => []SaveInv
<1>1. FlushInv /\ SaveInv /\ [AnyNext]_vars => SaveInv'
  BY SaveStep
<1> QED
  BY <1>1, SaveInit, FlushInvariant, PTL DEF AnySpec

\* emergencyFlush writes every message that either buffer had accepted when it began, as
\* long as no two flushes have popped at once and the ring has popped only what was written.
THEOREM EmergencyFlushSaves ==
    Spec \/ OverloadSpec \/ FreeSpec \/ EmergencySpec => []EmergencySaves
<1>1. SaveInv => EmergencySaves
  BY DEF SaveInv, Sound, SoundInv, OwedWritten, EmergencySaves
<1> QED
  BY <1>1, SaveInvariant, AnySpecCovers, PTL
===============================================================================
