------------------------------ MODULE AsyncLogger ------------------------------
(***************************************************************************)
(* src/src/src/async_logger.cpp: the threads that call log() and flush(),  *)
(* the writer thread and the thread that closes the logger, over the queue *)
(* (module AsyncQueue) and the fallback ring buffer (module RingBuffer).   *)
(* Every atomic step of the two buffers is a step here.                    *)
(*                                                                         *)
(*   Spec      log() is called at the pace of the writer, nobody calls     *)
(*             flush(), and deinitialize() comes after the last log().     *)
(*   FreeSpec  any calls at any time.                                      *)
(*                                                                         *)
(* External: std::counting_semaphore<1>, std::jthread and its stop token.  *)
(***************************************************************************)
EXTENDS Integers, Sequences, FiniteSets, Functions

CONSTANTS Loggers,      \* threads that call log() and flush()
          Writer,       \* the background thread
          Closer,       \* the thread that calls deinitialize()
          Monitor,      \* the crash handler's thread, which calls emergencyFlush()
          Capacity,     \* queue_size
          MaxCalls,     \* bound: how often log() and flush() are called in all
          Levels, MinLevel,     \* levels of the messages, min_level_
          Leftover,     \* the tokens an earlier deinitialize() may have left in sem_
          Word, MaxReserve,     \* see AsyncQueue and RingBuffer
          NoEntry, Unwritten

ASSUME LoggerThreadsAssumption ==
    /\ {Writer, Closer, Monitor} \cap Loggers = {}
    /\ Cardinality({Writer, Closer, Monitor}) = 3
ASSUME LoggerBoundAssumption == MaxCalls \in Nat
ASSUME LeftoverAssumption == Leftover \subseteq 0 .. 1
\* The sizes of the buffers and of size_t, as AsyncQueue and RingBuffer assume them.
ASSUME LoggerSizesAssumption ==
    /\ Capacity \in Nat \ {0} /\ Word \in Nat /\ MaxReserve \in Nat
    /\ Capacity <= MaxReserve /\ MaxReserve < Word
\* There are fewer threads than a vector has room for on top of the entries.
ASSUME LoggersFitAssumption ==
    IsFiniteSet(Loggers) /\ Capacity + Cardinality(Loggers) <= MaxReserve
\* An empty optional and a default-constructed entry are not messages.
ASSUME LoggerEntriesAssumption ==
    {NoEntry, Unwritten} \cap (Loggers \X (1 .. MaxCalls)) = {}

VARIABLES
  \* async_queue_
  qTail, qHead, qSize, qSeq, qStorage, qPushPC, qEntry, qLocalTail,
  qPopPC, qFrom, qCount, qDone, qBatch, qAccepted, qDelivered,
  \* ring_buffer_
  rHead, rTail, rSize, rBuffer, rPushPC, rEntry, rLocalHead,
  rPopPC, rFrom, rCount, rDone, rBatch, rAccepted, rDelivered,
  pc,           \* where each thread is in log(), writerThread() or deinitialize()
  flushPC,      \* where it is in flush()
  pending,      \* the entries its flush() holds and has yet to write
  calls,        \* how often log() and flush() have been called
  current,      \* the number of each logger's call
  sem,          \* sem_
  stop,         \* stop_requested() of the writer's stop token
  initialized,  \* initialized_
  written,      \* history: the entries formatted and written, in order
  alone,        \* history: no two flushes have overlapped
  owed          \* history: the messages the buffers held or had delivered when
                \* the emergency flush began

Threads == Loggers \cup {Writer, Closer, Monitor}

\* A message is named by its logger and by the number of the call.
Messages == Loggers \X (1 .. MaxCalls)

Q == INSTANCE AsyncQueue WITH
       Producers <- Loggers, Consumers <- Threads, Entries <- Messages,
       MaxTickets <- MaxCalls + 1,
       tail <- qTail, head <- qHead, size <- qSize, seq <- qSeq,
       storage <- qStorage, pPC <- qPushPC, entry <- qEntry,
       localTail <- qLocalTail, cPC <- qPopPC, from <- qFrom,
       count <- qCount, done <- qDone, batch <- qBatch,
       accepted <- qAccepted, delivered <- qDelivered

R == INSTANCE RingBuffer WITH
       Producers <- Loggers, Consumers <- Threads, Entries <- Messages,
       MaxPushes <- MaxCalls + 1,
       tail <- rTail, head <- rHead, size <- rSize, buffer <- rBuffer,
       pPC <- rPushPC, entry <- rEntry, localHead <- rLocalHead,
       cPC <- rPopPC, from <- rFrom, count <- rCount, done <- rDone,
       batch <- rBatch, accepted <- rAccepted, delivered <- rDelivered

qVars == <<qTail, qHead, qSize, qSeq, qStorage, qPushPC, qEntry, qLocalTail,
           qPopPC, qFrom, qCount, qDone, qBatch, qAccepted, qDelivered>>
rVars == <<rHead, rTail, rSize, rBuffer, rPushPC, rEntry, rLocalHead,
           rPopPC, rFrom, rCount, rDone, rBatch, rAccepted, rDelivered>>
flushVars == <<flushPC, pending>>
callVars == <<calls, current>>
control == <<stop, initialized, alone, owed>>
vars == <<qVars, rVars, pc, flushVars, callVars, sem, control, written>>

\* The state initialize() leaves: buffers empty, writer started.
Init ==
    /\ Q!Init /\ R!Init
    /\ pc = [t \in Threads |-> IF t = Writer THEN "test" ELSE "idle"]
    /\ flushPC = [t \in Threads |-> "none"]
    /\ pending = [t \in Threads |-> <<>>]
    /\ calls = 0 /\ current = [t \in Loggers |-> 0]
    /\ sem \in Leftover /\ stop = FALSE /\ initialized = TRUE
    /\ written = <<>> /\ alone = TRUE /\ owed = {}

Goto(t, here, there) ==
    /\ pc[t] = here /\ flushPC[t] = "none"
    /\ pc' = [pc EXCEPT ![t] = there]

\* release() of a counting_semaphore<1>: beyond its maximum of one the standard
\* promises nothing; MSVC's stays at one, libc++'s counts on.
SemRelease == sem' \in {1, sem + 1}

-------------------------------------------------------------------------------
(* log(level, tag, message).                                               *)

Message(t) == <<t, current[t]>>

LogCall(t) ==
    /\ calls < MaxCalls
    /\ Goto(t, "idle", "enter")
    /\ calls' = calls + 1
    /\ current' = [current EXCEPT ![t] = calls']
    /\ UNCHANGED <<qVars, rVars, flushVars, sem, control, written>>

\* Filtered out by its level, or the logger is not initialized.  setLogLevel() at
\* the same time decides which of LogReturn and LogPush a message takes; both are
\* open to every message here.
LogReturn(t) ==
    /\ \/ \E level \in Levels : level < MinLevel
       \/ ~initialized
    /\ Goto(t, "enter", "idle")
    /\ UNCHANGED <<qVars, rVars, flushVars, callVars, sem, control, written>>

LogPush(t) ==
    /\ \E level \in Levels : level >= MinLevel
    /\ initialized
    /\ Goto(t, "enter", "push")
    /\ Q!PushBegin(t, Message(t))
    /\ UNCHANGED <<rVars, flushVars, callVars, sem, control, written>>

LogInPush(t) ==
    /\ Q!PushInside(t)
    /\ UNCHANGED <<rVars, pc, flushVars, callVars, sem, control, written>>

\* Mutant: after a successful push the message goes to the ring buffer as well.
LogPushedTwice(t) ==
    /\ Goto(t, "push", "ringPush")
    /\ Q!PushCount(t)
    /\ R!PushBegin(t, Message(t))
    /\ UNCHANGED <<flushVars, callVars, sem, control, written>>

LogPushed(t) ==
    /\ Goto(t, "push", "notify")
    /\ Q!PushCount(t)
    /\ UNCHANGED <<rVars, flushVars, callVars, sem, control, written>>

\* Mutant: the writer is not told.
LogNotifyForgotten(t) ==
    /\ Goto(t, "notify", "idle")
    /\ UNCHANGED <<qVars, rVars, flushVars, callVars, sem, control, written>>

LogNotify(t) ==
    /\ Goto(t, "notify", "idle")
    /\ SemRelease
    /\ UNCHANGED <<qVars, rVars, flushVars, callVars, control, written>>

LogFallback(t) ==
    /\ Goto(t, "push", "ringPush")
    /\ Q!PushFull(t)
    /\ R!PushBegin(t, Message(t))
    /\ UNCHANGED <<flushVars, callVars, sem, control, written>>

LogInRingPush(t) ==
    /\ R!PushInside(t)
    /\ UNCHANGED <<qVars, pc, flushVars, callVars, sem, control, written>>

LogDropped(t) ==
    /\ Goto(t, "ringPush", "idle")
    /\ R!PushFull(t) \/ R!PushUndo(t)
    /\ UNCHANGED <<qVars, flushVars, callVars, sem, control, written>>

LogRingPushed(t) ==
    /\ Goto(t, "ringPush", "flush")
    /\ R!PushWrite(t)
    /\ UNCHANGED <<qVars, flushVars, callVars, sem, control, written>>

LogStep(t) ==
    \/ LogReturn(t) \/ LogPush(t) \/ LogInPush(t) \/ LogPushed(t) \/ LogNotify(t)
    \/ LogFallback(t) \/ LogInRingPush(t) \/ LogDropped(t) \/ LogRingPushed(t)

\* A direct call of flush() by the application.
UserFlush(t) ==
    /\ calls < MaxCalls
    /\ Goto(t, "idle", "flush")
    /\ calls' = calls + 1
    /\ UNCHANGED <<qVars, rVars, flushVars, current, sem, control, written>>

-------------------------------------------------------------------------------
(* flush(), by whichever thread has pc = "flush" or "lastFlush", and        *)
(* emergencyFlush(), by the monitor, which writes what the queue held before *)
(* it pops the ring buffer.                                                *)

AfterFlush(t) ==
    CASE t \in Loggers -> "idle"
      [] t = Closer -> "clear"
      [] t = Monitor -> "flushed"
      [] t = Writer -> IF pc[t] = "lastFlush" THEN "exited" ELSE "test"

FlushBegin(t) ==
    /\ pc[t] \in {"flush", "lastFlush", "emergency"} /\ flushPC[t] = "none"
    /\ Q!PopLoadHead(t)
    /\ flushPC' = [flushPC EXCEPT ![t] = "queue"]
    /\ alone' = (alone /\ \A u \in Threads : flushPC[u] = "none")
    /\ UNCHANGED <<rVars, pc, pending, callVars, sem, stop, initialized, owed, written>>

FlushInQueue(t) ==
    /\ Q!PopInside(t)
    /\ UNCHANGED <<rVars, pc, flushVars, callVars, sem, control, written>>

\* Mutant: the first of the popped entries is lost.
FlushQueuePoppedShort(t) ==
    /\ Q!PopEmpty(t) \/ Q!PopCount(t)
    /\ pending' = [pending EXCEPT ![t] = SubSeq(qBatch[t], 2, Len(qBatch[t]))]
    /\ R!PopCall(t)
    /\ flushPC' = [flushPC EXCEPT ![t] = "ring"]
    /\ UNCHANGED <<pc, callVars, sem, control, written>>

FlushQueuePopped(t) ==
    /\ t # Monitor
    /\ Q!PopEmpty(t) \/ Q!PopCount(t)
    /\ pending' = [pending EXCEPT ![t] = qBatch[t]]
    /\ R!PopCall(t)
    /\ flushPC' = [flushPC EXCEPT ![t] = "ring"]
    /\ UNCHANGED <<pc, callVars, sem, control, written>>

\* Mutant: of the popped entries all but the first are written.
EmergencyQueuePoppedShort(t) ==
    /\ t = Monitor
    /\ Q!PopEmpty(t) \/ Q!PopCount(t)
    /\ pending' = [pending EXCEPT ![t] = SubSeq(qBatch[t], 2, Len(qBatch[t]))]
    /\ flushPC' = [flushPC EXCEPT ![t] = "writeQueue"]
    /\ UNCHANGED <<rVars, pc, callVars, sem, control, written>>

EmergencyQueuePopped(t) ==
    /\ t = Monitor
    /\ Q!PopEmpty(t) \/ Q!PopCount(t)
    /\ pending' = [pending EXCEPT ![t] = qBatch[t]]
    /\ flushPC' = [flushPC EXCEPT ![t] = "writeQueue"]
    /\ UNCHANGED <<rVars, pc, callVars, sem, control, written>>

EmergencyQueueWritten(t) ==
    /\ flushPC[t] = "writeQueue" /\ pending[t] = <<>>
    /\ R!PopCall(t)
    /\ flushPC' = [flushPC EXCEPT ![t] = "ring"]
    /\ UNCHANGED <<qVars, pc, pending, callVars, sem, control, written>>

FlushInRing(t) ==
    /\ R!PopInside(t)
    /\ UNCHANGED <<qVars, pc, flushVars, callVars, sem, control, written>>

FlushRingPopped(t) ==
    /\ R!PopEmpty(t) \/ R!PopStoreTail(t)
    /\ pending' = [pending EXCEPT ![t] = @ \o rBatch[t]]
    /\ flushPC' = [flushPC EXCEPT ![t] = "write"]
    /\ UNCHANGED <<qVars, pc, callVars, sem, control, written>>

\* length_error leaves flush() and ends the process when nobody above catches it;
\* CrashHandler::emergencyFlush does.
FlushThrows(t) ==
    /\ R!PopThrow(t)
    /\ flushPC' = [flushPC EXCEPT ![t] = "none"]
    /\ pc' = [pc EXCEPT ![t] = IF t = Monitor THEN "flushed" ELSE "terminated"]
    /\ UNCHANGED <<qVars, pending, callVars, sem, control, written>>

\* writeEntries: format the next entry and write it.
WriteEntry(t) ==
    /\ flushPC[t] \in {"write", "writeQueue"} /\ pending[t] # <<>>
    /\ written' = Append(written, Head(pending[t]))
    /\ pending' = [pending EXCEPT ![t] = Tail(@)]
    /\ UNCHANGED <<qVars, rVars, pc, flushPC, callVars, sem, control>>

FlushReturn(t) ==
    /\ flushPC[t] = "write" /\ pending[t] = <<>>
    /\ flushPC' = [flushPC EXCEPT ![t] = "none"]
    /\ pc' = [pc EXCEPT ![t] = AfterFlush(t)]
    /\ UNCHANGED <<qVars, rVars, pending, callVars, sem, control, written>>

FlushStep(t) ==
    \/ FlushBegin(t) \/ FlushInQueue(t) \/ FlushQueuePopped(t) \/ FlushInRing(t)
    \/ FlushRingPopped(t) \/ FlushThrows(t) \/ WriteEntry(t) \/ FlushReturn(t)
    \/ EmergencyQueuePopped(t) \/ EmergencyQueueWritten(t)

\* The monitor has seen a request.  It flushes once: the signal that made the
\* request ends the process (module CrashHandler).
EmergencyCall ==
    /\ Goto(Monitor, "idle", "emergency")
    /\ owed' = Range(qAccepted)
                \cup {m \in Range(rAccepted) : \A t \in Loggers : rEntry[t] # m}
    /\ UNCHANGED <<qVars, rVars, flushVars, callVars, sem, stop, initialized, alone, written>>

-------------------------------------------------------------------------------
(* writerThread(stop_token).                                               *)

WriterLeave ==
    /\ stop
    /\ Goto(Writer, "test", "exited")
    /\ UNCHANGED <<qVars, rVars, flushVars, callVars, sem, control, written>>

WriterSleep ==
    /\ ~stop
    /\ Goto(Writer, "test", "acquire")
    /\ UNCHANGED <<qVars, rVars, flushVars, callVars, sem, control, written>>

\* Mutant: the writer does not wait for a token.
WriterWakeAnyway ==
    /\ Goto(Writer, "acquire", "woken")
    /\ sem' = sem - 1
    /\ UNCHANGED <<qVars, rVars, flushVars, callVars, control, written>>

WriterWake ==
    /\ sem > 0
    /\ Goto(Writer, "acquire", "woken")
    /\ sem' = sem - 1
    /\ UNCHANGED <<qVars, rVars, flushVars, callVars, control, written>>

WriterChecksStop ==
    /\ Goto(Writer, "woken", IF stop THEN "lastFlush" ELSE "flush")
    /\ UNCHANGED <<qVars, rVars, flushVars, callVars, sem, control, written>>

WriterStep == WriterLeave \/ WriterSleep \/ WriterWake \/ WriterChecksStop

-------------------------------------------------------------------------------
(* deinitialize().  A second call finds initialized_ false and returns.    *)

CloseRequestStop ==
    /\ initialized
    /\ Goto(Closer, "idle", "release")
    /\ stop' = TRUE
    /\ UNCHANGED <<qVars, rVars, flushVars, callVars, sem, initialized, alone, owed, written>>

\* Mutant: deinitialize() joins a writer it has not woken.
CloseReleaseForgotten ==
    /\ Goto(Closer, "release", "join")
    /\ UNCHANGED <<qVars, rVars, flushVars, callVars, sem, control, written>>

CloseRelease ==
    /\ Goto(Closer, "release", "join")
    /\ SemRelease
    /\ UNCHANGED <<qVars, rVars, flushVars, callVars, control, written>>

\* Mutant: deinitialize() flushes without waiting for the writer.
CloseJoinAnyway ==
    /\ Goto(Closer, "join", "flush")
    /\ UNCHANGED <<qVars, rVars, flushVars, callVars, sem, control, written>>

\* Mutant: deinitialize() relies on the last flush of the writer.
CloseJoinOnly ==
    /\ pc[Writer] = "exited"
    /\ Goto(Closer, "join", "clear")
    /\ UNCHANGED <<qVars, rVars, flushVars, callVars, sem, control, written>>

CloseJoin ==
    /\ pc[Writer] = "exited"
    /\ Goto(Closer, "join", "flush")
    /\ UNCHANGED <<qVars, rVars, flushVars, callVars, sem, control, written>>

CloseClear ==
    /\ Goto(Closer, "clear", "idle")
    /\ initialized' = FALSE
    /\ UNCHANGED <<qVars, rVars, flushVars, callVars, sem, stop, alone, owed, written>>

CloseStep == CloseRelease \/ CloseJoin \/ CloseClear

-------------------------------------------------------------------------------
\* An exception that nobody catches has ended the process.
Running == \A t \in Threads : pc[t] # "terminated"

ThreadStep(t) ==
    Running /\ \/ t \in Loggers /\ LogStep(t)
               \/ FlushStep(t)
               \/ t = Writer /\ WriterStep
               \/ t = Closer /\ CloseStep

LoggersIdle == \A t \in Loggers : pc[t] = "idle"

\* The environment of Spec: the queue has room whenever log() is called, and
\* every logger has returned for the last time when deinitialize() is called.
PacedCall(t) == qTail - qHead < Capacity /\ LogCall(t)
OrderlyClose ==
    LoggersIdle /\ calls = MaxCalls /\ CloseRequestStop

Next ==
    \/ \E t \in Threads : ThreadStep(t)
    \/ \E t \in Loggers : PacedCall(t)
    \/ OrderlyClose

FreeNext ==
    \/ \E t \in Threads : ThreadStep(t)
    \/ Running /\ \/ \E t \in Loggers : LogCall(t) \/ UserFlush(t)
                  \/ CloseRequestStop

\* Every thread that can run runs; the weak compare-and-swap succeeds in the end.
\* Nobody is obliged to call log(), flush() or deinitialize().
Fairness ==
    /\ \A t \in Threads : WF_vars(ThreadStep(t))
    /\ \A t \in Loggers : SF_vars(LogInPush(t) /\ Q!PushReserve(t))

Spec == Init /\ [][Next]_vars
FairSpec == Spec /\ Fairness
FreeSpec == Init /\ [][FreeNext]_vars
FreeFairSpec == FreeSpec /\ Fairness

\* log() at any pace, but nobody calls flush() and the close is orderly.
OverloadNext ==
    \/ \E t \in Threads : ThreadStep(t)
    \/ Running /\ (OrderlyClose \/ \E t \in Loggers : LogCall(t))

OverloadSpec == Init /\ [][OverloadNext]_vars

\* An emergency flush at any time beside log() at any pace.
EmergencyNext ==
    \/ \E t \in Threads : ThreadStep(t)
    \/ Running /\ (EmergencyCall \/ \E t \in Loggers : LogCall(t))

EmergencySpec == Init /\ [][EmergencyNext]_vars

-------------------------------------------------------------------------------
(* Properties.                                                             *)

InSeq(e, s) == \E k \in 1 .. Len(s) : s[k] = e

\* The types of the logger's own state; the buffers are typed by their modules.
TypeOK ==
    /\ Q!TypeOK /\ R!TypeOK
    /\ pc \in [Threads -> {"idle", "enter", "push", "notify", "ringPush", "flush",
                           "test", "acquire", "woken", "lastFlush", "exited",
                           "release", "join", "clear", "emergency", "flushed",
                           "terminated"}]
    /\ flushPC \in [Threads -> {"none", "queue", "writeQueue", "ring", "write"}]
    /\ pending \in [Threads -> Seq(Messages \cup {Unwritten})]
    /\ calls \in 0 .. MaxCalls /\ current \in [Loggers -> 0 .. MaxCalls]
    /\ sem \in Nat /\ stop \in BOOLEAN /\ initialized \in BOOLEAN
    /\ written \in Seq(Messages \cup {Unwritten}) /\ alone \in BOOLEAN /\ owed \subseteq Messages

\* What the logger promises from end to end: the file is a bounded channel that
\* holds the accepted messages in order, each once, and every accepted message is
\* written in the end although nobody calls flush() (log, writerThread, flush).
Service == INSTANCE LogChannel WITH
             Entries <- Messages, Bound <- 2 * Capacity,
             accepted <- qAccepted, delivered <- written
ServiceSpec == Service!Spec

\* No wakeup is lost: when the writer sleeps with no token left and no log() is
\* under way, nothing waits in the queue or in the hands of a flush.
NoLostWakeup ==
    pc[Writer] = "acquire" /\ sem = 0 /\ LoggersIdle => written = qAccepted

\* Nor is one lost when log() outpaces the writer, from however many threads: as long
\* as no two flushes have overlapped, what the queue has accepted is in the file
\* whenever the writer sleeps with no token left and nobody logs or flushes.
NoLostWakeupUnderLoad ==
    /\ pc[Writer] = "acquire" /\ sem = 0 /\ LoggersIdle /\ Running
    /\ alone /\ \A t \in Threads : flushPC[t] = "none"
    => Range(qAccepted) \subseteq Range(written)

\* Once deinitialize() has cleared initialized_, everything accepted is written.
CloseDrains == ~initialized => written = qAccepted

\* deinitialize() returns: the writer always sees the request and the token.
CloseReturns == (pc[Closer] # "idle") ~> (pc[Closer] = "idle")

\* The final flush of deinitialize() has the file and the buffers to itself: from
\* the join on, the writer is gone for good.
WriterGoneAfterJoin ==
    pc[Closer] \in {"flush", "clear"} \/ ~initialized => pc[Writer] = "exited"

\* Whatever calls overlap, a line of the file is a message that one of the buffers
\* accepted, or comes of a ring slot that was never written.
WrittenWasAccepted ==
    \A k \in 1 .. Len(written) :
        \/ written[k] = Unwritten
        \/ InSeq(written[k], qAccepted) \/ InSeq(written[k], rAccepted)

\* A message is accepted by one buffer at most: only a refused push leaves the
\* entry with the caller, who then tries the ring buffer.
AcceptedByOneBuffer ==
    \A j \in 1 .. Len(qAccepted), k \in 1 .. Len(rAccepted) : qAccepted[j] # rAccepted[k]

\* emergencyFlush writes every message that either buffer had accepted when it
\* began, while log() and the writer go on: as long as no two flushes have popped
\* at once and the ring has not popped a slot before it was written.
EmergencySaves ==
    pc[Monitor] = "flushed" /\ alone /\ R!DeliveredInOrder => owed \subseteq Range(written)

\* async_queue.h:112 says "Single-consumer": only one thread is inside the
\* queue's popAll at a time.
SingleConsumer ==
    \A t, u \in Threads : qPopPC[t] # "idle" /\ qPopPC[u] # "idle" => t = u

\* async_logger.h:23 says "non-blocking operations": a call of log() returns.
LogReturns == \A t \in Loggers : (pc[t] # "idle") ~> (pc[t] = "idle")

\* async_logger.h:55 says "Flush all buffered logs to disk" and deinitialize()
\* ends with one: after an orderly close no message that a buffer accepted is
\* missing from the file, however fast log() was called.
ClosedFileIsComplete ==
    ~initialized =>
        /\ \A k \in 1 .. Len(qAccepted) : InSeq(qAccepted[k], written)
        /\ \A k \in 1 .. Len(rAccepted) : InSeq(rAccepted[k], written)

\* log_entry.h:13 says "Uses string_view to avoid copying until formatting": the
\* strings a message's views point into live until the entry is formatted.  They
\* are the arguments of the log() call, alive until it returns.
TextAlive(e) == pc[e[1]] # "idle" /\ current[e[1]] = e[2]
FormattedTextIsAlive ==
    [][\A t \in Threads :
          WriteEntry(t) /\ Head(pending[t]) \in Messages => TextAlive(Head(pending[t]))]_vars

\* file_manager.h:28 says "Thread-safe file I/O": the unlocked Write is entered by
\* one thread at a time.
OneThreadWrites ==
    \A t, u \in Threads :
        flushPC[t] = "write" /\ pending[t] # <<>> /\ flushPC[u] = "write" /\ pending[u] # <<>>
            => t = u
===============================================================================
