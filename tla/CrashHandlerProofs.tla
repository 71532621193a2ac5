-------------------------- MODULE CrashHandlerProofs --------------------------
(***************************************************************************)
(* Proofs about CrashHandler, for every set of loggers and of threads that *)
(* signal, and any number of builds.  CrashInv is shown to hold initially  *)
(* and to be kept by every step, one lemma per step; the safety properties *)
(* of run `crash` follow from it.                                          *)
(* Assumed: CrashLoggersAssumption, CrashBoundAssumption.                  *)
(***************************************************************************)
EXTENDS CrashHandler, TLAPS

-------------------------------------------------------------------------------
(* The invariant.                                                          *)

\* A handler that the constructor is still working on exists, and is the newest.
ConstructedInv ==
    \A l \in Loggers : pc[l] \in {"install", "start"} => Current(l) \in handlers

\* Where a logger has its crash handler, and where the handler's monitor runs.
Installed == {"start", "open", "callback", "ready", "closed", "cleanup", "uninstall"}
Monitored == Installed \ {"start"}
Marked == (Installed \cup {"install"}) \ {"uninstall"}
Ending == {"cleanup", "uninstall", "join", "drop", "free"}

\* There is one logger at most, and it has one handler at most.
SoleLogger ==
    /\ \A k, l \in Loggers : pc[k] # "none" /\ pc[l] # "none" => k = l
    /\ \A l \in Loggers : l \in leaving <=> pc[l] \in Ending
    /\ \A h \in handlers :
         pc[h[1]] \notin {"none", "construct", "free"} /\ h = Current(h[1])

\* initialized_ is set from the constructor to the destructor of its handler, whose
\* monitor runs until it is stopped and joined, and calls back while it has a target.
SoleMonitor ==
    /\ initialized <=> \E l \in Loggers : pc[l] \in Marked
    /\ \A h \in Handlers : h \notin handlers => monitor[h] = "none"
    /\ \A h \in Handlers : target[h] # NoLogger => monitor[h] = "call"
    /\ \A l \in Loggers :
         /\ pc[l] \in Monitored => Running(Current(l)) /\ ~stop[Current(l)]
         /\ pc[l] \in {"install", "start", "drop"} => monitor[Current(l)] = "none"
         /\ pc[l] = "ready" => callback = l

\* As long as loggers follow one another.
FollowInv == overlapped \/ (SoleLogger /\ SoleMonitor)

\* A signal is ignored only while some thread has yet to restore SIG_DFL; as long as
\* loggers follow one another it reaches the handler unless a thread is in there.
SignalInv ==
    ended = "no" =>
      /\ disposition = "ignore" => \E t \in Threads : at[t] \in {"request", "default"}
      /\ \/ overlapped \/ disposition = "handler" \/ \E t \in Threads : at[t] # "run"
         \/ \A l \in Loggers : pc[l] \notin Installed

CrashInv ==
    TypeOK /\ ConstructedInv /\ FollowInv /\ SignalInv /\ NoTerminate

-------------------------------------------------------------------------------
(* One lemma per step.                                                     *)

\* A new logger's memory: either it is the only logger, or loggers overlap now.
LEMMA BuildInv ==
    ASSUME CrashInv, ended = "no", NEW l \in Loggers, Build(l)
    PROVE  CrashInv'
<1> USE DEF CrashInv, Build, Goto, monitors, statics, signals
<1>1. TypeOK'
  <2>1. builds' \in 0 .. MaxBuilds /\ 0 .. builds \subseteq 0 .. builds' /\ builds' \in 0 .. builds'
    BY CrashBoundAssumption DEF TypeOK
  <2>2. buffers' \in [Loggers -> 0 .. builds']
    BY <2>1 DEF TypeOK
  <2>3. overlapped' \in BOOLEAN
    OBVIOUS
  <2> QED
    BY <2>1, <2>2, <2>3 DEF TypeOK
<1>2. ConstructedInv'
  BY DEF TypeOK, ConstructedInv, Current
<1>3. FollowInv'
  <2>1. CASE overlapped'
    BY <2>1 DEF FollowInv
  <2>2. CASE ~overlapped'
    <3>1. ~overlapped /\ \A k \in Loggers : pc[k] = "none"
      BY <2>2
    <3>2. SoleLogger'
      BY <3>1 DEF TypeOK, FollowInv, SoleLogger, Handlers, Ending
    <3>3. SoleMonitor'
      BY <3>1 DEF TypeOK, FollowInv, SoleMonitor, Installed, Monitored, Marked
    <3> QED
      BY <3>2, <3>3 DEF FollowInv
  <2> QED
    BY <2>1, <2>2
<1>4. SignalInv'
  BY DEF TypeOK, SignalInv, Installed
<1>5. NoTerminate'
  BY DEF NoTerminate
<1> QED
  BY <1>1, <1>2, <1>3, <1>4, <1>5

\* make_unique puts a handler beside the one being replaced (async_logger.cpp); if
\* initialized_ was set, loggers overlap or this logger's own handler is replaced.
LEMMA ConstructInv ==
    ASSUME CrashInv, ended = "no", NEW l \in Loggers, Construct(l)
    PROVE  CrashInv'
<1> USE DEF CrashInv, Construct, Goto, monitors, signals
<1>1. TypeOK'
  BY DEF TypeOK, Handlers, Replaced, AfterConstruct
<1>2. ConstructedInv'
  BY DEF TypeOK, ConstructedInv, Current, Replaced
<1>3. FollowInv'
  <2>1. SoleLogger' \/ overlapped'
    BY DEF TypeOK, FollowInv, SoleLogger, Current, Replaced, AfterConstruct, Ending
  <2>2. SoleMonitor' \/ overlapped'
    BY DEF TypeOK, FollowInv, SoleLogger, SoleMonitor, Handlers, Current, Installed,
       Monitored, Marked
  <2> QED
    BY <2>1, <2>2 DEF FollowInv
<1>4. SignalInv'
  <2>1. overlapped \/ pc'[l] \notin Installed
    BY DEF FollowInv, SoleLogger, SoleMonitor, Marked, Installed
  <2> QED
    BY <2>1 DEF SignalInv
<1>5. NoTerminate'
  BY DEF NoTerminate
<1> QED
  BY <1>1, <1>2, <1>3, <1>4, <1>5

\* std::signal makes signalHandler the handler again.
LEMMA InstallInv ==
    ASSUME CrashInv, ended = "no", NEW l \in Loggers, Install(l)
    PROVE  CrashInv'
<1> USE DEF CrashInv, Install, Goto, monitors, statics
<1>1. TypeOK'
  BY DEF TypeOK
<1>2. ConstructedInv'
  BY DEF ConstructedInv, Current
<1>3. FollowInv'
  <2>1. SoleLogger' \/ overlapped'
    BY DEF FollowInv, SoleLogger, Current, Ending
  <2>2. SoleMonitor' \/ overlapped'
    BY DEF FollowInv, SoleMonitor, Current, Running, Installed, Monitored, Marked
  <2> QED
    BY <2>1, <2>2 DEF FollowInv
<1>4. SignalInv'
  BY DEF SignalInv
<1>5. NoTerminate'
  BY DEF NoTerminate
<1> QED
  BY <1>1, <1>2, <1>3, <1>4, <1>5

\* The new handler's monitor starts on a handler that had none.
LEMMA StartMonitorInv ==
    ASSUME CrashInv, ended = "no", NEW l \in Loggers, StartMonitor(l)
    PROVE  CrashInv'
<1> USE DEF CrashInv, StartMonitor, Goto, statics, signals
<1>1. TypeOK'
  BY DEF TypeOK, AfterConstruct, ConstructedInv
<1>2. ConstructedInv'
  BY DEF ConstructedInv, Current
<1>3. FollowInv'
  <2>1. SoleLogger' \/ overlapped'
    BY DEF TypeOK, FollowInv, SoleLogger, Current, AfterConstruct, Ending
  <2>2. SoleMonitor' \/ overlapped'
    <3> SUFFICES ASSUME ~overlapped PROVE SoleMonitor'
      OBVIOUS
    <3>1. Current(l) \in handlers /\ Current(l) \in Handlers /\ Current(l)' = Current(l)
          /\ Replaced(l) \notin handlers
      BY DEF TypeOK, ConstructedInv, FollowInv, SoleLogger, Current, Replaced
    <3>2. pc' = [pc EXCEPT ![l] = "open"]
      BY <3>1 DEF AfterConstruct, Replaced
    <3>3. \A h \in Handlers : h \notin handlers => monitor'[h] = "none"
      BY <3>1 DEF FollowInv, SoleMonitor
    <3>4. \A h \in Handlers : target'[h] # NoLogger => monitor'[h] = "call"
      BY <3>1 DEF FollowInv, SoleMonitor
    <3> QED
      BY <3>1, <3>2, <3>3, <3>4
      DEF TypeOK, FollowInv, SoleMonitor, Running, Installed, Marked, Current
  <2> QED
    BY <2>1, <2>2 DEF FollowInv
<1>4. SignalInv'
  BY DEF SignalInv, Installed
<1>5. NoTerminate'
  BY DEF NoTerminate
<1> QED
  BY <1>1, <1>2, <1>3, <1>4, <1>5

\* FileManager::Initialize changes nothing of the handler's.
LEMMA OpenInv ==
    ASSUME CrashInv, ended = "no", NEW l \in Loggers, Open(l)
    PROVE  CrashInv'
<1> USE DEF CrashInv, Open, Goto, monitors, statics, signals
<1>1. TypeOK'
  BY DEF TypeOK
<1>2. ConstructedInv'
  BY DEF TypeOK, ConstructedInv, Current
<1>3. FollowInv'
  <2>1. SoleLogger' \/ overlapped'
    BY DEF TypeOK, FollowInv, SoleLogger, Handlers, Current, Ending
  <2>2. SoleMonitor' \/ overlapped'
    BY DEF TypeOK, FollowInv, SoleMonitor, Current, Running, Installed, Monitored, Marked
  <2> QED
    BY <2>1, <2>2 DEF FollowInv
<1>4. SignalInv'
  BY DEF SignalInv, Installed
<1>5. NoTerminate'
  BY DEF NoTerminate
<1> QED
  BY <1>1, <1>2, <1>3, <1>4, <1>5

\* The callback becomes the only live logger's, as ReadyIsProtected needs.
LEMMA SetFlushCallbackInv ==
    ASSUME CrashInv, ended = "no", NEW l \in Loggers, SetFlushCallback(l)
    PROVE  CrashInv'
<1> USE DEF CrashInv, SetFlushCallback, Goto, monitors, signals
<1>1. TypeOK'
  BY DEF TypeOK
<1>2. ConstructedInv'
  BY DEF ConstructedInv, Current
<1>3. FollowInv'
  <2>1. SoleLogger' \/ overlapped'
    BY DEF FollowInv, SoleLogger, Current, Ending
  <2>2. SoleMonitor' \/ overlapped'
    BY DEF FollowInv, SoleLogger, SoleMonitor, Current, Running, Installed, Monitored,
       Marked
  <2> QED
    BY <2>1, <2>2 DEF FollowInv
<1>4. SignalInv'
  BY DEF SignalInv, Installed
<1>5. NoTerminate'
  BY DEF NoTerminate
<1> QED
  BY <1>1, <1>2, <1>3, <1>4, <1>5

\* deinitialize() leaves the handler installed and its monitor running.
LEMMA DeinitializeInv ==
    ASSUME CrashInv, ended = "no", NEW l \in Loggers, Deinitialize(l)
    PROVE  CrashInv'
<1> USE DEF CrashInv, Deinitialize, Goto, monitors, statics, signals
<1>1. TypeOK'
  BY DEF TypeOK
<1>2. ConstructedInv'
  BY DEF ConstructedInv, Current
<1>3. FollowInv'
  <2>1. SoleLogger' \/ overlapped'
    BY DEF FollowInv, SoleLogger, Current, Ending
  <2>2. SoleMonitor' \/ overlapped'
    BY DEF FollowInv, SoleMonitor, Current, Running, Installed, Monitored, Marked
  <2> QED
    BY <2>1, <2>2 DEF FollowInv
<1>4. SignalInv'
  BY DEF SignalInv, Installed
<1>5. NoTerminate'
  BY DEF NoTerminate
<1> QED
  BY <1>1, <1>2, <1>3, <1>4, <1>5

\* ~AsyncLogger begins; from here the logger counts as leaving.
LEMMA DestroyInv ==
    ASSUME CrashInv, ended = "no", NEW l \in Loggers, Destroy(l)
    PROVE  CrashInv'
<1> USE DEF CrashInv, Destroy, Goto, monitors, statics, signals
<1>1. TypeOK'
  BY DEF TypeOK
<1>2. ConstructedInv'
  BY DEF TypeOK, ConstructedInv, Current
<1>3. FollowInv'
  <2>1. SoleLogger' \/ overlapped'
    <3>1. /\ pc[l] \in {"ready", "closed"} /\ leaving' = leaving \cup {l} /\ handlers' = handlers
          /\ \A k \in Loggers : pc'[k] = IF k = l THEN "cleanup" ELSE pc[k]
          /\ \A k : Current(k)' = Current(k)
          /\ \A h \in handlers : h[1] \in Loggers
      BY DEF TypeOK, Handlers, Current
    <3> HIDE DEF CrashInv, Destroy, Goto
    <3>2. SoleLogger => SoleLogger'
      BY <3>1 DEF SoleLogger, Ending
    <3> QED
      BY <3>2 DEF CrashInv, Destroy, FollowInv
  <2>2. SoleMonitor' \/ overlapped'
    BY DEF TypeOK, FollowInv, SoleMonitor, Current, Running, Installed, Monitored, Marked
  <2> QED
    BY <2>1, <2>2 DEF FollowInv
<1>4. SignalInv'
  BY DEF SignalInv, Installed
<1>5. NoTerminate'
  BY DEF NoTerminate
<1> QED
  BY <1>1, <1>2, <1>3, <1>4, <1>5

\* cleanup() takes initialized_; while loggers follow one another it is the
\* installer's.
LEMMA CleanupInv ==
    ASSUME CrashInv, ended = "no", NEW l \in Loggers, Cleanup(l)
    PROVE  CrashInv'
<1> USE DEF CrashInv, Cleanup, Goto, monitors, signals
<1>1. TypeOK'
  BY DEF TypeOK
<1>2. ConstructedInv'
  BY DEF ConstructedInv, Current
<1>3. FollowInv'
  <2>1. SoleLogger' \/ overlapped'
    BY DEF FollowInv, SoleLogger, Current, Ending
  <2>2. SoleMonitor' \/ overlapped'
    BY DEF TypeOK, FollowInv, SoleLogger, SoleMonitor, Current, Running, Installed,
       Monitored, Marked
  <2> QED
    BY <2>1, <2>2 DEF FollowInv
<1>4. SignalInv'
  BY DEF SignalInv, Installed
<1>5. NoTerminate'
  BY DEF NoTerminate
<1> QED
  BY <1>1, <1>2, <1>3, <1>4, <1>5

\* SIG_DFL is restored and the dying handler's monitor told to stop.
LEMMA UninstallInv ==
    ASSUME CrashInv, ended = "no", NEW l \in Loggers, Uninstall(l)
    PROVE  CrashInv'
<1> USE DEF CrashInv, Uninstall, Goto, statics
<1>1. TypeOK'
  BY DEF TypeOK
<1>2. ConstructedInv'
  BY DEF ConstructedInv, Current
<1>3. FollowInv'
  <2>1. SoleLogger' \/ overlapped'
    BY DEF FollowInv, SoleLogger, Current, Ending
  <2>2. SoleMonitor' \/ overlapped'
    BY DEF TypeOK, FollowInv, SoleMonitor, Current, Replaced, Dying, Running, Installed,
       Monitored, Marked
  <2> QED
    BY <2>1, <2>2 DEF FollowInv
<1>4. SignalInv'
  BY DEF TypeOK, SignalInv, FollowInv, SoleLogger, Installed
<1>5. NoTerminate'
  BY DEF NoTerminate
<1> QED
  BY <1>1, <1>2, <1>3, <1>4, <1>5

\* The join returns only when the monitor has left its loop.
LEMMA JoinInv ==
    ASSUME CrashInv, ended = "no", NEW l \in Loggers, Join(l)
    PROVE  CrashInv'
<1> USE DEF CrashInv, Join, Goto, statics, signals
<1>1. TypeOK'
  BY DEF TypeOK
<1>2. ConstructedInv'
  BY DEF ConstructedInv, Current
<1>3. FollowInv'
  <2>1. SoleLogger' \/ overlapped'
    BY DEF FollowInv, SoleLogger, Current, Ending
  <2>2. SoleMonitor' \/ overlapped'
    <3> SUFFICES ASSUME ~overlapped PROVE SoleMonitor'
      OBVIOUS
    <3>1. Dying(l) = Current(l) /\ Current(l) \in Handlers /\ Current(l)' = Current(l)
      BY DEF TypeOK, FollowInv, SoleLogger, Dying, Current, Handlers, Ending
    <3>2. \A h \in Handlers : target'[h] # NoLogger => monitor'[h] = "call"
      BY <3>1 DEF FollowInv, SoleMonitor
    <3> QED
      BY <3>1, <3>2
      DEF TypeOK, FollowInv, SoleMonitor, Running, Installed, Monitored, Marked,
         Current
  <2> QED
    BY <2>1, <2>2 DEF FollowInv
<1>4. SignalInv'
  BY DEF SignalInv, Installed
<1>5. NoTerminate'
  BY DEF NoTerminate
<1> QED
  BY <1>1, <1>2, <1>3, <1>4, <1>5

\* The handler's members go: its monitor was joined, so nothing terminates.
LEMMA DropInv ==
    ASSUME CrashInv, ended = "no", NEW l \in Loggers, Drop(l)
    PROVE  CrashInv'
<1> USE DEF CrashInv, Drop, Goto, monitors, statics, signals
<1>1. TypeOK'
  BY DEF TypeOK
<1>2. ConstructedInv'
  BY DEF ConstructedInv, Current, Replaced, Dying
<1>3. FollowInv'
  <2>1. SoleLogger' \/ overlapped'
    BY DEF FollowInv, SoleLogger, Current, Dying, Ending
  <2>2. SoleMonitor' \/ overlapped'
    BY DEF FollowInv, SoleLogger, SoleMonitor, Current, Dying, Installed, Monitored,
       Marked, Ending
  <2> QED
    BY <2>1, <2>2 DEF FollowInv
<1>4. SignalInv'
  <2>1. overlapped \/ pc'[l] = "free"
    BY DEF TypeOK, FollowInv, SoleLogger, Ending
  <2> QED
    BY <2>1 DEF SignalInv, Installed
<1>5. NoTerminate'
  BY DEF NoTerminate, FollowInv, SoleLogger, SoleMonitor, Dying, Ending
<1> QED
  BY <1>1, <1>2, <1>3, <1>4, <1>5

\* The last of the logger goes; the buffers were kept until here.
LEMMA FreeInv ==
    ASSUME CrashInv, ended = "no", NEW l \in Loggers, Free(l)
    PROVE  CrashInv'
<1> USE DEF CrashInv, Free, Goto, monitors, statics, signals
<1>1. TypeOK'
  BY DEF TypeOK
<1>2. ConstructedInv'
  BY DEF ConstructedInv, Current
<1>3. FollowInv'
  <2>1. SoleLogger' \/ overlapped'
    BY DEF TypeOK, FollowInv, SoleLogger, Current, Ending
  <2>2. SoleMonitor' \/ overlapped'
    BY DEF FollowInv, SoleMonitor, Current, Running, Installed, Monitored, Marked
  <2> QED
    BY <2>1, <2>2 DEF FollowInv
<1>4. SignalInv'
  BY DEF SignalInv, Installed
<1>5. NoTerminate'
  BY DEF NoTerminate
<1> QED
  BY <1>1, <1>2, <1>3, <1>4, <1>5

\* The monitor looks at stop_monitor_.
LEMMA MonitorTestInv ==
    ASSUME CrashInv, ended = "no", NEW h \in Handlers, MonitorTest(h)
    PROVE  CrashInv'
<1> USE DEF CrashInv, MonitorTest, objects, statics, signals
<1>1. TypeOK'
  BY DEF TypeOK
<1>2. ConstructedInv'
  BY DEF ConstructedInv, Current
<1>3. FollowInv'
  <2>1. SoleLogger' \/ overlapped'
    BY DEF FollowInv, SoleLogger, Current
  <2>2. SoleMonitor' \/ overlapped'
    BY DEF FollowInv, SoleMonitor, Current, Running
  <2> QED
    BY <2>1, <2>2 DEF FollowInv
<1>4. SignalInv'
  BY DEF SignalInv
<1>5. NoTerminate'
  BY DEF NoTerminate
<1> QED
  BY <1>1, <1>2, <1>3, <1>4, <1>5

\* The monitor takes the request, and calls back if a callback is set.
LEMMA MonitorPollInv ==
    ASSUME CrashInv, ended = "no", NEW h \in Handlers, MonitorPoll(h)
    PROVE  CrashInv'
<1> USE DEF CrashInv, MonitorPoll, objects, signals
<1>1. TypeOK'
  BY DEF TypeOK
<1>2. ConstructedInv'
  BY DEF ConstructedInv, Current
<1>3. FollowInv'
  <2>1. SoleLogger' \/ overlapped'
    BY DEF FollowInv, SoleLogger, Current
  <2>2. SoleMonitor' \/ overlapped'
    BY DEF TypeOK, FollowInv, SoleMonitor, Current, Running
  <2> QED
    BY <2>1, <2>2 DEF FollowInv
<1>4. SignalInv'
  BY DEF SignalInv
<1>5. NoTerminate'
  BY DEF NoTerminate
<1> QED
  BY <1>1, <1>2, <1>3, <1>4, <1>5

\* The callback runs to its end.
LEMMA MonitorFlushInv ==
    ASSUME CrashInv, ended = "no", NEW h \in Handlers, MonitorFlush(h)
    PROVE  CrashInv'
<1> USE DEF CrashInv, MonitorFlush, objects, statics, signals
<1>1. TypeOK'
  BY DEF TypeOK
<1>2. ConstructedInv'
  BY DEF ConstructedInv, Current
<1>3. FollowInv'
  <2>1. SoleLogger' \/ overlapped'
    BY DEF FollowInv, SoleLogger, Current
  <2>2. SoleMonitor' \/ overlapped'
    BY DEF TypeOK, FollowInv, SoleMonitor, Current, Running
  <2> QED
    BY <2>1, <2>2 DEF FollowInv
<1>4. SignalInv'
  BY DEF SignalInv
<1>5. NoTerminate'
  BY DEF NoTerminate
<1> QED
  BY <1>1, <1>2, <1>3, <1>4, <1>5

\* A thread faults; a signal with SIG_DFL ends the process.
LEMMA FaultInv ==
    ASSUME CrashInv, ended = "no", NEW t \in Threads, Fault(t)
    PROVE  CrashInv'
<1> USE DEF CrashInv, Fault, objects, monitors, statics, Deliver
<1>1. TypeOK'
  BY DEF TypeOK
<1>2. ConstructedInv'
  BY DEF ConstructedInv, Current
<1>3. FollowInv'
  <2>1. SoleLogger' \/ overlapped'
    BY DEF FollowInv, SoleLogger, Current
  <2>2. SoleMonitor' \/ overlapped'
    BY DEF FollowInv, SoleMonitor, Current, Running
  <2> QED
    BY <2>1, <2>2 DEF FollowInv
<1>4. SignalInv'
  BY DEF TypeOK, SignalInv
<1>5. NoTerminate'
  BY DEF NoTerminate
<1> QED
  BY <1>1, <1>2, <1>3, <1>4, <1>5

\* signalHandler ignores the signal for the time it runs.
LEMMA SetIgnoreInv ==
    ASSUME CrashInv, ended = "no", NEW t \in Threads, SetIgnore(t)
    PROVE  CrashInv'
<1> USE DEF CrashInv, SetIgnore, objects, monitors, statics
<1>1. TypeOK'
  BY DEF TypeOK
<1>2. ConstructedInv'
  BY DEF ConstructedInv, Current
<1>3. FollowInv'
  <2>1. SoleLogger' \/ overlapped'
    BY DEF FollowInv, SoleLogger, Current
  <2>2. SoleMonitor' \/ overlapped'
    BY DEF FollowInv, SoleMonitor, Current, Running
  <2> QED
    BY <2>1, <2>2 DEF FollowInv
<1>4. SignalInv'
  BY DEF TypeOK, SignalInv
<1>5. NoTerminate'
  BY DEF NoTerminate
<1> QED
  BY <1>1, <1>2, <1>3, <1>4, <1>5

\* signalHandler leaves its request to the monitor.
LEMMA RequestInv ==
    ASSUME CrashInv, ended = "no", NEW t \in Threads, Request(t)
    PROVE  CrashInv'
<1> USE DEF CrashInv, Request, objects, monitors
<1>1. TypeOK'
  BY DEF TypeOK
<1>2. ConstructedInv'
  BY DEF ConstructedInv, Current
<1>3. FollowInv'
  <2>1. SoleLogger' \/ overlapped'
    BY DEF FollowInv, SoleLogger, Current
  <2>2. SoleMonitor' \/ overlapped'
    BY DEF FollowInv, SoleMonitor, Current, Running
  <2> QED
    BY <2>1, <2>2 DEF FollowInv
<1>4. SignalInv'
  BY DEF SignalInv
<1>5. NoTerminate'
  BY DEF NoTerminate
<1> QED
  BY <1>1, <1>2, <1>3, <1>4, <1>5

\* signalHandler restores SIG_DFL; another thread may still be on its way to it.
LEMMA SetDefaultInv ==
    ASSUME CrashInv, ended = "no", NEW t \in Threads, SetDefault(t)
    PROVE  CrashInv'
<1> USE DEF CrashInv, SetDefault, objects, monitors, statics
<1>1. TypeOK'
  BY DEF TypeOK
<1>2. ConstructedInv'
  BY DEF ConstructedInv, Current
<1>3. FollowInv'
  <2>1. SoleLogger' \/ overlapped'
    BY DEF FollowInv, SoleLogger, Current
  <2>2. SoleMonitor' \/ overlapped'
    BY DEF FollowInv, SoleMonitor, Current, Running
  <2> QED
    BY <2>1, <2>2 DEF FollowInv
<1>4. SignalInv'
  BY DEF SignalInv
<1>5. NoTerminate'
  BY DEF NoTerminate
<1> QED
  BY <1>1, <1>2, <1>3, <1>4, <1>5

\* signalHandler raises the signal again.
LEMMA RaiseInv ==
    ASSUME CrashInv, ended = "no", NEW t \in Threads, Raise(t)
    PROVE  CrashInv'
<1> USE DEF CrashInv, Raise, objects, monitors, statics, Deliver
<1>1. TypeOK'
  BY DEF TypeOK
<1>2. ConstructedInv'
  BY DEF ConstructedInv, Current
<1>3. FollowInv'
  <2>1. SoleLogger' \/ overlapped'
    BY DEF FollowInv, SoleLogger, Current
  <2>2. SoleMonitor' \/ overlapped'
    BY DEF FollowInv, SoleMonitor, Current, Running
  <2> QED
    BY <2>1, <2>2 DEF FollowInv
<1>4. SignalInv'
  BY DEF TypeOK, SignalInv
<1>5. NoTerminate'
  BY DEF NoTerminate
<1> QED
  BY <1>1, <1>2, <1>3, <1>4, <1>5

-------------------------------------------------------------------------------
(* The invariant holds.                                                    *)

\* A process with no logger satisfies the invariant.
THEOREM CrashInvInit == Init => CrashInv
<1> SUFFICES ASSUME Init PROVE CrashInv
  OBVIOUS
<1> USE DEF Init
<1>1. TypeOK
  <2>1. 0 \in 0 .. MaxBuilds /\ 0 \in 0 .. builds
    BY CrashBoundAssumption
  <2>2. buffers \in [Loggers -> 0 .. builds] /\ slot \in [Loggers -> {0, 1}]
    BY <2>1
  <2> QED
    BY <2>1, <2>2 DEF TypeOK
<1>2. ConstructedInv /\ SignalInv /\ NoTerminate
  BY DEF ConstructedInv, SignalInv, NoTerminate, Installed
<1>3. FollowInv
  BY DEF FollowInv, SoleLogger, SoleMonitor, Marked, Monitored, Installed, Ending
<1> QED
  BY <1>1, <1>2, <1>3 DEF CrashInv

\* Every step keeps it, whatever the order in which loggers are made and destroyed.
THEOREM CrashInvStep == CrashInv /\ [Next]_vars => CrashInv'
<1> SUFFICES ASSUME CrashInv, [Next]_vars PROVE CrashInv'
  OBVIOUS
<1>1. ASSUME ended = "no", NEW l \in Loggers, LoggerCall(l) \/ LoggerStep(l) PROVE CrashInv'
  BY <1>1, BuildInv, DeinitializeInv, DestroyInv, ConstructInv, InstallInv,
     StartMonitorInv, OpenInv, SetFlushCallbackInv, CleanupInv, UninstallInv, JoinInv,
     DropInv, FreeInv
  DEF LoggerCall, LoggerStep
<1>2. ASSUME ended = "no", NEW h \in Handlers, MonitorStep(h) PROVE CrashInv'
  BY <1>2, MonitorTestInv, MonitorPollInv, MonitorFlushInv DEF MonitorStep
<1>3. ASSUME ended = "no", NEW t \in Threads, Fault(t) \/ HandlerStep(t) PROVE CrashInv'
  BY <1>3, FaultInv, SetIgnoreInv, RequestInv, SetDefaultInv, RaiseInv DEF HandlerStep
<1>4. CASE UNCHANGED vars
  BY <1>4
  DEF vars, objects, monitors, statics, signals, CrashInv, TypeOK, ConstructedInv,
     FollowInv, SoleLogger, SoleMonitor, SignalInv, NoTerminate, Current, Running
<1> QED
  BY <1>1, <1>2, <1>3, <1>4 DEF Next

\* The invariant holds in every reachable state.
THEOREM CrashInvariant == Spec => []CrashInv
<1> QED
  BY CrashInvInit, CrashInvStep, PTL DEF Spec

-------------------------------------------------------------------------------
(* What follows from it.                                                   *)

\* Every variable keeps its type, and only a handler that exists has a monitor.
THEOREM TypeCorrect == Spec => []TypeOK
<1>1. CrashInv => TypeOK
  BY DEF CrashInv
<1> QED
  BY <1>1, CrashInvariant, PTL

\* As long as loggers follow one another, no destructor of a std::thread ends the
\* process (crash_handler.cpp: stopMonitor joins before monitor_thread_ goes).
THEOREM NoDestructorTerminates == Spec => []NoTerminate
<1>1. CrashInv => NoTerminate
  BY DEF CrashInv
<1> QED
  BY <1>1, CrashInvariant, PTL

\* As long as loggers follow one another, a ready logger has its handler installed, a
\* monitor that has not been told to stop, and its own callback.
THEOREM ReadyLoggersAreProtected == Spec => []ReadyIsProtected
<1>1. CrashInv => ReadyIsProtected
  BY DEF CrashInv, FollowInv, SoleMonitor, SignalInv, Monitored, Installed, ReadyIsProtected
<1> QED
  BY <1>1, CrashInvariant, PTL

\* As long as loggers follow one another, no step takes the buffers from a logger whose
\* emergency flush is running: the handler, and with it the monitor, goes first.
THEOREM FlushKeepsItsBuffers == Spec => BuffersOutliveFlush
<1> DEFINE Outlived ==
      \A l \in Loggers :
        buffers[l] # 0 /\ buffers'[l] # buffers[l] /\ ~overlapped' =>
          \A h \in Handlers : target[h] # l
<1>1. CrashInv /\ [Next]_vars => [Outlived]_vars
  <2> SUFFICES ASSUME CrashInv, Next, NEW l \in Loggers, NEW h \in Handlers,
                      buffers'[l] # buffers[l], ~overlapped'
               PROVE  target[h] # l
    OBVIOUS
  <2>1. PICK k \in Loggers : Build(k) \/ Free(k)
    BY DEF Next, LoggerCall, LoggerStep, Construct, Install, StartMonitor, Open,
       SetFlushCallback, Deinitialize, Destroy, Cleanup, Uninstall, Join, Drop,
       MonitorStep, MonitorTest, MonitorPoll, MonitorFlush, HandlerStep, Fault,
       SetIgnore, Request, SetDefault, Raise, Deliver, objects
  <2>2. ~overlapped /\ \A m \in Loggers : pc[m] \in {"none", "free"}
    <3>1. CASE Build(k)
      BY <3>1 DEF Build
    <3>2. CASE Free(k)
      BY <3>2 DEF Free, Goto, CrashInv, FollowInv, SoleLogger
    <3> QED
      BY <2>1, <3>1, <3>2
  <2>3. h \notin handlers
    BY <2>2 DEF CrashInv, FollowInv, SoleLogger, Handlers
  <2> QED
    BY <2>2, <2>3, CrashLoggersAssumption DEF CrashInv, FollowInv, SoleMonitor
<1>2. Spec => [][Outlived]_vars
  BY <1>1, CrashInvariant, PTL DEF Spec
<1> QED
  BY <1>2 DEF BuffersOutliveFlush
===============================================================================
