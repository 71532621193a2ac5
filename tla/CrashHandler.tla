------------------------------ MODULE CrashHandler ------------------------------
(***************************************************************************)
(* src/src/src/crash_handler.cpp on Windows in one process, with the part  *)
(* of src/src/src/async_logger.cpp that makes and destroys the handlers.   *)
(* Each logger is created, closed, initialized again and destroyed by a    *)
(* thread of its own; other threads raise a handled signal at any time.    *)
(* The handled signals are treated alike; the model follows one of them.   *)
(*                                                                         *)
(* External: the C runtime sets a signal's disposition to SIG_DFL before   *)
(* it calls the handler; raise() under SIG_DFL ends the process; the       *)
(* destructor of a joinable std::thread calls std::terminate.              *)
(***************************************************************************)
EXTENDS Naturals, FiniteSets

CONSTANTS Loggers,      \* AsyncLogger objects
          Threads,      \* threads that raise a signal
          MaxBuilds,    \* bound: calls of initializeComponents
          NoLogger      \* the empty flush_callback_

ASSUME CrashLoggersAssumption == NoLogger \notin Loggers
ASSUME CrashBoundAssumption == MaxBuilds \in Nat

VARIABLES
  pc,           \* where each logger is between "none" (no object) and "ready"
  leaving,      \* the loggers that are in ~AsyncLogger
  slot,         \* which of its two possible handlers is crash_handler_
  buffers,      \* the call of initializeComponents that made its buffers, or 0
  builds,       \* how often initializeComponents has been called
  handlers,     \* the CrashHandler objects that exist
  monitor,      \* where each handler's monitor_thread_ is; not joinable: "none"
  stop,         \* stop_monitor_
  target,       \* the logger whose emergencyFlush a monitor is running
  initialized, requested, callback,     \* the static members
  disposition,  \* of the signal
  at,           \* where each thread is in signalHandler
  ended,        \* how the process has ended, if it has
  overlapped,   \* history: a logger was built while one, or itself, existed
  flushed       \* history: an emergency flush has been completed

objects == <<pc, leaving, slot, buffers, builds, handlers, overlapped>>
monitors == <<monitor, stop, target, flushed>>
statics == <<initialized, requested, callback>>
signals == <<disposition, at>>
vars == <<objects, monitors, statics, signals, ended>>

Handlers == Loggers \X {0, 1}
Current(l) == <<l, slot[l]>>
Replaced(l) == <<l, 1 - slot[l]>>

Init ==
    /\ pc = [l \in Loggers |-> "none"] /\ leaving = {}
    /\ slot = [l \in Loggers |-> 0] /\ buffers = [l \in Loggers |-> 0] /\ builds = 0
    /\ handlers = {} /\ overlapped = FALSE
    /\ monitor = [h \in Handlers |-> "none"] /\ stop = [h \in Handlers |-> FALSE]
    /\ target = [h \in Handlers |-> NoLogger] /\ flushed = FALSE
    /\ initialized = FALSE /\ requested = FALSE /\ callback = NoLogger
    /\ disposition = "default" /\ at = [t \in Threads |-> "run"] /\ ended = "no"

Goto(l, here, there) ==
    /\ pc[l] = here
    /\ pc' = [pc EXCEPT ![l] = there]

-------------------------------------------------------------------------------
(* create(), and initialize() after deinitialize().                        *)

\* initializeComponents replaces the file manager and the buffers first.
Build(l) ==
    /\ builds < MaxBuilds
    /\ Goto(l, "none", "construct") \/ Goto(l, "closed", "construct")
    /\ builds' = builds + 1
    /\ buffers' = [buffers EXCEPT ![l] = builds']
    /\ overlapped' = (overlapped \/ \E k \in Loggers : pc[k] # "none")
    /\ UNCHANGED <<leaving, slot, handlers, monitors, statics, signals, ended>>

\* make_unique has the new handler before crash_handler_ lets the old one go.
AfterConstruct(l, current) ==
    IF <<l, 1 - current>> \in handlers THEN "cleanup" ELSE "open"

\* Mutant: the new handler is not stored in crash_handler_.
ConstructUnassigned(l) ==
    /\ Goto(l, "construct",
            IF initialized THEN AfterConstruct(l, 1 - slot[l]) ELSE "install")
    /\ handlers' = handlers \cup {Replaced(l)}
    /\ initialized' = TRUE
    /\ UNCHANGED <<leaving, slot, buffers, builds, overlapped,
                   monitors, requested, callback, signals, ended>>

\* CrashHandler(): the first handler to find initialized_ false installs.
Construct(l) ==
    /\ Goto(l, "construct",
            IF initialized THEN AfterConstruct(l, 1 - slot[l]) ELSE "install")
    /\ slot' = [slot EXCEPT ![l] = 1 - @]
    /\ handlers' = handlers \cup {Replaced(l)}
    /\ initialized' = TRUE
    /\ UNCHANGED <<leaving, buffers, builds, overlapped,
                   monitors, requested, callback, signals, ended>>

Install(l) ==
    /\ Goto(l, "install", "start")
    /\ disposition' = "handler"
    /\ UNCHANGED <<leaving, slot, buffers, builds, handlers, overlapped,
                   monitors, statics, at, ended>>

StartMonitor(l) ==
    /\ Goto(l, "start", AfterConstruct(l, slot[l]))
    /\ monitor' = [monitor EXCEPT ![Current(l)] = "test"]
    /\ stop' = [stop EXCEPT ![Current(l)] = FALSE]
    /\ UNCHANGED <<leaving, slot, buffers, builds, handlers, overlapped,
                   target, flushed, statics, signals, ended>>

\* FileManager::Initialize; after a failure create() destroys the logger.
Open(l) ==
    /\ Goto(l, "open", "callback") \/ Goto(l, "open", "closed")
    /\ UNCHANGED <<leaving, slot, buffers, builds, handlers, overlapped,
                   monitors, statics, signals, ended>>

\* flush_callback_ is replaced without a lock: replacing it under a monitor that
\* is calling it may end the process.  Then the writer thread starts.
SetFlushCallback(l) ==
    /\ Goto(l, "callback", "ready")
    /\ callback' = l
    /\ ended' \in {"no"} \cup {"fault" : h \in {g \in Handlers : monitor[g] = "call"}}
    /\ UNCHANGED <<leaving, slot, buffers, builds, handlers, overlapped,
                   monitors, initialized, requested, signals>>

Deinitialize(l) ==
    /\ Goto(l, "ready", "closed")
    /\ UNCHANGED <<leaving, slot, buffers, builds, handlers, overlapped,
                   monitors, statics, signals, ended>>

-------------------------------------------------------------------------------
(* ~AsyncLogger: the handler goes before the buffers; ~CrashHandler.       *)

\* Mutant: the members are declared, and so destroyed, in another order.
DestroyBuffersFirst(l) ==
    /\ Goto(l, "ready", "cleanup") \/ Goto(l, "closed", "cleanup")
    /\ leaving' = leaving \cup {l}
    /\ buffers' = [buffers EXCEPT ![l] = 0]
    /\ UNCHANGED <<slot, builds, handlers, overlapped, monitors, statics, signals, ended>>

Destroy(l) ==
    /\ Goto(l, "ready", "cleanup") \/ Goto(l, "closed", "cleanup")
    /\ leaving' = leaving \cup {l}
    /\ UNCHANGED <<slot, buffers, builds, handlers, overlapped,
                   monitors, statics, signals, ended>>

\* The handler whose destructor runs.
Dying(l) == IF l \in leaving THEN Current(l) ELSE Replaced(l)

\* Mutant: the exchange is a test that leaves initialized_ set.
CleanupKeepsFlag(l) ==
    /\ Goto(l, "cleanup", IF initialized THEN "uninstall" ELSE "drop")
    /\ UNCHANGED <<leaving, slot, buffers, builds, handlers, overlapped,
                   monitors, statics, signals, ended>>

\* Any handler passes if initialized_ is set, whichever installed.
Cleanup(l) ==
    /\ Goto(l, "cleanup", IF initialized THEN "uninstall" ELSE "drop")
    /\ initialized' = FALSE
    /\ UNCHANGED <<leaving, slot, buffers, builds, handlers, overlapped,
                   monitors, requested, callback, signals, ended>>

\* Mutant: stop_monitor_ is not set.
UninstallOnly(l) ==
    /\ Goto(l, "uninstall", "join")
    /\ disposition' = "default"
    /\ UNCHANGED <<leaving, slot, buffers, builds, handlers, overlapped,
                   monitors, statics, at, ended>>

Uninstall(l) ==
    /\ Goto(l, "uninstall", "join")
    /\ disposition' = "default"
    /\ stop' = [stop EXCEPT ![Dying(l)] = TRUE]
    /\ UNCHANGED <<leaving, slot, buffers, builds, handlers, overlapped,
                   monitor, target, flushed, statics, at, ended>>

\* Mutant: stopMonitor does not join.
JoinForgotten(l) ==
    /\ Goto(l, "join", "drop")
    /\ UNCHANGED <<leaving, slot, buffers, builds, handlers, overlapped,
                   monitors, statics, signals, ended>>

Join(l) ==
    /\ monitor[Dying(l)] \in {"none", "exited"}
    /\ Goto(l, "join", "drop")
    /\ monitor' = [monitor EXCEPT ![Dying(l)] = "none"]
    /\ UNCHANGED <<leaving, slot, buffers, builds, handlers, overlapped,
                   stop, target, flushed, statics, signals, ended>>

\* The members go; std::terminate ends in abort(), whatever its handler does.
Drop(l) ==
    /\ Goto(l, "drop", IF l \in leaving THEN "free" ELSE "open")
    /\ handlers' = handlers \ {Dying(l)}
    /\ ended' = IF monitor[Dying(l)] = "none" THEN "no" ELSE "terminate"
    /\ UNCHANGED <<leaving, slot, buffers, builds, overlapped, monitors, statics, signals>>

Free(l) ==
    /\ Goto(l, "free", "none")
    /\ leaving' = leaving \ {l}
    /\ buffers' = [buffers EXCEPT ![l] = 0]
    /\ UNCHANGED <<slot, builds, handlers, overlapped, monitors, statics, signals, ended>>

-------------------------------------------------------------------------------
(* The monitor thread of handler h; its sleep only takes time.             *)

MonitorTest(h) ==
    /\ monitor[h] = "test"
    /\ monitor' = [monitor EXCEPT ![h] = IF stop[h] THEN "exited" ELSE "poll"]
    /\ UNCHANGED <<objects, stop, target, flushed, statics, signals, ended>>

MonitorPoll(h) ==
    LET call == requested /\ callback # NoLogger
    IN  /\ monitor[h] = "poll"
        /\ monitor' = [monitor EXCEPT ![h] = IF call THEN "call" ELSE "test"]
        /\ target' = [target EXCEPT ![h] = IF call THEN callback ELSE NoLogger]
        /\ requested' = FALSE
        /\ UNCHANGED <<objects, stop, flushed, initialized, callback, signals, ended>>

\* AsyncLogger::emergencyFlush; without its buffers it may end the process.
MonitorFlush(h) ==
    /\ monitor[h] = "call"
    /\ monitor' = [monitor EXCEPT ![h] = "test"]
    /\ target' = [target EXCEPT ![h] = NoLogger]
    /\ flushed' = TRUE
    /\ ended' \in IF buffers[target[h]] = 0 THEN {"no", "fault"} ELSE {"no"}
    /\ UNCHANGED <<objects, stop, statics, signals>>

-------------------------------------------------------------------------------
(* signalHandler on thread t.                                              *)

\* The signal is delivered; ignored, it has no effect.
Deliver(t) ==
    /\ at' = [at EXCEPT ![t] = IF disposition = "handler" THEN "ignore" ELSE "run"]
    /\ disposition' = IF disposition = "ignore" THEN "ignore" ELSE "default"
    /\ UNCHANGED <<objects, monitors, statics>>

Fault(t) ==
    /\ at[t] = "run" /\ disposition # "ignore"
    /\ Deliver(t)
    /\ ended' = IF disposition = "default" THEN "unhandled" ELSE "no"

SetIgnore(t) ==
    /\ at[t] = "ignore"
    /\ at' = [at EXCEPT ![t] = "request"]
    /\ disposition' = "ignore"
    /\ UNCHANGED <<objects, monitors, statics, ended>>

Request(t) ==
    /\ at[t] = "request"
    /\ at' = [at EXCEPT ![t] = "default"]
    /\ requested' = TRUE
    /\ UNCHANGED <<objects, monitors, initialized, callback, disposition, ended>>

\* Mutant: the signal stays ignored.
SetDefaultForgotten(t) ==
    /\ at[t] = "default"
    /\ at' = [at EXCEPT ![t] = "raise"]
    /\ UNCHANGED <<objects, monitors, statics, disposition, ended>>

SetDefault(t) ==
    /\ at[t] = "default"
    /\ at' = [at EXCEPT ![t] = "raise"]
    /\ disposition' = "default"
    /\ UNCHANGED <<objects, monitors, statics, ended>>

Raise(t) ==
    /\ at[t] = "raise"
    /\ Deliver(t)
    /\ ended' = IF disposition = "default" THEN "raised" ELSE "no"

-------------------------------------------------------------------------------
LoggerCall(l) == Build(l) \/ Deinitialize(l) \/ Destroy(l)
LoggerStep(l) ==
    \/ Construct(l) \/ Install(l) \/ StartMonitor(l) \/ Open(l) \/ SetFlushCallback(l)
    \/ Cleanup(l) \/ Uninstall(l) \/ Join(l) \/ Drop(l) \/ Free(l)
MonitorStep(h) == MonitorTest(h) \/ MonitorPoll(h) \/ MonitorFlush(h)
HandlerStep(t) == SetIgnore(t) \/ Request(t) \/ SetDefault(t) \/ Raise(t)

Next ==
    /\ ended = "no"
    /\ \/ \E l \in Loggers : LoggerCall(l) \/ LoggerStep(l)
       \/ \E h \in Handlers : MonitorStep(h)
       \/ \E t \in Threads : Fault(t) \/ HandlerStep(t)

Spec == Init /\ [][Next]_vars

\* Every thread that can run runs; nobody is obliged to make a call or to fault.
FairSpec ==
    /\ Spec
    /\ \A l \in Loggers : WF_vars(ended = "no" /\ LoggerStep(l))
    /\ \A h \in Handlers : WF_vars(ended = "no" /\ MonitorStep(h))
    /\ \A t \in Threads : WF_vars(ended = "no" /\ HandlerStep(t))

-------------------------------------------------------------------------------
(* Properties.                                                             *)

Running(h) == monitor[h] \notin {"none", "exited"}

\* Every variable has its type; only a handler that exists has a monitor as long
\* as the process runs.
TypeOK ==
    /\ pc \in [Loggers -> {"none", "construct", "install", "start", "open", "callback",
                           "ready", "closed", "cleanup", "uninstall", "join", "drop",
                           "free"}]
    /\ leaving \subseteq Loggers /\ slot \in [Loggers -> {0, 1}]
    /\ buffers \in [Loggers -> 0 .. builds] /\ builds \in 0 .. MaxBuilds
    /\ handlers \subseteq Handlers
    /\ monitor \in [Handlers -> {"none", "test", "poll", "call", "exited"}]
    /\ stop \in [Handlers -> BOOLEAN] /\ target \in [Handlers -> Loggers \cup {NoLogger}]
    /\ {initialized, requested, overlapped, flushed} \subseteq BOOLEAN
    /\ callback \in Loggers \cup {NoLogger}
    /\ disposition \in {"default", "handler", "ignore"}
    /\ at \in [Threads -> {"run", "ignore", "request", "default", "raise"}]
    /\ ended \in {"no", "unhandled", "raised", "terminate", "fault"}
    /\ ended = "no" => \A h \in Handlers : monitor[h] # "none" => h \in handlers

\* "re-raise the signal so process terminates as expected" (crash_handler.cpp:75):
\* whichever threads are in the handler at once and whoever installs or
\* uninstalls it meanwhile, a handled signal ends the process.
SignalEndsProcess == \A t \in Threads : (at[t] # "run") ~> (ended # "no")

\* ~AsyncLogger returns: the monitor it joins sees stop_monitor_, even if it is
\* in the callback (cleanupHandlers, stopMonitor).
DestroyReturns == \A l \in Loggers : (l \in leaving) ~> (l \notin leaving \/ ended # "no")

\* As long as loggers follow one another and none is initialized twice, a ready
\* logger is protected: unless a thread is in the handler already, a signal will reach
\* the handler, a monitor polls the flag, and the callback is this logger's.
ReadyIsProtected ==
    \A l \in Loggers :
      pc[l] = "ready" /\ ended = "no" /\ ~overlapped =>
        /\ Running(Current(l)) /\ ~stop[Current(l)] /\ callback = l
        /\ (\A t \in Threads : at[t] = "run") => disposition = "handler"

\* As long as loggers follow one another, no destructor meets a joinable monitor.
NoTerminate == ended = "terminate" => overlapped

\* As long as loggers follow one another, ~AsyncLogger never takes the buffers
\* from an emergency flush that is running (the order of AsyncLogger's members).
BuffersOutliveFlush ==
    [][\A l \in Loggers :
          buffers[l] # 0 /\ buffers'[l] # buffers[l] /\ ~overlapped' =>
            \A h \in Handlers : target[h] # l]_vars

\* crash_handler.h:15 says "Registers signal handlers and triggers callback on
\* crash": when the re-raised signal ends the process, a flush has been done.
FlushedBeforeEnd == ended = "raised" => flushed

\* async_logger.h:32 says "Destructor - ensures proper cleanup": in whatever order
\* loggers are made and destroyed, a destructor does not end the process.
NeverTerminates == ended # "terminate"

\* A logger that initialize() has made ready, for the first time or again, is
\* protected against the next signal (crash_handler.h:15).
AlwaysProtected ==
    \A l \in Loggers :
      pc[l] = "ready" /\ ended = "no" /\ (\A t \in Threads : at[t] = "run")
        => disposition = "handler"
===============================================================================
