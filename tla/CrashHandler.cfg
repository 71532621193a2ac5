\* Two loggers, built twice in all, two threads that raise the signal.
CONSTANTS
  Loggers = {l1, l2}
  Threads = {t1, t2}
  MaxBuilds = 2
  NoLogger = NoLogger
CHECK_DEADLOCK FALSE
SPECIFICATION FairSpec
INVARIANTS TypeOK ReadyIsProtected NoTerminate
PROPERTIES SignalEndsProcess DestroyReturns BuffersOutliveFlush
