----------------------------- MODULE MCCrashHandler -----------------------------
(* Small instances of CrashHandler for TLC.                                 *)
EXTENDS CrashHandler, TLC

\* The loggers and the threads that raise signals are interchangeable.
CrashSymmetry == Permutations(Loggers) \cup Permutations(Threads)
===============================================================================
