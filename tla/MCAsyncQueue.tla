----------------------------- MODULE MCAsyncQueue -----------------------------
(* Small instances of AsyncQueue for TLC.                                   *)
EXTENDS AsyncQueue, TLC

\* The threads of one kind and the entries are interchangeable.
QueueSymmetry ==
    Permutations(Producers) \cup Permutations(Consumers) \cup Permutations(Entries)
===============================================================================
