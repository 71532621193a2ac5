----------------------------- MODULE MCRingBuffer -----------------------------
(* Small instances of RingBuffer for TLC.                                   *)
EXTENDS RingBuffer, TLC

\* The threads of one kind and the entries are interchangeable.
RingSymmetry ==
    Permutations(Producers) \cup Permutations(Consumers) \cup Permutations(Entries)
===============================================================================
