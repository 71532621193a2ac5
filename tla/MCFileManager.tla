---------------------------- MODULE MCFileManager ----------------------------
(* Small instances of FileManager for TLC.                                  *)
EXTENDS FileManager, TLC

\* The processes are interchangeable.
ProcessSymmetry == Permutations(Processes)
===============================================================================
