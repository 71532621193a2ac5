------------------------------ MODULE MCArchive ------------------------------
(* Small instances of Archive for TLC.                                      *)
EXTENDS Archive, TLC
===============================================================================
