--------------------------- MODULE MCConsoleSession ---------------------------
(* Small instances of ConsoleSession for TLC.                              *)
EXTENDS ConsoleSession, TLC

\* Requests, devices and tokens are interchangeable.
Symmetry == Permutations(Request) \cup Permutations(Device) \cup Permutations(Token)
=============================================================================
