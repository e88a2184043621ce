--------------------------- MODULE MCDeviceSessions ---------------------------
(* Small instances of DeviceSessions for TLC.                              *)
EXTENDS DeviceSessions, TLC

\* Requests, devices and tokens are interchangeable (safety runs only).
Symmetry == Permutations(Request) \cup Permutations(Device) \cup Permutations(Token)
=============================================================================
