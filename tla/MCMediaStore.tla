----------------------------- MODULE MCMediaStore -----------------------------
(* Small instances of MediaStore for TLC.                                  *)
EXTENDS MediaStore, TLC

\* Requests, ids, inodes and workers are interchangeable (safety runs only).
Symmetry == Permutations(Request) \cup Permutations(Gif) \cup Permutations(Inode)
              \cup Permutations(Worker)
=============================================================================
