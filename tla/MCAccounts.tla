------------------------------ MODULE MCAccounts ------------------------------
(* Small instances of Accounts for TLC.                                    *)
EXTENDS Accounts, TLC

\* Requests and names are interchangeable (safety runs only).
Symmetry == Permutations(Request) \cup Permutations(User)
=============================================================================
