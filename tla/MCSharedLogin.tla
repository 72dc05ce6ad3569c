--------------------------- MODULE MCSharedLogin ---------------------------
(* A small instance of SharedLogin for TLC.                                *)
EXTENDS SharedLogin, TLC

\* Requests of members are alike, and so are managers.
Alike == Permutations(Members) \cup Permutations(Managers)
=============================================================================
