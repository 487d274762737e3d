----------------------------- MODULE MCSharedDb -----------------------------
(* SharedDb on small sets of threads: the model values a .cfg builds them of. *)
EXTENDS SharedDb
CONSTANTS s1, s2, w1, p1, p2, r1
=============================================================================
