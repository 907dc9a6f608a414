----------------------------- MODULE MCBufferPool -----------------------------
(* Model values and symmetry for BufferPool. *)
EXTENDS BufferPool

Symmetry == Permutations(Tables)
===============================================================================
