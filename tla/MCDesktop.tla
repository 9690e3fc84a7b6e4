----------------------------- MODULE MCDesktop -----------------------------
(* Desktop on a small set of windows.  The windows are interchangeable. *)
EXTENDS Desktop

Symmetry == Permutations(Windows)
=============================================================================
