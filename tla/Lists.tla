--------------------------------- MODULE Lists ---------------------------------
(***************************************************************************)
(* The doubly linked lists of libwayland (wl_list) in which the compositor *)
(* keeps windows and outputs: the head comes first, and an element is      *)
(* linked in at the head (Cons).                                           *)
(***************************************************************************)
EXTENDS Naturals, Sequences, SequencesExt

\* wl_list_remove, where w may be in this list or in another.
Unlink(s, w) ==
    IF w \in ToSet(s) THEN RemoveAt(s, CHOOSE i \in DOMAIN s : s[i] = w) ELSE s
=============================================================================
