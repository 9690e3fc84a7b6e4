--------------------------- MODULE MCKeybindings ---------------------------
(* Keybindings with two keys of the table, of which the first key of the   *)
(* keyboard may look up either, and the second key none or one.            *)
EXTENDS Keybindings, TLC

CONSTANTS k1, k2, super_a, super_b, close, cycle

On(key, command, again) == [key |-> key, command |-> command, repeat |-> again]

\* No bindings; one that repeats; the same key twice, the second time without
\* repeat; both keys.
MCConfigs ==
    {<< >>,
     <<On(super_a, cycle, TRUE)>>,
     <<On(super_a, cycle, TRUE), On(super_a, close, FALSE)>>,
     <<On(super_a, close, FALSE), On(super_b, cycle, TRUE)>>}

MCLookups == k1 :> {<<super_a, super_b>>, <<super_b>>} @@ k2 :> {<< >>, <<super_a>>}

Symmetry == Permutations(Entries) \cup Permutations(Keyboards)
=============================================================================
