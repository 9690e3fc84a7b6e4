------------------------------- MODULE Layout -------------------------------
(***************************************************************************)
(* The layout tree of one workspace (src/workspace.c).                     *)
(*                                                                         *)
(* A node is known by the path that leads to it from the root: the root is *)
(* << >>, the first and second child of p are p \o <<1>> and p \o <<2>>.   *)
(* A node without children is a leaf and carries a window; the root node   *)
(* is embedded in struct buzzay_workspace, every other node is on the      *)
(* heap.  Of struct layout_node the model keeps the children, toplevel and *)
(* is_root; Placement adds box and split_type.                             *)
(*                                                                         *)
(* is_root is kept because the code's deallocation depends on it: it is    *)
(* copied with the rest of a node, both when a leaf is split and when the  *)
(* surviving child of the root is copied over the root.                    *)
(***************************************************************************)
EXTENDS Naturals, Sequences, FiniteSets, Functions, SequencesExt

CONSTANTS Windows,      \* the buzzay_toplevel addresses
          NoWindow,     \* the null toplevel
          MaxLeaves     \* bound on the leaves of the tree

ASSUME LayoutAssumption ==
    /\ NoWindow \notin Windows
    /\ MaxLeaves \in Nat \ {0}

VARIABLES tree,         \* path -> node
          listed,       \* the windows linked in workspace->toplevels
          aborted       \* free() was called on the embedded root

vars == <<tree, listed, aborted>>

Root == << >>
Node == [window : Windows \cup {NoWindow}, isRoot : BOOLEAN]

----------------------------------------------------------------------------
(* Trees *)

Leaves(t) == {p \in DOMAIN t : p \o <<1>> \notin DOMAIN t}
LeavesOf(t, w) == {p \in Leaves(t) : t[p].window = w}
LeafWindows(t) == {t[p].window : p \in Leaves(t)} \ {NoWindow}
IsEmptyTree(t) == Root \in Leaves(t) /\ t[Root].window = NoWindow

\* p is visited before q by a search that descends into first children first.
Before(p, q) ==
    \E i \in DOMAIN p \cap DOMAIN q :
        /\ p[i] < q[i]
        /\ \A j \in 1..(i - 1) : p[j] = q[j]

\* The leaf the search for w returns, where there is one.
FirstLeafOf(t, w) ==
    CHOOSE p \in LeavesOf(t, w) : \A q \in LeavesOf(t, w) \ {p} : Before(p, q)

FindTargetNode(t, w) ==
    IF LeavesOf(t, w) = {} THEN Root ELSE FirstLeafOf(t, w)

----------------------------------------------------------------------------
(* Inserting and removing a window *)

\* Mutant of SplitNode: the target goes on pointing to its window.
SplitKeepsWindow(t, p, w) ==
    LET Tail1(q)  == SubSeq(q, Len(p) + 1, Len(q))
        Below     == {q \in DOMAIN t : IsPrefix(p, q)}
        Pulled(r) == p \o SubSeq(r, Len(p) + 2, Len(r))
    IN  [r \in DOMAIN t \cup {p \o <<2>>} \cup {p \o <<1>> \o Tail1(q) : q \in Below} |->
            CASE r = p                   -> t[p]
              [] r = p \o <<2>>          -> [window |-> w, isRoot |-> FALSE]
              [] IsPrefix(p \o <<1>>, r) -> t[Pulled(r)]
              [] OTHER                   -> t[r]]

\* The target keeps its place and becomes a split: a copy of it (with its
\* subtree and its is_root) is the first child, the new leaf the second.
SplitNode(t, p, w) ==
    LET first    == p \o <<1>>
        second   == p \o <<2>>
        Below    == {q \in DOMAIN t : IsPrefix(p, q)}
        Tail1(q) == SubSeq(q, Len(p) + 1, Len(q))
        Pulled(r) == p \o SubSeq(r, Len(p) + 2, Len(r))
    IN  [r \in (DOMAIN t \ Below) \cup {p, second} \cup {first \o Tail1(q) : q \in Below} |->
            CASE r = p             -> [t[p] EXCEPT !.window = NoWindow]
              [] r = second        -> [window |-> w, isRoot |-> FALSE]
              [] IsPrefix(first, r) -> t[Pulled(r)]
              [] OTHER             -> t[r]]

\* Mutant of InsertToplevel: the window of the target is replaced first.
InsertOverwrites(t, focused, w) ==
    LET p == FindTargetNode(t, focused)
        o == [t EXCEPT ![p].window = w]
    IN  IF IsEmptyTree(t) THEN o ELSE SplitNode(o, p, w)

\* workspace_insert_toplevel.
InsertToplevel(t, focused, w) ==
    IF IsEmptyTree(t)
    THEN [t EXCEPT ![Root].window = w]
    ELSE SplitNode(t, FindTargetNode(t, focused), w)

\* The nodes that stay when the leaves of w go: the other leaves, and the
\* splits that still have a leaf on either side.
Survivors(t, w) ==
    LET stay     == Leaves(t) \ LeavesOf(t, w)
        Holds(n) == \E q \in stay : IsPrefix(n, q)
    IN  stay \cup {n \in DOMAIN t \ Leaves(t) : Holds(n \o <<1>>) /\ Holds(n \o <<2>>)}

\* Where the kept nodes go: a node loses the steps of its path that were
\* taken at splits that are collapsed.
Collapsed(t, kept) ==
    LET at[n \in DOMAIN t] ==
            IF n = Root THEN Root
            ELSE IF Front(n) \in kept THEN Append(at[Front(n)], Last(n))
            ELSE at[Front(n)]
    IN  at

EmptyRoot(flag) == [p \in {Root} |-> [window |-> NoWindow, isRoot |-> flag]]

\* workspace_remove_toplevel.
RemoveToplevel(t, w) ==
    LET kept == Survivors(t, w)
        at   == Collapsed(t, kept)
    IN  IF kept = {}
        THEN EmptyRoot(t[Root].isRoot)
        ELSE [r \in {at[n] : n \in kept} |-> t[CHOOSE n \in kept : at[n] = r]]

\* remove_node_recursive collapses the root split and frees it, because the
\* flag that should protect it is gone.
FreesRoot(t, w) ==
    /\ Root \notin Leaves(t)
    /\ Root \notin Survivors(t, w)
    /\ ~t[Root].isRoot

----------------------------------------------------------------------------
(* Operations *)

Init ==
    /\ tree = EmptyRoot(TRUE)
    /\ listed = {}
    /\ aborted = FALSE

\* Removal of w, or the end of the process.
Removing(w, next, left) ==
    IF FreesRoot(tree, w)
    THEN /\ aborted' = TRUE
         /\ UNCHANGED <<tree, listed>>
    ELSE /\ tree' = next
         /\ listed' = left
         /\ UNCHANGED aborted

\* A window is mapped into the workspace, or arrives from another one.
\* focused is whatever the workspace remembers as its focused window.
Insert(w, focused) ==
    /\ w \notin listed
    /\ Cardinality(Leaves(tree)) < MaxLeaves
    /\ listed' = listed \cup {w}
    /\ tree' = InsertToplevel(tree, focused, w)
    /\ UNCHANGED aborted

\* The surface is unmapped: the window leaves the list, not the tree.
Unmap(w) ==
    /\ w \in listed
    /\ listed' = listed \ {w}
    /\ UNCHANGED <<tree, aborted>>

\* An unlisted window (unmapped, or never mapped) is destroyed.
Destroy(w) ==
    /\ w \notin listed
    /\ Removing(w, RemoveToplevel(tree, w), listed)

\* Mutant of SendAway: the layout is always reset.
SendAwayResets(w) ==
    /\ w \in listed
    /\ Removing(w, EmptyRoot(TRUE), listed \ {w})

\* The window is sent to another workspace.
SendAway(w) ==
    /\ w \in listed
    /\ Removing(w,
                IF listed = {w} THEN EmptyRoot(TRUE) ELSE RemoveToplevel(tree, w),
                listed \ {w})

\* move-window exchanges the windows of the focused leaf and of another one.
MoveWindow(w, q) ==
    /\ LeavesOf(tree, w) # {}
    /\ LET p == FirstLeafOf(tree, w)
       IN  /\ q # p
           /\ tree' = [tree EXCEPT ![p].window = tree[q].window, ![q].window = w]
    /\ UNCHANGED <<listed, aborted>>

Next ==
    /\ ~aborted
    /\ \E w \in Windows :
        \/ \E focused \in Windows \cup {NoWindow} : Insert(w, focused)
        \/ Unmap(w)
        \/ Destroy(w)
        \/ SendAway(w)
        \/ \E q \in Leaves(tree) : MoveWindow(w, q)

Spec == Init /\ [][Next]_vars
----------------------------------------------------------------------------
(* Properties *)

\* Nodes carry windows and flags, and there is a root.
TypeOK ==
    /\ Root \in DOMAIN tree
    /\ \A p \in DOMAIN tree : tree[p] \in Node
    /\ listed \in SUBSET Windows
    /\ aborted \in BOOLEAN

\* The tree stays a full binary tree: the parent of a node is in the tree, a
\* split has both children and carries no window, and only an empty root is
\* a leaf without a window (src/workspace.c:36-125, insertion and removal).
WellFormedTree ==
    /\ TypeOK
    /\ \A p \in DOMAIN tree \ {Root} : Front(p) \in DOMAIN tree
    /\ \A p \in DOMAIN tree : p \o <<1>> \in DOMAIN tree <=> p \o <<2>> \in DOMAIN tree
    /\ \A p \in DOMAIN tree \ Leaves(tree) : tree[p].window = NoWindow
    /\ IsEmptyTree(tree) \/ \A p \in Leaves(tree) : tree[p].window \in Windows

\* Insertion and removal leave the order of all the other windows alone:
\* whenever the tree changes shape, there is one window such that the leaves of
\* the others correspond before and after the step, in the order in which a
\* search meets them, unless the layout was reset (src/workspace.c:36-125).
Others(t, w) == {p \in Leaves(t) : t[p].window \notin {w, NoWindow}}

SameOrder(t, u, w) ==
    \E f \in Surjection(Others(t, w), Others(u, w)) :
        \A p \in Others(t, w) :
            /\ u[f[p]].window = t[p].window
            /\ \A q \in Others(t, w) : Before(p, q) => Before(f[p], f[q])

OthersKeepOrder ==
    [][DOMAIN tree' # DOMAIN tree =>
        IsEmptyTree(tree') \/ \E w \in Windows : SameOrder(tree, tree', w)]_vars

\* The tree implements the set of tiles the rest of the compositor relies on
\* (src/workspace.c:36-134, src/config.c:496-538).
Tiles == INSTANCE TileSet WITH hosted <- LeafWindows(tree)

ImplementsTileSet == Tiles!Spec

\* The root of the layout is never passed to free(): it is embedded in the
\* workspace, and the is_root guard of src/workspace.c:92 is there to
\* prevent it.
RootNeverFreed == ~aborted
=============================================================================
