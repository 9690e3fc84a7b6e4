---------------------------- MODULE Layout_proofs ----------------------------
(***************************************************************************)
(* Theorems about the layout tree (src/workspace.c), its geometry and the  *)
(* boxes that its nodes keep (src/tiling.c), for any number of windows,    *)
(* any areas and any gaps.                                                 *)
(*                                                                         *)
(* The tree is a finite full binary tree whose leaves carry a window each: *)
(* that is the invariant.  It follows that the layout implements TileSet,  *)
(* that the windows keep their order, that the boxes of the leaves         *)
(* partition the area, and that a direction leads to a nearest window.     *)
(*                                                                         *)
(* A node is a path from the root.  What is computed from the root down    *)
(* (the boxes, the places after a removal) is reasoned about by a shortest *)
(* counterexample, what is computed from the leaves up (a search, the area *)
(* that is filled) by a deepest one; the lemmas on paths provide both.     *)
(* Then come full trees and the search for a leaf; splitting a leaf;       *)
(* removing leaves, as a pruning that maps the nodes that stay to their    *)
(* new places; the boxes; directions; the order; the invariant of the      *)
(* tree; and that of the boxes its nodes keep.                             *)
(***************************************************************************)
EXTENDS Placement, WellFoundedInduction, Data_proofs

----------------------------------------------------------------------------
(* Paths *)

Path == Seq({1, 2})
Kid(p, i) == p \o <<i>>
Above(p, q) == \E s \in Path : q = p \o s

\* Paths are closed under concatenation, which is associative.
LEMMA PathsJoin ==
    ASSUME NEW p \in Path, NEW q \in Path, NEW r \in Path
    PROVE  /\ p \o q \in Path
           /\ (p \o q) \o r = p \o (q \o r)
BY ConcatAssociative, ConcatProperties DEF Path

\* A child of a node below p is reached from p by the same steps.
LEMMA KidJoins ==
    ASSUME NEW p \in Path, NEW q \in Path, NEW i \in {1, 2}
    PROVE  /\ p \o q \in Path
           /\ Kid(p \o q, i) = p \o Kid(q, i)
<1>1. <<i>> \in Path
  BY DEF Path
<1>2. Kid(p \o q, i) = p \o Kid(q, i)
  BY <1>1, PathsJoin, Zenon DEF Kid
<1> QED BY <1>2, PathsJoin

\* The children of a node, and how a path ends.
LEMMA KidFacts ==
    ASSUME NEW p \in Path, NEW i \in {1, 2}
    PROVE  /\ Kid(p, i) \in Path
           /\ Kid(p, i) # Root
           /\ Kid(p, i) = Append(p, i)
           /\ Len(Kid(p, i)) = Len(p) + 1
           /\ Front(Kid(p, i)) = p
           /\ Last(Kid(p, i)) = i
<1>1. <<i>> \in Path /\ Len(<<i>>) = 1
  BY DEF Path
<1>2. /\ Kid(p, i) \in Path /\ Len(Kid(p, i)) = Len(p) + 1
      /\ \A j \in 1 .. Len(p) + 1 : Kid(p, i)[j] = IF j <= Len(p) THEN p[j] ELSE <<i>>[j - Len(p)]
  BY <1>1, ConcatProperties DEF Path, Kid
<1>3. Kid(p, i) = Append(p, i)
  BY AppendIsConcat DEF Path, Kid
<1>4. Len(p) \in Nat
  BY DEF Path
<1>5. Last(Kid(p, i)) = i
  BY <1>2, <1>4 DEF Last
<1>6. Front(Kid(p, i)) = SubSeq(Kid(p, i), 1, Len(p))
  BY <1>2, <1>4 DEF Front
<1>7. SubSeq(Kid(p, i), 1, Len(p)) = p
  <2>1. \A j \in 1 .. Len(p) : Kid(p, i)[j] \in {1, 2}
    BY <1>2, <1>4 DEF Path
  <2>2. /\ SubSeq(Kid(p, i), 1, Len(p)) \in Seq({1, 2})
        /\ Len(SubSeq(Kid(p, i), 1, Len(p))) = IF 1 <= Len(p) THEN Len(p) - 1 + 1 ELSE 0
        /\ \A j \in 1 .. Len(p) - 1 + 1 : SubSeq(Kid(p, i), 1, Len(p))[j] = Kid(p, i)[1 + j - 1]
    BY <2>1, <1>4, SubSeqProperties
  <2> QED BY <1>2, <1>4, <2>2, SeqEqual DEF Path
<1> QED BY <1>2, <1>3, <1>4, <1>5, <1>6, <1>7 DEF Root

\* The root is the path of length zero, and the only one.
LEMMA RootFacts ==
    /\ Root \in Path /\ Len(Root) = 0
    /\ \A p \in Path : Len(p) \in Nat /\ (Len(p) = 0 => p = Root)
BY DEF Root, Path

\* Every other path than the root's is that of a child.
LEMMA FrontFacts ==
    ASSUME NEW p \in Path, p # Root
    PROVE  /\ Front(p) \in Path
           /\ Last(p) \in {1, 2}
           /\ p = Kid(Front(p), Last(p))
<1>1. PICK s \in Path, i \in {1, 2} : p = Append(s, i)
  BY SequenceEmptyOrAppend DEF Path, Root
<1>2. p = Kid(s, i)
  BY <1>1, KidFacts
<1> QED BY <1>2, KidFacts

\* A path is the child of one node only, and on one side only.
LEMMA KidsDiffer ==
    ASSUME NEW p \in Path, NEW q \in Path, NEW i \in {1, 2}, NEW j \in {1, 2},
           Kid(p, i) = Kid(q, j)
    PROVE  p = q /\ i = j
<1>1. Front(Kid(p, i)) = p /\ Last(Kid(p, i)) = i
  BY KidFacts
<1>2. Front(Kid(q, j)) = q /\ Last(Kid(q, j)) = j
  BY KidFacts
<1> QED BY <1>1, <1>2

\* What lies below a node.
LEMMA AboveFacts ==
    /\ \A p \in Path : Above(p, p) /\ Above(Root, p)
    /\ \A p, q \in Path : Above(p, q) => Len(p) <= Len(q) /\ (Len(p) = Len(q) => p = q)
    /\ \A p, q, r \in Path : Above(p, q) /\ Above(q, r) => Above(p, r)
    /\ \A p \in Path, i \in {1, 2} : Above(p, Kid(p, i))
<1>1. \A p \in Path : Above(p, p) /\ Above(Root, p)
  <2>1. \A p \in Path : p = p \o << >> /\ p = << >> \o p
    BY ConcatEmptySeq DEF Path
  <2> QED BY <2>1, RootFacts DEF Above, Root
<1>2. ASSUME NEW p \in Path, NEW q \in Path, Above(p, q)
      PROVE  Len(p) <= Len(q) /\ (Len(p) = Len(q) => p = q)
  <2>1. PICK s \in Path : q = p \o s
    BY <1>2 DEF Above
  <2>2. Len(q) = Len(p) + Len(s) /\ Len(p) \in Nat /\ Len(s) \in Nat
    BY <2>1, ConcatProperties, RootFacts DEF Path
  <2>3. Len(s) = 0 => q = p
    BY <2>1, ConcatEmptySeq, RootFacts DEF Path, Root
  <2> QED BY <2>2, <2>3
<1>3. ASSUME NEW p \in Path, NEW q \in Path, NEW r \in Path, Above(p, q), Above(q, r)
      PROVE  Above(p, r)
  <2>1. PICK s \in Path : q = p \o s
    BY <1>3 DEF Above
  <2>2. PICK u \in Path : r = q \o u
    BY <1>3 DEF Above
  <2>3. r = p \o (s \o u) /\ s \o u \in Path
    BY <2>1, <2>2, ConcatAssociative, ConcatProperties DEF Path
  <2> QED BY <2>3 DEF Above
<1>4. ASSUME NEW p \in Path, NEW i \in {1, 2} PROVE Above(p, Kid(p, i))
  <2>1. <<i>> \in Path
    BY DEF Path
  <2> QED BY <2>1 DEF Above, Kid
<1> QED BY <1>1, <1>2, <1>3, <1>4

\* A child is not above its parent.
LEMMA KidIsBelow ==
    ASSUME NEW p \in Path, NEW i \in {1, 2}
    PROVE  ~ Above(Kid(p, i), p) /\ Kid(p, i) # p
<1>1. Kid(p, i) \in Path /\ Len(Kid(p, i)) = Len(p) + 1 /\ Len(p) \in Nat
  BY KidFacts, RootFacts
<1>2. ~(Len(p) + 1 <= Len(p)) /\ Len(p) + 1 # Len(p)
  BY <1>1
<1> QED BY <1>1, <1>2, AboveFacts

\* A node strictly below p is below one child of p, and below only one.
LEMMA BelowOneKid ==
    ASSUME NEW p \in Path, NEW q \in Path, Above(p, q), p # q
    PROVE  \E i \in {1, 2} : Above(Kid(p, i), q)
<1>1. PICK s \in Path : q = p \o s
  BY DEF Above
<1>2. s # << >>
  BY <1>1, ConcatEmptySeq DEF Path
<1>3. Head(s) \in {1, 2} /\ Tail(s) \in Path /\ s = <<Head(s)>> \o Tail(s)
  <2>1. Head(s) \in {1, 2} /\ Tail(s) \in Path
    BY <1>2, HeadTailProperties DEF Path
  <2>2. Len(s) \in Nat /\ Len(s) >= 1 /\ SubSeq(s, 1, Len(s)) = s /\ Head(s) = s[1]
    BY <1>2, SubSeqFull, HeadTailOfSubSeq DEF Path
  <2>3. s = <<s[1]>> \o SubSeq(s, 2, Len(s))
    BY <2>2, SubSeqRecursiveFirst DEF Path
  <2> QED BY <1>2, <2>1, <2>2, <2>3, TailIsSubSeq DEF Path
<1>4. <<Head(s)>> \in Path
  BY <1>3 DEF Path
<1>5. q = Kid(p, Head(s)) \o Tail(s)
  BY <1>1, <1>3, <1>4, ConcatAssociative DEF Path, Kid
<1> QED BY <1>3, <1>5 DEF Above

\* A path below a child goes the way of its parent and then to that side.
LEMMA BelowStep ==
    ASSUME NEW p \in Path, NEW i \in {1, 2}, NEW q \in Path, Above(Kid(p, i), q)
    PROVE  /\ Len(q) > Len(p) /\ q[Len(p) + 1] = i
           /\ \A j \in 1 .. Len(p) : q[j] = p[j]
<1>1. PICK s \in Path : q = Kid(p, i) \o s
  BY DEF Above
<1>2. /\ Kid(p, i) \in Path /\ Len(Kid(p, i)) = Len(p) + 1 /\ Len(p) \in Nat /\ Len(s) \in Nat
      /\ Kid(p, i) = Append(p, i)
  BY KidFacts, RootFacts
<1>3. /\ Kid(p, i)[Len(p) + 1] = i
      /\ \A j \in 1 .. Len(p) : Kid(p, i)[j] = p[j]
  BY <1>2, AppendProperties DEF Path
<1>4. /\ Len(q) = Len(p) + 1 + Len(s)
      /\ \A j \in 1 .. Len(p) + 1 : q[j] = Kid(p, i)[j]
  BY <1>1, <1>2, ConcatProperties DEF Path
<1> QED BY <1>2, <1>3, <1>4

\* Nothing is below both children of a node.
LEMMA BelowOnlyOne ==
    ASSUME NEW p \in Path, NEW q \in Path
    PROVE  ~(Above(Kid(p, 1), q) /\ Above(Kid(p, 2), q))
BY BelowStep

\* What is above a child is the child or above its parent.
LEMMA AboveKid ==
    ASSUME NEW p \in Path, NEW q \in Path, NEW i \in {1, 2}, Above(p, Kid(q, i))
    PROVE  p = Kid(q, i) \/ Above(p, q)
<1>1. PICK s \in Path : Kid(q, i) = p \o s
  BY DEF Above
<1>2. CASE s = << >>
  BY <1>1, <1>2, ConcatEmptySeq DEF Path
<1>3. CASE s # << >>
  <2>1. PICK u \in Path, j \in {1, 2} : s = Kid(u, j)
    BY <1>3, FrontFacts DEF Root
  <2>2. Kid(q, i) = Kid(p \o u, j) /\ p \o u \in Path
    <3>1. p \o u \in Path /\ Kid(p \o u, j) = p \o Kid(u, j)
      BY KidJoins
    <3> QED BY <1>1, <2>1, <3>1
  <2>3. q = p \o u
    BY <2>2, KidsDiffer
  <2> QED BY <2>3 DEF Above
<1> QED BY <1>2, <1>3

\* Extremal paths
LEMMA LeastNatural ==
    ASSUME NEW N \in SUBSET Nat, N # {}
    PROVE  \E n \in N : \A m \in N : n <= m
<1>1. PICK n \in N : \A m \in N : <<m, n>> \notin OpToRel(<, Nat)
  BY NatLessThanWellFounded, WFMin
<1>2. \A m \in N : ~(m < n)
  BY <1>1, Zenon DEF OpToRel
<1> QED BY <1>2

\* Every set of paths has a shortest one: the smallest counterexample with
\* which recursions from the root are reasoned about.
LEMMA ShortestPath ==
    ASSUME NEW F \in SUBSET Path, F # {}
    PROVE  \E p \in F : \A q \in F : Len(p) <= Len(q)
<1> DEFINE N == {Len(p) : p \in F}
<1>1. N \in SUBSET Nat /\ N # {}
  BY RootFacts
<1>2. PICK n \in N : \A m \in N : n <= m
  BY <1>1, LeastNatural
<1> QED BY <1>2

\* A set of paths of bounded length has a longest one.
LEMMA LongestPath ==
    ASSUME NEW F \in SUBSET Path, F # {}, NEW b \in Nat, \A p \in F : Len(p) <= b
    PROVE  \E p \in F : \A q \in F : Len(q) <= Len(p)
<1> DEFINE N == {b - Len(p) : p \in F}
<1>1. N \in SUBSET Nat /\ N # {}
  BY RootFacts
<1>2. PICK n \in N : \A m \in N : n <= m
  BY <1>1, LeastNatural
<1>3. PICK p \in F : n = b - Len(p)
  BY <1>2
<1>4. \A q \in F : b - Len(p) <= b - Len(q) /\ Len(p) \in Nat /\ Len(q) \in Nat
  BY <1>2, <1>3, RootFacts
<1> QED BY <1>4

\* The paths of a finite set are bounded in length.
LEMMA PathsAreBounded ==
    ASSUME NEW T \in SUBSET Path, IsFiniteSet(T)
    PROVE  \E b \in Nat : \A p \in T : Len(p) <= b
<1> DEFINE Bounded(W) == \E b \in Nat : \A p \in W : Len(p) <= b
           F == {W \in SUBSET T : ~ Bounded(W)}
<1>1. SUFFICES ASSUME F # {} PROVE FALSE
  OBVIOUS
<1>2. PICK W \in F : \A X \in F : X \subseteq W => X = W
  <2>1. F \in SUBSET SUBSET T
    OBVIOUS
  <2> HIDE DEF F
  <2> QED BY <1>1, <2>1, SmallestSubset
<1>3. PICK x \in W : TRUE
  <2>1. W # {}
    BY <1>2
  <2> QED BY <2>1
<1>4. PICK b \in Nat : \A p \in W \ {x} : Len(p) <= b
  <2>1. W \ {x} \in SUBSET T /\ W \ {x} # W /\ W \ {x} \subseteq W
    BY <1>2, <1>3
  <2>2. W \ {x} \notin F
    BY <1>2, <2>1
  <2>3. Bounded(W \ {x})
    BY <2>1, <2>2
  <2> QED BY <2>3
<1>5. Len(x) \in Nat /\ \A p \in W : Len(p) \in Nat
  BY <1>2, <1>3, RootFacts
<1>6. b + Len(x) \in Nat /\ \A p \in W : Len(p) <= b + Len(x)
  <2> HIDE DEF F
  <2>1. ASSUME NEW p \in W PROVE Len(p) <= b + Len(x)
    <3>1. p = x \/ Len(p) <= b
      BY <1>4
    <3> QED BY <1>5, <3>1
  <2> QED BY <1>5, <2>1
<1> QED BY <1>2, <1>6

\* A finite set of paths has one below which there is no other: the smallest
\* counterexample of what is computed from the leaves up.
LEMMA DeepestPath ==
    ASSUME NEW T \in SUBSET Path, IsFiniteSet(T), NEW F \in SUBSET T, F # {}
    PROVE  \E p \in F : \A q \in F : Above(p, q) => p = q
<1>1. PICK b \in Nat : \A p \in T : Len(p) <= b
  BY PathsAreBounded
<1>2. PICK p \in F : \A q \in F : Len(q) <= Len(p)
  BY <1>1, LongestPath
<1>3. \A q \in F : Len(q) \in Nat /\ Len(p) \in Nat
  BY <1>2, RootFacts
<1> QED BY <1>2, <1>3, AboveFacts

\* Two nodes of which neither is above the other part at a node above both.
LEMMA PathsPart ==
    ASSUME NEW p \in Path, NEW q \in Path, ~ Above(p, q), ~ Above(q, p)
    PROVE  \E d \in Path, i, j \in {1, 2} :
              i # j /\ Above(Kid(d, i), p) /\ Above(Kid(d, j), q)
<1> DEFINE F == {d \in Path : Above(d, p) /\ Above(d, q)}
<1>1. F \in SUBSET Path /\ Root \in F /\ \A d \in F : Len(d) <= Len(p)
  BY AboveFacts, RootFacts
<1>2. PICK d \in F : \A e \in F : Len(e) <= Len(d)
  BY <1>1, LongestPath, RootFacts
<1>3. d \in Path /\ Above(d, p) /\ Above(d, q) /\ d # p /\ d # q
  BY <1>2
<1>4. PICK i \in {1, 2} : Above(Kid(d, i), p)
  BY <1>3, BelowOneKid
<1>5. PICK j \in {1, 2} : Above(Kid(d, j), q)
  BY <1>3, BelowOneKid
<1>6. i # j
  <2>1. SUFFICES ASSUME i = j PROVE FALSE
    OBVIOUS
  <2>2. Kid(d, i) \in F /\ Len(Kid(d, i)) = Len(d) + 1 /\ Len(d) \in Nat
    BY <1>3, <1>4, <1>5, <2>1, KidFacts, RootFacts
  <2> QED BY <1>2, <2>2
<1> QED BY <1>3, <1>4, <1>5, <1>6

\* A function can be defined along the paths of a tree.
Recurs(f, T, v0, step) ==
    \A p \in T : f[p] = IF p = Root THEN v0 ELSE step[<<p, f[Front(p)]>>]

\* A recursion from the root down defines a function: it is the union of the
\* functions that it defines on the paths of each length.
LEMMA PathRecursion ==
    ASSUME NEW T \in SUBSET Path, IsFiniteSet(T),
           \A p \in T : p # Root => Front(p) \in T,
           NEW V, NEW v0 \in V, NEW step \in [T \X V -> V]
    PROVE  \E f \in [T -> V] : Recurs(f, T, v0, step)
<1> DEFINE Upto(n) == {p \in T : Len(p) <= n}
           Follows(f, n) == \A p \in Upto(n) :
                f[p] = IF p = Root THEN v0 ELSE step[<<p, f[Front(p)]>>]
           N == {n \in Nat : ~ \E f \in [Upto(n) -> V] : Follows(f, n)}
<1>1. N = {}
  <2>1. SUFFICES ASSUME N # {} PROVE FALSE
    OBVIOUS
  <2>2. PICK n \in N : \A m \in N : n <= m
    <3>1. N \in SUBSET Nat
      OBVIOUS
    <3> HIDE DEF N
    <3> QED BY <2>1, <3>1, LeastNatural
  <2>3. n \in Nat /\ ~ \E f \in [Upto(n) -> V] : Follows(f, n)
    BY <2>2
  <2>4. CASE n = 0
    <3> DEFINE f == [p \in Upto(0) |-> v0]
    <3>1. \A p \in Upto(0) : p = Root
      BY RootFacts
    <3>2. f \in [Upto(0) -> V] /\ Follows(f, 0)
      BY <3>1
    <3> QED BY <2>3, <2>4, <3>2
  <2>5. CASE n # 0
    <3>1. n - 1 \in Nat /\ n - 1 \notin N
      <4>1. n - 1 \in Nat /\ ~(n <= n - 1)
        BY <2>3, <2>5
      <4> HIDE DEF N
      <4> QED BY <2>2, <4>1
    <3>2. PICK g \in [Upto(n - 1) -> V] : Follows(g, n - 1)
      BY <3>1
    <3> DEFINE f == [p \in Upto(n) |->
                        IF p \in Upto(n - 1) THEN g[p] ELSE step[<<p, g[Front(p)]>>]]
    <3>3. ASSUME NEW p \in Upto(n), p # Root
          PROVE  Front(p) \in Upto(n - 1) /\ g[Front(p)] \in V /\ f[Front(p)] = g[Front(p)]
      <4>1. p \in Path /\ p \in T /\ Len(p) <= n /\ Front(p) \in T
        BY <3>3
      <4>2. Front(p) \in Path /\ Len(Front(p)) \in Nat /\ Len(p) = Len(Front(p)) + 1
        <5>1. Front(p) \in Path /\ Last(p) \in {1, 2} /\ p = Kid(Front(p), Last(p))
          BY <3>3, <4>1, FrontFacts
        <5>2. Len(Kid(Front(p), Last(p))) = Len(Front(p)) + 1
          BY <5>1, KidFacts
        <5> QED BY <5>1, <5>2, RootFacts
      <4>3. Front(p) \in Upto(n - 1) /\ Front(p) \in Upto(n)
        BY <2>3, <4>1, <4>2
      <4> QED BY <3>2, <4>3
    <3>4. ASSUME NEW p \in Upto(n)
          PROVE  f[p] \in V /\ f[p] = IF p = Root THEN v0 ELSE step[<<p, f[Front(p)]>>]
      <4>1. CASE p \in Upto(n - 1)
        <5>1. g[p] = IF p = Root THEN v0 ELSE step[<<p, g[Front(p)]>>]
          BY <3>2, <4>1
        <5> QED BY <3>2, <3>3, <4>1, <5>1
      <4>2. CASE p \notin Upto(n - 1)
        <5>1. p # Root
          BY <2>3, <2>5, <3>1, <4>2, RootFacts
        <5>2. f[p] = step[<<p, g[Front(p)]>>] /\ g[Front(p)] \in V /\ f[Front(p)] = g[Front(p)]
          BY <3>3, <4>2, <5>1
        <5> HIDE DEF f
        <5> QED BY <5>1, <5>2
      <4> QED BY <4>1, <4>2
    <3>5. f \in [Upto(n) -> V] /\ Follows(f, n)
      <4>1. f \in [Upto(n) -> V]
        BY <3>4
      <4> HIDE DEF f
      <4> QED BY <3>4, <4>1
    <3> QED BY <2>3, <3>5
  <2> QED BY <2>4, <2>5
<1>2. PICK b \in Nat : \A p \in T : Len(p) <= b
  BY PathsAreBounded
<1>3. Upto(b) = T
  BY <1>2
<1>4. \E f \in [Upto(b) -> V] : Follows(f, b)
  BY <1>1
<1>5. PICK f \in [T -> V] : Follows(f, b)
  BY <1>3, <1>4
<1> QED BY <1>3, <1>5 DEF Recurs
----------------------------------------------------------------------------
(* Full binary trees *)

FullTree(T) ==
    /\ T \in SUBSET Path
    /\ IsFiniteSet(T)
    /\ Root \in T
    /\ \A p \in T : p # Root =>
          \E f \in T, i \in {1, 2} : p = Kid(f, i) /\ Kid(f, 1) \in T /\ Kid(f, 2) \in T

\* A node comes with its sibling and with all that is above it, and nothing
\* is below a leaf.
LEMMA TreeFacts ==
    ASSUME NEW T, FullTree(T)
    PROVE  /\ \A f \in Path, i \in {1, 2} :
                Kid(f, i) \in T => f \in T /\ Kid(f, 1) \in T /\ Kid(f, 2) \in T
           /\ \A p \in Path, q \in T : Above(p, q) => p \in T
           /\ \A p, q \in T : Above(p, q) /\ Kid(p, 1) \notin T => p = q
<1>1. ASSUME NEW f \in Path, NEW i \in {1, 2}, Kid(f, i) \in T
      PROVE  f \in T /\ Kid(f, 1) \in T /\ Kid(f, 2) \in T
  <2>1. PICK g \in T, j \in {1, 2} : Kid(f, i) = Kid(g, j) /\ Kid(g, 1) \in T /\ Kid(g, 2) \in T
    BY <1>1, KidFacts DEF FullTree
  <2>2. g \in Path /\ f = g
    BY <2>1, KidsDiffer DEF FullTree
  <2> QED BY <2>1, <2>2
<1>2. ASSUME NEW p \in Path, NEW q \in T, Above(p, q) PROVE p \in T
  <2> DEFINE F == {r \in T : Above(p, r)}
  <2>1. PICK r \in F : \A x \in F : Len(r) <= Len(x)
    <3>1. F \in SUBSET Path /\ F # {}
      BY <1>2 DEF FullTree
    <3> HIDE DEF F
    <3> QED BY <3>1, ShortestPath
  <2>2. r \in T /\ r \in Path /\ Above(p, r)
    BY DEF FullTree
  <2>3. CASE r = Root
    <3>1. p = Root
      BY <2>2, <2>3, AboveFacts, RootFacts
    <3> QED BY <3>1 DEF FullTree
  <2>4. CASE r # Root
    <3>1. PICK f \in T, i \in {1, 2} : r = Kid(f, i)
      BY <2>2, <2>4 DEF FullTree
    <3>2. f \in Path /\ Len(f) \in Nat /\ Len(r) = Len(f) + 1
      BY <3>1, KidFacts, RootFacts DEF FullTree
    <3>3. f \notin F
      BY <2>1, <3>2
    <3>4. p = r
      BY <2>2, <3>1, <3>2, <3>3, AboveKid
    <3> QED BY <2>2, <3>4
  <2> QED BY <2>3, <2>4
<1>3. ASSUME NEW p \in T, NEW q \in T, Above(p, q), Kid(p, 1) \notin T
      PROVE  p = q
  <2>1. SUFFICES ASSUME p # q PROVE FALSE
    OBVIOUS
  <2>2. p \in Path /\ q \in Path
    BY DEF FullTree
  <2>3. PICK i \in {1, 2} : Above(Kid(p, i), q)
    BY <1>3, <2>1, <2>2, BelowOneKid
  <2>4. Kid(p, i) \in T
    BY <1>2, <2>2, <2>3, KidFacts
  <2> QED BY <1>1, <1>3, <2>2, <2>4
<1> QED BY <1>1, <1>2, <1>3

\* The leaves of a tree, in the terms of this module.
LEMMA LeafFacts ==
    ASSUME NEW t
    PROVE  Leaves(t) = {p \in DOMAIN t : Kid(p, 1) \notin DOMAIN t}
BY DEF Leaves, Kid

\* The order of the leaves
LEMMA BeforeFacts ==
    /\ \A d, p, q \in Path : Above(Kid(d, 1), p) /\ Above(Kid(d, 2), q) => Before(p, q)
    /\ \A p, q, r \in Path : Before(p, q) /\ Before(q, r) => Before(p, r)
<1>1. ASSUME NEW d \in Path, NEW p \in Path, NEW q \in Path,
             Above(Kid(d, 1), p), Above(Kid(d, 2), q)
      PROVE  Before(p, q)
  <2> DEFINE k == Len(d) + 1
  <2>1. Len(d) \in Nat /\ Len(p) \in Nat /\ Len(q) \in Nat
        /\ DOMAIN p = 1 .. Len(p) /\ DOMAIN q = 1 .. Len(q)
    BY RootFacts DEF Path
  <2>2. /\ Len(p) > Len(d) /\ p[k] = 1 /\ \A j \in 1 .. Len(d) : p[j] = d[j]
        /\ Len(q) > Len(d) /\ q[k] = 2 /\ \A j \in 1 .. Len(d) : q[j] = d[j]
    BY <1>1, BelowStep
  <2>3. k \in DOMAIN p \cap DOMAIN q /\ k - 1 = Len(d)
    BY <2>1, <2>2
  <2>4. p[k] < q[k] /\ \A j \in 1 .. (k - 1) : p[j] = q[j]
    BY <2>2, <2>3
  <2> QED BY <2>3, <2>4 DEF Before
<1>2. ASSUME NEW p \in Path, NEW q \in Path, NEW r \in Path, Before(p, q), Before(q, r)
      PROVE  Before(p, r)
  <2>1. PICK i \in DOMAIN p \cap DOMAIN q : p[i] < q[i] /\ \A j \in 1 .. (i - 1) : p[j] = q[j]
    BY <1>2 DEF Before
  <2>2. PICK k \in DOMAIN q \cap DOMAIN r : q[k] < r[k] /\ \A j \in 1 .. (k - 1) : q[j] = r[j]
    BY <1>2 DEF Before
  <2>3. /\ DOMAIN p = 1 .. Len(p) /\ DOMAIN q = 1 .. Len(q) /\ DOMAIN r = 1 .. Len(r)
        /\ Len(p) \in Nat /\ Len(q) \in Nat /\ Len(r) \in Nat
        /\ \A j \in DOMAIN p : p[j] \in {1, 2}
        /\ \A j \in DOMAIN q : q[j] \in {1, 2}
        /\ \A j \in DOMAIN r : r[j] \in {1, 2}
    BY RootFacts DEF Path
  <2>4. i \in 1 .. Len(p) /\ i \in 1 .. Len(q) /\ k \in 1 .. Len(q) /\ k \in 1 .. Len(r)
    BY <2>3
  <2>5. CASE i <= k
    <3>1. i \in DOMAIN p \cap DOMAIN r
      BY <2>3, <2>4, <2>5
    <3>2. p[i] < r[i]
      BY <2>1, <2>2, <2>3, <2>4, <2>5
    <3>3. \A j \in 1 .. (i - 1) : p[j] = r[j]
      BY <2>1, <2>2, <2>3, <2>4, <2>5
    <3> QED BY <3>1, <3>2, <3>3 DEF Before
  <2>6. CASE k < i
    <3>1. k \in DOMAIN p \cap DOMAIN r
      BY <2>3, <2>4, <2>6
    <3>2. p[k] < r[k]
      BY <2>1, <2>2, <2>3, <2>4, <2>6
    <3>3. \A j \in 1 .. (k - 1) : p[j] = r[j]
      BY <2>1, <2>2, <2>3, <2>4, <2>6
    <3> QED BY <3>1, <3>2, <3>3 DEF Before
  <2> QED BY <2>3, <2>4, <2>5, <2>6
<1> QED BY <1>1, <1>2

\* Of finitely many leaves one comes first, so that a search has a result.
LEMMA FirstExists ==
    ASSUME NEW L \in SUBSET Path, IsFiniteSet(L), L # {},
           \A p, q \in L : Above(p, q) => p = q
    PROVE  \E p \in L : \A q \in L \ {p} : Before(p, q)
<1> DEFINE First(W) == \E p \in W : \A q \in W \ {p} : Before(p, q)
           F == {W \in SUBSET L : W # {} /\ ~ First(W)}
<1>1. SUFFICES ASSUME F # {} PROVE FALSE
  OBVIOUS
<1>2. PICK W \in F : \A X \in F : X \subseteq W => X = W
  <2>1. F \in SUBSET SUBSET L
    OBVIOUS
  <2> HIDE DEF F
  <2> QED BY <1>1, <2>1, SmallestSubset
<1>3. W \in SUBSET L /\ W # {} /\ ~ First(W)
  BY <1>2
<1>4. PICK x \in W : TRUE
  BY <1>3
<1>5. CASE W = {x}
  BY <1>3, <1>5
<1>6. CASE W # {x}
  <2>1. W \ {x} \in SUBSET L /\ W \ {x} # {} /\ W \ {x} # W /\ W \ {x} \subseteq W
    BY <1>3, <1>4, <1>6
  <2>2. W \ {x} \notin F
    BY <1>2, <2>1
  <2>3. First(W \ {x})
    BY <2>1, <2>2
  <2>4. PICK y \in W \ {x} : \A q \in (W \ {x}) \ {y} : Before(y, q)
    BY <2>3
  <2>5. x \in Path /\ y \in Path /\ x # y /\ ~ Above(x, y) /\ ~ Above(y, x)
    BY <1>3, <1>4, <2>4
  <2>6. Before(x, y) \/ Before(y, x)
    <3>1. PICK d \in Path, i, j \in {1, 2} :
             i # j /\ Above(Kid(d, i), x) /\ Above(Kid(d, j), y)
      BY <2>5, PathsPart
    <3>2. (i = 1 /\ j = 2) \/ (i = 2 /\ j = 1)
      BY <3>1
    <3> QED BY <2>5, <3>1, <3>2, BeforeFacts
  <2>7. CASE Before(x, y)
    <3>1. \A q \in W \ {x} : Before(x, q)
      BY <1>3, <2>4, <2>5, <2>7, BeforeFacts
    <3> QED BY <1>3, <1>4, <3>1
  <2>8. CASE Before(y, x)
    <3>1. \A q \in W \ {y} : Before(y, q)
      BY <2>4, <2>8
    <3> QED BY <1>3, <2>4, <3>1
  <2> QED BY <2>6, <2>7, <2>8
<1> QED BY <1>5, <1>6

\* The search for a window ends at a node of the tree, at a leaf with the
\* window if there is one.
LEMMA SearchFacts ==
    ASSUME NEW t, FullTree(DOMAIN t), NEW w
    PROVE  /\ FindTargetNode(t, w) \in DOMAIN t
           /\ LeavesOf(t, w) # {} => FirstLeafOf(t, w) \in LeavesOf(t, w)
<1> DEFINE L == LeavesOf(t, w)
<1>1. L \subseteq Leaves(t) /\ Leaves(t) \subseteq DOMAIN t
  BY DEF LeavesOf, Leaves
<1>2. ASSUME L # {} PROVE FirstLeafOf(t, w) \in L
  <2>1. L \in SUBSET Path /\ IsFiniteSet(L)
    BY <1>1, FS_Subset DEF FullTree
  <2>2. \A p, q \in L : Above(p, q) => p = q
    BY <1>1, LeafFacts, TreeFacts
  <2>3. \E p \in L : \A q \in L \ {p} : Before(p, q)
    BY <1>2, <2>1, <2>2, FirstExists
  <2> HIDE DEF L
  <2> QED BY <2>3 DEF FirstLeafOf, L
<1> QED BY <1>1, <1>2 DEF FindTargetNode, FullTree
----------------------------------------------------------------------------
(* Splitting a leaf *)

\* A function has finitely many values on a finite set.
LEMMA ImageIsFinite ==
    ASSUME NEW S, IsFiniteSet(S), NEW f, DOMAIN f = S
    PROVE  IsFiniteSet({f[x] : x \in S})
<1> DEFINE T == {f[x] : x \in S}
           g == [x \in S |-> f[x]]
<1>1. g \in Surjection(S, T)
  BY DEF Surjection
<1> QED BY <1>1, FS_Surjection

\* A prefix is what is above, and what follows it can be cut off.
LEMMA PrefixFacts ==
    ASSUME NEW p \in Path
    PROVE  /\ \A q \in Path : IsPrefix(p, q) <=> Above(p, q)
           /\ \A s \in Path : SubSeq(p \o s, Len(p) + 1, Len(p \o s)) = s
<1>1. ASSUME NEW q \in Path, IsPrefix(p, q) PROVE Above(p, q)
  <2>1. Len(p) <= Len(q) /\ Len(p) \in Nat /\ Len(q) \in Nat /\ SubSeq(q, 1, Len(p)) = SubSeq(p, 1, Len(p))
    BY <1>1, RootFacts DEF IsPrefix
  <2>2. SubSeq(p, 1, Len(p)) = p /\ SubSeq(q, 1, Len(q)) = q
    BY SubSeqFull DEF Path
  <2>3. 1 \in 1 .. Len(q) + 1 /\ Len(p) \in (1 - 1) .. Len(q) /\ Len(q) \in Len(p) .. Len(q)
    BY <2>1
  <2>4. SubSeq(q, 1, Len(p)) \o SubSeq(q, Len(p) + 1, Len(q)) = SubSeq(q, 1, Len(q))
    BY <2>3, ConcatAdjacentSubSeq DEF Path
  <2>5. SubSeq(q, Len(p) + 1, Len(q)) \in Path
    <3>1. \A i \in Len(p) + 1 .. Len(q) : q[i] \in {1, 2}
      BY <2>1 DEF Path
    <3> QED BY <2>1, <3>1, SubSeqProperties DEF Path
  <2> QED BY <2>1, <2>2, <2>4, <2>5 DEF Above
<1>2. ASSUME NEW s \in Path
      PROVE  IsPrefix(p, p \o s) /\ SubSeq(p \o s, Len(p) + 1, Len(p \o s)) = s
  <2> DEFINE q == p \o s
  <2>1. /\ Len(p) \in Nat /\ Len(s) \in Nat /\ Len(q) = Len(p) + Len(s) /\ q \in Path
        /\ \A i \in 1 .. Len(p) + Len(s) : q[i] = IF i <= Len(p) THEN p[i] ELSE s[i - Len(p)]
    BY ConcatProperties, RootFacts DEF Path
  <2> HIDE DEF q
  <2>2. \A i \in 1 .. Len(q) : q[i] \in {1, 2}
    BY <2>1 DEF Path
  <2> DEFINE a == SubSeq(q, 1, Len(p))
             b == SubSeq(q, Len(p) + 1, Len(q))
  <2>3. /\ a \in Seq({1, 2})
        /\ Len(a) = IF 1 <= Len(p) THEN Len(p) - 1 + 1 ELSE 0
        /\ \A i \in 1 .. Len(p) - 1 + 1 : a[i] = q[1 + i - 1]
    <3>1. \A i \in 1 .. Len(p) : q[i] \in {1, 2}
      BY <2>1, <2>2
    <3> QED BY <2>1, <3>1, SubSeqProperties
  <2>4. /\ b \in Seq({1, 2})
        /\ Len(b) = IF Len(p) + 1 <= Len(q) THEN Len(q) - (Len(p) + 1) + 1 ELSE 0
        /\ \A i \in 1 .. Len(q) - (Len(p) + 1) + 1 : b[i] = q[Len(p) + 1 + i - 1]
    <3>1. \A i \in Len(p) + 1 .. Len(q) : q[i] \in {1, 2}
      BY <2>1, <2>2
    <3> QED BY <2>1, <3>1, SubSeqProperties
  <2> HIDE DEF a, b
  <2>5. Len(a) = Len(p) /\ \A i \in 1 .. Len(p) : a[i] = p[i]
    BY <2>1, <2>3
  <2>6. a = p
    BY <2>3, <2>5, SeqEqual DEF Path
  <2>7. Len(b) = Len(s) /\ \A i \in 1 .. Len(s) : b[i] = s[i]
    <3>1. Len(b) = Len(s)
      BY <2>1, <2>4
    <3>2. ASSUME NEW i \in 1 .. Len(s) PROVE b[i] = s[i]
      <4>1. /\ i \in 1 .. Len(q) - (Len(p) + 1) + 1 /\ Len(p) + 1 + i - 1 = Len(p) + i
            /\ Len(p) + i \in 1 .. Len(p) + Len(s)
            /\ ~(Len(p) + i <= Len(p)) /\ (Len(p) + i) - Len(p) = i
        BY <2>1, <3>2
      <4>2. b[i] = q[Len(p) + i]
        BY <2>4, <4>1
      <4> QED BY <2>1, <4>1, <4>2
    <3> QED BY <3>1, <3>2
  <2>8. b = s
    BY <2>4, <2>7, SeqEqual DEF Path
  <2>9. SubSeq(p, 1, Len(p)) = p
    BY SubSeqFull DEF Path
  <2> QED BY <2>1, <2>6, <2>8, <2>9 DEF IsPrefix, q, a, b
<1> QED BY <1>1, <1>2 DEF Above

\* The nodes of a tree after a split: what was at p or below it hangs below the
\* first child of p, and the new leaf is the second child.
Hung(t, p) == {s \in Path : p \o s \in DOMAIN t}
SplitPaths(t, p) ==
    {r \in DOMAIN t : ~ Above(p, r)} \cup {p, Kid(p, 2)} \cup {Kid(p, 1) \o s : s \in Hung(t, p)}

\* What SplitNode makes of every node: the split, the new leaf, the copy of
\* what was there, and the rest, which stays.
LEMMA SplitFacts ==
    ASSUME NEW t, FullTree(DOMAIN t), NEW p \in DOMAIN t, NEW w,
           NEW n, n = SplitNode(t, p, w)
    PROVE  /\ n = [r \in DOMAIN n |-> n[r]]
           /\ DOMAIN n = SplitPaths(t, p)
           /\ n[p] = [t[p] EXCEPT !.window = NoWindow]
           /\ n[Kid(p, 2)] = [window |-> w, isRoot |-> FALSE]
           /\ \A s \in Hung(t, p) : n[Kid(p, 1) \o s] = t[p \o s]
           /\ \A r \in DOMAIN t : ~ Above(p, r) => n[r] = t[r]
<1> DEFINE D == DOMAIN t
           Below == {q \in D : IsPrefix(p, q)}
           first == p \o <<1>>
           second == p \o <<2>>
           Tail1(q) == SubSeq(q, Len(p) + 1, Len(q))
           Pulled(r) == p \o SubSeq(r, Len(p) + 2, Len(r))
           E == (D \ Below) \cup {p, second} \cup {first \o Tail1(q) : q \in Below}
           val(r) == CASE r = p             -> [t[p] EXCEPT !.window = NoWindow]
                       [] r = second        -> [window |-> w, isRoot |-> FALSE]
                       [] IsPrefix(first, r) -> t[Pulled(r)]
                       [] OTHER             -> t[r]
<1>1. n = [r \in E |-> val(r)]
  BY DEF SplitNode
<1>2. p \in Path /\ D \subseteq Path /\ first = Kid(p, 1) /\ second = Kid(p, 2)
      /\ first \in Path /\ second \in Path
  BY KidFacts DEF FullTree, Kid
<1>3. Below = {p \o s : s \in Hung(t, p)}
  <2>1. Below = {q \in D : Above(p, q)}
    BY <1>2, PrefixFacts
  <2> QED BY <2>1 DEF Above, Hung
<1>4. \A s \in Hung(t, p) : Tail1(p \o s) = s
  BY <1>2, PrefixFacts DEF Hung
<1>5. {first \o Tail1(q) : q \in Below} = {first \o s : s \in Hung(t, p)}
  <2> HIDE DEF Below, Tail1, first
  <2> QED BY <1>3, <1>4
<1>6. D \ Below = {r \in D : ~ Above(p, r)}
  BY <1>2, PrefixFacts
<1>7. E = SplitPaths(t, p)
  <2> HIDE DEF Below, Tail1, first, second
  <2> QED BY <1>2, <1>5, <1>6 DEF SplitPaths
<1>8. second # p /\ ~ IsPrefix(first, p) /\ ~ IsPrefix(first, second)
  <2> HIDE DEF first, second
  <2>1. Len(p) \in Nat /\ Len(first) = Len(p) + 1 /\ Len(second) = Len(p) + 1 /\ first # second
    BY <1>2, KidFacts, RootFacts, KidsDiffer
  <2>2. ~ Above(first, p) /\ ~ Above(first, second)
    BY <1>2, <2>1, AboveFacts
  <2> QED BY <1>2, <2>1, <2>2, PrefixFacts
<1>9. ASSUME NEW s \in Hung(t, p)
      PROVE  IsPrefix(first, first \o s) /\ first \o s # p /\ first \o s # second
             /\ Pulled(first \o s) = p \o s
  <2>1. s \in Path /\ first \o s \in Path
    BY <1>2, PathsJoin DEF Hung
  <2>2. IsPrefix(first, first \o s)
    BY <1>2, <2>1, PrefixFacts DEF Above
  <2>3. Len(first) + 1 = Len(p) + 2
    BY <1>2, KidFacts, RootFacts
  <2>4. SubSeq(first \o s, Len(first) + 1, Len(first \o s)) = s
    BY <1>2, <2>1, PrefixFacts
  <2> HIDE DEF first, second
  <2> QED BY <1>8, <2>2, <2>3, <2>4
<1>10. ASSUME NEW r \in D, ~ Above(p, r)
       PROVE  r # p /\ r # second /\ ~ IsPrefix(first, r)
  <2>1. r # p /\ r # second /\ ~ Above(first, r)
    <3>1. Above(p, p) /\ Above(p, first) /\ Above(p, second)
      BY AboveFacts, <1>2
    <3>2. Above(first, r) => Above(p, r)
      BY <3>1, <1>2, AboveFacts
    <3> QED BY <1>10, <3>1, <3>2
  <2> QED BY <1>2, <2>1, PrefixFacts
<1>11. /\ val(p) = [t[p] EXCEPT !.window = NoWindow]
       /\ val(second) = [window |-> w, isRoot |-> FALSE]
       /\ \A s \in Hung(t, p) : val(first \o s) = t[p \o s]
       /\ \A r \in D : ~ Above(p, r) => val(r) = t[r]
  <2> HIDE DEF first, second, Pulled
  <2> QED BY <1>8, <1>9, <1>10
<1> HIDE DEF val, E, first, second
<1>12. DOMAIN n = E /\ \A r \in E : n[r] = val(r)
  BY <1>1
<1>13. /\ p \in E /\ second \in E
       /\ \A s \in Hung(t, p) : first \o s \in E
       /\ \A r \in D : ~ Above(p, r) => r \in E
  BY <1>2, <1>7 DEF SplitPaths
<1>14. n = [r \in DOMAIN n |-> n[r]]
  BY <1>1
<1> QED BY <1>2, <1>7, <1>11, <1>12, <1>13, <1>14

\* What hangs below a node is a tree with that node as its root.
LEMMA HungFacts ==
    ASSUME NEW t, FullTree(DOMAIN t), NEW p \in DOMAIN t
    PROVE  /\ Root \in Hung(t, p)
           /\ \A s \in Hung(t, p) : s \in Path /\ p \o s \in DOMAIN t
           /\ \A s \in Path, i \in {1, 2} :
                 /\ Kid(s, i) \in Hung(t, p) <=> Kid(p \o s, i) \in DOMAIN t
                 /\ Kid(s, i) \in Hung(t, p) =>
                      s \in Hung(t, p) /\ Kid(s, 1) \in Hung(t, p) /\ Kid(s, 2) \in Hung(t, p)
           /\ \A r \in DOMAIN t : Above(p, r) => \E s \in Hung(t, p) : r = p \o s
<1>1. p \in Path /\ DOMAIN t \subseteq Path
  BY DEF FullTree
<1>2. Root \in Hung(t, p)
  BY <1>1, RootFacts, ConcatEmptySeq DEF Hung, Root, Path
<1>3. \A s \in Path, i \in {1, 2} : Kid(s, i) \in Hung(t, p) <=> Kid(p \o s, i) \in DOMAIN t
  <2>1. ASSUME NEW s \in Path, NEW i \in {1, 2}
        PROVE  Kid(s, i) \in Path /\ Kid(p \o s, i) = p \o Kid(s, i)
    BY <1>1, KidFacts, KidJoins
  <2> QED BY <2>1 DEF Hung
<1>4. ASSUME NEW s \in Path, NEW i \in {1, 2}, Kid(s, i) \in Hung(t, p)
      PROVE  s \in Hung(t, p) /\ Kid(s, 1) \in Hung(t, p) /\ Kid(s, 2) \in Hung(t, p)
  <2>1. p \o s \in Path
    BY <1>1, PathsJoin
  <2>2. p \o s \in DOMAIN t /\ Kid(p \o s, 1) \in DOMAIN t /\ Kid(p \o s, 2) \in DOMAIN t
    BY <1>3, <1>4, <2>1, TreeFacts
  <2> QED BY <1>3, <2>2 DEF Hung
<1>5. \A r \in DOMAIN t : Above(p, r) => \E s \in Hung(t, p) : r = p \o s
  BY DEF Above, Hung
<1> QED BY <1>2, <1>3, <1>4, <1>5 DEF Hung

\* The nodes after a split.
LEMMA SplitDomain ==
    ASSUME NEW t, FullTree(DOMAIN t), NEW p \in DOMAIN t, NEW w
    PROVE  DOMAIN SplitNode(t, p, w) = SplitPaths(t, p)
<1> DEFINE n == SplitNode(t, p, w)
<1>1. n = SplitNode(t, p, w)
  OBVIOUS
<1> HIDE DEF n
<1>2. DOMAIN n = SplitPaths(t, p)
  BY <1>1, SplitFacts
<1> QED BY <1>1, <1>2

\* Splitting a node of a full binary tree yields one.
LEMMA SplitIsFull ==
    ASSUME NEW t, FullTree(DOMAIN t), NEW p \in DOMAIN t, NEW w
    PROVE  FullTree(DOMAIN SplitNode(t, p, w))
<1> DEFINE D == DOMAIN t
           S == Hung(t, p)
           N == DOMAIN SplitNode(t, p, w)
           Kept == {r \in D : ~ Above(p, r)}
           Moved == {Kid(p, 1) \o s : s \in S}
<1>1. N = Kept \cup {p, Kid(p, 2)} \cup Moved
  <2>1. N = SplitPaths(t, p)
    BY SplitDomain
  <2> QED BY <2>1 DEF SplitPaths
<1>2. /\ p \in Path /\ D \subseteq Path /\ S \subseteq Path /\ IsFiniteSet(D) /\ Root \in D
      /\ Kid(p, 1) \in Path /\ Kid(p, 2) \in Path
  BY HungFacts, KidFacts DEF FullTree
<1>3. N \in SUBSET Path
  <2>1. Moved \subseteq Path
    <3>1. \A s \in S : Kid(p, 1) \o s \in Path
      BY <1>2, PathsJoin
    <3> QED BY <3>1
  <2> HIDE DEF N, Moved
  <2> QED BY <1>1, <1>2, <2>1
<1>4. IsFiniteSet(N)
  <2>1. IsFiniteSet(Kept)
    BY <1>2, FS_Subset
  <2>2. IsFiniteSet(Moved)
    <3> DEFINE Below == {q \in D : Above(p, q)}
               f == [q \in Below |-> Kid(p, 1) \o SubSeq(q, Len(p) + 1, Len(q))]
    <3>1. IsFiniteSet(Below)
      BY <1>2, FS_Subset
    <3>2. IsFiniteSet({f[q] : q \in Below})
      <4>1. DOMAIN f = Below
        OBVIOUS
      <4> HIDE DEF f, Below
      <4> QED BY <3>1, <4>1, ImageIsFinite
    <3>3. \A s \in S : p \o s \in Below /\ f[p \o s] = Kid(p, 1) \o s
      <4>1. ASSUME NEW s \in S PROVE p \o s \in Below
        BY <1>2, HungFacts DEF Above
      <4>2. ASSUME NEW s \in S PROVE SubSeq(p \o s, Len(p) + 1, Len(p \o s)) = s
        BY <1>2, PrefixFacts
      <4> HIDE DEF Below
      <4> QED BY <4>1, <4>2
    <3> HIDE DEF f
    <3>4. Moved \in SUBSET {f[q] : q \in Below}
      <4> HIDE DEF Below
      <4> QED BY <3>3
    <3> QED BY <3>2, <3>4, FS_Subset
  <2>3. IsFiniteSet({p, Kid(p, 2)})
    <3>1. {p, Kid(p, 2)} = {p} \cup {Kid(p, 2)}
      OBVIOUS
    <3>2. IsFiniteSet({p})
      BY FS_Singleton
    <3>3. IsFiniteSet({p} \cup {Kid(p, 2)})
      BY <3>2, FS_AddElement
    <3> QED BY <3>1, <3>3
  <2> HIDE DEF N, Kept, Moved
  <2> QED BY <1>1, <2>1, <2>2, <2>3, FS_Union
<1> DEFINE Child(r) == \E f \in N, i \in {1, 2} :
                          r = Kid(f, i) /\ Kid(f, 1) \in N /\ Kid(f, 2) \in N
<1>5. Kid(p, 1) \in N
  <2>1. Kid(p, 1) = Kid(p, 1) \o Root
    BY <1>2, ConcatEmptySeq DEF Root, Path
  <2>2. Root \in S
    BY HungFacts
  <2>3. Kid(p, 1) \in Moved
    BY <2>1, <2>2
  <2> QED BY <1>1, <2>3
<1>6. ASSUME NEW f \in Kept, NEW i \in {1, 2}, Kid(f, i) \in D
      PROVE  Kid(f, i) \in N
  <2>1. f \in Path
    BY <1>2
  <2>2. Above(p, Kid(f, i)) => p = Kid(f, i)
    BY <1>2, <1>6, <2>1, AboveKid
  <2> HIDE DEF N
  <2> QED BY <1>1, <1>6, <2>2
<1>7. ASSUME NEW r \in D, r # Root, ~ Above(p, r) \/ r = p
      PROVE  Child(r)
  <2>1. PICK f \in D, i \in {1, 2} : r = Kid(f, i) /\ Kid(f, 1) \in D /\ Kid(f, 2) \in D
    BY <1>7 DEF FullTree
  <2>2. f \in Path /\ Above(f, r) /\ Len(r) = Len(f) + 1 /\ Len(f) \in Nat
    BY <1>2, <2>1, AboveFacts, KidFacts, RootFacts
  <2>3. ~ Above(p, f)
    BY <1>2, <1>7, <2>2, AboveFacts
  <2>4. f \in Kept
    BY <2>1, <2>3
  <2>5. f \in N /\ Kid(f, 1) \in N /\ Kid(f, 2) \in N
    BY <1>1, <1>6, <2>1, <2>4
  <2> QED BY <2>1, <2>5
<1>8. ASSUME NEW s \in S PROVE Child(Kid(p, 1) \o s)
  <2>1. CASE s = Root
    <3>1. Kid(p, 1) \o s = Kid(p, 1)
      BY <1>2, <2>1, ConcatEmptySeq DEF Root, Path
    <3>2. p \in N /\ Kid(p, 2) \in N
      BY <1>1
    <3> QED BY <1>5, <3>1, <3>2
  <2>2. CASE s # Root
    <3>1. PICK u \in Path, i \in {1, 2} : s = Kid(u, i)
      BY <1>2, <2>2, FrontFacts
    <3>2. u \in S /\ Kid(u, 1) \in S /\ Kid(u, 2) \in S
      BY <1>8, <3>1, HungFacts
    <3>3. \A j \in {1, 2} : Kid(Kid(p, 1) \o u, j) = Kid(p, 1) \o Kid(u, j)
      BY <1>2, <3>1, KidJoins
    <3>4. \A v \in S : Kid(p, 1) \o v \in N
      BY <1>1
    <3>5. Kid(p, 1) \o u \in N /\ Kid(Kid(p, 1) \o u, 1) \in N /\ Kid(Kid(p, 1) \o u, 2) \in N
      <4> HIDE DEF N, S
      <4> QED BY <3>2, <3>3, <3>4
    <3>6. Kid(p, 1) \o s = Kid(Kid(p, 1) \o u, i)
      BY <3>1, <3>3
    <3> HIDE DEF N
    <3> QED BY <3>5, <3>6
  <2> QED BY <2>1, <2>2
<1>9. Child(Kid(p, 2))
  BY <1>1, <1>5
<1>10. Root \in N
  <2>1. Above(p, Root) => p = Root
    BY <1>2, AboveFacts, RootFacts
  <2> HIDE DEF N
  <2> QED BY <1>1, <1>2, <2>1
<1>11. \A r \in N : r # Root => Child(r)
  <2> HIDE DEF N, Child, S
  <2> QED BY <1>1, <1>2, <1>7, <1>8, <1>9
<1> QED BY <1>3, <1>4, <1>10, <1>11 DEF FullTree

\* What is below a node is below it by one way only.
LEMMA PathsCancel ==
    ASSUME NEW p \in Path, NEW q \in Path, NEW r \in Path, p \o q = p \o r
    PROVE  q = r
<1>1. SubSeq(p \o q, Len(p) + 1, Len(p \o q)) = q
  BY PrefixFacts
<1>2. SubSeq(p \o r, Len(p) + 1, Len(p \o r)) = r
  BY PrefixFacts
<1> QED BY <1>1, <1>2

\* The leaves of a tree after a split
LEMMA SplitLeaves ==
    ASSUME NEW t, FullTree(DOMAIN t), NEW p \in DOMAIN t, NEW w,
           NEW n, n = SplitNode(t, p, w)
    PROVE  /\ \A r \in DOMAIN t : ~ Above(p, r) => (r \in Leaves(n) <=> r \in Leaves(t))
           /\ p \notin Leaves(n)
           /\ Kid(p, 2) \in Leaves(n)
           /\ \A s \in Hung(t, p) : Kid(p, 1) \o s \in Leaves(n) <=> p \o s \in Leaves(t)
<1> DEFINE D == DOMAIN t
           S == Hung(t, p)
           N == DOMAIN n
<1>1. /\ \A r \in N : \/ r \in D /\ ~ Above(p, r)
                      \/ r = p
                      \/ r = Kid(p, 2)
                      \/ \E s \in S : r = Kid(p, 1) \o s
      /\ \A r \in D : ~ Above(p, r) => r \in N
      /\ p \in N /\ Kid(p, 2) \in N
      /\ \A s \in S : Kid(p, 1) \o s \in N
  <2>1. N = SplitPaths(t, p)
    BY SplitDomain
  <2> QED BY <2>1 DEF SplitPaths
<1>2. /\ p \in Path /\ D \subseteq Path /\ S \subseteq Path
      /\ Kid(p, 1) \in Path /\ Kid(p, 2) \in Path
      /\ Len(p) \in Nat /\ Len(Kid(p, 1)) = Len(p) + 1 /\ Len(Kid(p, 2)) = Len(p) + 1
      /\ Above(p, Kid(p, 1)) /\ Above(p, Kid(p, 2))
  <2>1. p \in Path /\ D \subseteq Path /\ S \subseteq Path
    BY HungFacts DEF FullTree
  <2> QED BY <2>1, KidFacts, AboveFacts, RootFacts
<1>3. \A s \in S : Above(Kid(p, 1), Kid(p, 1) \o s)
  BY <1>2 DEF Above
<1> HIDE DEF D, S, N
<1>4. ASSUME NEW r \in D, ~ Above(p, r)
      PROVE  Kid(r, 1) \in N <=> Kid(r, 1) \in D
  <2>1. r \in Path /\ Kid(r, 1) \in Path
    BY <1>2, <1>4, KidFacts
  <2>2. ASSUME Kid(r, 1) \in N PROVE Kid(r, 1) \in D
    <3>1. Kid(r, 1) # Kid(p, 2)
      BY <1>2, <1>4, <2>1, KidsDiffer
    <3>2. ASSUME NEW s \in S, Kid(r, 1) = Kid(p, 1) \o s PROVE FALSE
      <4>1. Above(Kid(p, 1), Kid(r, 1))
        BY <1>3, <3>2
      <4>2. Kid(p, 1) # Kid(r, 1)
        BY <1>2, <1>4, <2>1, KidsDiffer, AboveFacts
      <4>3. Above(Kid(p, 1), r)
        BY <1>2, <2>1, <4>1, <4>2, AboveKid
      <4> QED BY <1>2, <1>4, <2>1, <4>3, AboveFacts
    <3> QED BY <1>1, <2>2, <3>1, <3>2 DEF D
  <2>3. ASSUME Kid(r, 1) \in D PROVE Kid(r, 1) \in N
    <3>1. Above(p, Kid(r, 1)) => p = Kid(r, 1)
      BY <1>2, <1>4, <2>1, AboveKid
    <3> QED BY <1>1, <2>3, <3>1
  <2> QED BY <2>2, <2>3
<1>5. Kid(p, 1) \in N
  <2>1. Kid(p, 1) \o Root = Kid(p, 1)
    BY <1>2, ConcatEmptySeq DEF Root, Path
  <2>2. Root \in S
    BY HungFacts DEF S
  <2> QED BY <1>1, <2>1, <2>2
<1>6. Kid(Kid(p, 2), 1) \notin N
  <2> DEFINE x == Kid(Kid(p, 2), 1)
  <2>1. /\ x \in Path /\ Above(Kid(p, 2), x) /\ Above(p, x) /\ x # p /\ x # Kid(p, 2)
    <3>1. x \in Path /\ Len(x) = Len(p) + 2 /\ Above(Kid(p, 2), x)
      BY <1>2, KidFacts, AboveFacts
    <3> HIDE DEF x
    <3> QED BY <1>2, <3>1, AboveFacts
  <2> HIDE DEF x
  <2>2. ~ Above(Kid(p, 1), x)
    BY <1>2, <2>1, BelowOnlyOne
  <2> QED BY <1>1, <1>3, <2>1, <2>2 DEF x
<1>7. ASSUME NEW s \in S
      PROVE  Kid(Kid(p, 1) \o s, 1) \in N <=> Kid(p \o s, 1) \in D
  <2>1. s \in Path /\ Kid(s, 1) \in Path
    BY <1>2, KidFacts
  <2> DEFINE x == Kid(p, 1) \o Kid(s, 1)
  <2>2. Kid(Kid(p, 1) \o s, 1) = x
    BY <1>2, <2>1, KidJoins
  <2>3. x \in Path /\ Above(Kid(p, 1), x)
    BY <1>2, <2>1, PathsJoin DEF Above
  <2>4. Above(p, x) /\ x # p /\ x # Kid(p, 2)
    <3> HIDE DEF x
    <3>1. Above(p, x)
      BY <1>2, <2>3, AboveFacts
    <3>2. x # p
      BY <1>2, <2>3, AboveFacts
    <3>3. x # Kid(p, 2)
      BY <1>2, <2>3, AboveFacts, BelowOnlyOne
    <3> QED BY <3>1, <3>2, <3>3
  <2>5. ASSUME x \in N PROVE Kid(s, 1) \in S
    <3>1. PICK u \in S : x = Kid(p, 1) \o u
      <4> HIDE DEF x
      <4> QED BY <1>1, <2>4, <2>5
    <3>2. u = Kid(s, 1)
      BY <1>2, <2>1, <3>1, PathsCancel
    <3> QED BY <3>1, <3>2
  <2>6. Kid(s, 1) \in S => x \in N
    BY <1>1
  <2>7. Kid(s, 1) \in S <=> Kid(p \o s, 1) \in D
    BY <2>1, HungFacts DEF S, D
  <2> HIDE DEF x
  <2> QED BY <2>2, <2>5, <2>6, <2>7
<1>8. \A r : r \in Leaves(n) <=> r \in N /\ Kid(r, 1) \notin N
  BY LeafFacts DEF N
<1>9. \A r : r \in Leaves(t) <=> r \in D /\ Kid(r, 1) \notin D
  BY LeafFacts DEF D
<1>10. \A r \in D : ~ Above(p, r) => (r \in Leaves(n) <=> r \in Leaves(t))
  BY <1>1, <1>4, <1>8, <1>9
<1>11. \A s \in S : Kid(p, 1) \o s \in Leaves(n) <=> p \o s \in Leaves(t)
  <2>1. \A s \in S : p \o s \in D
    BY HungFacts DEF S, D
  <2> QED BY <1>1, <1>7, <1>8, <1>9, <2>1
<1> QED BY <1>1, <1>5, <1>6, <1>8, <1>10, <1>11 DEF D, S
----------------------------------------------------------------------------
(* Trees with windows *)

NodeTree(t) ==
    /\ t = [p \in DOMAIN t |-> t[p]]
    /\ FullTree(DOMAIN t)
    /\ \A p \in DOMAIN t : t[p] \in Node
    /\ \A p \in DOMAIN t : p \notin Leaves(t) => t[p].window = NoWindow
    /\ IsEmptyTree(t) \/ \A p \in Leaves(t) : t[p].window \in Windows

\* A split makes a tree of a tree and adds the new window.
LEMMA SplitTree ==
    ASSUME NEW t, NodeTree(t), ~ IsEmptyTree(t), NEW p \in DOMAIN t, NEW w \in Windows
    PROVE  /\ NodeTree(SplitNode(t, p, w))
           /\ LeafWindows(SplitNode(t, p, w)) = LeafWindows(t) \cup {w}
<1> DEFINE n == SplitNode(t, p, w)
<1>1. n = SplitNode(t, p, w)
  OBVIOUS
<1> HIDE DEF n
<1>2. FullTree(DOMAIN t) /\ FullTree(DOMAIN n)
  BY <1>1, SplitIsFull DEF NodeTree
<1>3. /\ n = [r \in DOMAIN n |-> n[r]]
      /\ DOMAIN n = SplitPaths(t, p)
      /\ n[p] = [t[p] EXCEPT !.window = NoWindow]
      /\ n[Kid(p, 2)] = [window |-> w, isRoot |-> FALSE]
      /\ \A s \in Hung(t, p) : n[Kid(p, 1) \o s] = t[p \o s]
      /\ \A r \in DOMAIN t : ~ Above(p, r) => n[r] = t[r]
  BY <1>1, <1>2, SplitFacts
<1>4. /\ \A r \in DOMAIN n : \/ r \in DOMAIN t /\ ~ Above(p, r)
                             \/ r = p
                             \/ r = Kid(p, 2)
                             \/ \E s \in Hung(t, p) : r = Kid(p, 1) \o s
  BY <1>3 DEF SplitPaths
<1>5. /\ \A r \in DOMAIN t : ~ Above(p, r) => (r \in Leaves(n) <=> r \in Leaves(t))
      /\ p \notin Leaves(n)
      /\ Kid(p, 2) \in Leaves(n)
      /\ \A s \in Hung(t, p) : Kid(p, 1) \o s \in Leaves(n) <=> p \o s \in Leaves(t)
  BY <1>1, <1>2, SplitLeaves
<1>6. /\ \A s \in Hung(t, p) : p \o s \in DOMAIN t
      /\ \A r \in DOMAIN t : Above(p, r) => \E s \in Hung(t, p) : r = p \o s
  BY <1>2, HungFacts
<1>7. /\ \A r \in DOMAIN t : t[r] \in Node
      /\ \A r \in DOMAIN t : r \notin Leaves(t) => t[r].window = NoWindow
      /\ \A r \in Leaves(t) : t[r].window \in Windows
      /\ Leaves(t) \subseteq DOMAIN t /\ Leaves(n) \subseteq DOMAIN n
  BY DEF NodeTree, Leaves
<1>8. ASSUME NEW r \in DOMAIN n
      PROVE  /\ n[r] \in Node
             /\ r \notin Leaves(n) => n[r].window = NoWindow
             /\ r \in Leaves(n) => n[r].window \in LeafWindows(t) \cup {w}
  <2>1. CASE r \in DOMAIN t /\ ~ Above(p, r)
    BY <1>3, <1>5, <1>7, <2>1, LayoutAssumption DEF LeafWindows
  <2>2. CASE r = p
    <3>1. n[r] \in Node /\ n[r].window = NoWindow
      BY <1>3, <1>7, <2>2 DEF Node
    <3> QED BY <1>5, <2>2, <3>1
  <2>3. CASE r = Kid(p, 2)
    <3>1. n[r] = [window |-> w, isRoot |-> FALSE] /\ r \in Leaves(n)
      BY <1>3, <1>5, <2>3
    <3>2. n[r] \in Node /\ n[r].window = w
      BY <3>1 DEF Node
    <3> QED BY <3>1, <3>2
  <2>4. ASSUME NEW s \in Hung(t, p), r = Kid(p, 1) \o s
        PROVE  /\ n[r] \in Node
               /\ r \notin Leaves(n) => n[r].window = NoWindow
               /\ r \in Leaves(n) => n[r].window \in LeafWindows(t)
    BY <1>3, <1>5, <1>6, <1>7, <2>4, LayoutAssumption DEF LeafWindows
  <2> QED BY <1>4, <2>1, <2>2, <2>3, <2>4
<1>9. LeafWindows(t) \subseteq Windows
  BY <1>7 DEF LeafWindows
<1>10. \A r \in Leaves(n) : n[r].window \in Windows
  BY <1>7, <1>8, <1>9
<1>11. NodeTree(n)
  BY <1>2, <1>3, <1>8, <1>10 DEF NodeTree
<1>12. LeafWindows(n) \subseteq LeafWindows(t) \cup {w}
  BY <1>7, <1>8 DEF LeafWindows
<1>13. w \in LeafWindows(n)
  BY <1>3, <1>5, LayoutAssumption DEF LeafWindows
<1>14. ASSUME NEW r \in Leaves(t) PROVE t[r].window \in LeafWindows(n)
  <2>1. r \in DOMAIN t /\ t[r].window # NoWindow
    BY <1>7, LayoutAssumption
  <2>2. CASE ~ Above(p, r)
    BY <1>3, <1>5, <2>1, <2>2 DEF LeafWindows
  <2>3. CASE Above(p, r)
    <3>1. PICK s \in Hung(t, p) : r = p \o s
      BY <1>6, <2>1, <2>3
    <3>2. Kid(p, 1) \o s \in Leaves(n) /\ n[Kid(p, 1) \o s] = t[r]
      BY <1>3, <1>5, <3>1
    <3> QED BY <2>1, <3>2 DEF LeafWindows
  <2> QED BY <2>2, <2>3
<1>15. LeafWindows(n) = LeafWindows(t) \cup {w}
  BY <1>12, <1>13, <1>14 DEF LeafWindows
<1> QED BY <1>1, <1>11, <1>15
----------------------------------------------------------------------------
(* Removing leaves *)

\* The leaves S of T stay: L is what has one of them below it, K what is not
\* collapsed, and at says where a node goes.
Prunes(T, S, L, K, at) ==
    /\ FullTree(T)
    /\ S # {} /\ S \subseteq {p \in T : Kid(p, 1) \notin T}
    /\ L = {n \in T : \E q \in S : Above(n, q)}
    /\ K = S \cup {n \in T : Kid(n, 1) \in L /\ Kid(n, 2) \in L}
    /\ at \in [T -> Path]
    /\ at[Root] = Root
    /\ \A f \in T, i \in {1, 2} :
          Kid(f, i) \in T => at[Kid(f, i)] = IF f \in K THEN Kid(at[f], i) ELSE at[f]

\* The live nodes are those on the way to a leaf that stays.
LEMMA LiveFacts ==
    ASSUME NEW T, NEW S, NEW L, NEW K, NEW at, Prunes(T, S, L, K, at)
    PROVE  /\ FullTree(T) /\ T \subseteq Path /\ \A n \in T : at[n] \in Path
           /\ S \subseteq K /\ K \subseteq L /\ L \subseteq T /\ Root \in L
           /\ \A p \in Path, q \in L : Above(p, q) => p \in L
           /\ \A n \in L : n \in S \/ \E i \in {1, 2} : Kid(n, i) \in L
           /\ \A n \in K : n \in S <=> Kid(n, 1) \notin T
           /\ \A n \in K : n \notin S => Kid(n, 1) \in L /\ Kid(n, 2) \in L
<1>1. /\ FullTree(T) /\ T \subseteq Path /\ S # {} /\ S \subseteq T
      /\ \A q \in S : Kid(q, 1) \notin T
      /\ \A n : n \in L <=> n \in T /\ \E q \in S : Above(n, q)
      /\ \A n : n \in K <=> n \in S \/ (n \in T /\ Kid(n, 1) \in L /\ Kid(n, 2) \in L)
  BY DEF Prunes, FullTree
<1>2. S \subseteq L /\ Root \in L
  <2>1. Root \in T
    BY <1>1 DEF FullTree
  <2> QED BY <1>1, <2>1, AboveFacts
<1>3. ASSUME NEW p \in Path, NEW q \in L, Above(p, q) PROVE p \in L
  <2>1. PICK r \in S : Above(q, r)
    BY <1>1
  <2>2. q \in Path /\ r \in Path /\ Above(p, r)
    BY <1>1, <1>3, <2>1, AboveFacts
  <2>3. p \in T
    BY <1>1, <2>1, <2>2, TreeFacts
  <2> QED BY <1>1, <2>1, <2>2, <2>3
<1>4. K \subseteq L
  <2>1. ASSUME NEW n \in T, Kid(n, 1) \in L PROVE n \in L
    <3>1. n \in Path /\ Above(n, Kid(n, 1))
      BY <1>1, AboveFacts
    <3> QED BY <1>3, <2>1, <3>1
  <2> QED BY <1>1, <1>2, <2>1
<1>5. ASSUME NEW n \in L, n \notin S PROVE \E i \in {1, 2} : Kid(n, i) \in L
  <2>1. PICK q \in S : Above(n, q)
    BY <1>1
  <2>2. n \in Path /\ q \in Path /\ n # q
    BY <1>1, <1>5, <2>1
  <2>3. PICK i \in {1, 2} : Above(Kid(n, i), q)
    BY <2>1, <2>2, BelowOneKid
  <2>4. Kid(n, i) \in Path /\ q \in L
    BY <1>2, <2>1, <2>2, KidFacts
  <2>5. Kid(n, i) \in L
    BY <1>3, <2>3, <2>4
  <2> QED BY <2>5
<1>6. \A n \in K : n \notin S => Kid(n, 1) \in L /\ Kid(n, 2) \in L
  BY <1>1
<1>7. L \subseteq T
  BY <1>1
<1>8. \A n \in K : n \in S <=> Kid(n, 1) \notin T
  BY <1>1, <1>6, <1>7
<1>9. \A n \in T : at[n] \in Path
  BY DEF Prunes
<1> QED BY <1>1, <1>2, <1>3, <1>4, <1>5, <1>6, <1>7, <1>8, <1>9

\* Below every live node there is a kept one that goes to the same place.
LEMMA LiveIsKept ==
    ASSUME NEW T, NEW S, NEW L, NEW K, NEW at, Prunes(T, S, L, K, at), NEW n \in L
    PROVE  \E m \in K : at[m] = at[n]
<1> DEFINE F == {x \in L : ~ \E m \in K : at[m] = at[x]}
<1>1. SUFFICES ASSUME F # {} PROVE FALSE
  OBVIOUS
<1>2. PICK x \in F : \A y \in F : Above(x, y) => x = y
  <2>1. F \in SUBSET T /\ T \in SUBSET Path /\ IsFiniteSet(T)
    BY LiveFacts DEF Prunes, FullTree
  <2> HIDE DEF F
  <2> QED BY <1>1, <2>1, DeepestPath
<1>3. x \in L /\ x \notin K /\ x \in T /\ x \in Path /\ x \notin S
  BY <1>2, LiveFacts
<1>4. PICK i \in {1, 2} : Kid(x, i) \in L
  BY <1>3, LiveFacts
<1>5. Kid(x, i) \in T /\ at[Kid(x, i)] = at[x]
  <2>1. Kid(x, i) \in T
    BY <1>4, LiveFacts
  <2> QED BY <1>3, <2>1 DEF Prunes
<1>6. Above(x, Kid(x, i)) /\ x # Kid(x, i)
  BY <1>3, AboveFacts, KidIsBelow
<1>7. Kid(x, i) \notin F
  BY <1>2, <1>6
<1> QED BY <1>2, <1>4, <1>5, <1>7

\* Collapsing preserves what is above what.
LEMMA CollapseIsMonotone ==
    ASSUME NEW T, NEW S, NEW L, NEW K, NEW at, Prunes(T, S, L, K, at)
    PROVE  /\ \A n, m \in T : Above(n, m) => Above(at[n], at[m])
           /\ \A n \in K, m \in T, i \in {1, 2} :
                 Above(Kid(n, i), m) => Above(Kid(at[n], i), at[m])
<1>1. /\ T \subseteq Path /\ FullTree(T) /\ \A n \in T : at[n] \in Path
      /\ \A f \in T, i \in {1, 2} :
            Kid(f, i) \in T => at[Kid(f, i)] = IF f \in K THEN Kid(at[f], i) ELSE at[f]
  <2>1. \A f \in T, i \in {1, 2} :
            Kid(f, i) \in T => at[Kid(f, i)] = IF f \in K THEN Kid(at[f], i) ELSE at[f]
    BY DEF Prunes
  <2> QED BY <2>1, LiveFacts
<1>2. ASSUME NEW n \in T, NEW z \in T, Above(n, z) PROVE Above(at[n], at[z])
  <2> DEFINE F == {m \in T : Above(n, m) /\ ~ Above(at[n], at[m])}
  <2>1. SUFFICES ASSUME F # {} PROVE FALSE
    BY <1>2
  <2>2. PICK m \in F : \A x \in F : Len(m) <= Len(x)
    <3>1. F \in SUBSET Path
      BY <1>1
    <3> HIDE DEF F
    <3> QED BY <2>1, <3>1, ShortestPath
  <2>3. m \in T /\ m \in Path /\ n \in Path /\ Above(n, m) /\ ~ Above(at[n], at[m])
    BY <1>1, <2>2
  <2>4. m # n
    BY <1>1, <2>3, AboveFacts
  <2>5. m # Root
    BY <2>3, <2>4, AboveFacts, RootFacts
  <2>6. PICK f \in T, i \in {1, 2} : m = Kid(f, i)
    BY <1>1, <2>3, <2>5 DEF FullTree
  <2>7. f \in Path /\ Len(m) = Len(f) + 1 /\ Len(f) \in Nat
    BY <1>1, <2>6, KidFacts, RootFacts
  <2>8. Above(n, f)
    BY <2>3, <2>4, <2>6, <2>7, AboveKid
  <2>9. f \notin F
    BY <2>2, <2>7
  <2>10. Above(at[n], at[f])
    BY <2>8, <2>9
  <2>11. Above(at[f], at[m])
    <3>1. at[m] = Kid(at[f], i) \/ at[m] = at[f]
      BY <1>1, <2>3, <2>6
    <3>2. at[f] \in Path
      BY <1>1
    <3> QED BY <3>1, <3>2, AboveFacts
  <2> QED BY <1>1, <2>3, <2>10, <2>11, AboveFacts
<1>3. ASSUME NEW n \in K, NEW m \in T, NEW i \in {1, 2}, Above(Kid(n, i), m)
      PROVE  Above(Kid(at[n], i), at[m])
  <2>1. n \in T /\ n \in Path /\ Kid(n, i) \in Path
    BY LiveFacts, KidFacts
  <2>2. Kid(n, i) \in T
    BY <1>1, <1>3, <2>1, TreeFacts
  <2>3. at[Kid(n, i)] = Kid(at[n], i)
    BY <1>1, <1>3, <2>1, <2>2
  <2>4. Above(at[Kid(n, i)], at[m])
    BY <1>2, <1>3, <2>2
  <2> QED BY <2>3, <2>4
<1> QED BY <1>2, <1>3

\* No two kept nodes go to the same place.
LEMMA CollapseIsInjective ==
    ASSUME NEW T, NEW S, NEW L, NEW K, NEW at, Prunes(T, S, L, K, at),
           NEW a \in K, NEW b \in K, at[a] = at[b]
    PROVE  a = b
<1>1. /\ a \in T /\ b \in T /\ a \in Path /\ b \in Path
      /\ at[a] \in Path /\ at[b] \in Path
  BY LiveFacts
<1>2. ASSUME NEW x \in K, NEW y \in K, at[x] = at[y], Above(x, y), x # y PROVE FALSE
  <2>1. x \in Path /\ y \in Path /\ y \in T /\ x \in T /\ at[x] \in Path
    BY LiveFacts
  <2>2. PICK i \in {1, 2} : Above(Kid(x, i), y)
    BY <1>2, <2>1, BelowOneKid
  <2>3. Above(Kid(at[x], i), at[x])
    BY <1>2, <2>1, <2>2, CollapseIsMonotone
  <2> QED BY <2>1, <2>3, KidIsBelow
<1>3. ASSUME ~ Above(a, b), ~ Above(b, a) PROVE FALSE
  <2>1. PICK d \in Path, i, j \in {1, 2} : i # j /\ Above(Kid(d, i), a) /\ Above(Kid(d, j), b)
    BY <1>1, <1>3, PathsPart
  <2>2. Kid(d, i) \in Path /\ Kid(d, j) \in Path
    BY <2>1, KidFacts
  <2>3. Kid(d, i) \in L /\ Kid(d, j) \in L
    BY <2>1, <2>2, LiveFacts
  <2>4. d \in L
    BY <2>1, <2>3, LiveFacts, AboveFacts
  <2>5. d \in K
    <3>1. Kid(d, 1) \in L /\ Kid(d, 2) \in L /\ d \in T
      BY <2>1, <2>3, <2>4, LiveFacts
    <3> QED BY <3>1 DEF Prunes
  <2>6. Above(Kid(at[d], i), at[a]) /\ Above(Kid(at[d], j), at[a])
    BY <1>1, <2>1, <2>5, CollapseIsMonotone
  <2>7. at[d] \in Path
    BY <2>5, LiveFacts
  <2>8. (i = 1 /\ j = 2) \/ (i = 2 /\ j = 1)
    BY <2>1
  <2> QED BY <1>1, <2>6, <2>7, <2>8, BelowOnlyOne
<1> QED BY <1>2, <1>3

\* Where a live node goes, its parent and its sibling go as well.
LEMMA CollapseKeepsParents ==
    ASSUME NEW T, NEW S, NEW L, NEW K, NEW at, Prunes(T, S, L, K, at),
           NEW n \in L, at[n] # Root
    PROVE  \E f \in K, i \in {1, 2} : f \notin S /\ at[n] = Kid(at[f], i)
<1> DEFINE Good(x) == \E f \in K, i \in {1, 2} : f \notin S /\ at[x] = Kid(at[f], i)
           F == {x \in L : at[x] # Root /\ ~ Good(x)}
<1>1. SUFFICES ASSUME F # {} PROVE FALSE
  OBVIOUS
<1>2. PICK x \in F : \A y \in F : Len(x) <= Len(y)
  <2>1. F \in SUBSET Path
    BY LiveFacts
  <2> HIDE DEF F
  <2> QED BY <1>1, <2>1, ShortestPath
<1>3. x \in L /\ x \in T /\ x \in Path /\ at[x] # Root /\ ~ Good(x)
  BY <1>2, LiveFacts
<1>4. x # Root
  BY <1>3 DEF Prunes
<1>5. PICK f \in T, i \in {1, 2} : x = Kid(f, i)
  BY <1>3, <1>4 DEF Prunes, FullTree
<1>6. f \in Path /\ Len(x) = Len(f) + 1 /\ Len(f) \in Nat /\ Above(f, x)
  <2>1. f \in Path
    BY LiveFacts
  <2>2. Above(f, x)
    BY <1>5, <2>1, AboveFacts
  <2> QED BY <1>5, <2>1, <2>2, KidFacts, RootFacts
<1>7. f \in L
  BY <1>3, <1>6, LiveFacts
<1>8. at[x] = IF f \in K THEN Kid(at[f], i) ELSE at[f]
  BY <1>3, <1>5 DEF Prunes
<1>9. CASE f \in K
  <2>1. f \notin S
    <3>1. Kid(f, 1) \in T
      BY <1>3, <1>5, <1>6, TreeFacts DEF Prunes
    <3> QED BY <1>9, <3>1, LiveFacts
  <2>2. at[x] = Kid(at[f], i)
    BY <1>8, <1>9
  <2> QED BY <1>3, <1>9, <2>1, <2>2
<1>10. CASE f \notin K
  <2>1. at[f] = at[x]
    BY <1>8, <1>10
  <2>2. f \in F
    BY <1>3, <1>7, <2>1
  <2> HIDE DEF F
  <2> QED BY <1>2, <1>6, <2>2
<1> QED BY <1>9, <1>10

\* What is left is a full binary tree, whose leaves are those that stayed.
LEMMA PrunedIsFull ==
    ASSUME NEW T, NEW S, NEW L, NEW K, NEW at, Prunes(T, S, L, K, at),
           NEW R, R = {at[m] : m \in K}
    PROVE  /\ FullTree(R)
           /\ \A m \in K : m \in S <=> Kid(at[m], 1) \notin R
<1>1. /\ T \subseteq Path /\ K \subseteq T /\ L \subseteq T /\ K \subseteq L /\ Root \in L
      /\ \A n \in T : at[n] \in Path
  BY LiveFacts
<1>2. at[Root] = Root
  BY DEF Prunes
<1>3. \A n \in L : at[n] \in R
  BY LiveIsKept
<1>4. IsFiniteSet(R)
  <2> DEFINE f == [m \in K |-> at[m]]
  <2>1. IsFiniteSet(K)
    BY <1>1, FS_Subset DEF Prunes, FullTree
  <2>2. IsFiniteSet({f[m] : m \in K})
    <3>1. DOMAIN f = K
      OBVIOUS
    <3> HIDE DEF f
    <3> QED BY <2>1, <3>1, ImageIsFinite
  <2> QED BY <2>2
<1>5. ASSUME NEW f \in K, f \notin S
      PROVE  at[f] \in R /\ Kid(at[f], 1) \in R /\ Kid(at[f], 2) \in R
  <2>1. Kid(f, 1) \in L /\ Kid(f, 2) \in L /\ f \in T
    BY <1>1, <1>5, LiveFacts
  <2>2. \A i \in {1, 2} : Kid(f, i) \in T => at[Kid(f, i)] = IF f \in K THEN Kid(at[f], i) ELSE at[f]
    BY <2>1 DEF Prunes
  <2>3. at[Kid(f, 1)] = Kid(at[f], 1) /\ at[Kid(f, 2)] = Kid(at[f], 2)
    BY <1>1, <1>5, <2>1, <2>2
  <2> QED BY <1>1, <1>3, <1>5, <2>1, <2>3
<1>6. ASSUME NEW r \in R, r # Root
      PROVE  \E f \in R, i \in {1, 2} : r = Kid(f, i) /\ Kid(f, 1) \in R /\ Kid(f, 2) \in R
  <2>1. PICK m \in K : r = at[m]
    OBVIOUS
  <2>2. PICK f \in K, i \in {1, 2} : f \notin S /\ at[m] = Kid(at[f], i)
    BY <1>1, <1>6, <2>1, CollapseKeepsParents
  <2> QED BY <1>5, <2>1, <2>2
<1>7. FullTree(R)
  <2>1. Root \in R
    BY <1>1, <1>2, <1>3
  <2>2. R \in SUBSET Path
    BY <1>1
  <2> HIDE DEF FullTree
  <2>3. R \in SUBSET Path /\ IsFiniteSet(R) /\ Root \in R
    BY <1>4, <2>1, <2>2
  <2> QED BY <1>6, <2>3 DEF FullTree
<1>8. ASSUME NEW m \in K, m \in S, Kid(at[m], 1) \in R PROVE FALSE
  <2>1. PICK x \in K : at[x] = Kid(at[m], 1)
    BY <1>8
  <2>2. at[m] \in Path /\ at[x] # Root
    BY <1>1, <2>1, KidFacts
  <2>3. PICK f \in K, i \in {1, 2} : f \notin S /\ at[x] = Kid(at[f], i)
    BY <1>1, <2>2, CollapseKeepsParents
  <2>4. at[f] = at[m]
    BY <1>1, <2>1, <2>2, <2>3, KidsDiffer
  <2>5. f = m
    BY <2>4, CollapseIsInjective
  <2> QED BY <1>8, <2>3, <2>5
<1> QED BY <1>5, <1>7, <1>8

\* Collapsed is the function that its definition describes.
Steps(f, t, kept) ==
    f = [n \in DOMAIN t |->
            IF n = Root THEN Root
            ELSE IF Front(n) \in kept THEN Append(f[Front(n)], Last(n))
            ELSE f[Front(n)]]

\* The places that Collapsed computes: a child of a collapsed node takes the
\* place of its parent.
LEMMA CollapsedFacts ==
    ASSUME NEW t, FullTree(DOMAIN t), NEW kept, NEW at, at = Collapsed(t, kept)
    PROVE  /\ at \in [DOMAIN t -> Path]
           /\ at[Root] = Root
           /\ \A f \in DOMAIN t, i \in {1, 2} : Kid(f, i) \in DOMAIN t =>
                at[Kid(f, i)] = IF f \in kept THEN Kid(at[f], i) ELSE at[f]
<1> DEFINE T == DOMAIN t
           step == [x \in T \X Path |->
                      IF x[1] = Root THEN Root
                      ELSE IF Front(x[1]) \in kept THEN Append(x[2], Last(x[1])) ELSE x[2]]
<1>1. /\ T \in SUBSET Path /\ IsFiniteSet(T) /\ Root \in T /\ Root \in Path
      /\ \A p \in T : p # Root => Front(p) \in T /\ Front(p) \in Path /\ Last(p) \in {1, 2}
  <2>1. ASSUME NEW p \in T, p # Root
        PROVE  Front(p) \in T /\ Front(p) \in Path /\ Last(p) \in {1, 2}
    <3>1. Front(p) \in Path /\ Last(p) \in {1, 2} /\ p = Kid(Front(p), Last(p))
      BY <2>1, FrontFacts DEF FullTree
    <3>2. Front(p) \in T
      BY <3>1, TreeFacts
    <3> QED BY <3>1, <3>2
  <2> QED BY <2>1, RootFacts DEF FullTree
<1>2. step \in [T \X Path -> Path]
  <2>1. ASSUME NEW p \in T, NEW v \in Path
        PROVE  (IF p = Root THEN Root
                ELSE IF Front(p) \in kept THEN Append(v, Last(p)) ELSE v) \in Path
    BY <1>1, AppendProperties DEF Path
  <2> HIDE DEF T
  <2> QED BY <2>1
<1>3. PICK f \in [T -> Path] : Recurs(f, T, Root, step)
  <2>1. \A p \in T : p # Root => Front(p) \in T
    BY <1>1
  <2>2. T \in SUBSET Path /\ IsFiniteSet(T) /\ Root \in Path
    BY <1>1
  <2> HIDE DEF T, step
  <2> QED BY <1>2, <2>1, <2>2, PathRecursion
<1>4. Steps(f, t, kept)
  <2>1. \A p \in T : f[p] = IF p = Root THEN Root
                            ELSE IF Front(p) \in kept THEN Append(f[Front(p)], Last(p))
                            ELSE f[Front(p)]
    <3>1. ASSUME NEW p \in T, p # Root
          PROVE  step[<<p, f[Front(p)]>>] =
                   IF Front(p) \in kept THEN Append(f[Front(p)], Last(p)) ELSE f[Front(p)]
      <4>1. f[Front(p)] \in Path
        BY <1>1, <3>1
      <4> QED BY <3>1, <4>1
    <3> HIDE DEF step
    <3> QED BY <1>3, <3>1 DEF Recurs
  <2>2. f = [p \in T |-> f[p]]
    OBVIOUS
  <2> QED BY <2>1, <2>2 DEF Steps
<1>5. Steps(at, t, kept)
  <2>1. at = CHOOSE g : Steps(g, t, kept)
    BY DEF Collapsed, Steps
  <2> QED BY <1>4, <2>1
<1>6. DOMAIN at = T /\ \A p \in T :
         at[p] = IF p = Root THEN Root
                 ELSE IF Front(p) \in kept THEN Append(at[Front(p)], Last(p))
                 ELSE at[Front(p)]
  BY <1>5 DEF Steps
<1>7. at = [p \in T |-> at[p]]
  BY <1>5, <1>6 DEF Steps
<1>8. \A p \in T : at[p] \in Path
  <2> DEFINE F == {p \in T : at[p] \notin Path}
  <2>1. SUFFICES ASSUME F # {} PROVE FALSE
    OBVIOUS
  <2>2. PICK p \in F : \A q \in F : Len(p) <= Len(q)
    <3>1. F \in SUBSET Path
      BY <1>1
    <3> HIDE DEF F
    <3> QED BY <2>1, <3>1, ShortestPath
  <2>3. p \in T /\ at[p] \notin Path /\ p # Root
    BY <1>1, <1>6, <2>2
  <2>4. /\ Front(p) \in T /\ Front(p) \in Path /\ Last(p) \in {1, 2} /\ p = Kid(Front(p), Last(p))
        /\ Len(Front(p)) \in Nat
    BY <1>1, <2>3, FrontFacts, RootFacts
  <2>5. Len(p) = Len(Front(p)) + 1
    BY <2>4, KidFacts
  <2>6. Front(p) \notin F
    BY <2>2, <2>4, <2>5
  <2>7. at[Front(p)] \in Path
    BY <2>4, <2>6
  <2>8. Append(at[Front(p)], Last(p)) \in Path
    BY <2>4, <2>7, AppendProperties DEF Path
  <2> QED BY <1>6, <2>3, <2>7, <2>8
<1>9. ASSUME NEW f1 \in T, NEW i \in {1, 2}, Kid(f1, i) \in T
      PROVE  at[Kid(f1, i)] = IF f1 \in kept THEN Kid(at[f1], i) ELSE at[f1]
  <2>1. f1 \in Path /\ at[f1] \in Path
    BY <1>1, <1>8
  <2>2. Kid(f1, i) # Root /\ Front(Kid(f1, i)) = f1 /\ Last(Kid(f1, i)) = i
    BY <2>1, KidFacts
  <2>3. Append(at[f1], i) = Kid(at[f1], i)
    BY <2>1, KidFacts
  <2> QED BY <1>6, <1>9, <2>2, <2>3
<1>10. at \in [T -> Path]
  BY <1>7, <1>8
<1> QED BY <1>1, <1>6, <1>9, <1>10

\* The nodes that stay, and where they go, are as in Prunes.
Stay(t, w) == Leaves(t) \ LeavesOf(t, w)
Live(t, w) == {n \in DOMAIN t : \E q \in Stay(t, w) : Above(n, q)}

\* Removing a window is a pruning, as defined above, when another leaf stays.
LEMMA SurvivorsPrune ==
    ASSUME NEW t, FullTree(DOMAIN t), NEW w, Stay(t, w) # {}
    PROVE  Prunes(DOMAIN t, Stay(t, w), Live(t, w), Survivors(t, w),
                  Collapsed(t, Survivors(t, w)))
<1> DEFINE T == DOMAIN t
           S == Stay(t, w)
           L == Live(t, w)
           K == Survivors(t, w)
           Holds(n) == \E q \in S : IsPrefix(n, q)
<1>1. /\ FullTree(T) /\ T \subseteq Path /\ S \subseteq T
      /\ S \subseteq {p \in T : Kid(p, 1) \notin T}
      /\ Leaves(t) = {p \in T : Kid(p, 1) \notin T}
  BY LeafFacts DEF FullTree, Stay
<1>2. K = S \cup {n \in T \ Leaves(t) : Holds(n \o <<1>>) /\ Holds(n \o <<2>>)}
  BY DEF Survivors, Stay
<1>3. ASSUME NEW n \in T, NEW i \in {1, 2}
      PROVE  Holds(Kid(n, i)) <=> Kid(n, i) \in L
  <2>1. n \in Path /\ Kid(n, i) \in Path
    BY <1>1, KidFacts
  <2>2. Holds(Kid(n, i)) <=> \E q \in S : Above(Kid(n, i), q)
    BY <1>1, <2>1, PrefixFacts
  <2>3. \A q \in S : Above(Kid(n, i), q) => Kid(n, i) \in T
    BY <1>1, <2>1, TreeFacts
  <2> QED BY <2>2, <2>3 DEF Live
<1>4. K = S \cup {n \in T : Kid(n, 1) \in L /\ Kid(n, 2) \in L}
  <2>1. \A n \in T : Kid(n, 1) \in L => n \notin Leaves(t)
    BY <1>1 DEF Live
  <2>2. \A n \in T : Kid(n, 1) = n \o <<1>> /\ Kid(n, 2) = n \o <<2>>
    BY DEF Kid
  <2> HIDE DEF K, S, L, Holds
  <2> QED BY <1>2, <1>3, <2>1, <2>2
<1>5. /\ Collapsed(t, K) \in [T -> Path]
      /\ Collapsed(t, K)[Root] = Root
      /\ \A f \in T, i \in {1, 2} : Kid(f, i) \in T =>
            Collapsed(t, K)[Kid(f, i)] =
              IF f \in K THEN Kid(Collapsed(t, K)[f], i) ELSE Collapsed(t, K)[f]
  BY <1>1, CollapsedFacts
<1>6. L = {n \in T : \E q \in S : Above(n, q)}
  BY DEF Live
<1> HIDE DEF K, S, L, T
<1> QED BY <1>1, <1>4, <1>5, <1>6 DEF Prunes, K, S, L, T

\* The tree that an empty workspace starts with
LEMMA EmptyRootFacts ==
    ASSUME NEW flag \in BOOLEAN
    PROVE  /\ NodeTree(EmptyRoot(flag))
           /\ LeafWindows(EmptyRoot(flag)) = {}
<1> DEFINE t == EmptyRoot(flag)
<1>1. /\ DOMAIN t = {Root} /\ t = [p \in DOMAIN t |-> t[p]]
      /\ t[Root] = [window |-> NoWindow, isRoot |-> flag]
  BY DEF EmptyRoot
<1> HIDE DEF t
<1>2. FullTree(DOMAIN t)
  <2>1. IsFiniteSet({Root})
    BY FS_Singleton
  <2>2. Root \in Path
    BY RootFacts
  <2> QED BY <1>1, <2>1, <2>2 DEF FullTree
<1>3. Leaves(t) = {Root}
  <2>1. Kid(Root, 1) # Root
    BY RootFacts, KidFacts
  <2> QED BY <1>1, <2>1, LeafFacts
<1>4. t[Root] \in Node /\ t[Root].window = NoWindow
  BY <1>1 DEF Node
<1>5. NodeTree(t)
  BY <1>1, <1>2, <1>3, <1>4 DEF NodeTree, IsEmptyTree
<1>6. LeafWindows(t) = {}
  BY <1>3, <1>4 DEF LeafWindows
<1> QED BY <1>5, <1>6 DEF t

\* What a removal leaves, unless it leaves nothing
LEMMA RemovedFacts ==
    ASSUME NEW t, FullTree(DOMAIN t), NEW w, Stay(t, w) # {},
           NEW K, K = Survivors(t, w), NEW at, at = Collapsed(t, K),
           NEW n, n = RemoveToplevel(t, w)
    PROVE  /\ Prunes(DOMAIN t, Stay(t, w), Live(t, w), K, at)
           /\ Stay(t, w) \subseteq K /\ K \subseteq DOMAIN t
           /\ FullTree(DOMAIN n) /\ n = [r \in DOMAIN n |-> n[r]]
           /\ \A r \in DOMAIN n : \E m \in K : r = at[m]
           /\ \A m \in K : /\ at[m] \in DOMAIN n
                           /\ n[at[m]] = t[m]
                           /\ at[m] \in Leaves(n) <=> m \in Stay(t, w)
<1> DEFINE T == DOMAIN t
           S == Stay(t, w)
           L == Live(t, w)
           R == {at[m] : m \in K}
<1>1. Prunes(T, S, L, K, at)
  BY SurvivorsPrune
<1>2. S \subseteq K /\ K \subseteq T /\ K # {}
  BY <1>1, LiveFacts
<1>3. \A a, b \in K : at[a] = at[b] => a = b
  BY <1>1, CollapseIsInjective
<1>4. FullTree(R) /\ \A m \in K : m \in S <=> Kid(at[m], 1) \notin R
  BY <1>1, PrunedIsFull
<1>5. n = [r \in R |-> t[CHOOSE m \in K : at[m] = r]]
  BY <1>2 DEF RemoveToplevel
<1> HIDE DEF T, S, L
<1>6. DOMAIN n = R /\ \A m \in K : n[at[m]] = t[m]
  <2>1. \A m \in K : (CHOOSE x \in K : at[x] = at[m]) = m
    BY <1>3
  <2> QED BY <1>5, <2>1
<1>7. \A r \in R : \E m \in K : r = at[m]
  OBVIOUS
<1>8. \A m \in K : at[m] \in R
  OBVIOUS
<1> HIDE DEF R
<1>9. n = [r \in DOMAIN n |-> n[r]]
  BY <1>5
<1>10. \A m \in K : at[m] \in Leaves(n) <=> m \in S
  <2>1. \A m \in K : at[m] \in Leaves(n) <=> Kid(at[m], 1) \notin R
    BY <1>6, <1>8, LeafFacts
  <2> QED BY <1>4, <2>1
<1> QED BY <1>1, <1>2, <1>4, <1>6, <1>7, <1>8, <1>9, <1>10 DEF S, L, T

\* Removing a window makes a tree of a tree and takes that window away.
LEMMA RemoveTree ==
    ASSUME NEW t, NodeTree(t), NEW w \in Windows
    PROVE  /\ NodeTree(RemoveToplevel(t, w))
           /\ LeafWindows(RemoveToplevel(t, w)) = LeafWindows(t) \ {w}
<1> DEFINE T == DOMAIN t
           S == Stay(t, w)
           K == Survivors(t, w)
           at == Collapsed(t, K)
           n == RemoveToplevel(t, w)
<1>1. /\ FullTree(T) /\ Root \in T
      /\ \A p \in T : t[p] \in Node
      /\ \A p \in T : p \notin Leaves(t) => t[p].window = NoWindow
      /\ IsEmptyTree(t) \/ \A p \in Leaves(t) : t[p].window \in Windows
      /\ Leaves(t) \subseteq T
  BY DEF NodeTree, FullTree, Leaves
<1>2. \A p : p \in S <=> p \in Leaves(t) /\ t[p].window # w
  BY DEF Stay, LeavesOf
<1>3. CASE S = {}
  <2>1. K = {}
    BY <1>3 DEF Survivors, Stay
  <2>2. n = EmptyRoot(t[Root].isRoot)
    BY <2>1 DEF RemoveToplevel
  <2>3. t[Root].isRoot \in BOOLEAN
    BY <1>1 DEF Node
  <2>4. LeafWindows(t) \ {w} = {}
    BY <1>2, <1>3 DEF LeafWindows
  <2> QED BY <2>2, <2>3, <2>4, EmptyRootFacts
<1>4. CASE S # {}
  <2>1. /\ Prunes(T, S, Live(t, w), K, at)
        /\ S \subseteq K /\ K \subseteq T
        /\ FullTree(DOMAIN n) /\ n = [r \in DOMAIN n |-> n[r]]
        /\ \A r \in DOMAIN n : \E m \in K : r = at[m]
        /\ \A m \in K : /\ at[m] \in DOMAIN n
                        /\ n[at[m]] = t[m]
                        /\ at[m] \in Leaves(n) <=> m \in S
    BY <1>1, <1>4, RemovedFacts
  <2>2. \A m \in K : m \in S <=> m \in Leaves(t)
    <3>1. \A m \in K : m \in S <=> Kid(m, 1) \notin T
      BY <2>1, LiveFacts
    <3> HIDE DEF K, S
    <3> QED BY <2>1, <3>1, LeafFacts
  <2>3. at[Root] = Root
    BY <2>1 DEF Prunes
  <2> HIDE DEF T, S, K, at, n
  <2>4. Leaves(n) \subseteq DOMAIN n
    BY DEF Leaves
  <2>5. \A r \in DOMAIN n : n[r] \in Node /\ (r \notin Leaves(n) => n[r].window = NoWindow)
    BY <1>1, <2>1, <2>2
  <2>6. LeafWindows(n) = LeafWindows(t) \ {w}
    <3>1. ASSUME NEW r \in Leaves(n) PROVE \E p \in Leaves(t) : n[r].window = t[p].window /\ t[p].window # w
      <4>1. PICK m \in K : r = at[m]
        BY <2>1, <2>4
      <4>2. m \in S
        BY <2>1, <4>1
      <4> QED BY <1>2, <2>1, <4>1, <4>2
    <3>2. ASSUME NEW p \in Leaves(t), t[p].window # w PROVE \E r \in Leaves(n) : n[r].window = t[p].window
      <4>1. p \in S
        BY <1>2, <3>2
      <4>2. p \in K /\ at[p] \in Leaves(n) /\ n[at[p]] = t[p]
        BY <2>1, <4>1
      <4> QED BY <4>2
    <3> QED BY <3>1, <3>2 DEF LeafWindows
  <2>7. IsEmptyTree(n) \/ \A r \in Leaves(n) : n[r].window \in Windows
    <3>1. CASE IsEmptyTree(t)
      <4>1. Root \in Leaves(t) /\ t[Root].window = NoWindow
        BY <3>1 DEF IsEmptyTree
      <4>2. Root \in S
        BY <1>2, <4>1, LayoutAssumption
      <4>3. Root \in K /\ at[Root] = Root
        BY <2>1, <2>3, <4>2
      <4>4. Root \in Leaves(n) /\ n[Root].window = NoWindow
        BY <2>1, <4>1, <4>2, <4>3
      <4> QED BY <4>4 DEF IsEmptyTree
    <3>2. CASE \A p \in Leaves(t) : t[p].window \in Windows
      <4>1. ASSUME NEW r \in Leaves(n) PROVE n[r].window \in Windows
        <5>1. PICK m \in K : r = at[m]
          BY <2>1, <2>4
        <5>2. m \in Leaves(t)
          BY <2>1, <2>2, <5>1
        <5> QED BY <2>1, <3>2, <5>1, <5>2
      <4> QED BY <4>1
    <3> QED BY <1>1, <3>1, <3>2
  <2>8. NodeTree(n)
    BY <2>1, <2>5, <2>7 DEF NodeTree
  <2> QED BY <2>6, <2>8 DEF n
<1> QED BY <1>3, <1>4

\* An empty tree is its root alone.
LEMMA EmptyTreeFacts ==
    ASSUME NEW t, NodeTree(t), IsEmptyTree(t)
    PROVE  DOMAIN t = {Root} /\ Leaves(t) = {Root} /\ LeafWindows(t) = {}
<1>1. Root \in DOMAIN t /\ Kid(Root, 1) \notin DOMAIN t /\ t[Root].window = NoWindow
  BY LeafFacts DEF IsEmptyTree
<1>2. \A q \in DOMAIN t : q = Root
  BY <1>1, TreeFacts, AboveFacts DEF NodeTree, FullTree
<1>3. DOMAIN t = {Root} /\ Leaves(t) = {Root}
  BY <1>1, <1>2, LeafFacts
<1> QED BY <1>1, <1>3 DEF LeafWindows

\* Inserting a window makes a tree of a tree, be it empty or not, wherever the
\* focused window is.
LEMMA InsertTree ==
    ASSUME NEW t, NodeTree(t), NEW focused, NEW w \in Windows
    PROVE  /\ NodeTree(InsertToplevel(t, focused, w))
           /\ LeafWindows(InsertToplevel(t, focused, w)) = LeafWindows(t) \cup {w}
<1>1. CASE IsEmptyTree(t)
  <2> DEFINE n == [t EXCEPT ![Root].window = w]
  <2>1. InsertToplevel(t, focused, w) = n
    BY <1>1 DEF InsertToplevel
  <2>2. DOMAIN t = {Root} /\ Leaves(t) = {Root} /\ LeafWindows(t) = {}
    BY <1>1, EmptyTreeFacts
  <2>3. t = [p \in DOMAIN t |-> t[p]] /\ t[Root] \in Node /\ FullTree(DOMAIN t)
    BY <2>2 DEF NodeTree
  <2>4. DOMAIN n = {Root} /\ n = [p \in DOMAIN n |-> n[p]] /\ n[Root] = [t[Root] EXCEPT !.window = w]
    BY <2>2, <2>3
  <2>5. n[Root] \in Node /\ n[Root].window = w
    BY <2>3, <2>4 DEF Node
  <2> HIDE DEF n
  <2>6. Leaves(n) = {Root}
    BY <2>2, <2>4 DEF Leaves
  <2>7. NodeTree(n) /\ LeafWindows(n) = {w}
    <3>1. FullTree(DOMAIN n)
      BY <2>2, <2>3, <2>4
    <3>2. \A r \in DOMAIN n : n[r] \in Node /\ r \in Leaves(n)
      BY <2>4, <2>5, <2>6
    <3>3. \A r \in Leaves(n) : n[r].window \in Windows
      BY <2>5, <2>6
    <3>4. LeafWindows(n) = {w}
      BY <2>5, <2>6, LayoutAssumption DEF LeafWindows
    <3> QED BY <2>4, <3>1, <3>2, <3>3, <3>4 DEF NodeTree
  <2> QED BY <2>1, <2>2, <2>7
<1>2. CASE ~ IsEmptyTree(t)
  <2>1. FindTargetNode(t, focused) \in DOMAIN t
    BY SearchFacts DEF NodeTree
  <2> QED BY <1>2, <2>1, SplitTree DEF InsertToplevel
<1> QED BY <1>1, <1>2

\* Exchanging the windows of two leaves
Swapped(t, w, p, q) == [t EXCEPT ![p].window = t[q].window, ![q].window = w]

\* Exchanging two leaves keeps the tree and its windows.
LEMMA SwapTree ==
    ASSUME NEW t, NodeTree(t), NEW w \in Windows,
           NEW p \in LeavesOf(t, w), NEW q \in Leaves(t), q # p
    PROVE  /\ NodeTree(Swapped(t, w, p, q))
           /\ LeafWindows(Swapped(t, w, p, q)) = LeafWindows(t)
<1> DEFINE n == Swapped(t, w, p, q)
<1>1. /\ t = [r \in DOMAIN t |-> t[r]] /\ FullTree(DOMAIN t)
      /\ \A r \in DOMAIN t : t[r] \in Node
      /\ \A r \in DOMAIN t : r \notin Leaves(t) => t[r].window = NoWindow
      /\ p \in Leaves(t) /\ t[p].window = w /\ p \in DOMAIN t /\ q \in DOMAIN t
  BY DEF NodeTree, LeavesOf, Leaves
<1>2. \A r \in Leaves(t) : t[r].window \in Windows
  <2>1. ~ IsEmptyTree(t)
    BY <1>1, EmptyTreeFacts
  <2> QED BY <2>1 DEF NodeTree
<1>3. /\ DOMAIN n = DOMAIN t /\ n = [r \in DOMAIN n |-> n[r]]
      /\ n[p] = [t[p] EXCEPT !.window = t[q].window]
      /\ n[q] = [t[q] EXCEPT !.window = w]
      /\ \A r \in DOMAIN t : r # p /\ r # q => n[r] = t[r]
  BY <1>1 DEF Swapped
<1> HIDE DEF n
<1>4. Leaves(n) = Leaves(t)
  BY <1>3 DEF Leaves
<1>5. /\ n[p] \in Node /\ n[p].window = t[q].window
      /\ n[q] \in Node /\ n[q].window = t[p].window
  BY <1>1, <1>2, <1>3 DEF Node
<1>6. \A r \in DOMAIN n : n[r] \in Node /\ (r \notin Leaves(n) => n[r].window = NoWindow)
  BY <1>1, <1>3, <1>4, <1>5
<1>7. ASSUME NEW r \in Leaves(n) PROVE n[r].window \in Windows
  <2>1. r \in Leaves(t) /\ r \in DOMAIN t
    BY <1>4 DEF Leaves
  <2>2. CASE r = p \/ r = q
    BY <1>1, <1>2, <1>5, <2>2
  <2>3. CASE r # p /\ r # q
    BY <1>2, <1>3, <2>1, <2>3
  <2> QED BY <2>2, <2>3
<1>8. LeafWindows(n) = LeafWindows(t)
  <2>1. Leaves(t) \subseteq DOMAIN t
    BY DEF Leaves
  <2>2. \A r \in Leaves(t) : \E x \in Leaves(t) : n[r].window = t[x].window
    BY <1>1, <1>3, <1>5, <2>1
  <2>3. \A r \in Leaves(t) : \E x \in Leaves(t) : t[r].window = n[x].window
    BY <1>1, <1>3, <1>5, <2>1
  <2>4. \A v : v \in LeafWindows(n) <=> v # NoWindow /\ \E r \in Leaves(t) : v = n[r].window
    BY <1>4 DEF LeafWindows
  <2>5. \A v : v \in LeafWindows(t) <=> v # NoWindow /\ \E r \in Leaves(t) : v = t[r].window
    BY DEF LeafWindows
  <2>6. ASSUME NEW v \in LeafWindows(n) PROVE v \in LeafWindows(t)
    <3>1. PICK r \in Leaves(t) : v = n[r].window
      BY <2>4
    <3>2. PICK x \in Leaves(t) : n[r].window = t[x].window
      BY <2>2
    <3> QED BY <2>4, <2>5, <3>1, <3>2
  <2>7. ASSUME NEW v \in LeafWindows(t) PROVE v \in LeafWindows(n)
    <3>1. PICK r \in Leaves(t) : v = t[r].window
      BY <2>5
    <3>2. PICK x \in Leaves(t) : t[r].window = n[x].window
      BY <2>3
    <3> QED BY <2>4, <2>5, <3>1, <3>2
  <2> QED BY <2>6, <2>7
<1>9. NodeTree(n)
  BY <1>1, <1>3, <1>6, <1>7 DEF NodeTree
<1> QED BY <1>8, <1>9 DEF n
----------------------------------------------------------------------------
(* Where the leaves are put *)

Box == [x : Int, y : Int, width : Int, height : Int]
Positive(b) == b.width > 0 /\ b.height > 0

\* The half of a side is no longer than the side, also when rounded.
LEMMA HalfFacts ==
    ASSUME NEW n \in Int
    PROVE  /\ Half(n) \in Int
           /\ Half(n) > 0 => n > 0
           /\ n - Half(n) > 0 => n > 0
           /\ n >= 0 => 0 <= Half(n) /\ Half(n) <= n
BY DEF Half

Rect(x, y, w, h) == [x |-> x, y |-> y, width |-> w, height |-> h]

Across(b, u, v) == [b EXCEPT !.x = u, !.width = v]
Along(b, u, v) == [b EXCEPT !.y = u, !.height = v]

\* The boxes that ChildBox builds, as rectangles with four given sides.
LEMMA AcrossIs ==
    ASSUME NEW b \in Box, NEW u, NEW v
    PROVE  Across(b, u, v) = Rect(u, b.y, v, b.height)
<1> DEFINE r == Rect(b.x, b.y, b.width, b.height)
<1>1. b = r
  BY DEF Rect, Box
<1>2. [r EXCEPT !.x = u, !.width = v] = [[r EXCEPT !.x = u] EXCEPT !.width = v]
  BY DEF Rect
<1>3. [r EXCEPT !.x = u] = Rect(u, b.y, b.width, b.height)
  BY DEF Rect
<1>4. [Rect(u, b.y, b.width, b.height) EXCEPT !.width = v] = Rect(u, b.y, v, b.height)
  BY DEF Rect
<1> HIDE DEF r
<1> QED BY <1>1, <1>2, <1>3, <1>4 DEF Across

\* The same of the other direction.
LEMMA AlongIs ==
    ASSUME NEW b \in Box, NEW u, NEW v
    PROVE  Along(b, u, v) = Rect(b.x, u, b.width, v)
<1> DEFINE r == Rect(b.x, b.y, b.width, b.height)
<1>1. b = r
  BY DEF Rect, Box
<1>2. [r EXCEPT !.y = u, !.height = v] = [[r EXCEPT !.y = u] EXCEPT !.height = v]
  BY DEF Rect
<1>3. [r EXCEPT !.y = u] = Rect(b.x, u, b.width, b.height)
  BY DEF Rect
<1>4. [Rect(b.x, u, b.width, b.height) EXCEPT !.height = v] = Rect(b.x, u, b.width, v)
  BY DEF Rect
<1> HIDE DEF r
<1> QED BY <1>1, <1>2, <1>3, <1>4 DEF Along

\* The same of a half without a gap.
LEMMA HalvedIs ==
    ASSUME NEW b \in Box, NEW u
    PROVE  /\ [b EXCEPT !.width = u] = Rect(b.x, b.y, u, b.height)
           /\ [b EXCEPT !.height = u] = Rect(b.x, b.y, b.width, u)
BY DEF Rect, Box

\* The four boxes a split can give a child
LEMMA ChildBoxIs ==
    ASSUME NEW b \in Box, NEW gap \in Nat,
           NEW w, w = Half(b.width - gap), NEW h, h = Half(b.height - gap)
    PROVE  /\ ChildBox(b, 1, "horiz", gap) = Rect(b.x, b.y, w, b.height)
           /\ ChildBox(b, 2, "horiz", gap) = Rect(b.x + w + gap, b.y, b.width - w - gap, b.height)
           /\ ChildBox(b, 1, "vert", gap) = Rect(b.x, b.y, b.width, h)
           /\ ChildBox(b, 2, "vert", gap) = Rect(b.x, b.y + h + gap, b.width, b.height - h - gap)
<1>1. ChildBox(b, 1, "horiz", gap) = [b EXCEPT !.width = w]
  BY DEF ChildBox
<1>2. ChildBox(b, 2, "horiz", gap) = Across(b, b.x + w + gap, b.width - w - gap)
  BY DEF ChildBox, Across
<1>3. ChildBox(b, 1, "vert", gap) = [b EXCEPT !.height = h]
  BY DEF ChildBox
<1>4. ChildBox(b, 2, "vert", gap) = Along(b, b.y + h + gap, b.height - h - gap)
  BY DEF ChildBox, Along
<1>5. ChildBox(b, 1, "horiz", gap) = Rect(b.x, b.y, w, b.height)
  BY <1>1, HalvedIs, Zenon
<1>6. ChildBox(b, 2, "horiz", gap) = Rect(b.x + w + gap, b.y, b.width - w - gap, b.height)
  BY <1>2, AcrossIs
<1>7. ChildBox(b, 1, "vert", gap) = Rect(b.x, b.y, b.width, h)
  BY <1>3, HalvedIs, Zenon
<1>8. ChildBox(b, 2, "vert", gap) = Rect(b.x, b.y + h + gap, b.width, b.height - h - gap)
  BY <1>4, AlongIs
<1> QED BY <1>5, <1>6, <1>7, <1>8

\* A child lies in its parent's box, and a gap away from its sibling; without
\* a gap the two have the area of the parent.
LEMMA ChildBoxFacts ==
    ASSUME NEW b \in Box, NEW d \in {"horiz", "vert"}, NEW gap \in Nat, NEW i \in {1, 2}
    PROVE  /\ ChildBox(b, i, d, gap) \in Box
           /\ Positive(ChildBox(b, i, d, gap)) =>
                Positive(b) /\ Within(ChildBox(b, i, d, gap), b)
           /\ gap = 0 /\ b.width >= 0 /\ b.height >= 0 =>
                ChildBox(b, i, d, gap).width >= 0 /\ ChildBox(b, i, d, gap).height >= 0
<1> DEFINE w == Half(b.width - gap)
           h == Half(b.height - gap)
           c == ChildBox(b, i, d, gap)
<1>1. /\ b.x \in Int /\ b.y \in Int /\ b.width \in Int /\ b.height \in Int
      /\ b = Rect(b.x, b.y, b.width, b.height)
  BY DEF Box, Rect
<1>2. /\ w \in Int /\ h \in Int
      /\ w > 0 => b.width - gap > 0
      /\ h > 0 => b.height - gap > 0
      /\ b.width - gap - w > 0 => b.width - gap > 0
      /\ b.height - gap - h > 0 => b.height - gap > 0
      /\ b.width - gap >= 0 => 0 <= w /\ w <= b.width - gap
      /\ b.height - gap >= 0 => 0 <= h /\ h <= b.height - gap
  BY <1>1, HalfFacts
<1> HIDE DEF w, h
<1>3. \/ c = Rect(b.x, b.y, w, b.height)
      \/ c = Rect(b.x + w + gap, b.y, b.width - w - gap, b.height)
      \/ c = Rect(b.x, b.y, b.width, h)
      \/ c = Rect(b.x, b.y + h + gap, b.width, b.height - h - gap)
  <2>1. /\ ChildBox(b, 1, "horiz", gap) = Rect(b.x, b.y, w, b.height)
        /\ ChildBox(b, 2, "horiz", gap) = Rect(b.x + w + gap, b.y, b.width - w - gap, b.height)
        /\ ChildBox(b, 1, "vert", gap) = Rect(b.x, b.y, b.width, h)
        /\ ChildBox(b, 2, "vert", gap) = Rect(b.x, b.y + h + gap, b.width, b.height - h - gap)
    BY <1>1, ChildBoxIs DEF w, h
  <2> QED BY <2>1
<1> HIDE DEF c
<1>4. c \in Box
  BY <1>1, <1>2, <1>3 DEF Box, Rect
<1>5. ASSUME Positive(c) PROVE Positive(b) /\ Within(c, b)
  BY <1>1, <1>2, <1>3, <1>5 DEF Positive, Within, Rect
<1>6. ASSUME gap = 0, b.width >= 0, b.height >= 0 PROVE c.width >= 0 /\ c.height >= 0
  BY <1>1, <1>2, <1>3, <1>6 DEF Rect
<1> QED BY <1>4, <1>5, <1>6 DEF c

\* The two halves of a box are a gap apart, and without a gap they fill it.
LEMMA SiblingsFacts ==
    ASSUME NEW b \in Box, NEW d \in {"horiz", "vert"}, NEW gap \in Nat,
           NEW c, c = ChildBox(b, 1, d, gap), NEW e, e = ChildBox(b, 2, d, gap)
    PROVE  /\ Apart(c, e, gap)
           /\ gap = 0 => c.width * c.height + e.width * e.height = b.width * b.height
<1> DEFINE w == Half(b.width - gap)
           h == Half(b.height - gap)
<1>1. /\ b.x \in Int /\ b.y \in Int /\ b.width \in Int /\ b.height \in Int
      /\ b = Rect(b.x, b.y, b.width, b.height)
  BY DEF Box, Rect
<1>2. w \in Int /\ h \in Int
  BY <1>1, HalfFacts
<1>3. CASE d = "horiz"
  <2>1. /\ c.x = b.x /\ c.width = w /\ c.height = b.height
        /\ e.x = b.x + w + gap /\ e.width = b.width - w - gap /\ e.height = b.height
    BY <1>1, <1>3, ChildBoxIs DEF Rect
  <2>2. w * b.height + (b.width - w - 0) * b.height = b.width * b.height
    BY <1>1, <1>2
  <2> HIDE DEF w
  <2> QED BY <1>1, <1>2, <2>1, <2>2 DEF Apart
<1>4. CASE d = "vert"
  <2>1. /\ c.y = b.y /\ c.width = b.width /\ c.height = h
        /\ e.y = b.y + h + gap /\ e.width = b.width /\ e.height = b.height - h - gap
    BY <1>1, <1>4, ChildBoxIs DEF Rect
  <2>2. b.width * h + b.width * (b.height - h - 0) = b.width * b.height
    BY <1>1, <1>2
  <2> HIDE DEF h
  <2> QED BY <1>1, <1>2, <2>1, <2>2 DEF Apart
<1> QED BY <1>3, <1>4

\* A part of a part is a part, and parts of what is apart are apart.
LEMMA WithinFacts ==
    /\ \A b \in Box : Within(b, b)
    /\ \A b, c, e \in Box : Within(b, c) /\ Within(c, e) => Within(b, e)
    /\ \A b, c, e, f \in Box, gap \in Nat :
         Within(b, c) /\ Within(e, f) /\ (Apart(c, f, gap) \/ Apart(f, c, gap)) => Apart(b, e, gap)
BY DEF Box, Within, Apart

\* What arrange_node_recursive computes
BoxSteps(box, T, split, area, gap) ==
    box = [p \in T |-> IF p = Root THEN area
                       ELSE ChildBox(box[Front(p)], Last(p), split[Front(p)], gap)]

EndOf(T) == {p \in T : Kid(p, 1) \notin T}

Boxed(T, split, area, gap, box) ==
    /\ FullTree(T)
    /\ split \in [T \ EndOf(T) -> {"horiz", "vert"}]
    /\ area \in Box /\ gap \in Nat
    /\ box = Boxes(T, split, area, gap)

\* The boxes that Boxes computes: the root has the area and each child its half.
LEMMA BoxesFacts ==
    ASSUME NEW T, NEW split, NEW area, NEW gap, NEW box, Boxed(T, split, area, gap, box)
    PROVE  /\ box \in [T -> Box]
           /\ box[Root] = area
           /\ \A f \in T, i \in {1, 2} : Kid(f, i) \in T =>
                /\ f \in T \ EndOf(T)
                /\ box[Kid(f, i)] = ChildBox(box[f], i, split[f], gap)
<1> USE DEF Boxed
<1> DEFINE step == [v \in T \X Box |->
                      IF v[1] = Root THEN area
                      ELSE ChildBox(v[2], Last(v[1]), split[Front(v[1])], gap)]
<1>1. /\ T \in SUBSET Path /\ IsFiniteSet(T) /\ Root \in T
      /\ \A p \in T : p # Root => /\ Front(p) \in T \ EndOf(T) /\ Front(p) \in Path
                                  /\ Last(p) \in {1, 2} /\ p = Kid(Front(p), Last(p))
  <2>1. ASSUME NEW p \in T, p # Root
        PROVE  /\ Front(p) \in T \ EndOf(T) /\ Front(p) \in Path
               /\ Last(p) \in {1, 2} /\ p = Kid(Front(p), Last(p))
    <3>1. Front(p) \in Path /\ Last(p) \in {1, 2} /\ p = Kid(Front(p), Last(p))
      BY <2>1, FrontFacts DEF FullTree
    <3>2. Front(p) \in T /\ Kid(Front(p), 1) \in T
      BY <3>1, TreeFacts
    <3> QED BY <3>1, <3>2 DEF EndOf
  <2> QED BY <2>1 DEF FullTree
<1>2. step \in [T \X Box -> Box]
  <2>1. ASSUME NEW p \in T, NEW v \in Box
        PROVE  (IF p = Root THEN area
                ELSE ChildBox(v, Last(p), split[Front(p)], gap)) \in Box
    <3>1. CASE p # Root
      <4>1. split[Front(p)] \in {"horiz", "vert"} /\ Last(p) \in {1, 2}
        BY <1>1, <3>1
      <4> QED BY <3>1, <4>1, ChildBoxFacts
    <3> QED BY <3>1
  <2> QED BY <2>1
<1>3. PICK f \in [T -> Box] : Recurs(f, T, area, step)
  <2>1. \A p \in T : p # Root => Front(p) \in T
    BY <1>1
  <2> HIDE DEF step
  <2> QED BY <1>1, <1>2, <2>1, PathRecursion
<1>4. BoxSteps(f, T, split, area, gap)
  <2>1. ASSUME NEW p \in T
        PROVE  f[p] = IF p = Root THEN area
                      ELSE ChildBox(f[Front(p)], Last(p), split[Front(p)], gap)
    <3>1. CASE p # Root
      <4>1. f[Front(p)] \in Box
        BY <1>1, <3>1
      <4>2. step[<<p, f[Front(p)]>>] = ChildBox(f[Front(p)], Last(p), split[Front(p)], gap)
        BY <3>1, <4>1
      <4> HIDE DEF step
      <4> QED BY <1>3, <3>1, <4>2 DEF Recurs
    <3>2. CASE p = Root
      BY <1>3, <3>2 DEF Recurs
    <3> QED BY <3>1, <3>2
  <2>2. f = [p \in T |-> f[p]]
    OBVIOUS
  <2> QED BY <2>1, <2>2 DEF BoxSteps
<1>5. BoxSteps(box, T, split, area, gap)
  <2>1. box = CHOOSE g : BoxSteps(g, T, split, area, gap)
    BY DEF Boxes, BoxSteps
  <2> QED BY <1>4, <2>1
<1>6. /\ DOMAIN box = T /\ box = [p \in T |-> box[p]]
      /\ \A p \in T : box[p] = IF p = Root THEN area
                               ELSE ChildBox(box[Front(p)], Last(p), split[Front(p)], gap)
  BY <1>5 DEF BoxSteps
<1>7. \A p \in T : box[p] \in Box
  <2> DEFINE F == {p \in T : box[p] \notin Box}
  <2>1. SUFFICES ASSUME F # {} PROVE FALSE
    OBVIOUS
  <2>2. PICK p \in F : \A q \in F : Len(p) <= Len(q)
    <3>1. F \in SUBSET Path
      BY <1>1
    <3> HIDE DEF F
    <3> QED BY <2>1, <3>1, ShortestPath
  <2>3. p \in T /\ box[p] \notin Box /\ p # Root
    BY <1>1, <1>6, <2>2
  <2>4. Front(p) \in T /\ Len(Front(p)) \in Nat /\ Len(p) = Len(Front(p)) + 1
    <3>1. /\ Front(p) \in T /\ Front(p) \in Path /\ Last(p) \in {1, 2}
          /\ p = Kid(Front(p), Last(p))
      BY <1>1, <2>3
    <3>2. Len(Kid(Front(p), Last(p))) = Len(Front(p)) + 1
      BY <3>1, KidFacts
    <3> QED BY <3>1, <3>2, RootFacts
  <2>5. box[Front(p)] \in Box
    BY <2>2, <2>4
  <2>6. split[Front(p)] \in {"horiz", "vert"} /\ Last(p) \in {1, 2}
    BY <1>1, <2>3
  <2>7. box[p] = ChildBox(box[Front(p)], Last(p), split[Front(p)], gap)
    BY <1>6, <2>3
  <2> QED BY <2>3, <2>5, <2>6, <2>7, ChildBoxFacts
<1>8. ASSUME NEW f1 \in T, NEW i \in {1, 2}, Kid(f1, i) \in T
      PROVE  f1 \in T \ EndOf(T) /\ box[Kid(f1, i)] = ChildBox(box[f1], i, split[f1], gap)
  <2>1. f1 \in Path
    BY <1>1
  <2>2. Kid(f1, i) # Root /\ Front(Kid(f1, i)) = f1 /\ Last(Kid(f1, i)) = i
    BY <2>1, KidFacts
  <2> QED BY <1>1, <1>6, <1>8, <2>2
<1> QED BY <1>1, <1>6, <1>7, <1>8

\* The leaves of a shape, in the terms of this module.
LEMMA EndsFacts ==
    ASSUME NEW T
    PROVE  Ends(T) = EndOf(T)
BY DEF Ends, EndOf, Kid

\* Boxes of a tree
\* What an arrangement of a tree consists of.
LEMMA BoxedFacts ==
    ASSUME NEW T, NEW split, NEW area, NEW gap, NEW box, Boxed(T, split, area, gap, box)
    PROVE  /\ FullTree(T) /\ T \in SUBSET Path /\ IsFiniteSet(T)
           /\ box \in [T -> Box] /\ gap \in Nat /\ box[Root] = area
           /\ \A f \in T, i \in {1, 2} : Kid(f, i) \in T =>
                /\ f \in T \ EndOf(T)
                /\ split[f] \in {"horiz", "vert"}
                /\ box[f] \in Box
                /\ box[Kid(f, i)] = ChildBox(box[f], i, split[f], gap)
<1>1. /\ FullTree(T) /\ split \in [T \ EndOf(T) -> {"horiz", "vert"}]
      /\ area \in Box /\ gap \in Nat /\ box = Boxes(T, split, area, gap)
  BY DEF Boxed
<1>2. T \in SUBSET Path /\ IsFiniteSet(T)
  BY <1>1 DEF FullTree
<1>3. /\ box \in [T -> Box] /\ box[Root] = area
      /\ \A f \in T, i \in {1, 2} : Kid(f, i) \in T =>
            /\ f \in T \ EndOf(T)
            /\ box[Kid(f, i)] = ChildBox(box[f], i, split[f], gap)
  BY BoxesFacts
<1> QED BY <1>1, <1>2, <1>3

\* What is below a node lies in its box.
LEMMA BelowIsWithin ==
    ASSUME NEW T, NEW split, NEW area, NEW gap, NEW box, Boxed(T, split, area, gap, box),
           NEW p \in T, NEW q \in T, Above(p, q), Positive(box[q])
    PROVE  Within(box[q], box[p])
<1> DEFINE F == {r \in T : Above(p, r) /\ Positive(box[r]) /\ ~ Within(box[r], box[p])}
<1>1. FullTree(T) /\ T \in SUBSET Path /\ box \in [T -> Box] /\ gap \in Nat
  BY BoxedFacts
<1>2. SUFFICES ASSUME F # {} PROVE FALSE
  OBVIOUS
<1>3. PICK r \in F : \A x \in F : Len(r) <= Len(x)
  <2>1. F \in SUBSET Path
    BY <1>1
  <2> HIDE DEF F
  <2> QED BY <1>2, <2>1, ShortestPath
<1>4. r \in T /\ Above(p, r) /\ Positive(box[r]) /\ ~ Within(box[r], box[p]) /\ p \in Path /\ r \in Path
  BY <1>1, <1>3
<1>5. r # p
  BY <1>1, <1>4, WithinFacts
<1>6. r # Root
  BY <1>4, <1>5, AboveFacts, RootFacts
<1>7. PICK f \in T, i \in {1, 2} : r = Kid(f, i)
  BY <1>1, <1>4, <1>6 DEF FullTree
<1>8. f \in Path /\ Above(p, f) /\ Len(r) = Len(f) + 1 /\ Len(f) \in Nat
  <2>1. f \in Path
    BY <1>1
  <2>2. Len(r) = Len(f) + 1 /\ Len(f) \in Nat
    BY <1>7, <2>1, KidFacts, RootFacts
  <2>3. Above(p, f)
    BY <1>4, <1>5, <1>7, <2>1, AboveKid
  <2> QED BY <2>1, <2>2, <2>3
<1>9. f \notin F
  BY <1>3, <1>8
<1>10. box[f] \in Box /\ box[p] \in Box /\ box[r] \in Box /\ split[f] \in {"horiz", "vert"}
       /\ box[r] = ChildBox(box[f], i, split[f], gap)
  BY <1>1, <1>4, <1>7, BoxedFacts
<1>11. Positive(box[f]) /\ Within(box[r], box[f])
  <2>1. Positive(ChildBox(box[f], i, split[f], gap))
    BY <1>4, <1>10
  <2> QED BY <1>1, <1>10, <2>1, ChildBoxFacts
<1>12. Within(box[f], box[p])
  BY <1>8, <1>9, <1>11
<1> HIDE DEF F
<1> QED BY <1>4, <1>10, <1>11, <1>12, WithinFacts

\* Two leaves that are placed are a gap apart.
LEMMA LeavesAreApart ==
    ASSUME NEW T, NEW split, NEW area, NEW gap, NEW box, Boxed(T, split, area, gap, box),
           NEW p \in EndOf(T), NEW q \in EndOf(T), p # q, Positive(box[p]), Positive(box[q])
    PROVE  Apart(box[p], box[q], gap)
<1>1. FullTree(T) /\ T \in SUBSET Path /\ box \in [T -> Box] /\ gap \in Nat
  BY BoxedFacts
<1>2. p \in T /\ q \in T /\ p \in Path /\ q \in Path /\ ~ Above(p, q) /\ ~ Above(q, p)
  BY <1>1, TreeFacts DEF EndOf
<1>3. PICK d \in Path, i, j \in {1, 2} : i # j /\ Above(Kid(d, i), p) /\ Above(Kid(d, j), q)
  BY <1>2, PathsPart
<1>4. Kid(d, i) \in T /\ Kid(d, j) \in T /\ d \in T
  BY <1>1, <1>2, <1>3, KidFacts, TreeFacts
<1>5. Within(box[p], box[Kid(d, i)]) /\ Within(box[q], box[Kid(d, j)])
  BY <1>2, <1>3, <1>4, BelowIsWithin
<1>6. Apart(box[Kid(d, i)], box[Kid(d, j)], gap) \/ Apart(box[Kid(d, j)], box[Kid(d, i)], gap)
  <2>1. /\ split[d] \in {"horiz", "vert"} /\ box[d] \in Box
        /\ box[Kid(d, i)] = ChildBox(box[d], i, split[d], gap)
        /\ box[Kid(d, j)] = ChildBox(box[d], j, split[d], gap)
    BY <1>1, <1>3, <1>4, BoxedFacts
  <2>2. Apart(ChildBox(box[d], 1, split[d], gap), ChildBox(box[d], 2, split[d], gap), gap)
    BY <1>1, <2>1, SiblingsFacts
  <2> QED BY <1>3, <2>1, <2>2
<1>7. box[p] \in Box /\ box[q] \in Box /\ box[Kid(d, i)] \in Box /\ box[Kid(d, j)] \in Box
  BY <1>1, <1>2, <1>4
<1> QED BY <1>1, <1>5, <1>6, <1>7, WithinFacts

\* Without a gap no box has a negative side.
LEMMA SidesWithoutGap ==
    ASSUME NEW T, NEW split, NEW area, NEW gap, NEW box, Boxed(T, split, area, gap, box),
           gap = 0, area.width >= 0, area.height >= 0, NEW q \in T
    PROVE  box[q].width >= 0 /\ box[q].height >= 0
<1> DEFINE Good(r) == box[r].width >= 0 /\ box[r].height >= 0
           F == {r \in T : ~ Good(r)}
<1>1. FullTree(T) /\ T \in SUBSET Path /\ box \in [T -> Box] /\ gap \in Nat /\ box[Root] = area
  BY BoxedFacts
<1>2. SUFFICES ASSUME F # {} PROVE FALSE
  OBVIOUS
<1>3. PICK r \in F : \A x \in F : Len(r) <= Len(x)
  <2>1. F \in SUBSET Path
    BY <1>1
  <2> HIDE DEF F
  <2> QED BY <1>2, <2>1, ShortestPath
<1>4. r \in T /\ ~ Good(r) /\ r # Root
  BY <1>1, <1>3
<1>5. PICK f \in T, i \in {1, 2} : r = Kid(f, i)
  BY <1>1, <1>4 DEF FullTree
<1>6. Len(r) = Len(f) + 1 /\ Len(f) \in Nat
  BY <1>1, <1>5, KidFacts, RootFacts
<1>7. Good(f)
  BY <1>3, <1>6
<1>8. box[f] \in Box /\ split[f] \in {"horiz", "vert"} /\ box[r] = ChildBox(box[f], i, split[f], gap)
  BY <1>1, <1>4, <1>5, BoxedFacts
<1> HIDE DEF F
<1> QED BY <1>1, <1>4, <1>7, <1>8, ChildBoxFacts

\* Without a gap the leaves that are placed have the area of the root.
LEMMA AreaIsFilled ==
    ASSUME NEW T, NEW split, NEW area, NEW gap, NEW box, Boxed(T, split, area, gap, box),
           gap = 0, area.width >= 0, area.height >= 0,
           NEW P, P = {p \in EndOf(T) : Positive(box[p])},
           NEW v, v = [p \in T |-> box[p].width * box[p].height],
           NEW f, Sums(v, T, f)
    PROVE  f[P] = area.width * area.height
<1> DEFINE Under(p) == {q \in P : Above(p, q)}
           F == {p \in T : f[Under(p)] # v[p]}
<1>1. FullTree(T) /\ T \in SUBSET Path /\ IsFiniteSet(T) /\ box \in [T -> Box] /\ box[Root] = area
  BY BoxedFacts
<1>2. P \in SUBSET T /\ Root \in T /\ \A p : Under(p) \in SUBSET T
  BY <1>1 DEF EndOf, FullTree
<1>3. v \in [T -> Int] /\ f[{}] = 0
  <2>1. \A p \in T : box[p].width \in Int /\ box[p].height \in Int
    BY <1>1 DEF Box
  <2> QED BY <2>1 DEF Sums
<1>4. F = {}
  <2>1. SUFFICES ASSUME F # {} PROVE FALSE
    OBVIOUS
  <2>2. PICK p \in F : \A q \in F : Above(p, q) => p = q
    <3>1. F \in SUBSET T
      OBVIOUS
    <3> HIDE DEF F
    <3> QED BY <1>1, <2>1, <3>1, DeepestPath
  <2>3. p \in T /\ p \in Path /\ f[Under(p)] # v[p] /\ \A q \in T : Above(p, q) /\ q # p => f[Under(q)] = v[q]
    BY <1>1, <2>2
  <2> HIDE DEF F
  <2>4. box[p].width \in Int /\ box[p].height \in Int /\ v[p] = box[p].width * box[p].height
    BY <1>1, <2>3 DEF Box
  <2>5. CASE p \in EndOf(T)
    <3>1. \A q \in Under(p) : q = p
      BY <1>1, <1>2, <2>3, <2>5, TreeFacts DEF EndOf
    <3>2. CASE Positive(box[p])
      <4>1. Under(p) = {p}
        BY <2>3, <2>5, <3>1, <3>2, AboveFacts
      <4>2. f[{p}] = v[p] + f[{}]
        <5>1. {p} \in SUBSET T /\ {p} \ {p} = {} /\ p \in {p}
          BY <2>3
        <5> QED BY <5>1 DEF Sums
      <4> HIDE DEF Under
      <4> QED BY <1>3, <2>3, <4>1, <4>2
    <3>3. CASE ~ Positive(box[p])
      <4>1. Under(p) = {}
        BY <3>1, <3>3
      <4>2. box[p].width >= 0 /\ box[p].height >= 0
        BY <2>3, SidesWithoutGap
      <4>3. box[p].width = 0 \/ box[p].height = 0
        BY <2>4, <3>3, <4>2 DEF Positive
      <4>4. v[p] = 0
        BY <2>4, <4>3
      <4> HIDE DEF Under
      <4> QED BY <1>3, <2>3, <4>1, <4>4
    <3> QED BY <3>2, <3>3
  <2>6. CASE p \notin EndOf(T)
    <3> DEFINE k1 == Kid(p, 1)
               k2 == Kid(p, 2)
    <3>1. k1 \in T /\ k2 \in T /\ k1 \in Path /\ k2 \in Path
      BY <1>1, <2>3, <2>6, TreeFacts, KidFacts DEF EndOf
    <3>2. /\ Above(p, k1) /\ Above(p, k2) /\ k1 # p /\ k2 # p
      BY <2>3, AboveFacts, KidIsBelow
    <3>3. f[Under(k1)] = v[k1] /\ f[Under(k2)] = v[k2]
      BY <2>3, <3>1, <3>2
    <3>4. Under(p) = Under(k1) \cup Under(k2)
      <4>1. ASSUME NEW q \in P, Above(p, q) PROVE Above(k1, q) \/ Above(k2, q)
        <5>1. q # p /\ q \in Path
          BY <1>1, <1>2, <2>6
        <5> QED BY <2>3, <4>1, <5>1, BelowOneKid
      <4>2. ASSUME NEW q \in P, Above(k1, q) \/ Above(k2, q) PROVE Above(p, q)
        <5>1. q \in Path
          BY <1>1, <1>2
        <5> QED BY <2>3, <3>1, <3>2, <4>2, <5>1, AboveFacts
      <4> HIDE DEF k1, k2
      <4> QED BY <4>1, <4>2
    <3>5. Under(k1) \cap Under(k2) = {}
      <4>1. \A q \in P : ~(Above(k1, q) /\ Above(k2, q))
        BY <1>1, <1>2, <2>3, BelowOnlyOne
      <4> HIDE DEF k1, k2
      <4> QED BY <4>1
    <3>6. /\ box[p] \in Box /\ split[p] \in {"horiz", "vert"} /\ gap \in Nat
          /\ box[k1] = ChildBox(box[p], 1, split[p], gap)
          /\ box[k2] = ChildBox(box[p], 2, split[p], gap)
      BY <2>3, <3>1, BoxedFacts
    <3>7. box[k1].width * box[k1].height + box[k2].width * box[k2].height
            = box[p].width * box[p].height
      BY <3>6, SiblingsFacts
    <3>8. v[k1] + v[k2] = v[p]
      BY <2>3, <3>1, <3>7
    <3>9. f[Under(k1) \cup Under(k2)] = f[Under(k1)] + f[Under(k2)]
      <4>1. Under(k1) \in SUBSET T /\ Under(k2) \in SUBSET T
        BY <1>2
      <4> HIDE DEF Under, k1, k2
      <4> QED BY <1>1, <1>3, <3>5, <4>1, SumOfUnion
    <3> HIDE DEF Under, k1, k2
    <3> QED BY <2>3, <3>3, <3>4, <3>8, <3>9
  <2> QED BY <2>5, <2>6
<1>5. f[Under(Root)] = v[Root]
  BY <1>2, <1>4
<1>6. Under(Root) = P
  BY <1>1, <1>2, AboveFacts
<1>7. v[Root] = area.width * area.height
  BY <1>1, <1>2
<1> HIDE DEF Under, F
<1> QED BY <1>5, <1>6, <1>7

\* Every full binary tree partitions every area, whichever way its splits run.
LEMMA FullTreesPartition ==
    ASSUME NEW T, FullTree(T), NEW split \in Directions(T),
           NEW area \in Box, NEW gap \in Nat
    PROVE  Partitions(T, area, gap, Boxes(T, split, area, gap))
<1> DEFINE box == Boxes(T, split, area, gap)
           P == Placed(T, box)
<1>1. Boxed(T, split, area, gap, box)
  BY EndsFacts DEF Boxed, Directions
<1>2. P = {p \in EndOf(T) : Positive(box[p])}
  BY EndsFacts DEF Placed, Positive
<1> HIDE DEF box, P
<1>3. /\ FullTree(T) /\ T \in SUBSET Path /\ IsFiniteSet(T) /\ Root \in T
      /\ box \in [T -> Box] /\ box[Root] = area
  BY <1>1, BoxedFacts DEF FullTree
<1>4. P \in SUBSET T
  BY <1>2 DEF EndOf
<1>5. ASSUME NEW p \in P PROVE Within(box[p], area)
  <2>1. p \in T /\ Positive(box[p]) /\ Above(Root, p)
    BY <1>2, <1>3, <1>4, AboveFacts
  <2> QED BY <1>1, <1>3, <2>1, BelowIsWithin
<1>6. ASSUME NEW p \in P, NEW q \in P \ {p} PROVE Apart(box[p], box[q], gap)
  BY <1>1, <1>2, LeavesAreApart
<1>7. ASSUME gap = 0, area.width >= 0, area.height >= 0
      PROVE  SumFunction([p \in P |-> box[p].width * box[p].height]) = area.width * area.height
  <2> DEFINE v == [p \in T |-> box[p].width * box[p].height]
  <2>1. v \in [T -> Int]
    BY <1>3 DEF Box
  <2>2. [p \in P |-> box[p].width * box[p].height] = [p \in P |-> v[p]]
    BY <1>4
  <2>3. PICK f : /\ Sums(v, T, f)
                 /\ \A W \in SUBSET T : SumFunction([x \in W |-> v[x]]) = f[W]
    <3> HIDE DEF v
    <3> QED BY <1>3, <2>1, SumsExist
  <2>4. f[P] = area.width * area.height
    BY <1>1, <1>2, <1>7, <2>3, AreaIsFilled
  <2> HIDE DEF v
  <2> QED BY <1>4, <2>2, <2>3, <2>4
<1> QED BY <1>5, <1>6, <1>7 DEF Partitions, P, box
----------------------------------------------------------------------------
(* Where a direction leads *)

\* A function can also be defined from the leaves up.
Gathers(g, T, leaf, join) ==
    \A p \in T : g[p] = IF p \in EndOf(T) THEN leaf[p]
                        ELSE join[<<g[Kid(p, 1)], g[Kid(p, 2)]>>]

\* There is a function that gathers a tree from its leaves up.
LEMMA LeafRecursion ==
    ASSUME NEW T, FullTree(T), NEW V, NEW leaf \in [T -> V], NEW join \in [V \X V -> V]
    PROVE  \E g \in [T -> V] : Gathers(g, T, leaf, join)
<1>1. T \in SUBSET Path /\ IsFiniteSet(T)
  BY DEF FullTree
<1>2. PICK b \in Nat : \A p \in T : Len(p) <= b
  BY <1>1, PathsAreBounded
<1> DEFINE Down(n) == {p \in T : Len(p) + n > b}
           Follows(g, n) == \A p \in Down(n) :
                g[p] = IF p \in EndOf(T) THEN leaf[p] ELSE join[<<g[Kid(p, 1)], g[Kid(p, 2)]>>]
           N == {n \in Nat : ~ \E g \in [Down(n) -> V] : Follows(g, n)}
<1>3. \A p \in T : Len(p) \in Nat
  BY <1>1, RootFacts
<1>4. N = {}
  <2>1. SUFFICES ASSUME N # {} PROVE FALSE
    OBVIOUS
  <2>2. PICK n \in N : \A m \in N : n <= m
    <3>1. N \in SUBSET Nat
      OBVIOUS
    <3> HIDE DEF N
    <3> QED BY <2>1, <3>1, LeastNatural
  <2>3. n \in Nat /\ ~ \E g \in [Down(n) -> V] : Follows(g, n)
    BY <2>2
  <2>4. CASE n = 0
    <3> DEFINE g == [p \in {} |-> p]
    <3>1. Down(0) = {}
      BY <1>2, <1>3
    <3>2. g \in [Down(0) -> V] /\ Follows(g, 0)
      BY <3>1
    <3> QED BY <2>3, <2>4, <3>2
  <2>5. CASE n # 0
    <3>1. n - 1 \in Nat /\ n - 1 \notin N
      <4>1. n - 1 \in Nat /\ ~(n <= n - 1)
        BY <2>3, <2>5
      <4> HIDE DEF N
      <4> QED BY <2>2, <4>1
    <3>2. PICK h \in [Down(n - 1) -> V] : Follows(h, n - 1)
      BY <3>1
    <3> DEFINE g == [p \in Down(n) |->
                        IF p \in Down(n - 1) THEN h[p]
                        ELSE IF p \in EndOf(T) THEN leaf[p]
                        ELSE join[<<h[Kid(p, 1)], h[Kid(p, 2)]>>]]
    <3>3. ASSUME NEW p \in Down(n), p \notin EndOf(T), NEW i \in {1, 2}
          PROVE  Kid(p, i) \in Down(n - 1) /\ h[Kid(p, i)] \in V /\ g[Kid(p, i)] = h[Kid(p, i)]
      <4>1. p \in Path /\ p \in T /\ Len(p) + n > b /\ Len(p) \in Nat
        BY <1>1, <1>3
      <4>2. Kid(p, 1) \in T /\ Kid(p, 2) \in T
        BY <3>3, <4>1, TreeFacts DEF EndOf
      <4>3. Kid(p, i) \in T /\ Len(Kid(p, i)) = Len(p) + 1
        BY <4>1, <4>2, KidFacts
      <4>4. Kid(p, i) \in Down(n - 1) /\ Kid(p, i) \in Down(n)
        BY <1>2, <2>3, <4>1, <4>3
      <4> QED BY <3>2, <4>4
    <3>4. ASSUME NEW p \in Down(n)
          PROVE  /\ g[p] \in V
                 /\ g[p] = IF p \in EndOf(T) THEN leaf[p]
                           ELSE join[<<g[Kid(p, 1)], g[Kid(p, 2)]>>]
      <4>1. CASE p \in EndOf(T)
        <5>1. p \in Down(n - 1) => h[p] = leaf[p]
          BY <3>2, <4>1
        <5> QED BY <4>1, <5>1
      <4>2. CASE p \notin EndOf(T)
        <5>1. /\ h[Kid(p, 1)] \in V /\ h[Kid(p, 2)] \in V
              /\ g[Kid(p, 1)] = h[Kid(p, 1)] /\ g[Kid(p, 2)] = h[Kid(p, 2)]
          BY <3>3, <4>2
        <5>2. p \in Down(n - 1) => h[p] = join[<<h[Kid(p, 1)], h[Kid(p, 2)]>>]
          BY <3>2, <4>2
        <5>3. g[p] = join[<<h[Kid(p, 1)], h[Kid(p, 2)]>>]
          BY <4>2, <5>2
        <5> HIDE DEF g
        <5> QED BY <4>2, <5>1, <5>3
      <4> QED BY <4>1, <4>2
    <3>5. g \in [Down(n) -> V] /\ Follows(g, n)
      <4>1. g \in [Down(n) -> V]
        BY <3>4
      <4> HIDE DEF g
      <4> QED BY <3>4, <4>1
    <3> QED BY <2>3, <3>5
  <2> QED BY <2>4, <2>5
<1>5. Down(b + 1) = T
  BY <1>2, <1>3
<1>6. \E g \in [Down(b + 1) -> V] : Follows(g, b + 1)
  <2>1. b + 1 \in Nat
    BY <1>2
  <2>2. b + 1 \notin N
    <3> HIDE DEF N
    <3> QED BY <1>4
  <2> QED BY <2>1, <2>2
<1>7. PICK g \in [T -> V] : Follows(g, b + 1)
  BY <1>5, <1>6
<1> QED BY <1>5, <1>7 DEF Gathers

\* What find_node_in_direction returns for every node
Fits(box, from, direction, p) ==
    <<box[p].x, box[p].y>> # <<from.x, from.y>> /\ Beyond(box[p], from, direction)

FindSteps(g, T, box, from, direction) ==
    g = [p \in T |-> IF p \notin Ends(T)
                     THEN Nearer(box, g[p \o <<1>>], g[p \o <<2>>], from)
                     ELSE IF /\ <<box[p].x, box[p].y>> # <<from.x, from.y>>
                             /\ Beyond(box[p], from, direction)
                          THEN p ELSE Nowhere]

\* What the search computes at each node: at a leaf whether it fits, at a split
\* the nearer of what it found below the two children.
LEMMA FindFacts ==
    ASSUME NEW T, FullTree(T), NEW box, NEW from, NEW direction
    PROVE  \E g : /\ FindNodeInDirection(T, box, from, direction) = g[Root]
                  /\ \A p \in EndOf(T) :
                        g[p] = IF Fits(box, from, direction, p) THEN p ELSE Nowhere
                  /\ \A p \in T \ EndOf(T) :
                        g[p] = Nearer(box, g[Kid(p, 1)], g[Kid(p, 2)], from)
<1> DEFINE V == T \cup {Nowhere}
           leaf == [p \in T |-> IF Fits(box, from, direction, p) THEN p ELSE Nowhere]
           join == [x \in V \X V |-> Nearer(box, x[1], x[2], from)]
<1>1. leaf \in [T -> V]
  OBVIOUS
<1>2. join \in [V \X V -> V]
  <2>1. ASSUME NEW p \in V, NEW q \in V PROVE Nearer(box, p, q, from) \in V
    <3>1. Nearer(box, p, q, from) \in {p, q}
      BY DEF Nearer
    <3> QED BY <3>1
  <2> HIDE DEF V
  <2> QED BY <2>1
<1>3. PICK f \in [T -> V] : Gathers(f, T, leaf, join)
  <2> HIDE DEF leaf, join, V
  <2> QED BY <1>1, <1>2, LeafRecursion
<1>4. /\ \A p \in EndOf(T) : f[p] = IF Fits(box, from, direction, p) THEN p ELSE Nowhere
      /\ \A p \in T \ EndOf(T) : f[p] = Nearer(box, f[Kid(p, 1)], f[Kid(p, 2)], from)
  <2>1. ASSUME NEW p \in EndOf(T)
        PROVE  f[p] = IF Fits(box, from, direction, p) THEN p ELSE Nowhere
    <3>1. p \in T
      BY DEF EndOf
    <3> QED BY <1>3, <3>1 DEF Gathers
  <2>2. ASSUME NEW p \in T \ EndOf(T)
        PROVE  f[p] = Nearer(box, f[Kid(p, 1)], f[Kid(p, 2)], from)
    <3>1. Kid(p, 1) \in T /\ Kid(p, 2) \in T
      BY TreeFacts DEF EndOf, FullTree
    <3>2. f[Kid(p, 1)] \in V /\ f[Kid(p, 2)] \in V
      BY <3>1
    <3>3. f[p] = join[<<f[Kid(p, 1)], f[Kid(p, 2)]>>]
      BY <1>3 DEF Gathers
    <3> HIDE DEF V, leaf
    <3> QED BY <3>2, <3>3
  <2> QED BY <2>1, <2>2
<1>5. FindSteps(f, T, box, from, direction)
  <2>1. \A p \in T : f[p] = IF p \notin Ends(T)
                            THEN Nearer(box, f[p \o <<1>>], f[p \o <<2>>], from)
                            ELSE IF /\ <<box[p].x, box[p].y>> # <<from.x, from.y>>
                                    /\ Beyond(box[p], from, direction)
                                 THEN p ELSE Nowhere
    BY <1>4, EndsFacts DEF Fits, Kid
  <2>2. f = [p \in T |-> f[p]]
    OBVIOUS
  <2> HIDE DEF V, leaf, join
  <2> QED BY <2>1, <2>2, Zenon DEF FindSteps
<1> DEFINE g == CHOOSE x : FindSteps(x, T, box, from, direction)
<1>6. FindSteps(g, T, box, from, direction)
  BY <1>5
<1>7. FindNodeInDirection(T, box, from, direction) = g[Root]
  BY DEF FindNodeInDirection, FindSteps
<1> HIDE DEF g
<1>8. \A p \in T : g[p] = IF p \notin Ends(T)
                          THEN Nearer(box, g[p \o <<1>>], g[p \o <<2>>], from)
                          ELSE IF /\ <<box[p].x, box[p].y>> # <<from.x, from.y>>
                                  /\ Beyond(box[p], from, direction)
                               THEN p ELSE Nowhere
  BY <1>6 DEF FindSteps
<1>9. EndOf(T) \subseteq T
  BY DEF EndOf
<1> QED BY <1>7, <1>8, <1>9, EndsFacts DEF Fits, Kid

\* Distances can be compared.
LEMMA DistanceIsInteger ==
    ASSUME NEW b \in Box, NEW from \in Box
    PROVE  Distance(b, from) \in Int
BY DEF Distance, Abs, Box

\* Below every node the search returns a nearest leaf of those that lie in
\* the direction, if there is any.
LEMMA SearchIsNearest ==
    ASSUME NEW T, FullTree(T), NEW box \in [T -> Box], NEW from \in Box, NEW direction,
           NEW found, found = FindNodeInDirection(T, box, from, direction),
           NEW there, there = {q \in EndOf(T) : Fits(box, from, direction, q)}
    PROVE  IF there = {} THEN found = Nowhere
           ELSE /\ found \in there
                /\ \A q \in there : Distance(box[found], from) <= Distance(box[q], from)
<1>1. PICK g : /\ found = g[Root]
               /\ \A p \in EndOf(T) :
                     g[p] = IF Fits(box, from, direction, p) THEN p ELSE Nowhere
               /\ \A p \in T \ EndOf(T) :
                     g[p] = Nearer(box, g[Kid(p, 1)], g[Kid(p, 2)], from)
  BY FindFacts
<1> DEFINE Below(p) == {q \in there : Above(p, q)}
           D(q) == Distance(box[q], from)
           Good(p) == IF Below(p) = {} THEN g[p] = Nowhere
                      ELSE g[p] \in Below(p) /\ \A q \in Below(p) : D(g[p]) <= D(q)
           F == {p \in T : ~ Good(p)}
<1>2. T \in SUBSET Path /\ IsFiniteSet(T) /\ Root \in T /\ there \subseteq EndOf(T) /\ EndOf(T) \subseteq T
  BY DEF FullTree, EndOf
<1>3. Nowhere \notin T
  <2>1. ASSUME Nowhere \in Path PROVE FALSE
    <3>1. Nowhere[1] \in {1, 2} /\ Nowhere[1] = 0
      BY <2>1 DEF Path, Nowhere
    <3> QED BY <3>1
  <2> QED BY <1>2, <2>1
<1>4. \A q \in T : D(q) \in Int
  BY DistanceIsInteger
<1>5. F = {}
  <2>1. SUFFICES ASSUME F # {} PROVE FALSE
    OBVIOUS
  <2>2. PICK p \in F : \A q \in F : Above(p, q) => p = q
    <3>1. F \in SUBSET T
      OBVIOUS
    <3> HIDE DEF F
    <3> QED BY <1>2, <2>1, <3>1, DeepestPath
  <2>3. p \in T /\ p \in Path /\ ~ Good(p) /\ \A q \in T : Above(p, q) /\ q # p => Good(q)
    BY <1>2, <2>2
  <2> HIDE DEF F
  <2>4. CASE p \in EndOf(T)
    <3>1. \A q \in Below(p) : q = p
      BY <1>2, <2>3, <2>4, TreeFacts DEF EndOf
    <3>2. CASE Fits(box, from, direction, p)
      <4>1. p \in Below(p) /\ g[p] = p
        BY <1>1, <2>3, <2>4, <3>2, AboveFacts
      <4>2. Below(p) # {} /\ \A q \in Below(p) : D(g[p]) <= D(q)
        <5>1. D(p) \in Int
          BY <1>4, <2>3
        <5> HIDE DEF Below, D
        <5> QED BY <3>1, <4>1, <5>1
      <4> HIDE DEF Below, D
      <4> QED BY <2>3, <4>1, <4>2
    <3>3. CASE ~ Fits(box, from, direction, p)
      <4>1. Below(p) = {} /\ g[p] = Nowhere
        BY <1>1, <2>4, <3>1, <3>3
      <4> QED BY <2>3, <4>1
    <3> QED BY <3>2, <3>3
  <2>5. CASE p \notin EndOf(T)
    <3> DEFINE k1 == Kid(p, 1)
               k2 == Kid(p, 2)
    <3>1. k1 \in T /\ k2 \in T /\ k1 \in Path /\ k2 \in Path
      BY <1>2, <2>3, <2>5, TreeFacts, KidFacts DEF EndOf
    <3>2. Above(p, k1) /\ Above(p, k2) /\ k1 # p /\ k2 # p
      BY <2>3, AboveFacts, KidIsBelow
    <3>3. Good(k1) /\ Good(k2)
      BY <2>3, <3>1, <3>2
    <3>4. Below(p) = Below(k1) \cup Below(k2)
      <4>1. ASSUME NEW q \in there, Above(p, q) PROVE Above(k1, q) \/ Above(k2, q)
        <5>1. q # p /\ q \in Path
          BY <1>2, <2>5
        <5> QED BY <2>3, <4>1, <5>1, BelowOneKid
      <4>2. ASSUME NEW q \in there, Above(k1, q) \/ Above(k2, q) PROVE Above(p, q)
        <5>1. q \in Path
          BY <1>2
        <5> QED BY <2>3, <3>1, <3>2, <4>2, <5>1, AboveFacts
      <4> HIDE DEF k1, k2
      <4> QED BY <4>1, <4>2
    <3>5. g[p] = Nearer(box, g[k1], g[k2], from)
      BY <1>1, <2>3, <2>5
    <3>6. /\ \A q \in Below(p) : q \in T /\ q # Nowhere /\ D(q) \in Int
      BY <1>2, <1>3, <1>4
    <3>7. \/ g[p] = g[k2] /\ g[k1] = Nowhere
          \/ g[p] = g[k1] /\ g[k2] = Nowhere
          \/ g[p] = g[k1] /\ D(g[k1]) < D(g[k2])
          \/ g[p] = g[k2] /\ ~(D(g[k1]) < D(g[k2]))
      BY <3>5 DEF Nearer
    <3>8. \A k \in {k1, k2} : \/ Below(k) = {} /\ g[k] = Nowhere
                              \/ /\ Below(k) # {} /\ g[k] \in Below(k) /\ g[k] \in Below(p)
                                 /\ \A q \in Below(k) : D(g[k]) <= D(q)
      BY <3>3, <3>4
    <3>9. g[k1] = Nowhere <=> Below(k1) = {}
      <4> HIDE DEF Below, D, k1, k2
      <4> QED BY <3>6, <3>8
    <3>10. g[k2] = Nowhere <=> Below(k2) = {}
      <4> HIDE DEF Below, D, k1, k2
      <4> QED BY <3>6, <3>8
    <3>11. CASE Below(k1) = {} /\ Below(k2) = {}
      <4>1. Below(p) = {} /\ g[p] = Nowhere
        <5> HIDE DEF Below, D, k1, k2
        <5> QED BY <3>4, <3>7, <3>9, <3>10, <3>11
      <4> QED BY <2>3, <4>1
    <3>12. CASE Below(k1) = {} /\ Below(k2) # {}
      <4>1. g[p] = g[k2] /\ g[k2] \in Below(p)
        <5>1. g[p] = g[k2]
          BY <3>5, <3>9, <3>12 DEF Nearer
        <5> HIDE DEF Below, D, k1, k2
        <5> QED BY <3>8, <3>12, <5>1
      <4>2. \A q \in Below(p) : D(g[p]) <= D(q)
        <5> HIDE DEF Below, D, k1, k2
        <5> QED BY <3>4, <3>8, <3>12, <4>1
      <4> HIDE DEF Below, D, k1, k2
      <4> QED BY <2>3, <4>1, <4>2
    <3>13. CASE Below(k1) # {} /\ Below(k2) = {}
      <4>1. g[p] = g[k1] /\ g[k1] \in Below(p)
        <5>1. g[p] = g[k1]
          BY <3>5, <3>9, <3>10, <3>13 DEF Nearer
        <5> HIDE DEF Below, D, k1, k2
        <5> QED BY <3>8, <3>13, <5>1
      <4>2. \A q \in Below(p) : D(g[p]) <= D(q)
        <5> HIDE DEF Below, D, k1, k2
        <5> QED BY <3>4, <3>8, <3>13, <4>1
      <4> HIDE DEF Below, D, k1, k2
      <4> QED BY <2>3, <4>1, <4>2
    <3>14. CASE Below(k1) # {} /\ Below(k2) # {}
      <4> HIDE DEF Below, D, k1, k2
      <4>1. g[k1] \in Below(p) /\ g[k2] \in Below(p) /\ D(g[k1]) \in Int /\ D(g[k2]) \in Int
        BY <3>6, <3>8, <3>14
      <4>2. \A q \in Below(p) : D(q) \in Int /\ (D(g[k1]) <= D(q) \/ D(g[k2]) <= D(q))
        BY <3>4, <3>6, <3>8, <3>14
      <4>3. \/ g[p] = g[k1] /\ D(g[k1]) < D(g[k2])
            \/ g[p] = g[k2] /\ ~(D(g[k1]) < D(g[k2]))
        BY <3>7, <3>9, <3>10, <3>14
      <4>4. g[p] \in Below(p) /\ \A q \in Below(p) : D(g[p]) <= D(q)
        BY <4>1, <4>2, <4>3
      <4> QED BY <2>3, <4>4
    <3> QED BY <3>11, <3>12, <3>13, <3>14
  <2> QED BY <2>4, <2>5
<1>6. Good(Root)
  BY <1>2, <1>5
<1>7. Below(Root) = there
  BY <1>2, AboveFacts
<1> HIDE DEF Below, F
<1> QED BY <1>1, <1>6, <1>7

\* In every full binary tree whose leaves are all placed, the search of a
\* direction returns a nearest of all leaves that lie there.
LEMMA FullTreesFindNearest ==
    ASSUME NEW T, FullTree(T), NEW box \in [T -> Box], Placed(T, box) = Ends(T)
    PROVE  FindsNearest(T, box)
<1> DEFINE there(p, d) == {q \in Ends(T) : Beyond(box[q], box[p], d)}
           found(p, d) == FindNodeInDirection(T, box, box[p], d)
<1> SUFFICES ASSUME NEW p \in Ends(T), NEW d \in {"left", "right", "up", "down"}
             PROVE  IF there(p, d) = {} THEN found(p, d) = Nowhere
                    ELSE /\ found(p, d) \in there(p, d)
                         /\ \A q \in there(p, d) :
                              Distance(box[found(p, d)], box[p]) <= Distance(box[q], box[p])
  BY Zenon DEF FindsNearest
<1>1. Ends(T) = EndOf(T) /\ EndOf(T) \subseteq T
  BY EndsFacts DEF EndOf
<1>2. \A q \in EndOf(T) : box[q] \in Box /\ box[q].width > 0 /\ box[q].height > 0
  BY <1>1 DEF Placed
<1>3. ASSUME NEW q \in EndOf(T), Beyond(box[q], box[p], d)
      PROVE  <<box[q].x, box[q].y>> # <<box[p].x, box[p].y>>
  <2>1. box[q] \in Box /\ box[p] \in Box /\ box[q].width > 0 /\ box[q].height > 0
        /\ box[p].width > 0 /\ box[p].height > 0
    BY <1>1, <1>2
  <2>2. box[q].x # box[p].x \/ box[q].y # box[p].y
    <3>1. CASE d = "left"
      BY <1>3, <2>1, <3>1 DEF Beyond, Box
    <3>2. CASE d = "right"
      BY <1>3, <2>1, <3>2 DEF Beyond, Box
    <3>3. CASE d = "up"
      BY <1>3, <2>1, <3>3 DEF Beyond, Box
    <3>4. CASE d = "down"
      BY <1>3, <2>1, <3>4 DEF Beyond, Box
    <3> QED BY <3>1, <3>2, <3>3, <3>4
  <2> QED BY <2>2
<1>4. there(p, d) = {q \in EndOf(T) : Fits(box, box[p], d, q)}
  BY <1>1, <1>3 DEF Fits
<1>5. found(p, d) = FindNodeInDirection(T, box, box[p], d) /\ box[p] \in Box
  BY <1>1
<1> HIDE DEF there, found
<1> QED BY <1>4, <1>5, SearchIsNearest
----------------------------------------------------------------------------
(* The order of the leaves *)

\* Of two leaves at most one is before the other.
LEMMA BeforeIsStrict ==
    ASSUME NEW p \in Path, NEW q \in Path, Before(p, q)
    PROVE  ~ Before(q, p)
<1>1. SUFFICES ASSUME Before(q, p) PROVE FALSE
  OBVIOUS
<1>2. Before(p, p)
  BY <1>1, BeforeFacts
<1>3. PICK i \in DOMAIN p : p[i] < p[i]
  BY <1>2 DEF Before
<1>4. p[i] \in {1, 2}
  BY <1>3 DEF Path
<1> QED BY <1>3, <1>4

\* Of two leaves the one that comes first is below the first child of the node
\* at which the ways to them part.
LEMMA BeforeParts ==
    ASSUME NEW p \in Path, NEW q \in Path, ~ Above(p, q), ~ Above(q, p), Before(p, q)
    PROVE  \E d \in Path : Above(Kid(d, 1), p) /\ Above(Kid(d, 2), q)
<1>1. PICK d \in Path, i, j \in {1, 2} : i # j /\ Above(Kid(d, i), p) /\ Above(Kid(d, j), q)
  BY PathsPart
<1>2. CASE i = 1 /\ j = 2
  BY <1>1, <1>2
<1>3. CASE i = 2 /\ j = 1
  <2>1. Before(q, p)
    BY <1>1, <1>3, BeforeFacts
  <2> QED BY <2>1, BeforeIsStrict
<1> QED BY <1>1, <1>2, <1>3

\* What is below the earlier of two parting nodes is earlier.
LEMMA BeforeBelow ==
    ASSUME NEW p \in Path, NEW q \in Path, ~ Above(p, q), ~ Above(q, p), Before(p, q),
           NEW a \in Path, NEW b \in Path, Above(p, a), Above(q, b)
    PROVE  Before(a, b)
<1>1. PICK d \in Path : Above(Kid(d, 1), p) /\ Above(Kid(d, 2), q)
  BY BeforeParts
<1>2. Kid(d, 1) \in Path /\ Kid(d, 2) \in Path
  BY KidFacts
<1>3. Above(Kid(d, 1), a) /\ Above(Kid(d, 2), b)
  BY <1>1, <1>2, AboveFacts
<1> QED BY <1>3, BeforeFacts

\* Only what follows a common beginning decides.
LEMMA BeforeShift ==
    ASSUME NEW p \in Path, NEW s \in Path, NEW u \in Path
    PROVE  Before(p \o s, p \o u) <=> Before(s, u)
<1> DEFINE a == p \o s
           b == p \o u
           k == Len(p)
<1>1. /\ k \in Nat /\ Len(s) \in Nat /\ Len(u) \in Nat
      /\ DOMAIN s = 1 .. Len(s) /\ DOMAIN u = 1 .. Len(u)
      /\ \A i \in 1 .. k : p[i] \in {1, 2}
  BY RootFacts DEF Path
<1>2. /\ DOMAIN a = 1 .. (k + Len(s)) /\ DOMAIN b = 1 .. (k + Len(u))
      /\ \A i \in 1 .. (k + Len(s)) : a[i] = IF i <= k THEN p[i] ELSE s[i - k]
      /\ \A i \in 1 .. (k + Len(u)) : b[i] = IF i <= k THEN p[i] ELSE u[i - k]
  <2>1. /\ a \in Path /\ b \in Path /\ Len(a) = k + Len(s) /\ Len(b) = k + Len(u)
        /\ \A i \in 1 .. (k + Len(s)) : a[i] = IF i <= k THEN p[i] ELSE s[i - k]
        /\ \A i \in 1 .. (k + Len(u)) : b[i] = IF i <= k THEN p[i] ELSE u[i - k]
    BY ConcatProperties DEF Path
  <2>2. DOMAIN a = 1 .. Len(a) /\ DOMAIN b = 1 .. Len(b)
    BY <2>1 DEF Path
  <2> QED BY <2>1, <2>2
<1> HIDE DEF a, b, k
<1>3. ASSUME Before(a, b) PROVE Before(s, u)
  <2>1. PICK i \in DOMAIN a \cap DOMAIN b : a[i] < b[i] /\ \A j \in 1 .. (i - 1) : a[j] = b[j]
    BY <1>3 DEF Before
  <2>2. i > k
    BY <1>1, <1>2, <2>1
  <2>3. i - k \in DOMAIN s \cap DOMAIN u /\ s[i - k] < u[i - k]
    BY <1>1, <1>2, <2>1, <2>2
  <2>4. ASSUME NEW j \in 1 .. ((i - k) - 1) PROVE s[j] = u[j]
    <3>1. j + k \in 1 .. (i - 1) /\ j + k > k /\ (j + k) - k = j
          /\ j + k \in DOMAIN a /\ j + k \in DOMAIN b
      BY <1>1, <1>2, <2>1, <2>2, <2>4
    <3>2. a[j + k] = s[j] /\ b[j + k] = u[j]
      <4>1. j + k \in 1 .. (k + Len(s)) /\ j + k \in 1 .. (k + Len(u)) /\ ~(j + k <= k)
        BY <1>1, <1>2, <3>1
      <4> QED BY <1>2, <3>1, <4>1
    <3> QED BY <2>1, <3>1, <3>2
  <2> QED BY <2>3, <2>4 DEF Before
<1>4. ASSUME Before(s, u) PROVE Before(a, b)
  <2>1. PICK i \in DOMAIN s \cap DOMAIN u : s[i] < u[i] /\ \A j \in 1 .. (i - 1) : s[j] = u[j]
    BY <1>4 DEF Before
  <2>2. i \in Nat /\ i >= 1 /\ (i + k) - k = i /\ i + k > k
    BY <1>1, <2>1
  <2>3. i + k \in DOMAIN a \cap DOMAIN b /\ a[i + k] < b[i + k]
    BY <1>1, <1>2, <2>1, <2>2
  <2>4. ASSUME NEW j \in 1 .. ((i + k) - 1) PROVE a[j] = b[j]
    <3>1. j \in DOMAIN a /\ j \in DOMAIN b
      BY <1>1, <1>2, <2>1, <2>2, <2>4
    <3>2. CASE j <= k
      BY <1>2, <3>1, <3>2
    <3>3. CASE ~(j <= k)
      <4>1. j - k \in 1 .. (i - 1)
        BY <1>1, <2>2, <2>4, <3>3
      <4> QED BY <1>2, <2>1, <3>1, <3>3, <4>1
    <3> QED BY <3>2, <3>3
  <2> QED BY <2>3, <2>4 DEF Before
<1> QED BY <1>3, <1>4 DEF a, b

\* A split moves what was below its node one level down, and nothing else.
LEMMA SplitKeepsOrder ==
    ASSUME NEW t, NodeTree(t), ~ IsEmptyTree(t), NEW p \in DOMAIN t, NEW w \in Windows,
           NEW n, n = SplitNode(t, p, w)
    PROVE  SameOrder(t, n, w)
<1> DEFINE Moved(q) == Kid(p, 1) \o (CHOOSE s \in Path : q = p \o s)
           f == [q \in Others(t, w) |-> IF Above(p, q) THEN Moved(q) ELSE q]
<1>1. /\ FullTree(DOMAIN t) /\ DOMAIN t \subseteq Path /\ p \in Path
      /\ Kid(p, 1) \in Path /\ Above(p, Kid(p, 1))
  <2>1. FullTree(DOMAIN t) /\ DOMAIN t \subseteq Path
    BY DEF NodeTree, FullTree
  <2> QED BY <2>1, KidFacts, AboveFacts
<1>2. /\ n = [r \in DOMAIN n |-> n[r]]
      /\ DOMAIN n = SplitPaths(t, p)
      /\ n[p] = [t[p] EXCEPT !.window = NoWindow]
      /\ n[Kid(p, 2)] = [window |-> w, isRoot |-> FALSE]
      /\ \A s \in Hung(t, p) : n[Kid(p, 1) \o s] = t[p \o s]
      /\ \A r \in DOMAIN t : ~ Above(p, r) => n[r] = t[r]
  BY <1>1, SplitFacts
<1>3. /\ \A r \in DOMAIN t : ~ Above(p, r) => (r \in Leaves(n) <=> r \in Leaves(t))
      /\ p \notin Leaves(n)
      /\ \A s \in Hung(t, p) : Kid(p, 1) \o s \in Leaves(n) <=> p \o s \in Leaves(t)
  BY <1>1, SplitLeaves
<1>4. /\ \A s \in Hung(t, p) : p \o s \in DOMAIN t /\ s \in Path
      /\ \A r \in DOMAIN t : Above(p, r) => \E s \in Hung(t, p) : r = p \o s
  BY <1>1, HungFacts DEF Hung
<1>5. ASSUME NEW s \in Path
      PROVE  Moved(p \o s) = Kid(p, 1) \o s /\ Above(p, p \o s) /\ Above(p, Moved(p \o s))
             /\ p \o s \in Path /\ Kid(p, 1) \o s \in Path
  <2>1. (CHOOSE u \in Path : p \o s = p \o u) = s
    <3>1. \A u \in Path : p \o s = p \o u => u = s
      BY <1>1, PathsCancel
    <3> QED BY <3>1
  <2>2. Above(p, p \o s) /\ Above(Kid(p, 1), Kid(p, 1) \o s)
    BY DEF Above
  <2>3. p \o s \in Path /\ Kid(p, 1) \o s \in Path
    BY <1>1, PathsJoin
  <2>4. Moved(p \o s) = Kid(p, 1) \o s
    BY <2>1
  <2> HIDE DEF Moved, f
  <2>5. Above(p, Kid(p, 1) \o s)
    BY <1>1, <2>2, <2>3, AboveFacts
  <2> QED BY <2>2, <2>3, <2>4, <2>5
<1>6. Leaves(t) \subseteq DOMAIN t /\ Leaves(n) \subseteq DOMAIN n
  BY DEF Leaves
<1> HIDE DEF Moved
<1>7. ASSUME NEW q \in Others(t, w)
      PROVE  /\ q \in DOMAIN t /\ q \in Path /\ f[q] \in Path /\ f[q] \in Others(n, w)
             /\ n[f[q]].window = t[q].window
             /\ f[q] = IF Above(p, q) THEN Moved(q) ELSE q
             /\ Above(p, q) => Above(p, f[q])
             /\ \A x \in DOMAIN t : Above(q, x) => q = x
  <2>1. q \in Leaves(t) /\ q \in DOMAIN t /\ q \in Path /\ t[q].window \notin {w, NoWindow}
    BY <1>1, <1>6 DEF Others
  <2>2. f[q] \in Path /\ f[q] \in Leaves(n) /\ n[f[q]] = t[q] /\ (Above(p, q) => Above(p, f[q]))
    <3>1. CASE Above(p, q)
      <4>1. PICK s \in Hung(t, p) : q = p \o s
        BY <1>4, <2>1, <3>1
      <4>2. f[q] = Kid(p, 1) \o s /\ f[q] \in Path /\ Above(p, f[q])
        BY <1>4, <1>5, <3>1, <4>1
      <4> QED BY <1>2, <1>3, <2>1, <4>1, <4>2
    <3>2. CASE ~ Above(p, q)
      BY <1>2, <1>3, <2>1, <3>2
    <3> QED BY <3>1, <3>2
  <2>3. \A x \in DOMAIN t : Above(q, x) => q = x
    BY <1>1, <2>1, LeafFacts, TreeFacts
  <2> QED BY <2>1, <2>2, <2>3 DEF Others
<1>8. ASSUME NEW r \in Others(n, w) PROVE \E q \in Others(t, w) : f[q] = r
  <2>1. r \in Leaves(n) /\ r \in DOMAIN n /\ n[r].window \notin {w, NoWindow}
    BY <1>6 DEF Others
  <2>2. r # p /\ r # Kid(p, 2)
    BY <1>2, <1>3, <2>1
  <2>3. CASE r \in DOMAIN t /\ ~ Above(p, r)
    <3>1. r \in Others(t, w)
      BY <1>2, <1>3, <2>1, <2>3 DEF Others
    <3> QED BY <2>3, <3>1
  <2>4. ASSUME NEW s \in Hung(t, p), r = Kid(p, 1) \o s PROVE \E q \in Others(t, w) : f[q] = r
    <3>1. p \o s \in Others(t, w)
      BY <1>2, <1>3, <1>4, <2>1, <2>4 DEF Others
    <3>2. f[p \o s] = r
      BY <1>4, <1>5, <2>4, <3>1
    <3> QED BY <3>1, <3>2
  <2> QED BY <1>2, <2>1, <2>2, <2>3, <2>4 DEF SplitPaths
<1>9. ASSUME NEW a \in Others(t, w), NEW b \in Others(t, w), Before(a, b)
      PROVE  Before(f[a], f[b])
  <2>1. /\ a \in DOMAIN t /\ a \in Path /\ f[a] \in Path /\ b \in DOMAIN t /\ b \in Path /\ f[b] \in Path
        /\ f[a] = IF Above(p, a) THEN Moved(a) ELSE a
        /\ f[b] = IF Above(p, b) THEN Moved(b) ELSE b
        /\ Above(p, a) => Above(p, f[a])
        /\ Above(p, b) => Above(p, f[b])
        /\ Above(a, p) => a = p
        /\ Above(b, p) => b = p
    BY <1>7
  <2> HIDE DEF f
  <2>2. CASE ~ Above(p, a) /\ ~ Above(p, b)
    BY <1>9, <2>1, <2>2
  <2>3. CASE Above(p, a) /\ Above(p, b)
    <3>1. PICK s \in Hung(t, p) : a = p \o s
      BY <1>4, <2>1, <2>3
    <3>2. PICK u \in Hung(t, p) : b = p \o u
      BY <1>4, <2>1, <2>3
    <3>3. f[a] = Kid(p, 1) \o s /\ f[b] = Kid(p, 1) \o u
      BY <1>4, <1>5, <2>1, <2>3, <3>1, <3>2
    <3> QED BY <1>1, <1>4, <1>9, <3>1, <3>2, <3>3, BeforeShift
  <2>4. CASE Above(p, a) /\ ~ Above(p, b)
    <3>1. f[b] = b /\ ~ Above(b, p) /\ Above(b, b) /\ Above(p, f[a])
      BY <1>1, <2>1, <2>4, AboveFacts
    <3>2. Before(p, b) \/ Before(b, p)
      <4>1. PICK d \in Path, i, j \in {1, 2} : i # j /\ Above(Kid(d, i), p) /\ Above(Kid(d, j), b)
        BY <1>1, <2>1, <2>4, <3>1, PathsPart
      <4>2. (i = 1 /\ j = 2) \/ (i = 2 /\ j = 1)
        BY <4>1
      <4> QED BY <1>1, <2>1, <4>1, <4>2, BeforeFacts
    <3>3. ~ Before(b, p)
      <4>1. SUFFICES ASSUME Before(b, p) PROVE FALSE
        OBVIOUS
      <4>2. Before(b, a)
        BY <1>1, <2>1, <2>4, <3>1, <4>1, BeforeBelow
      <4> QED BY <1>9, <2>1, <4>2, BeforeIsStrict
    <3> QED BY <1>1, <2>1, <2>4, <3>1, <3>2, <3>3, BeforeBelow
  <2>5. CASE ~ Above(p, a) /\ Above(p, b)
    <3>1. f[a] = a /\ ~ Above(a, p) /\ Above(a, a) /\ Above(p, f[b])
      BY <1>1, <2>1, <2>5, AboveFacts
    <3>2. Before(p, a) \/ Before(a, p)
      <4>1. PICK d \in Path, i, j \in {1, 2} : i # j /\ Above(Kid(d, i), p) /\ Above(Kid(d, j), a)
        BY <1>1, <2>1, <2>5, <3>1, PathsPart
      <4>2. (i = 1 /\ j = 2) \/ (i = 2 /\ j = 1)
        BY <4>1
      <4> QED BY <1>1, <2>1, <4>1, <4>2, BeforeFacts
    <3>3. ~ Before(p, a)
      <4>1. SUFFICES ASSUME Before(p, a) PROVE FALSE
        OBVIOUS
      <4>2. Before(b, a)
        BY <1>1, <2>1, <2>5, <3>1, <4>1, BeforeBelow
      <4> QED BY <1>9, <2>1, <4>2, BeforeIsStrict
    <3> QED BY <1>1, <2>1, <2>5, <3>1, <3>2, <3>3, BeforeBelow
  <2> QED BY <2>2, <2>3, <2>4, <2>5
<1>10. f \in Surjection(Others(t, w), Others(n, w))
  <2>1. f \in [Others(t, w) -> Others(n, w)]
    BY <1>7
  <2> HIDE DEF f
  <2> QED BY <1>8, <2>1 DEF Surjection
<1> HIDE DEF f
<1> QED BY <1>7, <1>9, <1>10 DEF SameOrder

\* A removal keeps the order of the leaves that stay.
LEMMA RemoveKeepsOrder ==
    ASSUME NEW t, NodeTree(t), NEW w \in Windows, NEW n, n = RemoveToplevel(t, w)
    PROVE  IsEmptyTree(n) \/ SameOrder(t, n, w)
<1> DEFINE S == Stay(t, w)
           K == Survivors(t, w)
           at == Collapsed(t, K)
<1>1. FullTree(DOMAIN t) /\ Root \in DOMAIN t /\ t[Root] \in Node
  BY DEF NodeTree, FullTree
<1>2. CASE S = {}
  <2>1. n = EmptyRoot(t[Root].isRoot)
    BY <1>2 DEF RemoveToplevel, Survivors, Stay
  <2>2. DOMAIN n = {Root} /\ n[Root].window = NoWindow
    BY <2>1 DEF EmptyRoot
  <2>3. Kid(Root, 1) # Root
    BY RootFacts, KidFacts
  <2> QED BY <2>2, <2>3, LeafFacts DEF IsEmptyTree
<1>3. CASE S # {}
  <2> DEFINE f == [q \in Others(t, w) |-> at[q]]
  <2>1. /\ Prunes(DOMAIN t, S, Live(t, w), K, at)
        /\ S \subseteq K /\ K \subseteq DOMAIN t
        /\ \A r \in DOMAIN n : \E m \in K : r = at[m]
        /\ \A m \in K : /\ at[m] \in DOMAIN n
                        /\ n[at[m]] = t[m]
                        /\ at[m] \in Leaves(n) <=> m \in S
    BY <1>1, <1>3, RemovedFacts
  <2>2. \A p : p \in S <=> p \in Leaves(t) /\ t[p].window # w
    BY DEF Stay, LeavesOf
  <2> HIDE DEF S, K, at
  <2>3. \A p \in Others(t, w) : /\ p \in S /\ p \in K /\ p \in DOMAIN t /\ p \in Path /\ at[p] \in Path
                                /\ at[p] \in Others(n, w) /\ n[at[p]].window = t[p].window
    <3>1. \A p \in Others(t, w) : p \in S /\ t[p].window \notin {w, NoWindow}
      BY <2>2 DEF Others
    <3>2. \A p \in DOMAIN t : p \in Path /\ at[p] \in Path
      BY <2>1, LiveFacts
    <3> QED BY <2>1, <3>1, <3>2 DEF Others
  <2>4. ASSUME NEW r \in Others(n, w) PROVE \E q \in Others(t, w) : f[q] = r
    <3>1. r \in Leaves(n) /\ r \in DOMAIN n /\ n[r].window \notin {w, NoWindow}
      BY DEF Others, Leaves
    <3>2. PICK m \in K : r = at[m]
      BY <2>1, <3>1
    <3>3. m \in Others(t, w)
      BY <2>1, <2>2, <3>1, <3>2 DEF Others
    <3> QED BY <3>2, <3>3
  <2>5. ASSUME NEW a \in Others(t, w), NEW b \in Others(t, w), Before(a, b)
        PROVE  Before(at[a], at[b])
    <3>1. /\ a \in S /\ a \in DOMAIN t /\ a \in Path /\ at[a] \in Path
          /\ b \in S /\ b \in DOMAIN t /\ b \in Path /\ at[b] \in Path
      BY <2>3
    <3>2. a # b
      BY <2>5, <3>1, BeforeIsStrict
    <3>3. ~ Above(a, b) /\ ~ Above(b, a)
      BY <1>1, <2>2, <3>1, <3>2, LeafFacts, TreeFacts
    <3>4. PICK d \in Path : Above(Kid(d, 1), a) /\ Above(Kid(d, 2), b)
      BY <2>5, <3>1, <3>3, BeforeParts
    <3>5. d \in K
      <4>1. Kid(d, 1) \in Path /\ Kid(d, 2) \in Path
        BY KidFacts
      <4>2. a \in Live(t, w) /\ b \in Live(t, w)
        BY <2>1, <3>1, LiveFacts
      <4>3. Kid(d, 1) \in Live(t, w) /\ Kid(d, 2) \in Live(t, w)
        BY <2>1, <3>4, <4>1, <4>2, LiveFacts
      <4>4. d \in DOMAIN t
        BY <1>1, <2>1, <4>3, LiveFacts, TreeFacts
      <4> QED BY <2>1, <4>3, <4>4 DEF Prunes
    <3>6. at[d] \in Path /\ Above(Kid(at[d], 1), at[a]) /\ Above(Kid(at[d], 2), at[b])
      BY <2>1, <3>1, <3>4, <3>5, CollapseIsMonotone, LiveFacts
    <3> QED BY <3>1, <3>6, BeforeFacts
  <2>6. f \in Surjection(Others(t, w), Others(n, w)) /\ \A p \in Others(t, w) : f[p] = at[p]
    <3>1. f \in [Others(t, w) -> Others(n, w)] /\ \A p \in Others(t, w) : f[p] = at[p]
      BY <2>3
    <3> HIDE DEF f
    <3> QED BY <2>4, <3>1 DEF Surjection
  <2> HIDE DEF f
  <2> QED BY <2>3, <2>5, <2>6 DEF SameOrder
<1> QED BY <1>2, <1>3

----------------------------------------------------------------------------
(* The invariant *)

IInv ==
    /\ NodeTree(tree)
    /\ listed \in SUBSET Windows
    /\ aborted \in BOOLEAN

\* What a step does to the tree and to the list: it is one of those of
\* TileSet, or leaves both sets alone.
TileStep == [Tiles!Next]_(Tiles!vars)

\* The empty layout of a new workspace has the invariant and is the initial
\* set of tiles (src/workspace.c:127-134).
LEMMA InitIsGood == Init => IInv /\ Tiles!Init
<1> SUFFICES ASSUME Init PROVE IInv /\ Tiles!Init
  OBVIOUS
<1>1. NodeTree(tree) /\ LeafWindows(tree) = {} /\ listed = {} /\ aborted = FALSE
  BY EmptyRootFacts DEF Init
<1> QED BY <1>1 DEF IInv, Tiles!Init

\* The removal of a window, unless the process ends in it
LEMMA RemovingStep ==
    ASSUME IInv, NEW next, NEW left, NodeTree(next), left \in SUBSET Windows,
           NEW w, Removing(w, next, left)
    PROVE  /\ IInv'
           /\ \/ UNCHANGED <<LeafWindows(tree), listed>>
              \/ LeafWindows(tree)' = LeafWindows(next) /\ listed' = left
<1>1. CASE FreesRoot(tree, w)
  BY <1>1 DEF Removing, IInv
<1>2. CASE ~ FreesRoot(tree, w)
  <2>1. tree' = next /\ listed' = left /\ aborted' = aborted
    BY <1>2 DEF Removing
  <2>2. NodeTree(tree)' /\ LeafWindows(tree)' = LeafWindows(next)
    BY <2>1
  <2> QED BY <2>1, <2>2 DEF IInv
<1> QED BY <1>1, <1>2

\* Each step keeps the invariant and is a step of TileSet, or of neither set.
LEMMA StepIsGood == IInv /\ [Next]_vars => IInv' /\ TileStep
<1> SUFFICES ASSUME IInv, [Next]_vars PROVE IInv' /\ TileStep
  OBVIOUS
<1>1. /\ NodeTree(tree) /\ listed \in SUBSET Windows /\ aborted \in BOOLEAN
      /\ FullTree(DOMAIN tree)
  BY DEF IInv, NodeTree
<1>2. LeafWindows(tree) \in SUBSET Windows
  <2>1. \A p \in Leaves(tree) : tree[p].window \in Windows \cup {NoWindow}
    BY <1>1 DEF NodeTree, Node, Leaves
  <2> QED BY <2>1 DEF LeafWindows
<1>3. ASSUME UNCHANGED <<LeafWindows(tree), listed>> PROVE TileStep
  BY <1>3 DEF TileStep, Tiles!vars
<1>4. ASSUME NEW w \in Windows, NEW focused, Insert(w, focused)
      PROVE  IInv' /\ TileStep
  <2>1. /\ w \notin listed /\ listed' = listed \cup {w} /\ aborted' = aborted
        /\ tree' = InsertToplevel(tree, focused, w)
    BY <1>4 DEF Insert
  <2>2. NodeTree(tree)' /\ LeafWindows(tree)' = LeafWindows(tree) \cup {w}
    BY <1>1, <2>1, InsertTree
  <2>3. Tiles!Host(w)
    BY <2>1, <2>2 DEF Tiles!Host
  <2> QED BY <1>1, <2>1, <2>2, <2>3 DEF IInv, TileStep, Tiles!Next
<1>5. ASSUME NEW w \in Windows, Unmap(w)
      PROVE  IInv' /\ TileStep
  <2>1. /\ w \in listed /\ listed' = listed \ {w} /\ aborted' = aborted /\ tree' = tree
    BY <1>5 DEF Unmap
  <2>2. NodeTree(tree)' /\ LeafWindows(tree)' = LeafWindows(tree)
    BY <1>1, <2>1
  <2>3. Tiles!Delist(w)
    BY <2>1, <2>2 DEF Tiles!Delist
  <2> QED BY <1>1, <2>1, <2>2, <2>3 DEF IInv, TileStep, Tiles!Next
<1>6. ASSUME NEW w \in Windows, Destroy(w)
      PROVE  IInv' /\ TileStep
  <2>1. w \notin listed /\ Removing(w, RemoveToplevel(tree, w), listed)
    BY <1>6 DEF Destroy
  <2>2. /\ NodeTree(RemoveToplevel(tree, w))
        /\ LeafWindows(RemoveToplevel(tree, w)) = LeafWindows(tree) \ {w}
    BY <1>1, RemoveTree
  <2>3. /\ IInv'
        /\ \/ UNCHANGED <<LeafWindows(tree), listed>>
           \/ LeafWindows(tree)' = LeafWindows(tree) \ {w} /\ listed' = listed
    BY <1>1, <2>1, <2>2, RemovingStep
  <2>4. CASE UNCHANGED <<LeafWindows(tree), listed>>
    BY <1>3, <2>3, <2>4
  <2>5. CASE LeafWindows(tree)' = LeafWindows(tree) \ {w} /\ listed' = listed
    <3>1. Tiles!Evict(w)
      BY <2>1, <2>5 DEF Tiles!Evict
    <3> QED BY <2>3, <3>1 DEF TileStep, Tiles!Next
  <2> QED BY <2>3, <2>4, <2>5
<1>7. ASSUME NEW w \in Windows, SendAway(w)
      PROVE  IInv' /\ TileStep
  <2> DEFINE next == IF listed = {w} THEN EmptyRoot(TRUE) ELSE RemoveToplevel(tree, w)
  <2>1. w \in listed /\ Removing(w, next, listed \ {w})
    BY <1>7 DEF SendAway
  <2>2. /\ NodeTree(next)
        /\ LeafWindows(next) = IF listed = {w} THEN {} ELSE LeafWindows(tree) \ {w}
    BY <1>1, RemoveTree, EmptyRootFacts
  <2> HIDE DEF next
  <2>3. /\ IInv'
        /\ \/ UNCHANGED <<LeafWindows(tree), listed>>
           \/ LeafWindows(tree)' = LeafWindows(next) /\ listed' = listed \ {w}
    BY <1>1, <2>1, <2>2, RemovingStep
  <2>4. CASE UNCHANGED <<LeafWindows(tree), listed>>
    BY <1>3, <2>3, <2>4
  <2>5. CASE LeafWindows(tree)' = LeafWindows(next) /\ listed' = listed \ {w}
    <3>1. CASE listed = {w}
      <4>1. Tiles!Reset
        BY <2>2, <2>5, <3>1 DEF Tiles!Reset
      <4> QED BY <2>3, <4>1 DEF TileStep, Tiles!Next
    <3>2. CASE listed # {w}
      <4>1. Tiles!Leave(w)
        BY <2>1, <2>2, <2>5, <3>2 DEF Tiles!Leave
      <4> QED BY <2>3, <4>1 DEF TileStep, Tiles!Next
    <3> QED BY <3>1, <3>2
  <2> QED BY <2>3, <2>4, <2>5
<1>8. ASSUME NEW w \in Windows, NEW q \in Leaves(tree), MoveWindow(w, q)
      PROVE  IInv' /\ TileStep
  <2> DEFINE p == FirstLeafOf(tree, w)
  <2>1. /\ LeavesOf(tree, w) # {} /\ q # p /\ listed' = listed /\ aborted' = aborted
        /\ tree' = [tree EXCEPT ![p].window = tree[q].window, ![q].window = w]
    BY <1>8 DEF MoveWindow
  <2>2. p \in LeavesOf(tree, w)
    BY <1>1, <2>1, SearchFacts
  <2> HIDE DEF p
  <2>3. NodeTree(tree)' /\ LeafWindows(tree)' = LeafWindows(tree)
    <3>1. tree' = Swapped(tree, w, p, q)
      BY <2>1 DEF Swapped
    <3>2. NodeTree(tree) /\ w \in Windows /\ p \in LeavesOf(tree, w) /\ q \in Leaves(tree) /\ q # p
      BY <1>1, <2>1, <2>2
    <3>3. /\ NodeTree(Swapped(tree, w, p, q))
          /\ LeafWindows(Swapped(tree, w, p, q)) = LeafWindows(tree)
      BY <3>2, SwapTree, Zenon
    <3> QED BY <3>1, <3>3
  <2> QED BY <1>1, <1>3, <2>1, <2>3 DEF IInv
<1>9. CASE UNCHANGED vars
  <2>1. tree' = tree /\ listed' = listed /\ aborted' = aborted
    BY <1>9 DEF vars
  <2>2. IInv' /\ LeafWindows(tree)' = LeafWindows(tree)
    BY <2>1 DEF IInv
  <2> QED BY <1>3, <2>1, <2>2
<1> QED BY <1>4, <1>5, <1>6, <1>7, <1>8, <1>9 DEF Next

\* IInv holds in every state: the paths of the tree are those of a finite full
\* binary tree, its splits carry no window, and its leaves carry one each
\* unless the root is the only node and is empty.
THEOREM TreeIsInductive == Spec => []IInv
<1>1. Init => IInv
  BY InitIsGood
<1>2. IInv /\ [Next]_vars => IInv'
  BY StepIsGood
<1> QED BY <1>1, <1>2, PTL DEF Spec

\* The invariant implies what the runs check.
LEMMA InvIsWellFormed == IInv => WellFormedTree
<1> SUFFICES ASSUME IInv PROVE WellFormedTree
  OBVIOUS
<1> DEFINE T == DOMAIN tree
<1>1. /\ FullTree(T) /\ T \subseteq Path /\ Root \in T
      /\ \A p \in T : tree[p] \in Node
      /\ \A p \in T : p \notin Leaves(tree) => tree[p].window = NoWindow
      /\ IsEmptyTree(tree) \/ \A p \in Leaves(tree) : tree[p].window \in Windows
  BY DEF IInv, NodeTree, FullTree
<1>2. TypeOK
  BY <1>1 DEF TypeOK, IInv
<1>3. ASSUME NEW p \in T \ {Root} PROVE Front(p) \in T
  <2>1. Front(p) \in Path /\ Last(p) \in {1, 2} /\ p = Kid(Front(p), Last(p))
    BY <1>1, FrontFacts
  <2> QED BY <1>1, <2>1, TreeFacts
<1>4. ASSUME NEW p \in T PROVE p \o <<1>> \in T <=> p \o <<2>> \in T
  <2>1. Kid(p, 1) \in T <=> Kid(p, 2) \in T
    BY <1>1, TreeFacts
  <2> QED BY <2>1 DEF Kid
<1> QED BY <1>1, <1>2, <1>3, <1>4 DEF WellFormedTree

\* The tree is a full binary tree in every state, for any number of windows
\* and leaves: no insertion or removal of src/workspace.c leaves a split with
\* one child, a child without its parent, or a leaf without a window.
THEOREM TreeAlwaysWellFormed == Spec => []WellFormedTree
BY TreeIsInductive, InvIsWellFormed, PTL

\* The layout implements the set of tiles on which the rest of the compositor
\* relies: a step of the tree hosts, delists or evicts one window, lets it
\* leave, resets the layout, or changes neither set.
THEOREM LayoutIsATileSet == Spec => ImplementsTileSet
<1>1. Init => Tiles!Init
  BY InitIsGood
<1>2. IInv /\ [Next]_vars => [Tiles!Next]_(Tiles!vars)
  BY StepIsGood DEF TileStep
<1> QED BY <1>1, <1>2, TreeIsInductive, PTL DEF Spec, ImplementsTileSet, Tiles!Spec

\* Whatever insertions and removals have made of the tree, arrange_node_recursive
\* puts its windows inside the area and a gap apart, and without a gap they fill
\* the area to the last column, for any number of windows, any areas and gaps and
\* all directions of the splits (src/tiling.c:57-117).
THEOREM TilesAlwaysPartition == Spec => []TilesPartition
<1>1. IInv => TilesPartition
  <2> SUFFICES ASSUME IInv, DOMAIN tree \in Misplaced PROVE FALSE
    BY DEF TilesPartition
  <2>1. FullTree(DOMAIN tree)
    BY DEF IInv, NodeTree
  <2> DEFINE Tiled(T) == \A split \in Directions(T), area \in Areas, gap \in Gaps :
                            Partitions(T, area, gap, Boxes(T, split, area, gap))
  <2>2. Misplaced = UNION {IF Tiled(T) THEN {} ELSE {T} : T \in Shapes}
    BY DEF Misplaced
  <2>3. Tiled(DOMAIN tree)
    BY <2>1, FullTreesPartition, GeometryAssumption DEF Box
  <2> HIDE DEF Tiled
  <2> QED BY <2>2, <2>3
<1> QED BY <1>1, TreeIsInductive, PTL

\* An insertion or removal that changes the shape of the tree keeps the order of
\* all windows but the one it is about, for any number of windows: neither the
\* copy of a split leaf nor that of a surviving child moves others past each other
\* (src/workspace.c:50-73, 88-102).
THEOREM OrderAlwaysKept == Spec => OthersKeepOrder
<1> DEFINE Kept == DOMAIN tree' # DOMAIN tree =>
                      IsEmptyTree(tree') \/ \E w \in Windows : SameOrder(tree, tree', w)
<1>1. IInv /\ [Next]_vars => [Kept]_vars
  <2> SUFFICES ASSUME IInv, Next, DOMAIN tree' # DOMAIN tree
               PROVE  IsEmptyTree(tree') \/ \E w \in Windows : SameOrder(tree, tree', w)
    OBVIOUS
  <2>1. NodeTree(tree) /\ FullTree(DOMAIN tree)
    BY DEF IInv, NodeTree
  <2>2. ASSUME NEW w \in Windows, NEW focused, Insert(w, focused)
        PROVE  SameOrder(tree, tree', w)
    <3>1. tree' = InsertToplevel(tree, focused, w)
      BY <2>2 DEF Insert
    <3>2. ~ IsEmptyTree(tree)
      <4>1. SUFFICES ASSUME IsEmptyTree(tree) PROVE FALSE
        OBVIOUS
      <4>2. DOMAIN tree' = DOMAIN tree
        BY <3>1, <4>1 DEF InsertToplevel
      <4> QED BY <4>2
    <3>3. FindTargetNode(tree, focused) \in DOMAIN tree
      BY <2>1, SearchFacts
    <3>4. tree' = SplitNode(tree, FindTargetNode(tree, focused), w)
      BY <3>1, <3>2 DEF InsertToplevel
    <3> QED BY <2>1, <3>2, <3>3, <3>4, SplitKeepsOrder
  <2>3. ASSUME NEW w \in Windows, Unmap(w) PROVE FALSE
    BY <2>3 DEF Unmap
  <2>4. ASSUME NEW w \in Windows, Destroy(w)
        PROVE  IsEmptyTree(tree') \/ SameOrder(tree, tree', w)
    <3>1. tree' = RemoveToplevel(tree, w)
      BY <2>4 DEF Destroy, Removing
    <3> QED BY <2>1, <3>1, RemoveKeepsOrder
  <2>5. ASSUME NEW w \in Windows, SendAway(w)
        PROVE  IsEmptyTree(tree') \/ SameOrder(tree, tree', w)
    <3>1. tree' = IF listed = {w} THEN EmptyRoot(TRUE) ELSE RemoveToplevel(tree, w)
      BY <2>5 DEF SendAway, Removing
    <3>2. CASE listed = {w}
      <4>1. DOMAIN tree' = {Root} /\ tree'[Root].window = NoWindow
        BY <3>1, <3>2 DEF EmptyRoot
      <4>2. Kid(Root, 1) # Root
        BY RootFacts, KidFacts
      <4> QED BY <4>1, <4>2, LeafFacts DEF IsEmptyTree
    <3>3. CASE listed # {w}
      BY <2>1, <3>1, <3>3, RemoveKeepsOrder
    <3> QED BY <3>2, <3>3
  <2>6. ASSUME NEW w \in Windows, NEW q \in Leaves(tree), MoveWindow(w, q) PROVE FALSE
    <3>1. DOMAIN tree' = DOMAIN tree
      BY <2>6 DEF MoveWindow
    <3> QED BY <3>1
  <2> QED BY <2>2, <2>3, <2>4, <2>5, <2>6 DEF Next
<1> QED BY <1>1, TreeIsInductive, PTL DEF Spec, OthersKeepOrder
----------------------------------------------------------------------------
(* The boxes that the nodes keep *)

NodeBox == [box : Box, split : {"horiz", "vert"}]

\* Every node of T has a box and a way to be split.
Boxen(nd, T) == nd \in [T -> NodeBox]

\* The boxes of the nodes are those of a fresh arrangement, where that leaves
\* none of them out.
Settled(nd, r) ==
    r # NoRoom /\ AllOpen(FreshBoxes(nd, r)) =>
        [p \in DOMAIN nd |-> nd[p].box] = FreshBoxes(nd, r)

PInv ==
    /\ IInv
    /\ Boxen(node, DOMAIN tree)
    /\ room \in Rooms \cup {NoRoom}
    /\ Settled(node, room)

\* The boxes that an arrangement computes for a tree
LEMMA FreshFacts ==
    ASSUME NEW T, FullTree(T), NEW nd, Boxen(nd, T), NEW r \in Rooms
    PROVE  /\ FreshBoxes(nd, r) \in [T -> Box]
           /\ DOMAIN nd = T
<1>1. DOMAIN nd = T /\ r.area \in Box /\ r.gap \in Nat
  BY PlacementAssumption, GeometryAssumption DEF Boxen, Box
<1>2. ASSUME NEW split, split = [p \in T \ Ends(T) |-> nd[p].split]
      PROVE  Boxes(T, split, r.area, r.gap) \in [T -> Box]
  <2>1. split \in [T \ EndOf(T) -> {"horiz", "vert"}]
    BY <1>2, EndsFacts DEF Boxen, NodeBox
  <2>2. Boxed(T, split, r.area, r.gap, Boxes(T, split, r.area, r.gap))
    BY <1>1, <2>1 DEF Boxed
  <2> QED BY <2>2, BoxedFacts
<1> QED BY <1>1, <1>2 DEF FreshBoxes

\* An arrangement sets boxes only, and all of them if none is empty.
LEMMA ArrangeFacts ==
    ASSUME NEW T, FullTree(T), NEW nd, Boxen(nd, T), NEW r \in Rooms
    PROVE  /\ Boxen(Arrange(nd, r), T)
           /\ Settled(Arrange(nd, r), r)
<1> DEFINE fresh == FreshBoxes(nd, r)
           Open(p) == \A q \in T : IsPrefix(q, p) => IsOpen(fresh[q])
           n == Arrange(nd, r)
<1>1. fresh \in [T -> Box] /\ DOMAIN nd = T
  BY FreshFacts
<1>2. n = [p \in T |-> IF Open(p) THEN [nd[p] EXCEPT !.box = fresh[p]] ELSE nd[p]]
  BY <1>1 DEF Arrange
<1> HIDE DEF n
<1>3. \A p \in T : nd[p] \in NodeBox
  BY DEF Boxen
<1>4. \A p \in T : /\ n[p] \in NodeBox /\ n[p].split = nd[p].split
                   /\ Open(p) => n[p].box = fresh[p]
  <2> HIDE DEF fresh, Open
  <2> QED BY <1>1, <1>2, <1>3 DEF NodeBox
<1>5. DOMAIN n = T /\ n \in [T -> NodeBox]
  <2> HIDE DEF fresh, Open
  <2> QED BY <1>2, <1>4
<1>6. FreshBoxes(n, r) = fresh
  <2>1. [p \in T \ Ends(T) |-> n[p].split] = [p \in T \ Ends(T) |-> nd[p].split]
    BY <1>4
  <2> QED BY <1>1, <1>5, <2>1 DEF FreshBoxes
<1>7. ASSUME AllOpen(fresh) PROVE [p \in T |-> n[p].box] = fresh
  <2>1. \A p \in T : Open(p)
    BY <1>1, <1>7 DEF AllOpen
  <2>2. \A p \in T : n[p].box = fresh[p]
    BY <1>4, <2>1
  <2> HIDE DEF fresh, Open
  <2> QED BY <1>1, <2>2
<1> QED BY <1>5, <1>6, <1>7 DEF Boxen, Settled, n

\* What a handler leaves once it has ended with the arrangement
LEMMA ArrangedFacts ==
    ASSUME NEW T, FullTree(T), NEW nd, Boxen(nd, T), NEW r \in Rooms \cup {NoRoom},
           NEW n, n = IF r = NoRoom THEN nd ELSE Arrange(nd, r)
    PROVE  Boxen(n, T) /\ Settled(n, r)
<1>1. CASE r = NoRoom
  BY <1>1 DEF Settled
<1>2. CASE r # NoRoom
  BY <1>2, ArrangeFacts
<1> QED BY <1>1, <1>2

\* A new split keeps its box, its first child and what is below it have the
\* boxes of what was there, and the new leaf has a box too.
LEMMA SplitBoxesFacts ==
    ASSUME NodeTree(tree), Boxen(node, DOMAIN tree), NEW p \in DOMAIN tree, NEW w,
           tree' = SplitNode(tree, p, w)
    PROVE  Boxen(SplitBoxes(node, p), DOMAIN tree')
<1> DEFINE T == DOMAIN tree
           first == p \o <<1>>
           Pulled(r) == p \o SubSeq(r, Len(p) + 2, Len(r))
           Cut == [node[p] EXCEPT !.split = SplitType(node[p].box)]
           val(r) == CASE r = p              -> Cut
                       [] r = p \o <<2>>     -> NewNode
                       [] IsPrefix(first, r) -> node[Pulled(r)]
                       [] OTHER              -> node[r]
<1>1. /\ FullTree(T) /\ p \in Path /\ T \subseteq Path
      /\ first = Kid(p, 1) /\ first \in Path /\ p \o <<2>> = Kid(p, 2) /\ Kid(p, 2) \in Path
  BY KidFacts DEF NodeTree, FullTree, Kid
<1>2. DOMAIN tree' = SplitPaths(tree, p)
  BY <1>1, SplitDomain
<1>3. \A q \in T : node[q] \in NodeBox
  BY DEF Boxen
<1>4. Cut \in NodeBox /\ NewNode \in NodeBox
  BY <1>3 DEF NodeBox, NewNode, NoBox, SplitType, Box
<1>5. ASSUME NEW s \in Hung(tree, p)
      PROVE  IsPrefix(first, first \o s) /\ Pulled(first \o s) = p \o s /\ p \o s \in T
  <2>1. s \in Path /\ first \o s \in Path /\ p \o s \in T
    BY <1>1, PathsJoin DEF Hung
  <2>2. IsPrefix(first, first \o s)
    BY <1>1, <2>1, PrefixFacts DEF Above
  <2>3. Len(first) + 1 = Len(p) + 2
    BY <1>1, KidFacts, RootFacts
  <2>4. SubSeq(first \o s, Len(first) + 1, Len(first \o s)) = s
    BY <1>1, <2>1, PrefixFacts
  <2> HIDE DEF first
  <2> QED BY <2>1, <2>2, <2>3, <2>4
<1>6. ASSUME NEW r \in T, ~ Above(p, r)
      PROVE  ~ IsPrefix(first, r)
  <2>1. Above(p, first)
    BY AboveFacts, <1>1
  <2>2. ~ Above(first, r)
    BY <1>1, <1>6, <2>1, AboveFacts
  <2> QED BY <1>1, <2>2, PrefixFacts
<1>7. p \o <<2>> # p /\ ~ IsPrefix(first, p) /\ ~ IsPrefix(first, p \o <<2>>)
  <2>1. /\ Len(p) \in Nat /\ Len(first) = Len(p) + 1 /\ Len(Kid(p, 2)) = Len(p) + 1
        /\ first # Kid(p, 2)
    BY <1>1, KidFacts, RootFacts, KidsDiffer
  <2> HIDE DEF first
  <2>2. ~ Above(first, p) /\ ~ Above(first, Kid(p, 2))
    BY <1>1, <2>1, AboveFacts
  <2>3. p \o <<2>> # p
    BY <1>1, <2>1
  <2> QED BY <1>1, <2>2, <2>3, PrefixFacts
<1>8. ASSUME NEW r \in DOMAIN tree' PROVE val(r) \in NodeBox
  <2>1. \/ r = p \/ r = p \o <<2>>
        \/ r \in T /\ ~ Above(p, r)
        \/ \E s \in Hung(tree, p) : r = first \o s
    BY <1>1, <1>2 DEF SplitPaths
  <2> HIDE DEF T, first, Pulled, Cut
  <2>2. ASSUME r \in T, ~ Above(p, r)
        PROVE  r # p /\ r # p \o <<2>> => val(r) = node[r]
    BY <1>6, <2>2
  <2>3. ASSUME NEW s \in Hung(tree, p), r = first \o s
        PROVE  r # p /\ r # p \o <<2>> => val(r) = node[p \o s] /\ p \o s \in T
    BY <1>5, <2>3
  <2> HIDE DEF val
  <2>4. r = p => val(r) = Cut
    BY <1>7 DEF val
  <2>5. r = p \o <<2>> => val(r) = NewNode
    BY <1>7 DEF val
  <2> QED BY <1>3, <1>4, <2>1, <2>2, <2>3, <2>4, <2>5
<1>9. SplitBoxes(node, p) = [r \in DOMAIN tree' |-> val(r)]
  BY DEF SplitBoxes
<1> HIDE DEF val
<1> QED BY <1>8, <1>9 DEF Boxen

\* Insertion gives every node of the new tree a box.
LEMMA InsertedFacts ==
    ASSUME NodeTree(tree), Boxen(node, DOMAIN tree), NEW focused, NEW w,
           tree' = InsertToplevel(tree, focused, w)
    PROVE  Boxen(InsertedBoxes(focused), DOMAIN tree')
<1>1. CASE IsEmptyTree(tree)
  <2>1. DOMAIN tree' = DOMAIN tree
    BY <1>1 DEF InsertToplevel
  <2> QED BY <1>1, <2>1 DEF InsertedBoxes
<1>2. CASE ~ IsEmptyTree(tree)
  <2>1. FindTargetNode(tree, focused) \in DOMAIN tree
    BY SearchFacts DEF NodeTree
  <2>2. tree' = SplitNode(tree, FindTargetNode(tree, focused), w)
    BY <1>2 DEF InsertToplevel
  <2> QED BY <1>2, <2>1, <2>2, SplitBoxesFacts DEF InsertedBoxes
<1> QED BY <1>1, <1>2

\* Removal leaves a box to every node that stays.
LEMMA RemovedBoxesFacts ==
    ASSUME NodeTree(tree), Boxen(node, DOMAIN tree), NEW w
    PROVE  Boxen(RemovedBoxes(w), DOMAIN RemoveToplevel(tree, w))
<1> DEFINE T == DOMAIN tree
           K == Survivors(tree, w)
           at == Collapsed(tree, K)
           R == {at[n] : n \in K}
<1>1. Root \in T /\ \A q \in T : node[q] \in NodeBox
  BY DEF Boxen, NodeTree, FullTree
<1>2. K \subseteq T
  BY DEF Survivors, Leaves
<1>3. CASE K = {}
  <2>1. DOMAIN RemoveToplevel(tree, w) = {Root}
    BY <1>3 DEF RemoveToplevel, EmptyRoot
  <2>2. RemovedBoxes(w) = RootOnly(node)
    BY <1>3 DEF RemovedBoxes
  <2>3. [node[Root] EXCEPT !.split = "horiz"] \in NodeBox
    BY <1>1 DEF NodeBox
  <2> QED BY <2>1, <2>2, <2>3 DEF Boxen, RootOnly
<1>4. CASE K # {}
  <2> HIDE DEF K, at
  <2>1. DOMAIN RemoveToplevel(tree, w) = R
    BY <1>4 DEF RemoveToplevel, K, at
  <2>2. RemovedBoxes(w) = [r \in R |-> node[CHOOSE n \in K : at[n] = r]]
    BY <1>4 DEF RemovedBoxes, K, at
  <2>3. \A r \in R : node[CHOOSE n \in K : at[n] = r] \in NodeBox
    BY <1>1, <1>2
  <2> HIDE DEF R
  <2> QED BY <2>1, <2>2, <2>3 DEF Boxen
<1> QED BY <1>3, <1>4

\* A layout that is reset keeps a box for its root.
LEMMA RootOnlyFacts ==
    ASSUME NEW T, Root \in T, NEW nd, Boxen(nd, T)
    PROVE  Boxen(RootOnly(nd), {Root})
<1>1. [nd[Root] EXCEPT !.split = "horiz"] \in NodeBox
  BY DEF Boxen, NodeBox
<1> QED BY <1>1 DEF Boxen, RootOnly

\* A handler that settles keeps the invariant.
LEMMA SettlesFacts ==
    ASSUME PInv, NEW nd, Settles(nd), IInv', [Next]_vars,
           aborted' \/ Boxen(nd, DOMAIN tree'), aborted' => UNCHANGED tree
    PROVE  PInv'
<1>1. room' = room /\ room \in Rooms \cup {NoRoom}
  BY DEF Settles, PInv
<1>2. CASE aborted'
  <2>1. node' = node /\ tree' = tree
    BY <1>2 DEF Settles
  <2> QED BY <1>1, <2>1 DEF PInv
<1>3. CASE ~ aborted'
  <2>1. node' = IF room = NoRoom THEN nd ELSE Arrange(nd, room)
    BY <1>1, <1>3 DEF Settles, Arranged
  <2>2. FullTree(DOMAIN tree') /\ Boxen(nd, DOMAIN tree')
    BY <1>3 DEF IInv, NodeTree
  <2>3. Boxen(node', DOMAIN tree') /\ Settled(node', room')
    BY <1>1, <2>1, <2>2, ArrangedFacts
  <2> QED BY <1>1, <2>3 DEF PInv
<1> QED BY <1>2, <1>3

\* Each step keeps the invariant, and is a step of the tree or leaves it alone.
LEMMA PStepIsGood == PInv /\ [PNext]_pvars => PInv' /\ [Next]_vars
<1> SUFFICES ASSUME PInv, [PNext]_pvars PROVE PInv' /\ [Next]_vars
  OBVIOUS
<1>1. /\ IInv /\ NodeTree(tree) /\ Boxen(node, DOMAIN tree)
      /\ room \in Rooms \cup {NoRoom} /\ FullTree(DOMAIN tree)
  BY DEF PInv, IInv, NodeTree
<1>2. ASSUME NEW nd, [Next]_vars, Settles(nd),
             aborted' \/ Boxen(nd, DOMAIN tree'), aborted' => UNCHANGED tree
      PROVE  PInv' /\ [Next]_vars
  <2>1. IInv'
    BY <1>1, <1>2, StepIsGood
  <2> QED BY <1>2, <2>1, SettlesFacts
<1>3. ASSUME UNCHANGED vars PROVE IInv' /\ [Next]_vars /\ tree' = tree
  <2>1. IInv'
    BY <1>1, <1>3, StepIsGood
  <2> QED BY <1>3, <2>1 DEF vars
<1>4. ASSUME PNext, NEW w \in Windows, NEW focused \in Windows \cup {NoWindow},
             Insert(w, focused), Settles(InsertedBoxes(focused))
      PROVE  PInv' /\ [Next]_vars
  <2>1. tree' = InsertToplevel(tree, focused, w) /\ aborted' = aborted /\ ~ aborted
    BY <1>4 DEF Insert, PNext
  <2>2. Boxen(InsertedBoxes(focused), DOMAIN tree')
    BY <1>1, <2>1, InsertedFacts
  <2>3. Next
    BY <1>4, <2>1 DEF Next
  <2> QED BY <1>2, <1>4, <2>1, <2>2, <2>3
<1>5. ASSUME PNext, NEW w \in Windows, Unmap(w), UNCHANGED placed
      PROVE  PInv' /\ [Next]_vars
  <2>1. Next /\ tree' = tree
    BY <1>5 DEF Next, PNext, Unmap
  <2>2. IInv'
    BY <1>1, <2>1, StepIsGood
  <2>3. node' = node /\ room' = room
    BY <1>5 DEF placed
  <2> QED BY <2>1, <2>2, <2>3 DEF PInv
<1>6. ASSUME PNext, NEW w \in Windows, Destroy(w), Settles(RemovedBoxes(w))
      PROVE  PInv' /\ [Next]_vars
  <2>1. Next /\ Removing(w, RemoveToplevel(tree, w), listed)
    BY <1>6 DEF Next, PNext, Destroy
  <2>2. (aborted' /\ tree' = tree) \/ (tree' = RemoveToplevel(tree, w) /\ ~ aborted')
    BY <1>6, <2>1 DEF Removing, PNext
  <2>3. tree' = RemoveToplevel(tree, w) => Boxen(RemovedBoxes(w), DOMAIN tree')
    BY <1>1, RemovedBoxesFacts
  <2> QED BY <1>2, <1>6, <2>1, <2>2, <2>3
<1>7. ASSUME PNext, NEW w \in Windows, SendAway(w),
             Settles(IF listed = {w} THEN RootOnly(RemovedBoxes(w)) ELSE RemovedBoxes(w))
      PROVE  PInv' /\ [Next]_vars
  <2> DEFINE next == IF listed = {w} THEN EmptyRoot(TRUE) ELSE RemoveToplevel(tree, w)
             nd == IF listed = {w} THEN RootOnly(RemovedBoxes(w)) ELSE RemovedBoxes(w)
  <2>1. Next /\ Removing(w, next, listed \ {w})
    BY <1>7 DEF Next, PNext, SendAway
  <2>2. Boxen(nd, DOMAIN next)
    <3>1. Boxen(RemovedBoxes(w), DOMAIN RemoveToplevel(tree, w))
      BY <1>1, RemovedBoxesFacts
    <3>2. CASE listed = {w}
      <4>1. Root \in DOMAIN RemoveToplevel(tree, w)
        BY <1>1, <1>7, RemoveTree DEF NodeTree, FullTree
      <4>2. DOMAIN next = {Root}
        BY <3>2 DEF EmptyRoot
      <4> QED BY <3>1, <3>2, <4>1, <4>2, RootOnlyFacts
    <3> QED BY <3>1, <3>2
  <2> HIDE DEF next, nd
  <2>3. (aborted' /\ tree' = tree) \/ (tree' = next /\ ~ aborted')
    BY <1>7, <2>1 DEF Removing, PNext
  <2>4. Settles(nd)
    BY <1>7 DEF nd
  <2> QED BY <1>2, <2>1, <2>2, <2>3, <2>4
<1>8. ASSUME PNext, NEW w \in Windows, NEW q \in Leaves(tree), MoveWindow(w, q), Settles(node)
      PROVE  PInv' /\ [Next]_vars
  <2>1. Next /\ aborted' = aborted /\ ~ aborted
    BY <1>8 DEF Next, PNext, MoveWindow
  <2>2. DOMAIN tree' = DOMAIN tree
    BY <1>8 DEF MoveWindow
  <2> QED BY <1>1, <1>2, <1>8, <2>1, <2>2
<1>9. ASSUME NEW r \in (Rooms \cup {NoRoom}) \ {room}, Turn(r)
      PROVE  PInv' /\ [Next]_vars
  <2>1. room' = r /\ UNCHANGED vars /\ node' = IF r = NoRoom THEN node ELSE Arrange(node, r)
    BY <1>9 DEF Turn, Arranged
  <2>2. IInv' /\ [Next]_vars /\ tree' = tree
    BY <1>3, <2>1
  <2>3. Boxen(node', DOMAIN tree) /\ Settled(node', r)
    BY <1>1, <2>1, ArrangedFacts
  <2> QED BY <2>1, <2>2, <2>3 DEF PInv
<1>10. CASE UNCHANGED pvars
  <2>1. UNCHANGED vars /\ node' = node /\ room' = room
    BY <1>10 DEF pvars, vars
  <2>2. IInv' /\ [Next]_vars /\ tree' = tree
    BY <1>3, <2>1
  <2> QED BY <2>1, <2>2 DEF PInv
<1> QED BY <1>4, <1>5, <1>6, <1>7, <1>8, <1>9, <1>10 DEF PNext

\* The tree with its boxes is the tree, also for the theorems about Spec above.
THEOREM PlacedTreeIsATree == PSpec => Spec /\ []PInv
<1>1. PInit => Init /\ PInv
  <2> SUFFICES ASSUME PInit PROVE Init /\ PInv
    OBVIOUS
  <2>1. Init /\ IInv /\ room = NoRoom /\ node = [p \in {Root} |-> NewNode]
    BY InitIsGood DEF PInit
  <2>2. DOMAIN tree = {Root}
    BY <2>1 DEF Init, EmptyRoot
  <2>3. NewNode \in NodeBox
    BY DEF NewNode, NoBox, NodeBox, Box
  <2> QED BY <2>1, <2>2, <2>3 DEF PInv, Boxen, Settled
<1>2. PInv /\ [PNext]_pvars => PInv' /\ [Next]_vars
  BY PStepIsGood
<1> QED BY <1>1, <1>2, PTL DEF PSpec, Spec

\* The boxes that the nodes have kept through any splits, removals, moves and
\* time spent unarranged lead from every window to a nearest one of those that lie
\* in the direction, and nowhere only if none does, while the workspace is arranged
\* in the tile mode and every tile has room, for any number of windows, any areas
\* and gaps (src/config.c:399-435, src/workspace.c:136-170, src/tiling.c:57-117).
THEOREM DirectionAlwaysFindsNearest == PSpec => []DirectionFindsNearest
<1>1. PInv => DirectionFindsNearest
  <2> SUFFICES ASSUME PInv, room # NoRoom, AllOpen(FreshBoxes(node, room))
               PROVE  FindsNearest(DOMAIN tree, [p \in DOMAIN tree |-> node[p].box])
    BY DEF DirectionFindsNearest
  <2> DEFINE T == DOMAIN tree
             fresh == FreshBoxes(node, room)
  <2>1. FullTree(T) /\ Boxen(node, T) /\ room \in Rooms
    BY DEF PInv, IInv, NodeTree
  <2>2. fresh \in [T -> Box] /\ DOMAIN node = T
    BY <2>1, FreshFacts
  <2>3. [p \in T |-> node[p].box] = fresh
    BY <2>2 DEF PInv, Settled
  <2>4. Placed(T, fresh) = Ends(T)
    BY <2>2 DEF Placed, Ends, AllOpen, IsOpen
  <2> HIDE DEF T, fresh
  <2>5. FindsNearest(T, fresh)
    BY <2>1, <2>2, <2>4, FullTreesFindNearest
  <2> QED BY <2>3, <2>5 DEF T
<1> QED BY <1>1, PlacedTreeIsATree, PTL
=============================================================================
