------------------------------ MODULE Data_proofs ------------------------------
(***************************************************************************)
(* What the operations on the compositor's lists return, for lists of      *)
(* anything, and what a sum over a finite set is.                          *)
(*                                                                         *)
(* A sum is a fold, and a fold a recursion over subsets.  Induction takes  *)
(* here the form of a smallest counterexample: finite subsets are well     *)
(* ordered by inclusion, so that a set of them has a smallest element.     *)
(***************************************************************************)
EXTENDS Lists, SequenceTheorems, FiniteSetTheorems, TLAPS

\* Removing the element at i: the rest keeps its order.
LEMMA RemoveAtFacts ==
    ASSUME NEW S, NEW s \in Seq(S), NEW i \in DOMAIN s
    PROVE  /\ RemoveAt(s, i) \in Seq(S)
           /\ Len(RemoveAt(s, i)) = Len(s) - 1
           /\ \A j \in 1..(Len(s) - 1) :
                RemoveAt(s, i)[j] = IF j < i THEN s[j] ELSE s[j + 1]
<1> DEFINE a == SubSeq(s, 1, i - 1)
           b == SubSeq(s, i + 1, Len(s))
<1>1. i \in 1..Len(s) /\ Len(s) \in Nat /\ \A k \in 1..Len(s) : s[k] \in S
  OBVIOUS
<1>2. /\ a \in Seq(S) /\ Len(a) = i - 1
      /\ \A j \in 1..(i - 1) : a[j] = s[j]
  BY <1>1
<1>3. /\ b \in Seq(S) /\ Len(b) = Len(s) - i
      /\ \A j \in 1..(Len(s) - i) : b[j] = s[i + j]
  BY <1>1
<1>4. RemoveAt(s, i) = a \o b
  BY DEF RemoveAt
<1> HIDE DEF a, b
<1>5. a \o b \in Seq(S) /\ Len(a \o b) = Len(a) + Len(b)
  BY <1>2, <1>3, ConcatProperties
<1>6. ASSUME NEW j \in 1..(Len(s) - 1)
      PROVE  (a \o b)[j] = IF j < i THEN s[j] ELSE s[j + 1]
  BY <1>1, <1>2, <1>3
<1>7. Len(a \o b) = Len(s) - 1
  BY <1>1, <1>2, <1>3, <1>5
<1> QED
  BY <1>4, <1>5, <1>6, <1>7

\* Unlink yields a list of the same kind.
LEMMA UnlinkType ==
    ASSUME NEW S, NEW s \in Seq(S), NEW w
    PROVE  Unlink(s, w) \in Seq(S)
BY RemoveAtFacts DEF Unlink, ToSet

\* Unlinking a window from a list that has it once takes away just that one.
LEMMA UnlinkFacts ==
    ASSUME NEW S, NEW s \in Seq(S), NEW w, IsInjective(s)
    PROVE  /\ IsInjective(Unlink(s, w))
           /\ ToSet(Unlink(s, w)) = ToSet(s) \ {w}
<1>1. CASE w \notin ToSet(s)
  BY <1>1 DEF Unlink
<1>2. CASE w \in ToSet(s)
  <2> DEFINE k == CHOOSE i \in DOMAIN s : s[i] = w
             r == RemoveAt(s, k)
  <2>1. k \in DOMAIN s /\ s[k] = w
    BY <1>2 DEF ToSet
  <2>2. Unlink(s, w) = r
    BY <1>2 DEF Unlink
  <2>3. /\ r \in Seq(S)
        /\ Len(r) = Len(s) - 1
        /\ \A j \in 1..(Len(s) - 1) : r[j] = IF j < k THEN s[j] ELSE s[j + 1]
    BY <2>1, RemoveAtFacts
  <2> HIDE DEF k, r
  <2>4. DOMAIN s = 1..Len(s) /\ DOMAIN r = 1..(Len(s) - 1) /\ Len(s) \in Nat
    BY <2>3
  <2>5. \A x, y \in DOMAIN s : s[x] = s[y] => x = y
    BY DEF IsInjective
  <2>6. IsInjective(r)
    <3> DEFINE At(j) == IF j < k THEN j ELSE j + 1
    <3>1. \A j \in DOMAIN r : At(j) \in DOMAIN s /\ r[j] = s[At(j)]
      BY <2>1, <2>3, <2>4
    <3>2. \A x, y \in DOMAIN r : At(x) = At(y) => x = y
      BY <2>1, <2>4
    <3> HIDE DEF At
    <3> QED BY <2>5, <3>1, <3>2 DEF IsInjective
  <2>7. ASSUME NEW j \in DOMAIN r PROVE r[j] \in ToSet(s) \ {w}
    <3>1. CASE j < k
      <4>1. r[j] = s[j] /\ j \in DOMAIN s /\ j # k
        BY <3>1, <2>1, <2>3, <2>4
      <4> QED BY <4>1, <2>1, <2>5 DEF ToSet
    <3>2. CASE ~(j < k)
      <4>1. r[j] = s[j + 1] /\ j + 1 \in DOMAIN s /\ j + 1 # k
        BY <3>2, <2>1, <2>3, <2>4
      <4> QED BY <4>1, <2>1, <2>5 DEF ToSet
    <3> QED BY <3>1, <3>2
  <2>8. ASSUME NEW x \in DOMAIN s, s[x] # w PROVE s[x] \in ToSet(r)
    <3>1. CASE x < k
      BY <3>1, <2>1, <2>3, <2>4 DEF ToSet
    <3>2. CASE x > k
      <4>1. x - 1 \in DOMAIN r /\ r[x - 1] = s[x]
        BY <3>2, <2>1, <2>3, <2>4
      <4> QED BY <4>1 DEF ToSet
    <3> QED BY <3>1, <3>2, <2>1, <2>4, <2>8
  <2> QED BY <2>2, <2>6, <2>7, <2>8 DEF ToSet
<1> QED BY <1>1, <1>2

\* Cons puts one element in front.
LEMMA ConsFacts ==
    ASSUME NEW S, NEW s \in Seq(S), NEW w \in S
    PROVE  /\ Cons(w, s) \in Seq(S)
           /\ ToSet(Cons(w, s)) = ToSet(s) \cup {w}
           /\ (IsInjective(s) /\ w \notin ToSet(s)) => IsInjective(Cons(w, s))
<1> DEFINE c == Cons(w, s)
<1>1. /\ c \in Seq(S)
      /\ Len(c) = Len(s) + 1
      /\ c[1] = w
      /\ \A i \in 1..Len(s) : c[i + 1] = s[i]
  BY ConcatProperties DEF Cons
<1> HIDE DEF c
<1>2. DOMAIN c = 1..(Len(s) + 1) /\ DOMAIN s = 1..Len(s) /\ Len(s) \in Nat
  BY <1>1
<1>3. \A j \in DOMAIN c : j = 1 \/ (j - 1 \in DOMAIN s /\ c[j] = s[j - 1])
  BY <1>1, <1>2
<1>4. ToSet(c) = ToSet(s) \cup {w}
  <2>1. ASSUME NEW j \in DOMAIN c PROVE c[j] \in ToSet(s) \cup {w}
    BY <1>1, <1>3 DEF ToSet
  <2>2. ASSUME NEW i \in DOMAIN s PROVE s[i] \in ToSet(c)
    <3>1. i + 1 \in DOMAIN c /\ c[i + 1] = s[i]
      BY <1>1, <1>2
    <3> QED BY <3>1 DEF ToSet
  <2>3. w \in ToSet(c)
    BY <1>1, <1>2 DEF ToSet
  <2> QED BY <2>1, <2>2, <2>3 DEF ToSet
<1>5. ASSUME IsInjective(s), w \notin ToSet(s), NEW x \in DOMAIN c, NEW y \in DOMAIN c, c[x] = c[y]
      PROVE  x = y
  <2>1. \A i \in DOMAIN s : s[i] # w
    BY <1>5 DEF ToSet
  <2>2. \A i, j \in DOMAIN s : s[i] = s[j] => i = j
    BY <1>5 DEF IsInjective
  <2>3. x \in Nat /\ y \in Nat
    BY <1>2
  <2> QED BY <1>1, <1>3, <1>5, <2>1, <2>2, <2>3
<1> QED BY <1>1, <1>4, <1>5 DEF c, IsInjective

\* The last element, and what a new head leaves of it
LEMMA LastFacts ==
    ASSUME NEW S, NEW s \in Seq(S)
    PROVE  /\ s # << >> => Last(s) \in ToSet(s)
           /\ \A w \in S : /\ Cons(w, s) # << >>
                           /\ Last(Cons(w, s)) = IF s = << >> THEN w ELSE Last(s)
<1>1. s # << >> => Len(s) \in DOMAIN s
  OBVIOUS
<1>2. ASSUME NEW w \in S
      PROVE  /\ Cons(w, s) # << >>
             /\ Last(Cons(w, s)) = IF s = << >> THEN w ELSE Last(s)
  <2>1. /\ Len(Cons(w, s)) = Len(s) + 1 /\ Cons(w, s)[1] = w
        /\ \A i \in 1..Len(s) : Cons(w, s)[i + 1] = s[i]
    BY <1>2, ConcatProperties DEF Cons
  <2>2. Len(s) \in Nat /\ (s = << >> <=> Len(s) = 0)
    OBVIOUS
  <2> QED BY <2>1, <2>2 DEF Last
<1> QED BY <1>1, <1>2 DEF Last, ToSet
----------------------------------------------------------------------------
(* Sums *)

\* The recursion that SumFunction stands for, on the subsets of S
Some(s) == CHOOSE x \in s : TRUE
Adds(v, S, f) ==
    f = [s \in SUBSET S |-> IF s = {} THEN 0 ELSE v[Some(s)] + f[s \ {Some(s)}]]

\* A sum over the domain of v, as the recursion by which it is defined.
LEMMA SumIsRecursion ==
    ASSUME NEW v
    PROVE  SumFunction(v) = (CHOOSE r : Adds(v, DOMAIN v, r))[DOMAIN v]
BY DEF SumFunction, SumFunctionOnSet, FoldFunctionOnSet, MapThenFoldSet, Adds, Some

\* The element that a fold takes next is one of the set.
LEMMA SomeIsIn == \A s : s # {} => Some(s) \in s
BY DEF Some

\* Among subsets of a finite set there is always a smallest one.
LEMMA SmallestSubset ==
    ASSUME NEW S, IsFiniteSet(S), NEW F \in SUBSET SUBSET S, F # {}
    PROVE  \E T \in F : \A U \in F : U \subseteq T => U = T
<1>1. IsWellFoundedOn(StrictSubsetOrdering(S), SUBSET S)
  BY FS_StrictSubsetOrderingWellFounded, FS_FiniteSubsetsOfFinite
<1>2. PICK T \in F : \A U \in F : <<U, T>> \notin StrictSubsetOrdering(S)
  BY <1>1, WFMin
<1> QED BY <1>2 DEF StrictSubsetOrdering

\* One step of the recursion.
LEMMA AddsUnfolds ==
    ASSUME NEW v, NEW S, NEW f, Adds(v, S, f), NEW W \in SUBSET S
    PROVE  /\ W = {} => f[W] = 0
           /\ W # {} => /\ f[W] = v[Some(W)] + f[W \ {Some(W)}]
                        /\ Some(W) \in W
BY SomeIsIn DEF Adds

\* Two recursions agree on the sets on which both are defined.
LEMMA AddsIsUnique ==
    ASSUME NEW v, NEW S, NEW T, NEW f, NEW g, IsFiniteSet(S),
           Adds(v, S, f), Adds(v, T, g), NEW U, U \subseteq S, U \subseteq T
    PROVE  f[U] = g[U]
<1> DEFINE F == {W \in SUBSET S : W \subseteq T /\ f[W] # g[W]}
<1>1. SUFFICES ASSUME F # {} PROVE FALSE
  OBVIOUS
<1>2. PICK W \in F : \A X \in F : X \subseteq W => X = W
  <2>1. F \in SUBSET SUBSET S
    OBVIOUS
  <2> HIDE DEF F
  <2> QED BY <1>1, <2>1, SmallestSubset
<1>3. W # {} /\ Some(W) \in W /\ f[W \ {Some(W)}] # g[W \ {Some(W)}]
  BY <1>2, AddsUnfolds
<1>4. W \ {Some(W)} \in F
  BY <1>3
<1> QED BY <1>2, <1>3, <1>4

\* The recursion defines a function on all subsets of a finite set.
LEMMA AddsExists ==
    ASSUME NEW v, NEW S, IsFiniteSet(S)
    PROVE  \E f : Adds(v, S, f)
<1> DEFINE F == {W \in SUBSET S : ~ \E f : Adds(v, W, f)}
<1>1. SUFFICES ASSUME F # {} PROVE FALSE
  OBVIOUS
<1>2. PICK W \in F : \A X \in F : X \subseteq W => X = W
  <2>1. F \in SUBSET SUBSET S
    OBVIOUS
  <2> HIDE DEF F
  <2> QED BY <1>1, <2>1, SmallestSubset
<1> DEFINE sum(X) == (CHOOSE r : Adds(v, X, r))[X]
           up(X) == IF X = {} THEN 0 ELSE v[Some(X)] + sum(X \ {Some(X)})
           h == [X \in SUBSET W |-> up(X)]
<1>3. \A X \in SUBSET W : X # W => Adds(v, X, CHOOSE r : Adds(v, X, r))
  BY <1>2
<1>4. ASSUME NEW X \in SUBSET W, X # W PROVE sum(X) = up(X)
  <2> DEFINE f == CHOOSE r : Adds(v, X, r)
             g == CHOOSE r : Adds(v, X \ {Some(X)}, r)
  <2>1. Adds(v, X, f)
    BY <1>3, <1>4
  <2>2. CASE X = {}
    BY <2>1, <2>2, AddsUnfolds
  <2>3. CASE X # {}
    <3>1. Some(X) \in X /\ f[X] = v[Some(X)] + f[X \ {Some(X)}]
      BY <2>1, <2>3, AddsUnfolds
    <3>2. Adds(v, X \ {Some(X)}, g)
      BY <1>3, <1>4, <3>1
    <3>3. IsFiniteSet(X)
      BY FS_Subset, <1>2
    <3>4. f[X \ {Some(X)}] = g[X \ {Some(X)}]
      BY <2>1, <3>1, <3>2, <3>3, AddsIsUnique
    <3> QED BY <2>3, <3>1, <3>4
  <2> QED BY <2>2, <2>3
<1>5. ASSUME NEW X \in SUBSET W, X # {} PROVE h[X \ {Some(X)}] = sum(X \ {Some(X)})
  <2>1. Some(X) \in X
    BY <1>5, SomeIsIn
  <2> HIDE DEF sum, up
  <2> QED BY <1>4, <1>5, <2>1 DEF h
<1>6. Adds(v, W, h)
  <2>1. \A X \in SUBSET W :
          h[X] = IF X = {} THEN 0 ELSE v[Some(X)] + h[X \ {Some(X)}]
    <3> HIDE DEF sum
    <3> QED BY <1>5
  <2> HIDE DEF up
  <2>2. h = [X \in SUBSET W |-> h[X]]
    OBVIOUS
  <2> HIDE DEF h
  <2>3. h = [X \in SUBSET W |-> IF X = {} THEN 0 ELSE v[Some(X)] + h[X \ {Some(X)}]]
    BY <2>1, <2>2
  <2> QED BY <2>3 DEF Adds
<1> QED BY <1>2, <1>6

\* A sum lies in every set that holds zero and is closed under adding a value.
LEMMA SumIsIn ==
    ASSUME NEW S, IsFiniteSet(S), NEW v, DOMAIN v = S,
           NEW Q, 0 \in Q, \A x \in S, q \in Q : v[x] + q \in Q
    PROVE  SumFunction(v) \in Q
<1> DEFINE f == CHOOSE r : Adds(v, S, r)
<1>1. Adds(v, S, f) /\ SumFunction(v) = f[S]
  BY AddsExists, SumIsRecursion
<1> HIDE DEF f
<1>2. ASSUME NEW W \in SUBSET S
      PROVE  /\ W = {} => f[W] = 0
             /\ W # {} => /\ f[W] = v[Some(W)] + f[W \ {Some(W)}]
                          /\ Some(W) \in W
  BY <1>1, AddsUnfolds
<1> DEFINE F == {W \in SUBSET S : f[W] \notin Q}
<1>3. CASE F = {}
  BY <1>1, <1>3
<1>4. CASE F # {}
  <2>1. PICK W \in F : \A X \in F : X \subseteq W => X = W
    <3>1. F \in SUBSET SUBSET S
      OBVIOUS
    <3> HIDE DEF F
    <3> QED BY <1>4, <3>1, SmallestSubset
  <2>2. W \in SUBSET S /\ f[W] \notin Q
    OBVIOUS
  <2>3. W # {} /\ Some(W) \in W /\ f[W] = v[Some(W)] + f[W \ {Some(W)}]
    BY <1>2, <2>2
  <2>4. f[W \ {Some(W)}] \in Q
    BY <2>1, <2>2, <2>3
  <2> QED BY <2>2, <2>3, <2>4
<1> QED BY <1>3, <1>4

\* A sum of naturals is one.
LEMMA SumOfNaturals ==
    ASSUME NEW S, IsFiniteSet(S), NEW v \in [S -> Nat]
    PROVE  SumFunction(v) \in Nat
<1>1. 0 \in Nat /\ \A x \in S, q \in Nat : v[x] + q \in Nat
  OBVIOUS
<1> QED BY <1>1, SumIsIn

\* A sum of zeros is zero.
LEMMA SumOfZeros ==
    ASSUME NEW S, IsFiniteSet(S), NEW v \in [S -> {0}]
    PROVE  SumFunction(v) = 0
<1>1. 0 \in {0} /\ \A x \in S, q \in {0} : v[x] + q \in {0}
  OBVIOUS
<1>2. SumFunction(v) \in {0}
  BY <1>1, SumIsIn
<1> QED BY <1>2

\* The sums of the subsets of S, and that their order does not matter
Sums(v, S, f) ==
    /\ f \in [SUBSET S -> Int]
    /\ f[{}] = 0
    /\ \A W \in SUBSET S : \A x \in W : f[W] = v[x] + f[W \ {x}]

\* The order in which elements are taken does not matter: a sum over a set is
\* any one element's value and the sum over the rest.
LEMMA AddsIsASum ==
    ASSUME NEW S, IsFiniteSet(S), NEW v \in [S -> Int], NEW f, Adds(v, S, f)
    PROVE  Sums(v, S, f)
<1>0. f[{}] = 0
  <2>1. {} \in SUBSET S
    OBVIOUS
  <2> QED BY <2>1, AddsUnfolds
<1> DEFINE Good(W) == f[W] \in Int /\ \A x \in W : f[W] = v[x] + f[W \ {x}]
           F == {W \in SUBSET S : ~ Good(W)}
<1>1. CASE F = {}
  <2>1. \A W \in SUBSET S : Good(W)
    BY <1>1
  <2>2. DOMAIN f = SUBSET S /\ f = [W \in SUBSET S |-> f[W]]
    BY DEF Adds
  <2>3. f \in [SUBSET S -> Int]
    BY <2>1, <2>2
  <2> QED BY <1>0, <2>1, <2>3 DEF Sums
<1>2. CASE F # {}
  <2>1. PICK W \in F : \A X \in F : X \subseteq W => X = W
    <3>1. F \in SUBSET SUBSET S
      OBVIOUS
    <3> HIDE DEF F
    <3> QED BY <1>2, <3>1, SmallestSubset
  <2>2. W \in SUBSET S /\ ~ Good(W)
    BY <2>1
  <2>3. \A X \in SUBSET S : X \subseteq W /\ X # W => Good(X)
    BY <2>1
  <2> DEFINE y == Some(W)
  <2>4. W # {} /\ y \in W /\ f[W] = v[y] + f[W \ {y}]
    <3>1. Good({})
      BY <1>0
    <3>2. W # {}
      BY <2>2, <3>1
    <3> QED BY <2>2, <3>2, AddsUnfolds, SomeIsIn
  <2> HIDE DEF y, F
  <2>5. Good(W \ {y}) /\ v[y] \in Int
    BY <2>2, <2>3, <2>4
  <2>6. ASSUME NEW x \in W, x # y PROVE f[W] = v[x] + f[W \ {x}]
    <3>1. Good(W \ {x}) /\ y \in W \ {x} /\ x \in W \ {y} /\ v[x] \in Int
      BY <2>2, <2>3, <2>4, <2>6
    <3>2. (W \ {y}) \ {x} = (W \ {x}) \ {y}
      OBVIOUS
    <3> DEFINE rest == f[(W \ {x}) \ {y}]
    <3>3. f[W \ {y}] = v[x] + rest /\ f[W \ {x}] = v[y] + rest
      BY <2>5, <3>1, <3>2
    <3>4. rest \in Int
      <4>1. (W \ {x}) \ {y} \in SUBSET S /\ (W \ {x}) \ {y} \subseteq W /\ (W \ {x}) \ {y} # W
        BY <2>2, <2>4
      <4> QED BY <2>3, <4>1
    <3> HIDE DEF rest
    <3> QED BY <2>4, <2>5, <3>1, <3>3, <3>4
  <2>7. f[W] \in Int
    BY <2>4, <2>5
  <2> QED BY <2>2, <2>4, <2>6, <2>7
<1> QED BY <1>1, <1>2

\* Sums over all subsets of a finite set, as one function.
LEMMA SumsExist ==
    ASSUME NEW S, IsFiniteSet(S), NEW v \in [S -> Int]
    PROVE  \E f : /\ Sums(v, S, f)
                  /\ \A W \in SUBSET S : SumFunction([x \in W |-> v[x]]) = f[W]
<1>1. PICK f : Adds(v, S, f)
  BY AddsExists
<1>2. ASSUME NEW W \in SUBSET S PROVE SumFunction([x \in W |-> v[x]]) = f[W]
  <2> DEFINE u == [x \in W |-> v[x]]
             g == CHOOSE r : Adds(u, W, r)
  <2>1. DOMAIN u = W /\ IsFiniteSet(W)
    BY <1>2, FS_Subset
  <2>2. Adds(u, W, g) /\ SumFunction(u) = g[W]
    BY <2>1, AddsExists, SumIsRecursion
  <2> HIDE DEF g
  <2>3. Adds(v, W, g)
    <3>1. \A s \in SUBSET W : s # {} => u[Some(s)] = v[Some(s)]
      BY SomeIsIn
    <3>2. g = [s \in SUBSET W |-> IF s = {} THEN 0 ELSE u[Some(s)] + g[s \ {Some(s)}]]
      BY <2>2 DEF Adds
    <3> HIDE DEF u
    <3>3. g = [s \in SUBSET W |-> IF s = {} THEN 0 ELSE v[Some(s)] + g[s \ {Some(s)}]]
      BY <3>1, <3>2
    <3> QED BY <3>3 DEF Adds
  <2>4. g[W] = f[W]
    BY <1>1, <1>2, <2>1, <2>3, AddsIsUnique
  <2> QED BY <2>2, <2>4
<1> QED BY <1>1, <1>2, AddsIsASum

\* The sum over two disjoint sets is the sum of their sums.
LEMMA SumOfUnion ==
    ASSUME NEW S, IsFiniteSet(S), NEW v \in [S -> Int], NEW f, Sums(v, S, f),
           NEW A \in SUBSET S, NEW Z \in SUBSET S, A \cap Z = {}
    PROVE  f[A \cup Z] = f[A] + f[Z]
<1> DEFINE F == {B \in SUBSET S : A \cap B = {} /\ f[A \cup B] # f[A] + f[B]}
<1>1. SUFFICES ASSUME F # {} PROVE FALSE
  OBVIOUS
<1>2. PICK B \in F : \A X \in F : X \subseteq B => X = B
  <2>1. F \in SUBSET SUBSET S
    OBVIOUS
  <2> HIDE DEF F
  <2> QED BY <1>1, <2>1, SmallestSubset
<1>3. B \in SUBSET S /\ A \cap B = {} /\ f[A \cup B] # f[A] + f[B]
  BY <1>2
<1>4. f[A] \in Int /\ f[{}] = 0 /\ \A W \in SUBSET S : f[W] \in Int
  BY DEF Sums
<1>5. B # {}
  <2>1. A \cup {} = A /\ f[A] \in Int /\ f[A] + 0 = f[A]
    BY <1>4
  <2> HIDE DEF F
  <2> QED BY <1>3, <1>4, <2>1
<1>6. PICK x \in B : TRUE
  BY <1>5
<1>7. x \in S /\ v[x] \in Int /\ B \ {x} \in SUBSET S /\ A \cup B \in SUBSET S
      /\ (A \cup B) \ {x} = A \cup (B \ {x}) /\ x \in A \cup B
  BY <1>3, <1>6
<1>8. f[B] = v[x] + f[B \ {x}] /\ f[A \cup B] = v[x] + f[A \cup (B \ {x})]
  <2>1. \A W \in SUBSET S : \A y \in W : f[W] = v[y] + f[W \ {y}]
    BY DEF Sums
  <2> HIDE DEF F
  <2>2. f[B] = v[x] + f[B \ {x}]
    BY <1>3, <1>6, <2>1
  <2>3. f[A \cup B] = v[x] + f[(A \cup B) \ {x}]
    BY <1>7, <2>1
  <2> QED BY <1>7, <2>2, <2>3
<1>9. B \ {x} \notin F
  BY <1>2, <1>6
<1>10. f[A \cup (B \ {x})] = f[A] + f[B \ {x}]
  BY <1>3, <1>7, <1>9
<1>11. f[B \ {x}] \in Int
  BY <1>4, <1>7
<1> HIDE DEF F
<1> QED BY <1>3, <1>4, <1>7, <1>8, <1>10, <1>11
=============================================================================
