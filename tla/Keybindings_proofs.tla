------------------------- MODULE Keybindings_proofs -------------------------
(***************************************************************************)
(* The table of keybindings owns the heap, a repeat ends with its key, no  *)
(* key is stuck for a client, a failed reload keeps every binding and a    *)
(* good one leaves those of the file: for any keyboards, keys,             *)
(* configurations and failures.                                            *)
(*                                                                         *)
(* Each of the first three is inductive together with the types: the first *)
(* because NewEntries only takes free addresses, the others because a key  *)
(* leaves held in the same step in which it leaves repeat and down.        *)
(***************************************************************************)
EXTENDS Keybindings, FiniteSetTheorems, TLAPS

KeyTypes ==
    /\ table \in SUBSET Entries
    /\ repeat \in [entry : Entries, code : Codes] \cup {NoRepeat}
    /\ plugged \in SUBSET Keyboards
    /\ held \in [Keyboards -> SUBSET Codes]
    /\ down \in SUBSET Codes

IInv ==
    /\ KeyTypes
    /\ TableOwnsHeap
    /\ RepeatWhileHeld
    /\ ClientKeysHeld

----------------------------------------------------------------------------
(* The table *)

\* The entries made for a file have addresses of their own.
LEMMA NewEntriesAreFree ==
    ASSUME NEW c, NEW place \in Placements(c)
    PROVE  /\ DOMAIN NewEntries(c, place) \subseteq Entries
           /\ DOMAIN NewEntries(c, place) \cap DOMAIN heap = {}
BY DEF Placements, NewEntries

LEMMA NothingNew ==
    DOMAIN NewEntries(<< >>, << >>) = {}
<1>1. KeysOf(<< >>) = {}
  BY DEF KeysOf
<1> QED BY <1>1 DEF NewEntries

\* There is one new entry for each key of the file.
LEMMA OneEntryEach ==
    ASSUME NEW c \in Configs, NEW place \in Placements(c)
    PROVE  Cardinality(DOMAIN NewEntries(c, place)) = Cardinality(KeysOf(c))
<1> DEFINE K == KeysOf(c)
           D == DOMAIN NewEntries(c, place)
<1>1. c \in Seq(Binding)
  BY KeybindingsAssumption
<1>2. IsFiniteSet(K)
  <2>1. IsFiniteSet(DOMAIN c) /\ DOMAIN c = 1 .. Len(c) /\ Len(c) \in Nat
    BY <1>1, FS_Interval
  <2> DEFINE f == [i \in DOMAIN c |-> c[i].key]
  <2>2. f \in Surjection(DOMAIN c, K)
    BY DEF KeysOf, Surjection
  <2> QED BY <2>1, <2>2, FS_Surjection
<1>3. place \in Bijection(K, D)
  BY DEF Placements, NewEntries, Bijection, Injection, Surjection, IsInjective
<1> QED BY <1>2, <1>3, FS_Bijection DEF ExistsBijection

\* The last binding of a key has an entry.
LEMMA LastBindingIsIn ==
    ASSUME NEW c \in Configs, NEW place \in Placements(c), NEW i \in DOMAIN c,
           \A j \in DOMAIN c : j > i => c[j].key # c[i].key
    PROVE  \E e \in DOMAIN NewEntries(c, place) : NewEntries(c, place)[e] = c[i]
<1> DEFINE k == c[i].key
           e == place[k]
<1>1. c \in Seq(Binding) /\ k \in KeysOf(c)
  BY KeybindingsAssumption DEF KeysOf
<1>2. Registered(c, k) = c[i]
  <2>1. i = Max({j \in DOMAIN c : c[j].key = k})
    BY <1>1 DEF Max
  <2> QED BY <2>1 DEF Registered
<1>3. \A j \in KeysOf(c) : place[j] = e => j = k
  BY <1>1 DEF Placements
<1>4. NewEntries(c, place)[e] = Registered(c, CHOOSE j \in KeysOf(c) : place[j] = e)
  BY <1>1 DEF NewEntries
<1>5. e \in DOMAIN NewEntries(c, place)
  BY <1>1 DEF NewEntries
<1>6. (CHOOSE j \in KeysOf(c) : place[j] = e) = k
  BY <1>1, <1>3
<1> QED BY <1>2, <1>4, <1>5, <1>6

\* Reading the file, however it ends, leaves a table that owns the heap.
LEMMA LoadOwnsHeap ==
    ASSUME IInv, NEW c, NEW outcome, LoadConfig(c, outcome)
    PROVE  /\ TableOwnsHeap'
           /\ table' \in SUBSET Entries
<1>1. ASSUME NEW new, DOMAIN new \subseteq Entries, CommitTable(new) \/ RevertTable(new)
      PROVE  TableOwnsHeap' /\ table' \in SUBSET Entries
  <2>1. table = DOMAIN heap /\ table \subseteq Entries
    BY DEF IInv, KeyTypes, TableOwnsHeap
  <2> QED BY <1>1, <2>1 DEF CommitTable, RevertTable, With, TableOwnsHeap
<1>2. CASE outcome = "parse"
  <2>1. RevertTable(NewEntries(<< >>, << >>))
    BY <1>2 DEF LoadConfig
  <2> QED BY <1>1, <2>1, NothingNew
<1>3. CASE outcome # "parse"
  <2>1. PICK place \in Placements(c) :
          CommitTable(NewEntries(c, place)) \/ RevertTable(NewEntries(c, place))
    BY <1>3 DEF LoadConfig
  <2>2. DOMAIN NewEntries(c, place) \subseteq Entries
    BY NewEntriesAreFree
  <2> QED BY <1>1, <2>1, <2>2
<1> QED BY <1>2, <1>3

----------------------------------------------------------------------------
(* Keys *)

\* A change of focus only tells a client of keys that are down.
LEMMA FocusMovesHeld ==
    ASSUME IInv, FocusMayMove,
           held' \in [Keyboards -> SUBSET Codes],
           HeldCodes \subseteq HeldCodes'
    PROVE  ClientKeysHeld' /\ down' \in SUBSET Codes
<1>1. CASE down' = down
  BY <1>1 DEF IInv, KeyTypes, ClientKeysHeld
<1>2. CASE down' = {}
  BY <1>2 DEF ClientKeysHeld
<1>3. CASE \E d \in plugged : down' = held'[d]
  <2>1. PICK d \in Keyboards : down' = held'[d]
    BY <1>3 DEF IInv, KeyTypes
  <2> QED BY <2>1 DEF ClientKeysHeld, HeldCodes
<1> QED BY <1>1, <1>2, <1>3 DEF FocusMayMove

LEMMA ReloadStep ==
    ASSUME IInv, NEW c, NEW outcome, Reload(c, outcome)
    PROVE  IInv'
<1>1. TableOwnsHeap' /\ table' \in SUBSET Entries
  BY LoadOwnsHeap DEF Reload
<1>2. UNCHANGED <<repeat, plugged, held>> /\ FocusMayMove
  BY DEF Reload
<1>3. HeldCodes' = HeldCodes /\ held' \in [Keyboards -> SUBSET Codes]
  BY <1>2 DEF HeldCodes, IInv, KeyTypes
<1>4. ClientKeysHeld' /\ down' \in SUBSET Codes
  BY <1>2, <1>3, FocusMovesHeld
<1> QED BY <1>1, <1>2, <1>3, <1>4 DEF IInv, KeyTypes, RepeatWhileHeld

LEMMA UnplugStep ==
    ASSUME IInv, NEW d \in Keyboards, Unplug(d)
    PROVE  IInv'
<1> USE DEF IInv, KeyTypes, Unplug, HeldCodes
<1>1. held' \in [Keyboards -> SUBSET Codes] /\ HeldCodes \ held[d] \subseteq HeldCodes'
  OBVIOUS
<1>2. ClientKeysHeld' /\ down' \in SUBSET Codes
  BY <1>1 DEF ClientKeysHeld
<1>3. RepeatWhileHeld'
  BY <1>1 DEF RepeatWhileHeld, ClearIfRepeating, NoRepeat
<1> QED BY <1>1, <1>2, <1>3 DEF ClearIfRepeating, TableOwnsHeap

LEMMA ReleaseStep ==
    ASSUME IInv, NEW d \in Keyboards, NEW k \in Codes, Release(d, k)
    PROVE  IInv'
<1> USE DEF IInv, KeyTypes, Release, HeldCodes
<1>1. held' \in [Keyboards -> SUBSET Codes] /\ HeldCodes \ {k} \subseteq HeldCodes'
  OBVIOUS
<1>2. ClientKeysHeld' /\ down' \in SUBSET Codes
  BY <1>1 DEF ClientKeysHeld
<1>3. RepeatWhileHeld'
  BY <1>1 DEF RepeatWhileHeld, ClearIfRepeating, NoRepeat
<1> QED BY <1>1, <1>2, <1>3 DEF ClearIfRepeating, TableOwnsHeap

\* A press adds the key to those that are held.
LEMMA PressedIsHeld ==
    ASSUME IInv, NEW d \in Keyboards, NEW k \in Codes,
           held' = [held EXCEPT ![d] = @ \cup {k}]
    PROVE  /\ held' \in [Keyboards -> SUBSET Codes]
           /\ HeldCodes' = HeldCodes \cup {k}
BY DEF IInv, KeyTypes, HeldCodes

LEMMA PressStep ==
    ASSUME IInv, NEW d \in Keyboards, NEW k \in Codes, NEW looked, Press(d, k, looked)
    PROVE  IInv'
<1>1. /\ held' \in [Keyboards -> SUBSET Codes]
      /\ HeldCodes' = HeldCodes \cup {k}
  BY PressedIsHeld DEF Press
<1>2. UNCHANGED <<heap, table, plugged>>
  BY DEF Press
<1>3. CASE repeat' = NoRepeat /\ down' = down \cup {k}
  BY <1>1, <1>2, <1>3
     DEF IInv, KeyTypes, TableOwnsHeap, RepeatWhileHeld, ClientKeysHeld, NoRepeat
<1>4. CASE \E e \in Matches(looked) : repeat' = Repeating(e, k) /\ FocusMayMove
  <2>1. PICK e \in Matches(looked) : repeat' = Repeating(e, k) /\ FocusMayMove
    BY <1>4
  <2>2. e \in Entries
    BY DEF Matches, Found, IInv, KeyTypes
  <2>3. ClientKeysHeld' /\ down' \in SUBSET Codes
    BY <2>1, <1>1, FocusMovesHeld
  <2>4. repeat' \in [entry : Entries, code : Codes] \cup {NoRepeat}
    BY <2>1, <2>2 DEF Repeating
  <2>5. RepeatWhileHeld'
    BY <2>1, <1>1 DEF RepeatWhileHeld, Repeating, NoRepeat
  <2> QED BY <1>1, <1>2, <2>3, <2>4, <2>5 DEF IInv, KeyTypes, TableOwnsHeap
<1> QED BY <1>3, <1>4 DEF Press

LEMMA PressCtrlAltStep ==
    ASSUME IInv, NEW d \in Keyboards, NEW k \in Codes, PressCtrlAlt(d, k)
    PROVE  IInv'
<1>1. /\ held' \in [Keyboards -> SUBSET Codes]
      /\ HeldCodes' = HeldCodes \cup {k}
  BY PressedIsHeld DEF PressCtrlAlt
<1> QED BY <1>1 DEF PressCtrlAlt, IInv, KeyTypes, TableOwnsHeap, RepeatWhileHeld, ClientKeysHeld

LEMMA RepeatTickStep ==
    ASSUME IInv, RepeatTick
    PROVE  IInv'
<1>1. UNCHANGED <<heap, table, repeat, plugged, held>> /\ FocusMayMove
  BY DEF RepeatTick
<1>2. HeldCodes' = HeldCodes /\ held' \in [Keyboards -> SUBSET Codes]
  BY <1>1 DEF HeldCodes, IInv, KeyTypes
<1>3. ClientKeysHeld' /\ down' \in SUBSET Codes
  BY <1>1, <1>2, FocusMovesHeld
<1> QED BY <1>1, <1>2, <1>3 DEF IInv, KeyTypes, TableOwnsHeap, RepeatWhileHeld

----------------------------------------------------------------------------
(* Theorems *)

LEMMA InitIInv == Init => IInv
BY DEF Init, IInv, KeyTypes, TableOwnsHeap, RepeatWhileHeld, ClientKeysHeld, NoRepeat

LEMMA NextIInv == IInv /\ [Next]_vars => IInv'
<1> SUFFICES ASSUME IInv, [Next]_vars PROVE IInv'
  OBVIOUS
<1>1. ASSUME NEW c, NEW outcome, Reload(c, outcome) PROVE IInv'
  BY <1>1, ReloadStep
<1>2. ASSUME NEW d \in Keyboards, Plug(d) PROVE IInv'
  BY <1>2 DEF Plug, IInv, KeyTypes, TableOwnsHeap, RepeatWhileHeld, ClientKeysHeld, HeldCodes
<1>3. ASSUME NEW d \in Keyboards, Unplug(d) PROVE IInv'
  BY <1>3, UnplugStep
<1>4. ASSUME NEW d \in Keyboards, NEW k \in Codes, Release(d, k) PROVE IInv'
  BY <1>4, ReleaseStep
<1>5. ASSUME NEW d \in Keyboards, NEW k \in Codes, PressCtrlAlt(d, k) PROVE IInv'
  BY <1>5, PressCtrlAltStep
<1>6. ASSUME NEW d \in Keyboards, NEW k \in Codes, NEW looked, Press(d, k, looked)
      PROVE  IInv'
  BY <1>6, PressStep
<1>7. CASE RepeatTick
  BY <1>7, RepeatTickStep
<1>8. CASE UNCHANGED vars
  BY <1>8 DEF vars, IInv, KeyTypes, TableOwnsHeap, RepeatWhileHeld, ClientKeysHeld, HeldCodes
<1> QED BY <1>1, <1>2, <1>3, <1>4, <1>5, <1>6, <1>7, <1>8 DEF Next

\* The table of keybindings and the heap agree, after any mixture of good and
\* failed reloads.
THEOREM TableAlwaysOwnsHeap == Spec => []TableOwnsHeap
<1>1. IInv => TableOwnsHeap
  BY DEF IInv
<1> QED BY <1>1, InitIInv, NextIInv, PTL DEF Spec

\* A repeat never outlives the key press that started it.
THEOREM RepeatAlwaysHeld == Spec => []RepeatWhileHeld
<1>1. IInv => RepeatWhileHeld
  BY DEF IInv
<1> QED BY <1>1, InitIInv, NextIInv, PTL DEF Spec

\* No key is ever stuck for a client.
THEOREM ClientKeysAlwaysHeld == Spec => []ClientKeysHeld
<1>1. IInv => ClientKeysHeld
  BY DEF IInv
<1> QED BY <1>1, InitIInv, NextIInv, PTL DEF Spec

\* A failed reload takes no binding away, even if it fails after some of the
\* file's bindings have been registered.
THEOREM FailedReloadAlwaysKeeps == Spec => FailedReloadKeeps
<1>1. ASSUME IInv, NEW c \in Configs, NEW outcome \in Failures, Reload(c, outcome),
             NEW e \in table
      PROVE  e \in table' /\ heap'[e] = heap[e]
  <2>1. ASSUME NEW new, DOMAIN new \cap DOMAIN heap = {}, RevertTable(new)
        PROVE  e \in table' /\ heap'[e] = heap[e]
    <3>1. e \notin DOMAIN new
      BY <1>1, <2>1 DEF IInv, TableOwnsHeap
    <3> QED BY <1>1, <2>1, <3>1 DEF RevertTable, With
  <2>2. CASE outcome = "parse"
    BY <1>1, <2>1, <2>2, NothingNew DEF Reload, LoadConfig
  <2>3. CASE outcome # "parse"
    <3>1. PICK place \in Placements(c) : RevertTable(NewEntries(c, place))
      BY <1>1, <2>3, KeybindingsAssumption DEF Reload, LoadConfig
    <3> QED BY <2>1, <3>1, NewEntriesAreFree
  <2> QED BY <2>2, <2>3
<1>2. IInv => [\A c \in Configs, outcome \in Failures :
                 Reload(c, outcome) => \A e \in table : e \in table' /\ heap'[e] = heap[e]]_vars
  BY <1>1
<1> QED BY <1>2, InitIInv, NextIInv, PTL DEF Spec, FailedReloadKeeps

\* A good reload leaves the bindings of the file and nothing else, for any file
\* and whatever was in the table: each key has one entry, and it is that of its
\* last binding (src/config.c:88-93, src/input.c:55-84).
THEOREM GoodReloadAlwaysHeals == Spec => GoodReloadHeals
<1> DEFINE Heals(c) ==
        /\ Cardinality(table') = Cardinality(KeysOf(c))
        /\ \A i \in DOMAIN c :
              (\A j \in DOMAIN c : j > i => c[j].key # c[i].key) =>
                  \E e \in table' : heap'[e] = c[i]
<1>1. ASSUME NEW c \in Configs, Reload(c, "ok") PROVE Heals(c)
  <2>1. PICK place \in Placements(c) : CommitTable(NewEntries(c, place))
    BY <1>1 DEF Reload, LoadConfig
  <2> DEFINE new == NewEntries(c, place)
  <2>2. table' = DOMAIN new /\ \A e \in DOMAIN new : heap'[e] = new[e]
    BY <2>1 DEF CommitTable, With
  <2> HIDE DEF new
  <2>3. Cardinality(table') = Cardinality(KeysOf(c))
    BY <2>2, OneEntryEach DEF new
  <2>4. ASSUME NEW i \in DOMAIN c, \A j \in DOMAIN c : j > i => c[j].key # c[i].key
        PROVE  \E e \in table' : heap'[e] = c[i]
    BY <2>2, <2>4, LastBindingIsIn DEF new
  <2> QED BY <2>3, <2>4
<1>2. [Next]_vars => [\A c \in Configs : Reload(c, "ok") => Heals(c)]_vars
  BY <1>1
<1> QED BY <1>2, PTL DEF Spec, GoodReloadHeals
=============================================================================
