-------------------------- MODULE ConfigWatch_proofs --------------------------
(***************************************************************************)
(* No change of a watched file is missed and watches do not pile up, for   *)
(* any files, included any number of times, any ways of saving them and    *)
(* any number of versions.                                                 *)
(***************************************************************************)
EXTENDS ConfigWatch, SequenceTheorems, TLAPS

Steps2 == 2 * Len(Includes)

\* What is left of the reading of the included files after k steps.
Rest(k) == [i \in 1 .. (Steps2 - k) |-> IncludeSteps[i + k]]

\* The mentions that a watch may be charged to after k steps
Past(k) == {0} \cup {j \in 1 .. Len(Includes) : 2 * j - 1 <= k}

Charged(M) ==
    \E charge \in Injection(DOMAIN watches, M) :
        \A i \in DOMAIN watches : watches[i].path = Mentioned(charge[i])

\* The handler is about to watch the main file, or to read it, or has found
\* it broken, or is at some step of reading the files it includes.
Starting == todo = Steps(Main) /\ watches = << >>
ReadingMain == todo = <<<<"read", Main>>>> /\ Charged({0})
Broken == todo = << >> /\ Charged({0})
Including ==
    reached # "start" /\ \E k \in 0 .. Steps2 : todo = Rest(k) /\ Charged(Past(k))
Phase == Starting \/ ReadingMain \/ Broken \/ Including

\* Whatever is not read yet will be.
Pending(p) == \E i \in DOMAIN todo : todo[i] = <<"read", p>>
Fresh(w) ==
    w.inode = file[w.path].inode =>
        w.changed \/ Pending(w.path) \/ loaded[w.path] = file[w.path].version

\* A new version is on an inode that no watch has seen.
InodesWritten ==
    /\ \A i \in DOMAIN watches : watches[i].inode <= written
    /\ \A p \in Paths : file[p].inode <= written

IInv ==
    /\ TypeOK
    /\ Phase
    /\ InodesWritten
    /\ \A i \in DOMAIN watches : Fresh(watches[i])
----------------------------------------------------------------------------
LEMMA IncludeFacts ==
    /\ Len(Includes) \in Nat /\ Steps2 \in Nat
    /\ DOMAIN Includes = 1 .. Len(Includes)
    /\ \A j \in 1 .. Len(Includes) : Includes[j] \in Paths /\ Includes[j] # Main
<1>1. Includes \in Seq(ToSet(Includes))
  BY ConfigWatchAssumption
<1>2. DOMAIN Includes = 1 .. Len(Includes) /\ Len(Includes) \in Nat
  BY <1>1
<1> QED BY <1>2, ConfigWatchAssumption DEF Paths, ToSet, Steps2

\* The step after k steps is the first of Rest(k), and Rest(k + 1) follows it.
LEMMA RestFacts ==
    ASSUME NEW k \in 0 .. Steps2
    PROVE  /\ Rest(k) \in Seq(Step)
           /\ (Rest(k) = << >>) <=> (k = Steps2)
           /\ k < Steps2 =>
                /\ Tail(Rest(k)) = Rest(k + 1)
                /\ \/ \E j \in 1 .. Len(Includes) :
                        k = 2 * j - 2 /\ Rest(k)[1] = <<"watch", Includes[j]>>
                   \/ \E j \in 1 .. Len(Includes) :
                        k = 2 * j - 1 /\ Rest(k)[1] = <<"read", Includes[j]>>
<1>0. Len(Includes) \in Nat /\ Steps2 = 2 * Len(Includes) /\ Steps2 \in Nat
  BY IncludeFacts DEF Steps2
<1>1. ASSUME NEW i \in 1 .. Steps2
      PROVE  IncludeSteps[i] \in Step
  <2>1. CASE i % 2 = 1
    <3>1. (i + 1) \div 2 \in 1 .. Len(Includes)
      BY <1>0, <2>1
    <3>2. IncludeSteps[i] = <<"watch", Includes[(i + 1) \div 2]>>
      BY <1>0, <2>1 DEF IncludeSteps, Steps
    <3> QED BY <3>1, <3>2, IncludeFacts DEF Step
  <2>2. CASE i % 2 # 1
    <3>1. i \div 2 \in 1 .. Len(Includes)
      BY <1>0, <2>2
    <3>2. IncludeSteps[i] = <<"read", Includes[i \div 2]>>
      BY <1>0, <2>2 DEF IncludeSteps, Steps
    <3> QED BY <3>1, <3>2, IncludeFacts DEF Step
  <2> QED BY <2>1, <2>2
<1>r. ASSUME NEW n \in 0 .. Steps2
      PROVE  /\ Rest(n) \in Seq(Step)
             /\ Len(Rest(n)) = Steps2 - n
             /\ \A i \in 1 .. (Steps2 - n) : Rest(n)[i] = IncludeSteps[i + n]
  BY <1>0, <1>1 DEF Rest
<1>2. /\ Rest(k) \in Seq(Step)
      /\ Len(Rest(k)) = Steps2 - k
      /\ \A i \in 1 .. (Steps2 - k) : Rest(k)[i] = IncludeSteps[i + k]
  BY <1>r
<1>3. ASSUME k < Steps2
      PROVE  Tail(Rest(k)) = Rest(k + 1)
  <2>1. /\ Tail(Rest(k)) \in Seq(Step)
        /\ Len(Tail(Rest(k))) = Steps2 - (k + 1)
        /\ \A i \in 1 .. (Steps2 - (k + 1)) : Tail(Rest(k))[i] = IncludeSteps[i + (k + 1)]
    BY <1>0, <1>2, <1>3
  <2>2. k + 1 \in 0 .. Steps2
    BY <1>0, <1>3
  <2>3. /\ Rest(k + 1) \in Seq(Step)
        /\ Len(Rest(k + 1)) = Steps2 - (k + 1)
        /\ \A i \in 1 .. (Steps2 - (k + 1)) : Rest(k + 1)[i] = IncludeSteps[i + (k + 1)]
    BY <2>2, <1>r
  <2> QED BY <2>1, <2>3, SeqEqual
<1>4. ASSUME k < Steps2, k % 2 = 0
      PROVE  \E j \in 1 .. Len(Includes) :
                k = 2 * j - 2 /\ Rest(k)[1] = <<"watch", Includes[j]>>
  <2>1. (k + 2) \div 2 \in 1 .. Len(Includes) /\ k = 2 * ((k + 2) \div 2) - 2
    BY <1>0, <1>4
  <2>2. Rest(k)[1] = IncludeSteps[k + 1]
    BY <1>0, <1>2, <1>4
  <2>3. (k + 1) % 2 = 1 /\ (k + 1 + 1) \div 2 = (k + 2) \div 2 /\ k + 1 \in 1 .. Steps2
    BY <1>0, <1>4
  <2>4. IncludeSteps[k + 1] = <<"watch", Includes[(k + 2) \div 2]>>
    BY <1>0, <2>3 DEF IncludeSteps, Steps
  <2> QED BY <2>1, <2>2, <2>4
<1>5. ASSUME k < Steps2, k % 2 # 0
      PROVE  \E j \in 1 .. Len(Includes) :
                k = 2 * j - 1 /\ Rest(k)[1] = <<"read", Includes[j]>>
  <2>1. (k + 1) \div 2 \in 1 .. Len(Includes) /\ k = 2 * ((k + 1) \div 2) - 1
    BY <1>0, <1>5
  <2>2. Rest(k)[1] = IncludeSteps[k + 1]
    BY <1>0, <1>2, <1>5
  <2>3. (k + 1) % 2 # 1 /\ k + 1 \in 1 .. Steps2
    BY <1>0, <1>5
  <2>4. IncludeSteps[k + 1] = <<"read", Includes[(k + 1) \div 2]>>
    BY <1>0, <2>3 DEF IncludeSteps, Steps
  <2> QED BY <2>1, <2>2, <2>4
<1>6. (Rest(k) = << >>) <=> (k = Steps2)
  BY <1>0, <1>2
<1> QED BY <1>2, <1>3, <1>4, <1>5, <1>6

\* What the step after k steps does tells which one it is.
LEMMA NextStep ==
    ASSUME NEW k \in 0 .. Steps2, Rest(k) # << >>
    PROVE  /\ k < Steps2 /\ Tail(Rest(k)) = Rest(k + 1)
           /\ Rest(k)[1][1] = "watch" =>
                \E j \in 1 .. Len(Includes) :
                    k = 2 * j - 2 /\ Rest(k)[1] = <<"watch", Includes[j]>>
           /\ Rest(k)[1][1] = "read" =>
                \E j \in 1 .. Len(Includes) :
                    k = 2 * j - 1 /\ Rest(k)[1] = <<"read", Includes[j]>>
<1>1. k # Steps2
  BY RestFacts
<1>2. k < Steps2
  BY <1>1, IncludeFacts
<1>3. Tail(Rest(k)) = Rest(k + 1)
  BY <1>2, RestFacts
<1>4. \/ \E j \in 1 .. Len(Includes) : k = 2 * j - 2 /\ Rest(k)[1] = <<"watch", Includes[j]>>
      \/ \E j \in 1 .. Len(Includes) : k = 2 * j - 1 /\ Rest(k)[1] = <<"read", Includes[j]>>
  BY <1>2, RestFacts
<1>5. \A j : <<"watch", Includes[j]>>[1] = "watch" /\ <<"read", Includes[j]>>[1] = "read"
  OBVIOUS
<1> QED BY <1>2, <1>3, <1>4, <1>5

\* After no step everything is left.
LEMMA RestStarts == << >> \o IncludeSteps = Rest(0)
<1>1. Steps2 \in Nat /\ Steps2 - 0 = Steps2 /\ 0 \in 0 .. Steps2
  BY IncludeFacts
<1>2. IncludeSteps = [i \in 1 .. Steps2 |-> IncludeSteps[i]]
  BY DEF IncludeSteps, Steps2
<1>3. Rest(0) = [i \in 1 .. Steps2 |-> IncludeSteps[i]]
  BY <1>1 DEF Rest
<1>4. IncludeSteps \in Seq(Step)
  BY <1>1, <1>2, <1>3, RestFacts
<1> QED BY <1>2, <1>3, <1>4

\* A charge stays one when there are more mentions, or watches change otherwise.
LEMMA ChargeStays ==
    ASSUME NEW M, NEW N, M \subseteq N, Charged(M),
           DOMAIN watches' = DOMAIN watches,
           \A i \in DOMAIN watches : watches'[i].path = watches[i].path
    PROVE  Charged(N)'
<1>1. PICK charge \in Injection(DOMAIN watches, M) :
            \A i \in DOMAIN watches : watches[i].path = Mentioned(charge[i])
  BY DEF Charged
<1>2. charge \in Injection(DOMAIN watches', N)
  BY <1>1 DEF Injection, IsInjective
<1> QED BY <1>1, <1>2 DEF Charged, Mentioned

\* A new watch is charged to a mention that none was charged to.
LEMMA ChargeNew ==
    ASSUME NEW M, NEW m, m \notin M, Charged(M), NEW new,
           new.path = Mentioned(m), watches \in Seq(Watch), new \in Watch,
           watches' = Append(watches, new)
    PROVE  Charged(M \cup {m})'
<1>1. PICK charge \in Injection(DOMAIN watches, M) :
            \A i \in DOMAIN watches : watches[i].path = Mentioned(charge[i])
  BY DEF Charged
<1>2. /\ DOMAIN watches = 1 .. Len(watches) /\ Len(watches) \in Nat
      /\ DOMAIN watches' = 1 .. (Len(watches) + 1)
      /\ \A i \in DOMAIN watches : watches'[i] = watches[i]
      /\ watches'[Len(watches) + 1] = new
  OBVIOUS
<1> DEFINE more == [i \in 1 .. (Len(watches) + 1) |-> IF i = Len(watches) + 1 THEN m ELSE charge[i]]
<1>3. charge \in [1 .. Len(watches) -> M] /\ \A i, j \in 1 .. Len(watches) : charge[i] = charge[j] => i = j
  BY <1>1, <1>2 DEF Injection, IsInjective
<1>4. \A i \in 1 .. (Len(watches) + 1) :
        i # Len(watches) + 1 => i \in 1 .. Len(watches) /\ charge[i] \in M
  BY <1>2, <1>3
<1>5. more \in [1 .. (Len(watches) + 1) -> M \cup {m}]
  BY <1>4
<1>6. \A i, j \in 1 .. (Len(watches) + 1) : more[i] = more[j] => i = j
  BY <1>3, <1>4
<1>7. more \in Injection(DOMAIN watches', M \cup {m})
  BY <1>2, <1>5, <1>6 DEF Injection, IsInjective
<1>8. \A i \in 1 .. (Len(watches) + 1) : watches'[i].path = Mentioned(more[i])
  BY <1>1, <1>2, <1>4
<1> QED BY <1>2, <1>7, <1>8 DEF Charged, Mentioned

\* No watch needs no charge.
LEMMA ChargeNothing == ASSUME watches = << >>, NEW M PROVE Charged(M)
<1>1. DOMAIN watches = {} /\ watches \in [{} -> M]
  BY DEF Injection
<1>2. watches \in Injection(DOMAIN watches, M)
  BY <1>1 DEF Injection, IsInjective
<1> QED BY <1>1, <1>2 DEF Charged

\* What a notification makes of the watches
LEMMA NotifyFacts ==
    ASSUME NEW p, Notify(p), watches \in Seq(Watch)
    PROVE  /\ watches' \in Seq(Watch)
           /\ DOMAIN watches' = DOMAIN watches
           /\ \A i \in DOMAIN watches :
                LET v == watches[i]
                    w == watches'[i]
                IN  /\ w.path = v.path /\ w.inode = v.inode
                    /\ w.changed = (v.changed \/ (v.path = p /\ v.inode = file[p].inode))
<1> DEFINE Hit(v) == v.path = p /\ v.inode = file[p].inode
<1>1. /\ DOMAIN watches' = DOMAIN watches
      /\ \A i \in DOMAIN watches :
            watches'[i] = IF Hit(watches[i]) THEN [watches[i] EXCEPT !.changed = TRUE]
                          ELSE watches[i]
      /\ DOMAIN watches = 1 .. Len(watches) /\ Len(watches) \in Nat
      /\ \A i \in DOMAIN watches : watches[i] \in Watch
      /\ watches' = [i \in 1 .. Len(watches) |-> watches'[i]]
  BY DEF Notify
<1>2. ASSUME NEW i \in DOMAIN watches
      PROVE  /\ watches'[i] \in Watch
             /\ watches'[i].path = watches[i].path /\ watches'[i].inode = watches[i].inode
             /\ watches'[i].changed = (watches[i].changed \/ Hit(watches[i]))
  <2> DEFINE v == watches[i]
  <2>1. v = [path |-> v.path, inode |-> v.inode, changed |-> v.changed]
        /\ v.path \in Paths /\ v.inode \in 1 .. MaxVersion /\ v.changed \in BOOLEAN
    BY <1>1 DEF Watch
  <2>2. CASE Hit(v)
    <3>1. watches'[i] = [path |-> v.path, inode |-> v.inode, changed |-> TRUE]
      BY <1>1, <2>1, <2>2
    <3>2. watches'[i].changed = TRUE /\ watches'[i].path = v.path /\ watches'[i].inode = v.inode
      BY <3>1
    <3>3. watches'[i] \in Watch
      BY <2>1, <3>1 DEF Watch
    <3> QED BY <2>1, <2>2, <3>2, <3>3
  <2>3. CASE ~Hit(v)
    BY <1>1, <2>1, <2>3 DEF Watch
  <2> QED BY <2>2, <2>3
<1>3. watches' \in Seq(Watch)
  <2>1. \A i \in 1 .. Len(watches) : watches'[i] \in Watch
    BY <1>1, <1>2
  <2> QED BY <1>1, <2>1
<1> QED BY <1>1, <1>2, <1>3

\* An editor that changes p and lets the watches on its inode know.
LEMMA EditorStep ==
    ASSUME IInv, NEW p \in Paths, Notify(p),
           file' \in [Paths -> File],
           \A q \in Paths \ {p} : file'[q] = file[q],
           written' \in 0 .. MaxVersion, written <= written',
           file'[p].inode <= written',
           file'[p].inode \in {Missing, file[p].inode} \/ file'[p].inode > written,
           UNCHANGED <<loaded, reached, todo>>
    PROVE  IInv'
<1> USE DEF Missing
<1>1. /\ file \in [Paths -> File] /\ written \in 0 .. MaxVersion
      /\ watches \in Seq(Watch) /\ MaxVersion \in Nat
      /\ \A i \in DOMAIN watches : watches[i] \in Watch
  BY ConfigWatchAssumption DEF IInv, TypeOK
<1>2. /\ watches' \in Seq(Watch) /\ DOMAIN watches' = DOMAIN watches
      /\ \A i \in DOMAIN watches :
            /\ watches'[i].path = watches[i].path /\ watches'[i].inode = watches[i].inode
            /\ watches'[i].changed =
                    (watches[i].changed
                        \/ (watches[i].path = p /\ watches[i].inode = file[p].inode))
  BY <1>1, NotifyFacts
<1>3. TypeOK'
  BY <1>1, <1>2 DEF IInv, TypeOK
<1>4. \A M : Charged(M) => Charged(M)'
  BY <1>2, ChargeStays
<1>5. Phase'
  <2>1. CASE Starting
    <3>1. watches' = << >>
      BY <1>2, <2>1 DEF Starting
    <3> QED BY <2>1, <3>1 DEF Starting, Phase, Steps
  <2>2. CASE ReadingMain
    BY <2>2, <1>4 DEF ReadingMain, Phase
  <2>3. CASE Broken
    BY <2>3, <1>4 DEF Broken, Phase
  <2>4. CASE Including
    <3>1. PICK k \in 0 .. Steps2 : todo = Rest(k) /\ Charged(Past(k))
      BY <2>4 DEF Including
    <3>2. todo' = Rest(k)' /\ Charged(Past(k))'
      BY <1>4, <3>1 DEF Rest
    <3> QED BY <2>4, <3>2 DEF Including, Phase, Past
  <2> QED BY <2>1, <2>2, <2>3, <2>4 DEF IInv, Phase
<1>6. InodesWritten'
  <2>1. ASSUME NEW i \in DOMAIN watches' PROVE watches'[i].inode <= written'
    <3>1. watches[i].inode \in Nat /\ watches[i].inode <= written
      BY <1>1, <1>2 DEF Watch, IInv, InodesWritten
    <3> QED BY <1>1, <1>2, <3>1
  <2>2. ASSUME NEW q \in Paths PROVE file'[q].inode <= written'
    <3>1. file[q].inode \in Nat /\ file[q].inode <= written
      BY <1>1 DEF File, IInv, InodesWritten
    <3> QED BY <1>1, <3>1
  <2> QED BY <2>1, <2>2 DEF InodesWritten
<1>7. ASSUME NEW i \in DOMAIN watches' PROVE Fresh(watches[i])'
  <2> DEFINE v == watches[i]
             w == watches'[i]
  <2>1. /\ w.path = v.path /\ w.inode = v.inode
        /\ w.changed = (v.changed \/ (v.path = p /\ v.inode = file[p].inode))
    BY <1>2
  <2>2. /\ v.inode \in Nat /\ v.inode > 0 /\ v.inode <= written
        /\ v.path \in Paths
    BY <1>1, <1>2 DEF Watch, IInv, InodesWritten
  <2>3. Fresh(v)
    BY <1>2 DEF IInv
  <2> HIDE DEF v, w
  <2>4. CASE v.path # p
    BY <2>1, <2>2, <2>3, <2>4 DEF Fresh, Pending, w
  <2>5. CASE v.path = p /\ v.inode = file[p].inode
    BY <2>1, <2>5 DEF Fresh, w
  <2>6. CASE v.path = p /\ v.inode # file[p].inode
    <3>1. file'[p].inode # v.inode
      <4>1. file'[p].inode \in Nat /\ written \in Nat
        BY <1>1 DEF File
      <4> QED BY <4>1, <2>2, <2>6
    <3> QED BY <2>1, <2>6, <3>1 DEF Fresh, w
  <2> QED BY <2>4, <2>5, <2>6
<1> QED BY <1>3, <1>5, <1>6, <1>7 DEF IInv

\* What Save makes of the file
LEMMA SaveFacts ==
    ASSUME TypeOK, NEW p \in Paths, NEW inode \in 0 .. MaxVersion, Save(p, inode)
    PROVE  /\ file' \in [Paths -> File]
           /\ \A q \in Paths \ {p} : file'[q] = file[q]
           /\ file'[p].inode = inode
           /\ written' = written + 1 /\ written' \in 0 .. MaxVersion
<1>1. /\ written \in 0 .. MaxVersion /\ written < MaxVersion /\ written' = written + 1
      /\ MaxVersion \in Nat /\ file \in [Paths -> File]
  BY ConfigWatchAssumption DEF TypeOK, Save
<1>2. written' \in 0 .. MaxVersion
  BY <1>1
<1>3. PICK reach \in Reaches :
            file' = [file EXCEPT ![p] = [inode |-> inode, version |-> written', reach |-> reach]]
  BY DEF Save, Reaches
<1>4. [inode |-> inode, version |-> written', reach |-> reach] \in File
  BY <1>2, <1>3 DEF File
<1> QED BY <1>1, <1>2, <1>3, <1>4

LEMMA WriteStep == ASSUME IInv, NEW p \in Paths, Write(p) PROVE IInv'
<1>1. /\ TypeOK /\ written \in Nat /\ file[p].inode \in 0 .. MaxVersion
      /\ file[p].inode <= written
  BY DEF IInv, TypeOK, File, InodesWritten
<1>2. Save(p, file[p].inode) /\ Notify(p) /\ UNCHANGED <<loaded, reached, todo>>
  BY DEF Write
<1>3. /\ file' \in [Paths -> File] /\ \A q \in Paths \ {p} : file'[q] = file[q]
      /\ file'[p].inode = file[p].inode
      /\ written' = written + 1 /\ written' \in 0 .. MaxVersion
  BY <1>1, <1>2, SaveFacts
<1>4. written <= written' /\ file'[p].inode <= written'
  BY <1>1, <1>3
<1> QED BY <1>2, <1>3, <1>4, EditorStep

\* The new inode is one that nobody has seen.
LEMMA NewInode ==
    ASSUME IInv, NEW p \in Paths, Save(p, written + 1)
    PROVE  /\ file' \in [Paths -> File] /\ \A q \in Paths \ {p} : file'[q] = file[q]
           /\ written' \in 0 .. MaxVersion /\ written <= written'
           /\ file'[p].inode <= written' /\ file'[p].inode > written
<1>1. TypeOK /\ written \in Nat /\ written + 1 \in 0 .. MaxVersion
  BY ConfigWatchAssumption DEF IInv, TypeOK, Save
<1>2. /\ file' \in [Paths -> File] /\ \A q \in Paths \ {p} : file'[q] = file[q]
      /\ file'[p].inode = written + 1
      /\ written' = written + 1 /\ written' \in 0 .. MaxVersion
  BY <1>1, SaveFacts
<1> QED BY <1>1, <1>2

LEMMA ReplaceStep == ASSUME IInv, NEW p \in Paths, Replace(p) PROVE IInv'
<1>1. Save(p, written + 1) /\ Notify(p) /\ UNCHANGED <<loaded, reached, todo>>
  BY DEF Replace
<1> QED BY <1>1, NewInode, EditorStep

\* Nobody watches a file that does not exist.
LEMMA CreateStep == ASSUME IInv, NEW p \in Paths, Create(p) PROVE IInv'
<1>1. /\ Save(p, written + 1) /\ UNCHANGED <<watches, loaded, reached, todo>>
      /\ file[p].inode = 0
  BY DEF Create, Exists, Missing
<1>2. /\ watches \in Seq(Watch)
      /\ \A i \in DOMAIN watches : watches[i].inode # file[p].inode
  <2>1. watches \in Seq(Watch) /\ \A i \in DOMAIN watches : watches[i] \in Watch
    BY DEF IInv, TypeOK
  <2> QED BY <1>1, <2>1 DEF Watch
<1>3. watches = [i \in DOMAIN watches |-> watches[i]]
  BY <1>2
<1>4. Notify(p)
  BY <1>1, <1>2, <1>3 DEF Notify
<1> QED BY <1>1, <1>4, NewInode, EditorStep

LEMMA DeleteStep == ASSUME IInv, NEW p \in Paths, Delete(p) PROVE IInv'
<1>1. /\ Notify(p) /\ UNCHANGED <<written, loaded, reached, todo>>
      /\ file' = [file EXCEPT ![p] = [inode |-> 0, version |-> 0, reach |-> "start"]]
  BY DEF Delete, Missing
<1>2. /\ written \in 0 .. MaxVersion /\ file \in [Paths -> File] /\ MaxVersion \in Nat
  BY ConfigWatchAssumption DEF IInv, TypeOK
<1>3. [inode |-> 0, version |-> 0, reach |-> "start"] \in File
  BY <1>2 DEF File, Reaches
<1>4. /\ file' \in [Paths -> File] /\ \A q \in Paths \ {p} : file'[q] = file[q]
      /\ file'[p].inode = 0
  BY <1>1, <1>2, <1>3
<1>5. /\ written' \in 0 .. MaxVersion /\ written <= written'
      /\ file'[p].inode <= written' /\ file'[p].inode \in {Missing, file[p].inode}
  BY <1>1, <1>2, <1>4 DEF Missing
<1> QED BY <1>1, <1>4, <1>5, EditorStep
----------------------------------------------------------------------------
LEMMA MainSteps ==
    /\ Steps(Main) \in Seq(Step) /\ Steps(Main) # << >>
    /\ Steps(Main)[1] = <<"watch", Main>>
    /\ Tail(Steps(Main)) = <<<<"read", Main>>>>
    /\ <<<<"read", Main>>>> \in Seq(Step) /\ << >> \in Seq(Step)
    /\ <<<<"read", Main>>>> # << >>
    /\ <<<<"read", Main>>>>[1] = <<"read", Main>>
    /\ Tail(<<<<"read", Main>>>>) = << >>
<1>1. Main \in Paths
  BY DEF Paths
<1> QED BY <1>1 DEF Steps, Step

\* The steps behind the first stay.
LEMMA TailPending ==
    ASSUME NEW q, todo \in Seq(Step), todo # << >>, todo[1] # <<"read", q>>,
           Pending(q), todo' = Tail(todo)
    PROVE  Pending(q)'
<1>1. PICK i \in DOMAIN todo : todo[i] = <<"read", q>>
  BY DEF Pending
<1>2. i \in 2 .. Len(todo) /\ Len(todo) \in Nat
  BY <1>1
<1>3. i - 1 \in DOMAIN todo' /\ todo'[i - 1] = <<"read", q>>
  BY <1>1, <1>2
<1> QED BY <1>3 DEF Pending

LEMMA HandleConfigChangeStep == IInv /\ HandleConfigChange => IInv'
<1> SUFFICES ASSUME IInv, HandleConfigChange PROVE IInv'
  OBVIOUS
<1>1. /\ watches' = << >> /\ todo' = Steps(Main)
      /\ UNCHANGED <<file, written, loaded, reached>>
  BY DEF HandleConfigChange
<1>2. TypeOK'
  BY <1>1, MainSteps DEF IInv, TypeOK
<1>3. Phase'
  BY <1>1, MainSteps DEF Phase, Starting, Steps
<1>4. InodesWritten' /\ \A i \in DOMAIN watches' : Fresh(watches[i])'
  BY <1>1 DEF IInv, InodesWritten
<1> QED BY <1>2, <1>3, <1>4 DEF IInv

\* A new watch, of a file that is read next, charged to mention m
LEMMA WatchStep ==
    ASSUME IInv, AddConfigWatcher, NEW m \in Nat, NEW M, m \notin M,
           Mentioned(m) \in Paths,
           todo # << >>, todo[1] = <<"watch", Mentioned(m)>>,
           Charged(M),
           Charged(M \cup {m})' => Phase', Pending(Mentioned(m))'
    PROVE  IInv'
<1> DEFINE p == Mentioned(m)
<1>1. /\ file \in [Paths -> File] /\ written \in 0 .. MaxVersion /\ MaxVersion \in Nat
      /\ watches \in Seq(Watch) /\ todo \in Seq(Step)
  BY ConfigWatchAssumption DEF IInv, TypeOK
<1> DEFINE new == [path |-> p, inode |-> file[p].inode, changed |-> FALSE]
<1>2. /\ watches' = IF Exists(p) THEN Append(watches, new) ELSE watches
      /\ todo' = Tail(todo)
      /\ UNCHANGED <<file, written, loaded, reached>>
  BY DEF AddConfigWatcher
<1>3. Exists(p) => new \in Watch
  BY <1>1 DEF Exists, Missing, File, Watch
<1>n. new.path = p /\ new.inode = file[p].inode
  OBVIOUS
<1> HIDE DEF new, p
<1>4. TypeOK'
  <2>1. watches' \in Seq(Watch)
    BY <1>1, <1>2, <1>3
  <2>2. Tail(todo) \in Seq(Step)
    BY <1>1, HeadTailProperties
  <2> QED BY <1>2, <2>1, <2>2 DEF IInv, TypeOK
<1>5. Charged(M \cup {m})'
  <2>1. CASE Exists(p)
    BY <1>1, <1>2, <1>3, <1>n, <2>1, ChargeNew DEF p
  <2>2. CASE ~Exists(p)
    BY <1>2, <2>2, ChargeStays
  <2> QED BY <2>1, <2>2
<1>6. \A i \in DOMAIN watches' : \/ i \in DOMAIN watches /\ watches'[i] = watches[i]
                                \/ watches'[i] = new
  BY <1>1, <1>2
<1>7. InodesWritten'
  <2>1. file[p].inode <= written
    BY DEF IInv, InodesWritten, p
  <2>2. \A i \in DOMAIN watches' : watches'[i].inode <= written
    BY <1>6, <1>n, <2>1 DEF IInv, InodesWritten
  <2> QED BY <1>2, <2>2 DEF IInv, InodesWritten
<1>8. ASSUME NEW i \in DOMAIN watches' PROVE Fresh(watches[i])'
  <2>1. CASE i \in DOMAIN watches /\ watches'[i] = watches[i]
    <3>1. Fresh(watches[i])
      BY <2>1 DEF IInv
    <3>2. \A q : Pending(q) => Pending(q)'
      <4>1. \A q : todo[1] # <<"read", q>>
        OBVIOUS
      <4> QED BY <1>1, <1>2, <4>1, TailPending
    <3>3. Pending(watches[i].path) => Pending(watches[i].path)'
      BY <2>1, <3>2 DEF Pending
    <3> QED BY <1>2, <2>1, <3>1, <3>3 DEF Fresh
  <2>2. CASE watches'[i] = new
    BY <1>n, <2>2 DEF Fresh, Pending, p
  <2> QED BY <1>6, <2>1, <2>2
<1> QED BY <1>4, <1>5, <1>7, <1>8 DEF IInv

LEMMA AddConfigWatcherStep == IInv /\ AddConfigWatcher => IInv'
<1> SUFFICES ASSUME IInv, AddConfigWatcher PROVE IInv'
  OBVIOUS
<1>0. /\ todo # << >> /\ todo[1][1] = "watch" /\ todo' = Tail(todo) /\ reached' = reached
  BY DEF AddConfigWatcher
<1>1. CASE Starting
  <2>1. todo[1] = <<"watch", Main>> /\ todo' = <<<<"read", Main>>>> /\ Main \in Paths
    BY <1>0, <1>1, MainSteps DEF Starting, Paths
  <2>2. Charged({}) /\ {} \cup {0} = {0} /\ Mentioned(0) = Main
    BY <1>1, ChargeNothing DEF Starting, Mentioned
  <2>3. Charged({0})' => Phase'
    BY <2>1 DEF Phase, ReadingMain
  <2>4. Pending(Main)'
    BY <2>1 DEF Pending
  <2> QED BY <1>0, <2>1, <2>2, <2>3, <2>4, WatchStep
<1>2. CASE ReadingMain \/ Broken
  BY <1>0, <1>2, MainSteps DEF ReadingMain, Broken
<1>3. CASE Including
  <2>1. PICK k \in 0 .. Steps2 : todo = Rest(k) /\ Charged(Past(k))
    BY <1>3 DEF Including
  <2>2. k < Steps2 /\ Steps2 \in Nat /\ Steps2 = 2 * Len(Includes) /\ Len(Includes) \in Nat
    <3>1. k < Steps2
      BY <1>0, <2>1, NextStep
    <3> QED BY <3>1, IncludeFacts DEF Steps2
  <2>3. PICK j \in 1 .. Len(Includes) : k = 2 * j - 2 /\ todo[1] = <<"watch", Includes[j]>>
    BY <1>0, <2>1, NextStep
  <2>4. todo' = Rest(k + 1)
    BY <1>0, <2>1, NextStep
  <2>5. Mentioned(j) = Includes[j] /\ Mentioned(j) \in Paths /\ j \in Nat
    BY IncludeFacts DEF Mentioned
  <2>6. k + 1 \in 0 .. Steps2 /\ k + 1 < Steps2 /\ k + 1 = 2 * j - 1
    BY <2>2, <2>3
  <2>7. j \notin Past(k) /\ Past(k) \cup {j} = Past(k + 1)
    BY <2>2, <2>3 DEF Past
  <2>8. Charged(Past(k) \cup {j})' => Phase'
    <3>1. reached' # "start"
      BY <1>0, <1>3 DEF Including
    <3> QED BY <2>4, <2>6, <2>7, <3>1 DEF Phase, Including, Rest, Past
  <2>9. Pending(Includes[j])'
    <3>1. PICK i \in 1 .. Len(Includes) :
              \/ k + 1 = 2 * i - 2
              \/ k + 1 = 2 * i - 1 /\ Rest(k + 1)[1] = <<"read", Includes[i]>>
      BY <2>6, RestFacts
    <3>2. i = j /\ Rest(k + 1)[1] = <<"read", Includes[j]>>
      BY <2>2, <2>6, <3>1
    <3>3. 1 \in DOMAIN Rest(k + 1)
      BY <2>2, <2>6 DEF Rest
    <3> QED BY <2>4, <3>2, <3>3 DEF Pending
  <2> HIDE DEF Past
  <2> QED BY <1>0, <2>1, <2>3, <2>5, <2>7, <2>8, <2>9, WatchStep
<1> QED BY <1>1, <1>2, <1>3 DEF IInv, Phase

LEMMA ReadConfigStep == IInv /\ ReadConfig => IInv'
<1> SUFFICES ASSUME IInv, ReadConfig PROVE IInv'
  OBVIOUS
<1>0. /\ todo # << >> /\ todo[1][1] = "read"
      /\ UNCHANGED <<file, written, watches>>
      /\ file \in [Paths -> File] /\ loaded \in [Paths -> 0 .. MaxVersion]
      /\ reached \in Reaches /\ todo \in Seq(Step)
      /\ \A i \in DOMAIN watches : watches[i] \in Watch
  BY DEF ReadConfig, IInv, TypeOK
<1>f. InodesWritten'
  BY <1>0 DEF IInv, InodesWritten
<1>c. \A M, N : M \subseteq N /\ Charged(M) => Charged(N)'
  BY <1>0, ChargeStays
<1>1. CASE ReadingMain
  <2>1. todo[1] = <<"read", Main>> /\ Tail(todo) = << >> /\ Main \in Paths
    BY <1>1, MainSteps DEF ReadingMain, Paths
  <2>2. /\ loaded' = [loaded EXCEPT ![Main] = file[Main].version]
        /\ reached' = file[Main].reach
        /\ todo' = IF file[Main].reach # "start" THEN Rest(0) ELSE << >>
    <3>1. todo[1][2] = Main
      BY <2>1
    <3>2. /\ loaded' = [loaded EXCEPT ![Main] = file[Main].version]
          /\ reached' = file[Main].reach
          /\ todo' = IF file[Main].reach # "start" THEN Tail(todo) \o IncludeSteps ELSE Tail(todo)
      BY <3>1 DEF ReadConfig
    <3> QED BY <2>1, <3>2, RestStarts
  <2>3. file[Main].version \in 0 .. MaxVersion /\ file[Main].reach \in Reaches
    BY <1>0, <2>1 DEF File
  <2>4. 0 \in 0 .. Steps2 /\ Rest(0) \in Seq(Step)
    BY IncludeFacts, RestFacts
  <2>5. TypeOK'
    BY <1>0, <2>2, <2>3, <2>4, MainSteps DEF IInv, TypeOK
  <2>6. Phase'
    <3>1. CASE file[Main].reach # "start"
      <4>1. {0} \subseteq Past(0) /\ Charged({0})
        BY <1>1 DEF Past, ReadingMain
      <4>2. Charged(Past(0))' /\ todo' = Rest(0)' /\ reached' # "start"
        BY <1>c, <2>2, <3>1, <4>1 DEF Rest, Past
      <4> QED BY <2>4, <4>2 DEF Phase, Including
    <3>2. CASE file[Main].reach = "start"
      BY <1>1, <1>c, <2>2, <3>2 DEF ReadingMain, Phase, Broken
    <3> QED BY <3>1, <3>2
  <2>7. ASSUME NEW i \in DOMAIN watches' PROVE Fresh(watches[i])'
    <3>1. watches[i].path = Main
      BY <1>0, <1>1 DEF ReadingMain, Charged, Injection, Mentioned
    <3> QED BY <1>0, <2>1, <2>2, <3>1 DEF Fresh
  <2> QED BY <1>f, <2>5, <2>6, <2>7 DEF IInv
<1>2. CASE Starting \/ Broken
  BY <1>0, <1>2, MainSteps DEF Starting, Broken
<1>3. CASE Including
  <2>1. PICK k \in 0 .. Steps2 : todo = Rest(k) /\ Charged(Past(k))
    BY <1>3 DEF Including
  <2>2. k < Steps2 /\ Steps2 \in Nat
    BY <1>0, <2>1, NextStep, IncludeFacts
  <2>3. PICK j \in 1 .. Len(Includes) : todo[1] = <<"read", Includes[j]>>
    BY <1>0, <2>1, NextStep
  <2> DEFINE p == Includes[j]
  <2>4. p \in Paths /\ p # Main /\ todo[1][2] = p
    BY <2>3, IncludeFacts
  <2>5. /\ loaded' = [loaded EXCEPT ![p] = file[p].version]
        /\ reached' = reached /\ todo' = Tail(todo)
    BY <2>4 DEF ReadConfig
  <2>6. todo' = Rest(k + 1) /\ k + 1 \in 0 .. Steps2
    <3>1. todo' = Rest(k + 1)
      BY <1>0, <2>1, <2>5, NextStep
    <3> QED BY <2>2, <3>1
  <2>7. TypeOK'
    <3>1. file[p].version \in 0 .. MaxVersion
      BY <1>0, <2>4 DEF File
    <3>2. Rest(k + 1) \in Seq(Step)
      BY <2>6, RestFacts
    <3> QED BY <1>0, <2>5, <2>6, <3>1, <3>2 DEF IInv, TypeOK
  <2>8. Past(k) \subseteq Past(k + 1)
    <3>1. \A i \in 1 .. Len(Includes) : 2 * i - 1 <= k => 2 * i - 1 <= k + 1
      BY <2>2, IncludeFacts
    <3> QED BY <3>1 DEF Past
  <2>9. Phase'
    <3>1. reached' # "start" /\ Charged(Past(k + 1))'
      BY <1>3, <1>c, <2>1, <2>5, <2>8 DEF Including
    <3> QED BY <2>6, <3>1 DEF Phase, Including, Rest, Past
  <2>10. ASSUME NEW i \in DOMAIN watches' PROVE Fresh(watches[i])'
    <3> DEFINE w == watches[i]
    <3>1. Fresh(w) /\ watches' = watches
      BY <1>0 DEF IInv
    <3>2. CASE w.path = p
      BY <1>0, <2>4, <2>5, <3>1, <3>2 DEF Fresh
    <3>3. CASE w.path # p
      <4>1. Pending(w.path) => Pending(w.path)'
        BY <1>0, <2>3, <2>5, <3>1, <3>3, TailPending
      <4>2. loaded'[w.path] = loaded[w.path]
        <5>1. w.path \in Paths
          BY <1>0 DEF Watch
        <5> QED BY <1>0, <2>5, <3>3, <5>1
      <4> QED BY <1>0, <3>1, <4>1, <4>2 DEF Fresh
    <3> QED BY <3>2, <3>3
  <2> QED BY <1>f, <2>7, <2>9, <2>10 DEF IInv
<1> QED BY <1>1, <1>2, <1>3 DEF IInv, Phase
----------------------------------------------------------------------------
LEMMA InitOK == Init => IInv
<1> SUFFICES ASSUME Init PROVE IInv
  OBVIOUS
<1>1. MaxVersion \in Nat /\ 1 \in 0 .. MaxVersion /\ 0 \in 0 .. MaxVersion
  BY ConfigWatchAssumption
<1>2. [inode |-> 1, version |-> 1, reach |-> "end"] \in File
  BY <1>1 DEF File, Reaches
<1>3. TypeOK
  BY <1>1, <1>2, MainSteps DEF Init, TypeOK, Missing, Reaches
<1>4. Phase /\ InodesWritten /\ \A i \in DOMAIN watches : Fresh(watches[i])
  BY <1>2 DEF Init, Phase, Starting, InodesWritten
<1> QED BY <1>3, <1>4 DEF IInv

LEMMA StepOK == IInv /\ [Next]_vars => IInv'
<1> SUFFICES ASSUME IInv, [Next]_vars PROVE IInv'
  OBVIOUS
<1>1. CASE Compositor
  BY <1>1, HandleConfigChangeStep, AddConfigWatcherStep, ReadConfigStep DEF Compositor
<1>2. ASSUME NEW p \in Paths, Write(p) \/ Replace(p) \/ Delete(p) \/ Create(p)
      PROVE  IInv'
  BY <1>2, WriteStep, ReplaceStep, DeleteStep, CreateStep
<1>3. CASE UNCHANGED vars
  <2>1. UNCHANGED <<file, written, watches, loaded, reached, todo>>
    BY <1>3 DEF vars
  <2> QED BY <2>1 DEF IInv, TypeOK, Phase, Starting, ReadingMain, Broken, Including, Rest,
                      Past, Charged, Mentioned, InodesWritten, Fresh, Pending
<1> QED BY <1>1, <1>2, <1>3 DEF Next

\* The invariant below the two theorems: a handler that is running is at a
\* known place, whose remaining steps read whatever may have changed.
THEOREM ReloadsAreInductive == Spec => []IInv
<1> QED BY InitOK, StepOK, PTL DEF Spec

\* Whenever no handler runs and no watch has fired, a file that is watched on
\* the inode it has is the version that was read, however it changed between
\* the system calls of a reload (src/config.c:56-145).
THEOREM ChangesNeverMissed == Spec => []NoMissedChange
<1>1. IInv => NoMissedChange
  BY DEF IInv, NoMissedChange, Changed, Fresh, Pending
<1> QED BY <1>1, ReloadsAreInductive, PTL

\* When a reload is over, every watch is charged to a place of its own that
\* names its file, also when files are included more than once or the reload
\* failed behind them (src/config.c:56-75, src/config.c:746-762).
THEOREM WatchesNeverPileUp == Spec => []OneWatchPerMention
<1>1. IInv => OneWatchPerMention
  <2> SUFFICES ASSUME IInv PROVE OneWatchPerMention
    OBVIOUS
  <2>1. ASSUME NEW M, M \subseteq Mentions, Charged(M)
        PROVE  \E charge \in Injection(DOMAIN watches, Mentions) :
                    \A i \in DOMAIN watches : watches[i].path = Mentioned(charge[i])
    BY <2>1 DEF Charged, Injection, IsInjective
  <2>2. ASSUME todo = << >> PROVE \E M : M \subseteq Mentions /\ Charged(M)
    <3>1. CASE Starting \/ ReadingMain
      BY <2>2, <3>1, MainSteps DEF Starting, ReadingMain
    <3>2. CASE Broken
      BY <3>2 DEF Broken, Mentions
    <3>3. CASE Including
      <4>1. PICK k \in 0 .. Steps2 : Charged(Past(k))
        BY <3>3 DEF Including
      <4>2. Past(k) \subseteq Mentions
        BY <3>3, IncludeFacts DEF Including, Past, Mentions
      <4> QED BY <4>1, <4>2
    <3> QED BY <3>1, <3>2, <3>3 DEF IInv, Phase
  <2> QED BY <2>1, <2>2 DEF IInv, OneWatchPerMention
<1> QED BY <1>1, ReloadsAreInductive, PTL
=============================================================================
