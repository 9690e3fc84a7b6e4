---------------------------- MODULE ConfigWatch ----------------------------
(***************************************************************************)
(* How the configuration follows its files (src/config.c).  The compositor *)
(* watches every file it reads with an inotify instance of its own.  When  *)
(* any of them changes it closes all the watches and reads the main file   *)
(* again, which reads the files that it includes; each file is watched     *)
(* just before it is read.                                                 *)
(*                                                                         *)
(* Editors are other processes: they may change a file between any two     *)
(* system calls of the handler.  A file is a version on an inode; it is    *)
(* read at once, since a later change is another version.  A file that     *)
(* the main one includes twice is watched and read twice.  What the        *)
(* options do is left out, and so are files that included files include;   *)
(* the bindings are in Keybindings.                                        *)
(***************************************************************************)
EXTENDS Naturals, Sequences, SequencesExt, Functions

CONSTANTS
    Main,           \* server->config_file
    Includes,       \* the files that the main file includes, in order
    MaxVersion,     \* bound on the versions that editors write
    Editors         \* how files are saved: "write", "replace", "remove"

ASSUME ConfigWatchAssumption ==
    /\ Main \notin ToSet(Includes)
    /\ Includes \in Seq(ToSet(Includes))
    /\ MaxVersion \in Nat \ {0}
    /\ Editors \subseteq {"write", "replace", "remove"}

Paths == {Main} \cup ToSet(Includes)
Missing == 0    \* the version and inode of a file that does not exist

\* How far handle_config gets in a file: it returns before the files that the
\* file includes, after them, or reads it to the end.
Reaches == {"start", "includes", "end"}

VARIABLES
    file,       \* path -> its inode, its version and how far that is read
    written,    \* the number of versions written so far
    watches,    \* the array of watches, each an inotify instance
    loaded,     \* path -> the version read last
    reached,    \* how far the main file was read
    todo        \* what the handler that is running has left to do

vars == <<file, written, watches, loaded, reached, todo>>

File == [inode : 0..MaxVersion, version : 0..MaxVersion, reach : Reaches]
Watch == [path : Paths, inode : 1..MaxVersion, changed : BOOLEAN]
Step == {"watch", "read"} \X Paths

Exists(p) == file[p].inode # Missing
Changed == \E i \in DOMAIN watches : watches[i].changed

----------------------------------------------------------------------------
(* Editors *)

\* Every watch on the inode of p becomes readable.
Notify(p) ==
    watches' = [i \in DOMAIN watches |->
        IF watches[i].path = p /\ watches[i].inode = file[p].inode
        THEN [watches[i] EXCEPT !.changed = TRUE]
        ELSE watches[i]]

\* The next version is saved, on its own inode or on the one the file has.
\* How far an included file can be read makes no difference here.
Save(p, inode) ==
    /\ written < MaxVersion
    /\ written' = written + 1
    /\ \E reach \in IF p = Main THEN Reaches ELSE {"end"} :
        file' = [file EXCEPT ![p] = [inode |-> inode, version |-> written', reach |-> reach]]

\* The file is written in place (IN_MODIFY).
Write(p) ==
    /\ "write" \in Editors
    /\ Exists(p)
    /\ Save(p, file[p].inode)
    /\ Notify(p)
    /\ UNCHANGED <<loaded, reached, todo>>

\* A new file is moved over the old one, whose inode goes (IN_DELETE_SELF).
Replace(p) ==
    /\ "replace" \in Editors
    /\ Exists(p)
    /\ Save(p, written + 1)
    /\ Notify(p)
    /\ UNCHANGED <<loaded, reached, todo>>

\* The file is removed (IN_DELETE_SELF).
Delete(p) ==
    /\ "remove" \in Editors
    /\ Exists(p)
    /\ file' = [file EXCEPT ![p] = [inode |-> Missing, version |-> Missing, reach |-> "start"]]
    /\ Notify(p)
    /\ UNCHANGED <<written, loaded, reached, todo>>

\* A file that was removed is created again.
Create(p) ==
    /\ ~Exists(p)
    /\ Save(p, written + 1)
    /\ UNCHANGED <<watches, loaded, reached, todo>>

----------------------------------------------------------------------------
(* The compositor *)

\* Mutant of Steps: the file is read before it is watched.
ReadThenWatch(p) == <<<<"read", p>>, <<"watch", p>>>>

\* handle_config: the file is watched and then read.
Steps(p) == <<<<"watch", p>>, <<"read", p>>>>

\* Mutant of IncludeSteps: an included file is read but not watched.
IncludesOnlyRead == [i \in DOMAIN Includes |-> <<"read", Includes[i]>>]

\* The included files are handled like the main file, one after the other.
IncludeSteps ==
    [i \in 1 .. 2 * Len(Includes) |->
        IF i % 2 = 1 THEN Steps(Includes[(i + 1) \div 2])[1] ELSE Steps(Includes[i \div 2])[2]]

\* The first load, from main().
Init ==
    /\ file = [p \in Paths |-> [inode |-> 1, version |-> 1, reach |-> "end"]]
    /\ written = 1
    /\ watches = << >>
    /\ loaded = [p \in Paths |-> Missing]
    /\ reached = "start"
    /\ todo = Steps(Main)

\* Mutant of HandleConfigChange: only the watch that fired is closed.
ClosesOneWatch ==
    /\ todo = << >>
    /\ \E i \in DOMAIN watches : watches[i].changed /\ watches' = RemoveAt(watches, i)
    /\ todo' = Steps(Main)
    /\ UNCHANGED <<file, written, loaded, reached>>

\* handle_config_change: a watch is readable; all of them are closed.
HandleConfigChange ==
    /\ todo = << >>
    /\ Changed
    /\ watches' = << >>
    /\ todo' = Steps(Main)
    /\ UNCHANGED <<file, written, loaded, reached>>

\* add_config_watcher: a file that does not exist is not watched.  Whether the
\* file is watched already is never asked (is_path_watched is always false).
AddConfigWatcher ==
    /\ todo # << >>
    /\ todo[1][1] = "watch"
    /\ LET p == todo[1][2]
       IN  watches' = IF Exists(p)
                      THEN Append(watches,
                                  [path |-> p, inode |-> file[p].inode, changed |-> FALSE])
                      ELSE watches
    /\ todo' = Tail(todo)
    /\ UNCHANGED <<file, written, loaded, reached>>

\* handle_config, the rest: a file that cannot be parsed, or with a wrong value
\* before core.include, ends there; otherwise the main file reads the files it
\* includes.  A wrong value behind them fails the load as well, but what they
\* made it watch stays watched.
ReadConfig ==
    /\ todo # << >>
    /\ todo[1][1] = "read"
    /\ LET p == todo[1][2]
       IN  /\ loaded' = [loaded EXCEPT ![p] = file[p].version]
           /\ reached' = IF p = Main THEN file[p].reach ELSE reached
           /\ todo' = IF p = Main /\ file[p].reach # "start"
                      THEN Tail(todo) \o IncludeSteps
                      ELSE Tail(todo)
    /\ UNCHANGED <<file, written, watches>>

Compositor == HandleConfigChange \/ AddConfigWatcher \/ ReadConfig

Next ==
    \/ Compositor
    \/ \E p \in Paths : Write(p) \/ Replace(p) \/ Delete(p) \/ Create(p)

Spec == Init /\ [][Next]_vars

\* The event loop runs the handler of a readable watch, and a handler that
\* was started runs to its end.
FairSpec == Spec /\ WF_vars(Compositor)
----------------------------------------------------------------------------
(* Properties *)

\* Every variable has its type; the steps of a running handler lead from a
\* watch to the reading of the same file.
TypeOK ==
    /\ file \in [Paths -> File]
    /\ written \in 0..MaxVersion
    /\ watches \in Seq(Watch)
    /\ loaded \in [Paths -> 0..MaxVersion]
    /\ reached \in Reaches
    /\ todo \in Seq(Step)

\* The places that name a file the last reading came to: the command line, and
\* the entries of core.include where it got so far.
Mentions == {0} \cup (IF reached = "start" THEN {} ELSE DOMAIN Includes)
Mentioned(m) == IF m = 0 THEN Main ELSE Includes[m]

\* The files whose contents are in force.
Relied == {Mentioned(m) : m \in Mentions}

\* No change is missed: when no handler runs, a file that is watched on its
\* present inode is the version that was read, or the event that will have it
\* read again is there (src/config.c:88-90, src/config.c:647-652).  A change
\* between the two system calls of handle_config is the case that matters.
NoMissedChange ==
    (todo = << >> /\ ~Changed) =>
        \A i \in DOMAIN watches :
            LET w == watches[i]
            IN  w.inode = file[w.path].inode => loaded[w.path] = file[w.path].version

\* Reloads do not pile up inotify instances: although nothing looks whether a
\* file is watched already, every watch can be charged to a place of its own
\* that names its file, however many reloads there were, those that failed
\* behind core.include and those that were cut short by a broken main file
\* among them (src/config.c:56-75, src/config.c:88, src/config.c:746-762).
OneWatchPerMention ==
    /\ TypeOK
    /\ todo = << >> =>
        \E charge \in Injection(DOMAIN watches, Mentions) :
            \A i \in DOMAIN watches : watches[i].path = Mentioned(charge[i])

\* Once the editors have finished, the configuration in force is that of the
\* files, provided that no file was ever missing (src/config.c:77-99,
\* src/config.c:646-652).
ConfigSettles ==
    [](\A p \in Paths : Exists(p)) => <>[](\A p \in Relied : loaded[p] = file[p].version)
=============================================================================
