---------------------------- MODULE Keybindings ----------------------------
(***************************************************************************)
(* Keyboards, the table of keybindings and key repeat (src/input.c), and   *)
(* the replacement of the table when the configuration is read again       *)
(* (src/config.c).                                                         *)
(*                                                                         *)
(* The table holds entries allocated on the heap.  While a key is held the *)
(* repeat timer keeps the address of the entry that the key matched.  A    *)
(* reload sets the entries aside, registers the bindings of the file and   *)
(* then frees the old entries, or puts them back when reading has failed.  *)
(* All of that happens in one handler, between two key events.             *)
(*                                                                         *)
(* A press is abstracted to the sequence of binding keys that the handler  *)
(* looks up: it depends on the key, the modifiers and the layout.  A       *)
(* client has the keyboard focus.  What an action does is in Desktop; here *)
(* it may move the focus to another client.  The repeat delay and rate are *)
(* positive, and malloc() does not fail.                                   *)
(***************************************************************************)
EXTENDS Naturals, Sequences, FiniteSets, FiniteSetsExt

CONSTANTS
    Keyboards,      \* the attached or attachable keyboards
    Codes,          \* keycodes
    BindingKeys,    \* modifiers with a keysym or keycode: the keys of the table
    Commands,       \* what a binding does
    Entries,        \* the addresses of struct keybinding_entry
    None,           \* the null pointer, and keycode 0
    Lookups,        \* code -> the sequences of binding keys a press may look up
    VTCodes,        \* keys that switch the virtual terminal, with Ctrl and Alt
    SilentCodes,    \* keys without a keysym
    Configs,        \* the bindings in the versions of the file, in file order
    Failures        \* where reading may fail: "parse", "late"

Binding == [key : BindingKeys, command : Commands, repeat : BOOLEAN]

ASSUME KeybindingsAssumption ==
    /\ None \notin Entries \cup Codes
    /\ Lookups \in [Codes -> SUBSET Seq(BindingKeys)]
    /\ VTCodes \subseteq Codes
    /\ SilentCodes \subseteq Codes
    /\ Configs \subseteq Seq(Binding)
    /\ Failures \subseteq {"parse", "late"}

VARIABLES
    heap,       \* the entries that are allocated, and their contents
    table,      \* the entries in keybindings_map
    repeat,     \* server->current_repeat; the timer runs while it is set
    plugged,    \* server->keyboards
    held,       \* the keys that are down, on each keyboard
    down,       \* the keys that the focused client takes to be down
    fault       \* freed or null memory was dereferenced

vars == <<heap, table, repeat, plugged, held, down, fault>>

NoRepeat == [entry |-> None, code |-> None]

HeldCodes == UNION {held[d] : d \in Keyboards}

----------------------------------------------------------------------------
(* The table *)

\* The entries of a table that a search for k may find: one, unless the key
\* has been added twice.
Found(k) == {e \in table : heap[e].key = k}

\* The entries that a press may match: the first key of the sequence that is
\* in the table decides.
Matches(looked) ==
    LET bound == {i \in DOMAIN looked : Found(looked[i]) # {}}
    IN  IF bound = {} THEN {} ELSE Found(looked[Min(bound)])

KeysOf(c) == {c[i].key : i \in DOMAIN c}

\* Mutant of Registered: the first binding of a key stays.
FirstRegistered(c, k) == c[Min({i \in DOMAIN c : c[i].key = k})]

\* register_keybinding for every binding of the file: a later binding of the
\* same key overwrites the entry.
Registered(c, k) == c[Max({i \in DOMAIN c : c[i].key = k})]

\* New entries, one for each key of the file.  The old ones are still on the
\* heap, so none of their addresses is reused.
Placements(c) ==
    {place \in [KeysOf(c) -> Entries \ DOMAIN heap] :
        \A j, k \in KeysOf(c) : place[j] = place[k] => j = k}

NewEntries(c, place) ==
    [e \in {place[k] : k \in KeysOf(c)} |->
        Registered(c, CHOOSE k \in KeysOf(c) : place[k] = e)]

\* The heap restricted to some entries, with the new ones added.
With(new, kept) ==
    [e \in DOMAIN new \cup kept |-> IF e \in DOMAIN new THEN new[e] ELSE heap[e]]

\* handle_config succeeded: commit_keybinding_clear frees the old entries.
CommitTable(new) ==
    /\ heap' = With(new, {})
    /\ table' = DOMAIN new

\* Mutant of RevertTable: a key that is bound already is not put back.
RevertUnbound(new) ==
    LET back == {e \in table : \A f \in DOMAIN new : new[f].key # heap[e].key}
    IN  /\ heap' = With(new, back)
        /\ table' = DOMAIN new \cup back

\* Mutant of RevertTable: the new table is dropped without being freed.
RevertDrops(new) ==
    /\ heap' = With(new, table)
    /\ table' = table

\* handle_config failed: revert_keybinding_clear adds the old entries to what
\* was registered before the failure.
RevertTable(new) ==
    /\ heap' = With(new, table)
    /\ table' = DOMAIN new \cup table

\* Whatever is run or arranged may move the keyboard focus: the client that
\* gets it is told the keys held on the seat's keyboard.
FocusMayMove ==
    \/ UNCHANGED down
    \/ down' = {}
    \/ \E d \in plugged : down' = held'[d]

\* What handle_config registers before it succeeds or fails, and what is done
\* with the old bindings.
LoadConfig(c, outcome) ==
    IF outcome = "parse"
    THEN RevertTable(NewEntries(<< >>, << >>))
    ELSE \E place \in Placements(c) :
            LET new == NewEntries(c, place)
            IN  IF outcome = "ok" THEN CommitTable(new) ELSE RevertTable(new)

\* handle_config_change, and the first load.
Reload(c, outcome) ==
    /\ LoadConfig(c, outcome)
    /\ UNCHANGED <<repeat, plugged, held, fault>>
    /\ FocusMayMove

----------------------------------------------------------------------------
(* Keys *)

Init ==
    /\ heap = << >>
    /\ table = {}
    /\ repeat = NoRepeat
    /\ plugged = {}
    /\ held = [d \in Keyboards |-> {}]
    /\ down = {}
    /\ fault = FALSE

\* server_new_keyboard
Plug(d) ==
    /\ d \notin plugged
    /\ plugged' = plugged \cup {d}
    /\ UNCHANGED <<heap, table, repeat, held, down, fault>>

\* Mutant of ClearIfRepeating: only a binding of the table is cleared.
ClearIfBound(codes) ==
    repeat' = IF repeat.code \in codes /\ repeat.entry \in table THEN NoRepeat ELSE repeat

\* The release of a key stops the repeat that the key has started.
ClearIfRepeating(codes) ==
    repeat' = IF repeat.code \in codes THEN NoRepeat ELSE repeat

\* wlroots releases the keys of a keyboard that goes away; then
\* keyboard_handle_destroy removes it.
Unplug(d) ==
    /\ d \in plugged
    /\ plugged' = plugged \ {d}
    /\ held' = [held EXCEPT ![d] = {}]
    /\ down' = down \ held[d]
    /\ ClearIfRepeating(held[d])
    /\ UNCHANGED <<heap, table, fault>>

\* Mutant of Release: the release of a bound key is not forwarded.
ReleaseIfUnbound(d, k) ==
    /\ k \in held[d]
    /\ held' = [held EXCEPT ![d] = @ \ {k}]
    /\ ClearIfRepeating({k})
    /\ \E looked \in Lookups[k] :
        down' = IF Matches(looked) = {} THEN down \ {k} ELSE down
    /\ UNCHANGED <<heap, table, plugged, fault>>

\* keyboard_handle_key, a release: it is always forwarded.
Release(d, k) ==
    /\ k \in held[d]
    /\ held' = [held EXCEPT ![d] = @ \ {k}]
    /\ ClearIfRepeating({k})
    /\ down' = down \ {k}
    /\ UNCHANGED <<heap, table, plugged, fault>>

\* keyboard_handle_key, a press with Ctrl and Alt that reads the first keysym:
\* it may switch the virtual terminal, and there may be none.
PressCtrlAlt(d, k) ==
    /\ d \in plugged
    /\ k \in (VTCodes \cup SilentCodes) \ held[d]
    /\ held' = [held EXCEPT ![d] = @ \cup {k}]
    /\ fault' = (k \in SilentCodes)
    /\ UNCHANGED <<heap, table, repeat, plugged, down>>

\* What current_repeat is after the press of k has matched the entry e.
Repeating(e, k) == IF heap[e].repeat THEN [entry |-> e, code |-> k] ELSE NoRepeat

\* keyboard_handle_key, any other press: the action is run, or the press is
\* forwarded to the client.
Press(d, k, looked) ==
    /\ d \in plugged
    /\ k \notin held[d]
    /\ held' = [held EXCEPT ![d] = @ \cup {k}]
    /\ \/ /\ Matches(looked) = {}
          /\ repeat' = NoRepeat
          /\ down' = down \cup {k}
       \/ \E e \in Matches(looked) :
            /\ repeat' = Repeating(e, k)
            /\ FocusMayMove
    /\ UNCHANGED <<heap, table, plugged, fault>>

\* handle_kb_repeat_timer runs the action of the entry, if there still is one.
RepeatTick ==
    /\ repeat.entry # None
    /\ fault' = (repeat.entry \notin DOMAIN heap)
    /\ UNCHANGED <<heap, table, repeat, plugged, held>>
    /\ FocusMayMove

Next ==
    /\ ~fault
    /\ \/ \E c \in Configs, outcome \in {"ok"} \cup Failures : Reload(c, outcome)
       \/ \E d \in Keyboards : Plug(d) \/ Unplug(d)
       \/ \E d \in Keyboards, k \in Codes :
            \/ Release(d, k)
            \/ PressCtrlAlt(d, k)
            \/ \E looked \in Lookups[k] : Press(d, k, looked)
       \/ RepeatTick

Spec == Init /\ [][Next]_vars
----------------------------------------------------------------------------
(* Properties *)

\* Every variable has its type.
TypeOK ==
    /\ DOMAIN heap \subseteq Entries
    /\ \A e \in DOMAIN heap : heap[e] \in Binding
    /\ table \in SUBSET Entries
    /\ repeat \in [entry : Entries, code : Codes] \cup {NoRepeat}
    /\ plugged \in SUBSET Keyboards
    /\ held \in [Keyboards -> SUBSET Codes]
    /\ down \in SUBSET Codes
    /\ fault \in BOOLEAN

\* The entries in the table are exactly those on the heap: whatever mixture
\* of good and failed reloads, a look-up meets no freed entry and no entry is
\* lost (src/input.c:95-130, src/config.c:88-96).
TableOwnsHeap == table = DOMAIN heap

\* A repeat belongs to a key that is still down, whichever keyboards come and
\* go and whatever is reloaded while the key is held (src/input.c:191-202,
\* src/input.c:227-230): it cannot go on for ever.
RepeatWhileHeld ==
    repeat.entry # None => repeat.code \in HeldCodes

\* No key is stuck for the client: what it takes to be down is down on some
\* keyboard, although a key may become bound while it is held
\* (src/input.c:191-202, src/input.c:266-270).
ClientKeysHeld == down \subseteq HeldCodes

\* A failed reload takes no binding away: every entry of the table is still
\* there, with its contents (src/config.c:94-96, src/input.c:120-130).
FailedReloadKeeps ==
    [][\A c \in Configs, outcome \in Failures :
        Reload(c, outcome) =>
            \A e \in table : e \in table' /\ heap'[e] = heap[e]]_vars

\* A good reload leaves the bindings of the file and nothing else, whatever
\* failed reloads have left behind (src/config.c:88-93, src/input.c:55-84):
\* each key of the file has one entry, with its last binding.
GoodReloadHeals ==
    [][\A c \in Configs :
        Reload(c, "ok") =>
            /\ Cardinality(table') = Cardinality(KeysOf(c))
            /\ \A i \in DOMAIN c :
                (\A j \in DOMAIN c : j > i => c[j].key # c[i].key) =>
                    \E e \in table' : heap'[e] = c[i]]_vars
=============================================================================
