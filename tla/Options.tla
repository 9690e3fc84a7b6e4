-------------------------------- MODULE Options --------------------------------
(***************************************************************************)
(* What one load of the configuration does to the settings, and to the     *)
(* windows, keyboards and outputs that hold copies of them: handle_config  *)
(* of src/config.c without the bindings and the watches, which are the     *)
(* subject of Keybindings and ConfigWatch.                                 *)
(*                                                                         *)
(* A file is read as the options it mentions, with a number for each value *)
(* it can name.  Options are applied in the order of the code, whatever    *)
(* their order in the file.  The file that core.include names is applied   *)
(* in the middle of the one that includes it; it includes no other.        *)
(***************************************************************************)
EXTENDS Integers, Sequences, FiniteSets, SequencesExt

CONSTANTS
    Texts,          \* what the configuration file and the included one may say
    Keyboards,      \* keyboards that may be plugged in
    Windows,        \* windows that may be opened
    Displays,       \* outputs that may be plugged in
    Modes,          \* the modes of each output, the preferred one first
    Uncompilable,   \* the keymaps that xkbcommon does not know how to compile
    Gone            \* what is not plugged in

(* A text is a record with                                                 *)
(*   broken     it is no TOML                                              *)
(*   says       the value of each option it mentions                       *)
(*   illtyped   options whose value has the wrong type                     *)
(*   unknown    choices whose value is none of the alternatives            *)
ASSUME OptionsAssumption ==
    \A p \in Texts : \A t \in {p.main, p.sub} :
        /\ t.broken \in BOOLEAN
        /\ t.illtyped \cup t.unknown \subseteq DOMAIN t.says
        /\ t.unknown \subseteq {"focus-on", "layout-mode"}

VARIABLES
    texts,      \* [main, sub]: the two files
    changed,    \* whether an event of their watches is to be handled
    settings,   \* the fields of struct buzzay_server that options set
    first,      \* server_first_load
    keymap,     \* the keymap of each keyboard, if it is plugged in
    window,     \* the workspace of each window and the copies it holds
    current,    \* current_workspace, of two
    screen      \* the mode and the place of each output, if it is plugged in

vars == <<texts, changed, settings, first, keymap, window, current, screen>>

(* The options, each group in the order in which it is applied, by the     *)
(* names that the code looks up: "prever-csd" sets decoration_mode.        *)
Groups == <<
    <<"xdg-interactive", "focus-on", "layout-mode", "prever-csd", "spawn",
      "include", "repeat-rate", "repeat-delay">>,
    <<"monitor">>,
    <<"gap", "opacity", "corner-radius">>,
    <<"active", "inactive", "thickness">>,
    <<"strength", "alpha", "passes", "noise">>,
    <<"layout", "variant", "options">> >>
Settings == UNION {ToSet(Groups[g]) : g \in {1, 3, 4, 5}} \ {"include"}
Order == FlattenSeq(Groups)
Pos == [o \in ToSet(Order) |-> CHOOSE i \in DOMAIN Order : Order[i] = o]
OnlyFirst == {"layout-mode", "spawn"}

\* The keymap of a keyboard nobody configured
Unset == [o \in ToSet(Groups[6]) |-> 0]
NoWindow == [at |-> 0, corners |-> 0, strength |-> 0]

Here == {w \in Windows : window[w].at = current}
----------------------------------------------------------------------------
(* output_apply_mode and the entry of a monitor *)

Abs(n) == IF n < 0 THEN -n ELSE n
NoMode == [size |-> 0, rate |-> -1]

\* Mutant of Consider: the last mode within the tolerance, not the nearest
ConsiderLast(best, m, rate) ==
    [highest |-> IF m.rate > best.highest.rate THEN m ELSE best.highest,
     nearest |-> IF rate > 0 /\ Abs(m.rate - rate) <= 1000 THEN m ELSE best.nearest]

\* One mode of the loop over those of the right size
Consider(best, m, rate) ==
    LET diff == Abs(m.rate - rate) IN
    [highest |-> IF m.rate > best.highest.rate THEN m ELSE best.highest,
     nearest |-> IF rate > 0 /\ diff <= 1000
                    /\ (best.nearest = NoMode \/ diff < Abs(best.nearest.rate - rate))
                 THEN m ELSE best.nearest]

ModeFor(modes, now, ask) ==
    LET right == SelectSeq(modes, LAMBDA m : m.size = ask.size)
        best == FoldLeft(LAMBDA b, m : Consider(b, m, ask.rate),
                         [highest |-> NoMode, nearest |-> NoMode], right)
    IN  CASE right = << >>            -> now
          [] best.nearest # NoMode    -> best.nearest
          [] OTHER                    -> best.highest

\* An output may refuse its new state, but is placed all the same.
ApplyMonitor(screens, entry, refused) ==
    LET s == screens[entry.id] IN
    IF s = Gone THEN screens
    ELSE [screens EXCEPT ![entry.id] =
            [mode |-> IF entry.id \in refused THEN s.mode ELSE ModeFor(Modes[entry.id], s.mode, entry),
             place |-> IF entry.place = 0 THEN s.place ELSE entry.place]]
----------------------------------------------------------------------------
\* server_new_output: the preferred mode, placed automatically
NewScreen(d) == [mode |-> Head(Modes[d]), place |-> 0]
----------------------------------------------------------------------------
(* handle_config.  A load is a record of what it has changed so far; it    *)
(* returns early from the files in "stopped".                              *)

Lit == \E d \in Displays : screen[d] # Gone

\* Borders and corners of the windows in the current workspace, once for every
\* output: without any they keep what they have.
Redrawn(l) ==
    [l EXCEPT !.window = [w \in Windows |->
        IF w \in Here /\ Lit THEN [@[w] EXCEPT !.corners = l.settings["corner-radius"]]
        ELSE @[w]]]

\* Mutant of Set: the windows are drawn anew for the thickness only.
SetQuietly(l, o, v) ==
    LET new == [l EXCEPT !.settings[o] = v] IN
    IF o = "thickness" THEN Redrawn(new) ELSE new

Set(l, o, v) ==
    LET new == [l EXCEPT !.settings[o] = v] IN
    IF o \in {"corner-radius", "thickness"} THEN Redrawn(new) ELSE new

\* The end of the blur options, mentioned or not
Blurred(l) ==
    [l EXCEPT !.settings["passes"] = IF @ > 20 THEN 20 ELSE @,
              !.window = [w \in Windows |->
                    IF w \in Here THEN [@[w] EXCEPT !.strength = l.settings["strength"]]
                    ELSE @[w]]]

\* Variant and options count only together with a layout.
Keymap(says) ==
    [o \in DOMAIN Unset |-> IF o \in DOMAIN says THEN says[o] ELSE 0]

\* apply_keyboard_config_to_device, for every keyboard: one whose new keymap
\* does not compile keeps the old one, and nobody is told.
ConfigureKeyboards(l, says) ==
    [l EXCEPT !.keymap = [k \in Keyboards |->
        IF @[k] = Gone \/ Keymap(says) \in Uncompilable THEN @[k] ELSE Keymap(says)]]

\* An early return from a file; one from the main file is taken before the
\* other is included, or does not matter to it any more.
Stop(l, f) == [l EXCEPT !.stopped = IF f = "main" THEN {"main", "sub"} ELSE @ \cup {"sub"}]

\* What an option of file f does if the file mentions it
Mentioned(l, f, o, refused) ==
    LET text == texts[f] IN
    IF o \in OnlyFirst /\ ~first THEN l
    ELSE IF o \in text.unknown THEN Stop(l, f)
    ELSE CASE o = "monitor"  -> [l EXCEPT !.screen =
                                    ApplyMonitor(@, text.says[o], refused)]
           [] o = "layout"   -> ConfigureKeyboards(l, text.says)
           [] o \in Settings -> Set(l, o, text.says[o])
           [] OTHER          -> l

GroupOf ==
    [o \in ToSet(Order) |->
        CHOOSE G \in {ToSet(Groups[g]) : g \in DOMAIN Groups} : o \in G]

\* Mutant of Apply: a wrong type only skips its option.
ApplyTyped(l, f, o, refused) ==
    LET new == IF o \in DOMAIN texts[f].says \ texts[f].illtyped
               THEN Mentioned(l, f, o, refused) ELSE l IN
    IF f \in l.stopped THEN l
    ELSE IF o = "noise" /\ f \notin new.stopped THEN Blurred(new) ELSE new

\* One option of file f.  All types of a group are checked before its first.
Apply(l, f, o, refused) ==
    LET new == IF o \in DOMAIN texts[f].says THEN Mentioned(l, f, o, refused) ELSE l IN
    IF f \in l.stopped THEN l
    ELSE IF texts[f].illtyped \cap GroupOf[o] # {} THEN Stop(l, f)
    ELSE IF o = "noise" /\ f \notin new.stopped THEN Blurred(new) ELSE new

\* Options a file does not mention change nothing, save the end of the blur.
Of(f, options) ==
    LET used == SelectSeq(options, LAMBDA o : o \in DOMAIN texts[f].says \cup {"noise"})
    IN  [i \in DOMAIN used |-> <<f, used[i]>>]

\* The included file is read where core.include is applied.
Steps ==
    LET i == Pos["include"] IN
    IF "include" \notin DOMAIN texts.main.says THEN Of("main", Order)
    ELSE Of("main", SubSeq(Order, 1, i)) \o Of("sub", Order)
            \o Of("main", SubSeq(Order, i + 1, Len(Order)))

Unread == (IF texts.main.broken THEN {"main", "sub"} ELSE {})
            \cup (IF texts.sub.broken THEN {"sub"} ELSE {})

Load(refused) ==
    FoldLeft(LAMBDA l, s : Apply(l, s[1], s[2], refused),
             [settings |-> settings, keymap |-> keymap, window |-> window,
              screen |-> screen, stopped |-> Unread],
             Steps)
----------------------------------------------------------------------------
(* The system *)

Init ==
    /\ texts \in Texts
    /\ settings = [o \in Settings |-> 1]
    /\ changed = TRUE /\ first = TRUE
    /\ keymap \in [Keyboards -> {Gone, Unset}]
    /\ window = [w \in Windows |-> NoWindow]
    /\ current = 1
    /\ screen = [d \in Displays |-> NewScreen(d)]

\* start_compositor and, once the event loop runs, handle_config_change
LoadConfig ==
    /\ changed
    /\ changed' = FALSE /\ first' = FALSE
    /\ UNCHANGED <<texts, current>>
    /\ \E refused \in SUBSET Displays :
        LET l == Load(refused) IN
        /\ settings' = l.settings /\ keymap' = l.keymap
        /\ window' = l.window /\ screen' = l.screen

\* The user edits one file or both between two loads.
Edit ==
    /\ texts' \in Texts /\ changed' = TRUE
    /\ UNCHANGED <<settings, first, keymap, window, current, screen>>

\* keybinding_handler
ToggleMonocle ==
    /\ ~first
    /\ settings' = [settings EXCEPT !["layout-mode"] = IF @ = 2 THEN 1 ELSE 2]
    /\ UNCHANGED <<texts, changed, first, keymap, window, current, screen>>

\* bz_set_decoration_mode
SetDecorationMode ==
    /\ ~first
    /\ \E v \in {1, 2} : settings' = [settings EXCEPT !["prever-csd"] = v]
    /\ UNCHANGED <<texts, changed, first, keymap, window, current, screen>>

\* server_new_keyboard, keyboard_handle_destroy
PlugKeyboard(k) ==
    /\ ~first
    /\ keymap' = [keymap EXCEPT ![k] = IF @ = Gone THEN Unset ELSE Gone]
    /\ UNCHANGED <<texts, changed, settings, first, window, current, screen>>

\* xdg_toplevel_map: in the current workspace, with the settings of now
MapWindow(w) ==
    /\ ~first /\ window[w] = NoWindow
    /\ window' = [window EXCEPT ![w] = [at |-> current,
                                        corners |-> settings["corner-radius"],
                                        strength |-> settings["strength"]]]
    /\ UNCHANGED <<texts, changed, settings, first, keymap, current, screen>>

\* xdg_toplevel_destroy
CloseWindow(w) ==
    /\ window[w] # NoWindow
    /\ window' = [window EXCEPT ![w] = NoWindow]
    /\ UNCHANGED <<texts, changed, settings, first, keymap, current, screen>>

SwitchWorkspace ==
    /\ ~first
    /\ current' = 3 - current
    /\ UNCHANGED <<texts, changed, settings, first, keymap, window, screen>>

\* server_new_output, output_destroy
PlugScreen(d) ==
    /\ ~first
    /\ screen' = [screen EXCEPT ![d] = IF @ = Gone THEN NewScreen(d) ELSE Gone]
    /\ UNCHANGED <<texts, changed, settings, first, keymap, window, current>>

Next ==
    \/ LoadConfig \/ Edit
    \/ ToggleMonocle \/ SetDecorationMode \/ SwitchWorkspace
    \/ \E k \in Keyboards : PlugKeyboard(k)
    \/ \E w \in Windows : MapWindow(w) \/ CloseWindow(w)
    \/ \E d \in Displays : PlugScreen(d)

Spec == Init /\ [][Next]_vars
----------------------------------------------------------------------------
(* Properties *)

\* The step in which the configuration is loaded
Loads == changed /\ ~changed'

\* Where file f returns early
Stops(f) ==
    {o \in ToSet(Order) :
        \/ texts[f].illtyped \cap GroupOf[o] # {}
        \/ o \in texts[f].unknown /\ (first \/ o \notin OnlyFirst)}

\* File f mentions option o and a load gets as far.
Reaches(f, o) ==
    /\ ~texts[f].broken
    /\ o \in DOMAIN texts[f].says
    /\ \A p \in Stops(f) : Pos[p] > Pos[o]

Takes(f, o) == Reaches(f, o) /\ (f = "sub" => Reaches("main", "include"))

\* Which of some files has the last word on option o, if any does
LastOf(files, o) ==
    IF files = {"main", "sub"}
    THEN IF Pos[o] < Pos["include"] THEN {"sub"} ELSE {"main"}
    ELSE files

LastWord(o) == LastOf({f \in {"main", "sub"} : Takes(f, o)}, o)

\* A load, also one that fails half-way, leaves every setting as the file that
\* has the last word on it says, whatever the settings were and whatever the
\* user and plugins did to them since; what no file says stays; the layout mode
\* is the user's after the first load (src/config.c:682-763, 835-913).
LastWordWins ==
    [][Loads => \A o \in Settings :
        IF LastWord(o) = {} \/ (o \in OnlyFirst /\ ~first)
        THEN settings'[o] = settings[o]
        ELSE \A f \in LastWord(o) :
                settings'[o] = IF o = "passes" /\ texts[f].says[o] > 20
                               THEN 20 ELSE texts[f].says[o]]_vars

\* What a load changes, also one that fails half-way, shows at once in the
\* windows of the current workspace, the corners if there is an output at all.
\* Every keyboard that is there has the last keymap that a file asks for and
\* that compiles, be it the one of the included file, and keeps its own if there
\* is none (src/config.c:841-846, 868-913, src/tiling.c:291-314, src/input.c:18-41).
ChangesShowHere ==
    [][Loads =>
        /\ \A w \in Here :
            /\ settings'["strength"] # settings["strength"]
                => window'[w].strength = settings'["strength"]
            /\ Lit /\ settings'["corner-radius"] # settings["corner-radius"]
                => window'[w].corners = settings'["corner-radius"]
        /\ LET last == LastOf({f \in {"main", "sub"} :
                            /\ Takes(f, "layout")
                            /\ Keymap(texts[f].says) \notin Uncompilable}, "layout")
           IN  \A k \in Keyboards :
                /\ keymap[k] = Gone \/ last = {} => keymap'[k] = keymap[k]
                /\ keymap[k] # Gone => \A f \in last :
                    keymap'[k] = Keymap(texts[f].says)]_vars

\* The modes of output d of the size that entry asks for
RightSize(d, entry) == {m \in ToSet(Modes[d]) : m.size = entry.size}

\* An output whose mode changes gets one of its own, of the size asked for;
\* within 1 Hz of the rate asked for none is nearer, and if none is that near
\* none is faster, for any list of modes with absent rates and ties
\* (src/output.c:169-226).
ModeAsAsked ==
    [][Loads => \A d \in Displays : screen'[d] # Gone =>
        \/ screen'[d].mode = screen[d].mode
        \/ \E f \in {"main", "sub"} :
            LET e == texts[f].says["monitor"]
                m == screen'[d].mode
                near == {n \in RightSize(d, e) :
                            e.rate > 0 /\ Abs(n.rate - e.rate) <= 1000}
            IN  /\ Takes(f, "monitor") /\ e.id = d /\ m \in RightSize(d, e)
                /\ IF near = {} THEN \A n \in RightSize(d, e) : n.rate <= m.rate
                   ELSE m \in near /\ \A n \in near :
                            Abs(m.rate - e.rate) <= Abs(n.rate - e.rate)]_vars

\* What docs/source/user/config/monitor.md:51-52 says: the mode that is picked
\* is the closest to the one asked for.
ModeIsClosest ==
    [][Loads => \A d \in Displays : screen'[d] # Gone =>
        \/ screen'[d].mode = screen[d].mode
        \/ \E f \in {"main", "sub"} :
            LET e == texts[f].says["monitor"] IN
            /\ Takes(f, "monitor") /\ e.id = d
            /\ e.rate > 0 => \A n \in RightSize(d, e) :
                    Abs(screen'[d].mode.rate - e.rate) <= Abs(n.rate - e.rate)]_vars
=============================================================================
