# A model of buzzay

buzzay is a tiling Wayland compositor written in C on top of wlroots and
scenefx.  It is one process with one thread: libwayland's event loop calls a
handler for every client request, input event, timer or file event, and each
handler runs to its end.  Nothing is preempted.  What is hard is the order in
which handlers run: clients create, map, unmap and destroy surfaces whenever
they like, the user presses keys in between, outputs come and go, the
configuration is reloaded while a key is held, and a handful of structures
refer to the same objects without a common owner.  An action of the modules
below is therefore one handler, with everything it calls.  Where the outside
can interfere with a handler (an editor with the files that are being read, a
client with the socket that is being served) its steps are actions of their
own.

Paths are relative to the repository (`src/xdg.c` is in the compositor's own
`src` directory).

## Components

| Component | State it keeps | Operations | What makes it correct | Module |
|---|---|---|---|---|
| workspace layout (`src/workspace.c`) | one binary tree per workspace, the root embedded in the workspace | insert, remove, reset, exchange, find in a direction | the tree is full, no window is lost or displaced, the root is never freed, a direction finds the nearest window | `Layout`, `Geometry`, `Placement`, `TileSet` |
| toplevel life and focus (`src/xdg.c`) | `in_workspace`, membership in a window list, keyboard focus, `focused_window` | new, map, unmap, commit, destroy, `focus_toplevel` | lists are sound, references are to live windows, the keyboard agrees with what is remembered | `Desktop`, `Seat` |
| arrangement (`src/tiling.c`) | scene nodes enabled or not, boxes of the tiles | arrange tiling or monocle, cycle, borders and blur | the screen shows the current workspace, tiles divide their area, the cycle visits every window | `Desktop`, `Geometry`, `Placement`, `Outputs`, `Options` |
| keybinding actions (`src/config.c:359-558`) | `current_workspace`, `window_layout_mode` | close, focus, move, switch, send, toggle, cycle | they act on live windows of the current workspace | `Desktop`, `Layout`, `Placement` |
| keyboards and keybindings (`src/input.c`) | table of bindings, the repeating binding and its timer | key press and release, repeat, registering and clearing | table and heap agree, a repeat ends with its key, no key is stuck for a client | `Keybindings` |
| configuration (`src/config.c`) | file watches, options and the copies that windows, keyboards and outputs hold | load, reload on change, revert when loading fails | no change is missed; each setting is as the last file says that mentions it; what changes is seen at once | `ConfigWatch`, `Keybindings`, `Options` |
| pointer (`src/cursor.c`) | `hovered_toplevel`, pointer focus, cursor shape and image | motion, button, cursor requests | never in a dead or hidden window; no client's shape stays behind when the pointer leaves | `Desktop`, `Seat` |
| layer shell (`src/layershell.c`) | layer surfaces per output, `focused_layersehll`, usable area | new, commit, unmap, destroy, allocate | focus is kept while a surface has it and given back when it goes; reserved space is what the surfaces claim | `Seat`, `Outputs` |
| outputs (`src/output.c`) | outputs, their modes and places | new, state request, destroy, configure, choose a mode | nothing refers to a freed output; the mode is the one asked for | `Outputs`, `Options` |
| gamma control (`src/gamma.c`) | a listener on each control, a ramp in force | set, end | colours that were changed have somebody who resets them | `Gamma` |
| idle inhibition (`src/idle.c`) | the number of inhibitors | new, destroy | inhibited exactly while an inhibitor exists | `Idle` |
| error bar (`src/error.c`) | a bar with its timer and start time | show, timer | stays for its time and then goes | `ErrorBar` |
| plugins and IPC (`src/plugin.c`, `src/ipc.c`, client in `src/main.c`) | socket, the connection being served, array of plugins | connect, load, message, abort | every client is released, no descriptor leaks, the array is not overrun | `Ipc` |
| startup (`src/main.c`) | creates all the others | command line, set-up | - | initial states; the socket in `Ipc` |
| popups, decorations (`src/xdg.c`) | none of their own | forward one request each | - | - |

How they interact: `xdg.c`, `config.c` and `layershell.c` call `workspace.c` to
change a layout, `focus_toplevel` or `focus_layershell` to move the keyboard,
and `arrange_workspaces` to show the result.  `arrange_workspaces` ends in
`process_cursor_motion`, which under focus-follows-mouse moves the focus again.
`input.c` runs the actions of `config.c`; a change of the file makes `config.c`
rebuild the table that `input.c` is using and refresh what windows, keyboards
and outputs have copied from the settings.  `tiling.c` starts from the usable
area that `layershell.c` has allocated on an output.

The hazards that follow from this are listed in `PROJECT.json` with the lines
where they bite and the properties that cover them.

## Modules

### Windows

**`TileSet`** is the abstract specification of one workspace: which windows own
a tile (`hosted`) and which are in the window list (`listed`).  Windows enter
both at once; they leave the list when unmapped and the layout when destroyed,
or both when sent away.

**`Layout`** is the layout tree of one workspace (`src/workspace.c` and its
callers).  A node is the path from the root; `tree` maps paths to the window
and the `is_root` flag of a node.  `Insert`, `Unmap`, `Destroy`, `SendAway`,
`MoveWindow` are the five ways the code changes the tree or the list.  The two
recursive C functions are given by what they compute: `FirstLeafOf` is the
leaf that a first-child-first search meets first, `Survivors` and
`Collapsed` are the nodes left by `remove_node_recursive` and the places to
which they move.  `aborted` stands for `free()` on the embedded root, after
which nothing is modelled.

`SameOrder(t, u, w)` says that, but for `w`, the leaves of `u` are those of `t`
in their order: a map of leaves onto leaves that keeps windows and `Before`.

**`Geometry`** extends `Layout` with where the leaves are put and which one a
direction leads to.  `Boxes` is `arrange_node_recursive`, with C's division
that rounds towards zero (a box smaller than the gap has a negative half);
`FindNodeInDirection` is the search that keeps the nearer result of two
subtrees, written as recursive functions on the paths of a tree.  They are
compared with what they should compute: boxes that lie in the area, a gap
apart, and without a gap fill it; and the nearest of all leaves in that
direction.  The gap on both sides may leave a thin area with a negative size,
in which nothing is placed.  TLC evaluates `TilesPartition` for every shape,
every direction of every split and every area and gap.

**`Placement`** extends `Geometry` with what the nodes keep of an arrangement:
`node` is the `box` and the `split_type` of every node, which the handlers copy
about with the nodes, and which decide the way of the next split.  Only an
arrangement in the tile mode sets boxes, and it stops at an empty one
(`Arrange`).  `room` is the area and the gap that arrangements find at present,
or `NoRoom` while there are none: in the monocle mode, off the display, without
an output.  The tree may grow and shrink meanwhile, and its boxes are then old or
empty.  `focus-window` and `move-window` search with these boxes, and so does
`DirectionFindsNearest`.  There is one output and, as in the code, one tree: with
several outputs the last arrangement decides.

**`Desktop`** is the whole of the windows, workspaces and focus, with one
action for each handler.

| variable | in the code |
|---|---|
| `win` | the life of a toplevel, as its handlers are called |
| `home` | `toplevel->in_workspace` |
| `list` | `workspace->toplevels`, head first |
| `tiles` | the leaves of `workspace->layout` |
| `current`, `mode`, `policy` | `server->current_workspace`, `server->window_layout_mode`, `server->window_active_on` |
| `shown` | windows whose scene node is enabled |
| `focus.kb`, `.active`, `.last`, `.hovered` | the seat's keyboard focus, the toplevels told they are activated, `workspace->focused_window`, `server->hovered_toplevel` |
| `fault` | a null or freed object was dereferenced; nothing is modelled afterwards |
| `aborted` | the root of a layout, embedded in its workspace, was passed to `free()`; likewise |

`Rearrange` is `arrange_workspaces` with the pointer motion at its end: what
is under the pointer after an arrangement is any window on the screen, or none,
since positions are not modelled.  Under focus on click that motion does
nothing.  A created toplevel's address may be reused after it was destroyed.
`FocusDirection(v)` and `MoveDirection(v)` allow every tile of the workspace as
the outcome of the search.  `LateMap` chooses whether a window may be mapped
while another workspace than its home is on display.  The code allows it:
`in_workspace` is fixed when the client creates the toplevel and the tile is
made when it maps.  Two of the invariants hold only without it, and say so.
`Reload` changes the focus policy, and arranges unless the load fails behind
that.  Tiles are a set here, so that `Desktop` does not know when a removal frees
the root: every removal of a tile may (`FreesRoot`), and `Layout` says when it
does.

**`Seat`** is who has the keyboard and the pointer when there are layer
surfaces beside the windows, and what the cursor looks like
(`src/layershell.c`, `src/cursor.c`, and the parts of `xdg.c` and `config.c`
that move a focus).  Two structures claim the keyboard: a workspace remembers
the window it focused last, the server the layer surface it focused last, and
neither knows of the other.

| variable | in the code |
|---|---|
| `home`, `order`, `current` | as in `Desktop`, `order` for `workspace->toplevels` |
| `layer` | the life of each layer surface; `roleless` is a `wl_surface` that outlives its role |
| `wants` | surfaces whose `keyboard_interactive` is not "none" |
| `policy` | `server->window_active_on`, which a reload may change |
| `seat.kb`, `.pointer`, `.last`, `.layer`, `.hovered` | keyboard focus, pointer focus, `focused_window` of each workspace, `focused_layersehll`, `hovered_toplevel` |
| `seat.shape`, `.image` | `current_cursor_shape`; what is on the screen, a named shape or a surface of a client |

The operators `FocusToplevel`, `FocusLayer`, `ClearPointer`, `SetShape`,
`Hover`, `Motion`, ... are the C functions, each from one record of the seat to
the next, so that an action reads as the calls of its handler in their order.

### Outputs and settings

**`Outputs`** is outputs, the panels on them and the area left for windows
(`src/output.c`, the allocations of `src/layershell.c`,
`server_output_layout_changed`).  Space has one dimension with a near and a far
edge; `Zones` are the claims of the panels on one of them, which are added up.  `usable` is `output->usable_area`, `tiled` the box the root of the
layout tree got in the last arrangement, a gap smaller on either side,
`panel[p]` a panel's stage, output and claim.  An output on which that box is
empty is passed over (`HasRoom`), and of the others the last one in the list,
the oldest, decides (`Deciding`).  A panel that outlives its output has the home `Lost`: a handler that
then uses the output sets `fault`.

**`Options`** is one load of the configuration (`handle_config`) and the users'
actions in between.  A file is the set of options it mentions, with values,
wrong types and unknown words; `Steps` is the order in which the code applies
the options of two files, the included one in the middle of the one that
includes it.  `settings` are the fields of `struct buzzay_server`; `keymap`,
`window` and `screen` are the keyboards, windows and outputs with the copies
they hold.  A keyboard whose new keymap does not compile keeps its own, and
corners are brought up to date once for every output, without one not at all.
`ModeFor` is `output_apply_mode`, a fold over the modes of the
output.  What users and plugins do to a setting in between (the layout mode,
the decoration mode) are actions of their own.

**`ConfigWatch`** is the configuration and its files, with the editors as
processes of their own.  Here a handler is *not* one action: an editor can save
a file between `inotify_add_watch` and the reading of the file, or between the
reading of the main file and of one it includes.  `todo` is the rest of the
handler that is running, `watches` the array of open inotify instances, each on
the inode that the path had, `file` the inode and version at each path, and
`loaded` the versions in force.  The main file may name a file more than once in
`core.include`; it is then watched and read as often, since `is_path_watched`
always answers "no".  `file[Main].reach` says how far a load gets in it: it fails
before the files it includes, or behind them, when they have been watched and
read, or not at all.  The event mask of the code is `IN_MODIFY | IN_DELETE_SELF`,
so that a watch fires when the file is written in place, replaced or removed.
Only the main file includes others.

**`Keybindings`** is the table of bindings, the keys and the repeat timer
(`src/input.c`), with the replacement of the table by a reload.

| variable | in the code |
|---|---|
| `heap` | the allocated `struct keybinding_entry`, by address |
| `table` | the entries reachable from `keybindings_map` |
| `repeat` | `server->current_repeat`; the timer is armed while it is set |
| `plugged` | `server->keyboards` |
| `held` | `wlr_keyboard.keycodes` of each keyboard |
| `down` | the keys of which the focused client has got a press or an enter, and no release |
| `fault` | freed or null memory was used |

A reload is one action, since its handler is never interrupted: the old
entries are set aside, those of the file are allocated, and then either the old
ones are freed (`CommitTable`) or added again (`RevertTable`).  It may fail in
the parser, with nothing registered (`"parse"`), or at a later option of the
wrong type, with every binding of the file registered (`"late"`).  A press is
the sequence of table keys that the handler would look up; `Lookups` gives the
possible ones for a keycode, since modifiers and layout decide.  What a client
sees of an action is that the focus may move (`FocusMayMove`).

### Services

**`Gamma`**: every accepted ramp adds a listener to the resource of the control
(`control[c].sets`), and all fire when the resource goes.  The control inside
wlroots (`live`) may go before the resource, and so may the output.
`screen[s].kept` says that a reset was skipped, because another VT was on
display or the output was off, or refused by the backend.

**`Idle`** is the count of inhibitors.  **`ErrorBar`** is the bar with its
timer and a clock that wraps around; `age` is a history variable.
**`MCServices`** composes the three side by side.

**`Ipc`** is the socket, the compositor's event loop as far as it serves it,
and the clients (`buzzay plugin load`, `buzzay msg`) as processes of their own.
`conn[c]` is both ends of a connection, `queue` what waits for `accept()`,
`server.step` where `handle_ipc_connection` is; `ServerStep` are its steps
between two system calls.  The registry of plugins keeps pointers into a stack
frame that is gone when the request has been served, so which entry a name
finds is a choice over all outcomes, a crash included; only the number of
entries and the capacity are kept.  The look-up before a load and the functions
of a plugin may abort any number of entries (`Aborted`), also when the load then
fails.  A request of nothing but blanks has no first word, and ends in a crash
(`ReadBlank`).  A write to a client that has left raises
SIGPIPE, which nobody ignores: the compositor is then `"down"`.

### Model checking and proofs

**`MCLayout`**, **`MCDesktop`**, **`MCKeybindings`**, **`MCConfigWatch`**,
**`MCSeat`**, **`MCOutputs`**, **`MCOptions`**, **`MCIpc`** and
**`MCServices`** give the constants their values.  Windows, keyboards, entries,
surfaces and outputs are symmetric where a run says so: no operator prefers one
by name and every `CHOOSE` over them has one possible value.  Symmetry is only
used in runs without liveness properties.  Operators whose comment starts with
"Mutant of" are plausible mistakes in the operator they name; they are
not used by the specifications.

**`Lists`** is the compositor's linked lists, which `Desktop`, `Seat` and
`Outputs` share.  **`Data_proofs`** has the lemmas about them and about sums over
finite sets; **`Layout_proofs`** (with `Geometry` and `Placement`), **`Desktop_proofs`**,
**`Seat_proofs`**, **`Outputs_proofs`**, **`Keybindings_proofs`**,
**`ConfigWatch_proofs`** and **`Services_proofs`** (`Gamma`, `Idle`, `ErrorBar`,
their composition, and `Ipc`) hold the theorems.

## What the runs check

Every property below has at least one mutant which TLC finds to violate it.

| Run | Bounds | Shows |
|---|---|---|
| `layout` | 3 windows, trees of at most 4 leaves, 2 while unarranged; areas of 17 x 12, 3 x 7 and -1 x 4, gaps 0 and 2; arrangements in two rooms or none | `WellFormedTree`: every split has both children and no window of its own, and only an empty root is a leaf without a window; `TilesPartition`; `DirectionFindsNearest`: while the workspace is arranged and every node has room, the boxes kept in the nodes lead to a nearest window; `OthersKeepOrder`: a step that changes the shape leaves all windows but one in their order; `ImplementsTileSet`: the leaves and the list behave as `TileSet` |
| `desktop` | 2 windows, 3 workspaces, both modes, both focus policies, late mapping, windows sent to workspaces 1 and 2, switches up to workspace 3, which does not exist | `LinkedOnce`, `ListedTiled`, `KeyboardIsActivated`, `FocusIsLive`, and each workspace implements `TileSet` |
| `desktop_session` | 3 windows, 3 workspaces, one output, both modes, both focus policies, nothing sent elsewhere | `TilesLiveAtHome`, `KeyboardIsRemembered`, `ScreenShowsWorkspace`, `CycleVisitsNext`, and `NoOtherFault`: the only null or freed object dereferenced is the one that `cycle-monocle` meets in an empty workspace.  The session may also end in `aborted` |
| `keybindings` | 2 keyboards, 2 keycodes, 2 table keys, 4 entries, 4 versions of the file | `TableOwnsHeap`, `RepeatWhileHeld`, `ClientKeysHeld`, `FailedReloadKeeps`, `GoodReloadHeals` |
| `config_watch` | a main file with 2 included files, one of them named twice, 4 versions | `NoMissedChange`, `OneWatchPerMention`: between reloads there are no more watches than places that name their files; and under fairness `ConfigSettles` |
| `seat` | 2 windows, 2 layer surfaces, 2 workspaces, 2 shapes, both policies | `LayerFocusSound`: the layer surface that is remembered exists, and is the one with the keyboard if a layer surface has it; `InputIsSound`; `NoShapeLeftBehind`: off the surfaces the image is the default one or a client's own; `KeyboardHandedBack`, under focus on click, when the remembered one goes; `LayerKeepsKeyboard` against pointer motions, reloads and other surfaces, not against clicks |
| `outputs` | 2 outputs, 3 panels, 2 sizes, 4 claims, one larger than the smaller size, a gap | `PanelsHoldTheirSpace`, `WindowsClearOfPanels`: a panel that changes its claim leaves the windows a gap away from the panels at both edges |
| `options` | 12 pairs of files, 1 window in 2 workspaces, 1 keyboard, 1 output with 6 modes, one keymap that does not compile | `LastWordWins`, `ChangesShowHere`, `ModeAsAsked` |
| `services` | 1 output with 2 controls, 2 inhibitors, 1 bar; the clock wraps around after 8 | `InhibitedWhileAny`, `RampHasOwner`, `BarOnTime`, and under fairness `BarGoes` |
| `ipc` | 3 clients, 2 waiting, 3 plugins; clients killed at any moment, or sending blanks | `ServerSound`: no open descriptor without a request being served, no entry outside the array; under fairness `ClientsReleased` |

Two runs show where the code and what is said of it differ; each ends in the
counterexample that TLC prints.

| Run | The code ... |
|---|---|
| `layout_root_freed` | ... passes the root embedded in the workspace to `free()`, which the guard `if (!node->is_root)` is there to prevent.  After a split of the root has collapsed the flag `is_root` of the copied child is false, and the next collapse frees the root (`src/workspace.c:92`, `:117`). |
| `mode_closest` | ... picks the fastest mode when none is within 1 Hz of the rate asked for (`src/output.c:220`); `docs/source/user/config/monitor.md:51` says that the closest is picked. |

### Seen while modelling

These are behaviours of the code that the modules have, stated here instead of
as runs.  Some make the premise of a property, as said at the property.

Against what a document or a comment of the repository says:

- With several outputs the monocle advances once per output
  (`src/tiling.c:225`) and skips windows, while
  `docs/source/user/config/bindings.md:144` says "next": `CycleVisitsNext` fails
  with `Outputs = 2`, and is claimed of one output.
- Two windows stay activated after a switch of workspaces, since the keyboard
  is cleared before `focus_toplevel` looks whom to deactivate (`src/xdg.c:49`,
  `src/config.c:466`; the comment at `src/xdg.c:51`).
- A switch may focus a window that lives elsewhere: the workspace it was sent
  from still remembers it (`src/config.c:537`; the comment at `src/config.c:461`
  speaks of a window in that workspace).
- An unmapped window keeps its leaf and its scene node is enabled again
  (`src/xdg.c:127`, `src/tiling.c:69`; "should no longer be shown",
  `src/xdg.c:120`).
- A window mapped away from home leaves its leaf behind when it is destroyed
  (`src/xdg.c:105`, `:332`), while `include/workspace.h:17` says that a leaf points
  to a window.
- When the pointer leaves a window whose client had set a cursor surface, the
  image stays if the shape named before it was the default one, which is then
  skipped (`src/cursor.c:361`, `:417-423`); the comments at `src/cursor.c:176-178`
  and `:327-329` say that it is reset.
- The option `prefer-csd` of `docs/source/user/config/core.md:33` is looked up as
  `core.prever-csd` (`src/config.c:690`) and so has no effect.
- The first answer to a plugin of another API version lets the client go before
  the second one is written, which kills the compositor by SIGPIPE;
  `docs/source/dev/plugin/extra-info.md:14` says that outdated plugins pass.
- The look-up for plugins that exist (`handle_if_plugin_exists`) answers "no"
  whatever it finds, and a load goes on; the comment at `src/ipc.c:76` says that an
  existing plugin is executed again.
- The transform `flipped-270` (`docs/source/user/config/monitor.md:39`) is mapped
  to `270` (`src/output.c:164`).

Of which, as far as we have seen, documents and comments say nothing:

- After a reload has changed the focus policy from hover to click,
  `hovered_toplevel` is no longer maintained and may outlive its window
  (`src/config.c:708`, `src/cursor.c:182-195`, `src/xdg.c:173-192`); it is only
  compared with others.
- While a workspace is in the monocle mode the boxes of its nodes are old, or
  empty for new ones, and `focus-window` and `move-window` search with them
  (`src/config.c:406`, `:427`, `src/tiling.c:147-204`); the same holds of nodes
  below one that has no room (`src/tiling.c:60`).
- A box that is empty between its gaps is passed over, and windows stay where they
  were, under the panel that took the room (`src/tiling.c:60`).
- The entry of a repeating binding is freed by a reload while the timer still
  points to it (`src/config.c:93`, `src/input.c:259`).
- A main file that is missing at the moment of a reload is never watched again
  (`src/config.c:649`), hence the premise of `ConfigSettles`.  An error in an
  included file is ignored by the file that includes it.  A file that is included
  twice has two watches (`src/config.c:71-75`).
- Under focus on click the pointer focus is not cleared over the bare desktop
  (`src/cursor.c:211`).  `hovered_toplevel` may dangle while a layer surface is
  remembered, since hovering is not looked at then.
- An unmapped layer surface stays in `focused_layersehll`.  A window closed in
  a workspace that is not on display passes the keyboard on there.
- A change of the output layout arranges windows before it allocates panels
  (`src/tiling.c:23-28`), so that the far edge of the windows is the old one.
  Commits that change only margins do not allocate again.
- A gamma control that has been replaced still resets the ramp of its
  successor when its resource goes; after a refused commit the control is used
  although it has been destroyed (`src/gamma.c:59`).
- A window in another workspace keeps stale blur strength and corners after a
  reload; the corner radius of its blur is only set at mapping.  Keyboards and
  outputs plugged in after a load keep the defaults.  A layout that does not
  compile leaves the keymap as it was (`src/input.c:32`), and a load without an
  output leaves windows the corners they have (`src/tiling.c:293`).  A monitor
  entry without `id` compares with an unset name.
- A request of blanks passes a null pointer to `strcmp` (`src/ipc.c:69-70`).  A
  failed `dlopen` is followed by `dlclose(NULL)`.

### Why the bounds are enough

Three windows are the fewest with which the root is split, collapses and is
split again, with which the monocle has a neighbour, an end and a wrap, and
with which a third window could be disturbed by what happens to two.  Four
leaves are one more than the windows: the code may leave a window in the tree
while it maps it again, and `MaxLeaves` bounds only how often.  With four
leaves two of them can have a common parent on both sides of the root, where a
search that keeps one result for each subtree could lose the nearest.  The two
areas have odd and even sides, and the small one is narrower than the gap after
two splits; the third has nothing left between its gaps.  Two leaves that appear
unarranged (`MaxUnarranged`) are an old box and an empty one, each of which can
be copied by a later split.  Three workspaces instead of ten (`src/main.c:181`) are the
unreachable workspace 0, one to be in and one to go to; workspaces beyond that
are alike.  `desktop` has two windows and two destinations, since late mapping, destinations
and policies multiply its states; what involves three windows is in
`desktop_session`.  Windows sent to workspace 0 are like those sent to another
that is not returned to, and the theorems hold for any set of destinations.

In `Keybindings` four entries bound how many failed reloads with left-over
entries may follow each other: when no free address is left, a reload which
needs one is not taken; a reload that succeeds frees them again.  Two table
keys let one press look up two keys, and the versions of the file have a key
bound twice and a key that repeats in one version and not in another.  In
`ConfigWatch` three saves on top of the first version reach an editor that
saves before, between and after the two system calls of one file, and a
replacement after a removal; the main file and two others are enough for a
change to an include that was already read while the next is being read.

`Seat` needs two layer surfaces for one to take the keyboard from the other and
two windows in two workspaces for the keyboard to be handed back to a window
that is not the one it was taken from.  In `outputs` a gap of 1 leaves
the smaller output no room beside any claim, and the larger one room beside all
but the largest.  `Outputs` needs two panels on the same
output and one on another, and an output that goes while both are there.  The
files of `Options` were chosen, not enumerated: options before and after
`core.include`, in either file or both, that apply, have a wrong type or are
unknown; the modes hold two nearly equal rates, ties, an absent rate and one
out of reach.  In `services` the times keep the proportions that matter
(`Duration + Period + MaxLate < Width`), and `BarOnTime` is proved for all
others.  `MaxSets = 1` lets a control have one ramp in force: further
listeners repeat what the first does.  In `ipc` three clients are one that is
served and two that wait; capacity 1, 2, 4 of the array is passed with three
plugins.

`CHECK_DEADLOCK FALSE` stands where a system may stop: after a fault, which
ends the modelled life of the process, when the editors are done, or when the
compositor has quit.

### Fairness

- `ConfigWatch`: weak fairness of the compositor's steps taken together.  A
  readable watch stays readable until its handler runs, the loop calls the
  handler of every readable descriptor, and a handler that was started runs to
  its end.  Nothing is assumed about editors.
- `Ipc`: weak fairness of `ServerStep`, for the same reason, and of three steps
  of a client: it sends its request once it is connected, reads the answer that
  is there, and gives up when the compositor is gone.  The first is the
  assumption that `ipc_send_msg` (`src/ipc.c:15-47`) keeps; a client that
  connects and never writes does block the compositor.
- `ErrorBar`: time passes, and the handler of an expired timer is run.

The other modules check safety only: what windows do is up to clients and the
user, who need not do anything, and every handler is a single action.

## What is proved

TLAPS proves the following for every value of the constants that satisfies the
modules' assumptions: any set of windows, keyboards, bindings, files, clients,
panels and outputs, trees of any size, any areas and gaps, any number of
workspaces from two up, any set of focus policies, any set of bound actions, any
duration and clock width.

**`Layout`.**  The inductive invariant (`TreeIsInductive`) is `NodeTree`: the
paths of the tree are those of a finite full binary tree, splits carry no
window, and every leaf carries one unless the tree is an empty root.  A split is
described by what it does to every node (`SplitFacts`).  A removal is a *pruning*
(`Prunes`): some leaves stay, the nodes with one of them below are live, a node
with two live children is kept, and `at` says where each kept node goes, one
level up for every ancestor that has collapsed.  `at` is a recursion from the
root down; the lemmas show that it is one to one on what is kept, that what is
kept becomes a full binary tree, and that a leaf above another never results.
The theorems are `TreeAlwaysWellFormed`; `LayoutIsATileSet`, the refinement: each
action is the step of `TileSet` with its name or leaves both of its sets alone;
and `OrderAlwaysKept`: two leaves part at some node, and a split or a pruning
keeps them parting, to the same sides.

**`Geometry`.**  `TilesAlwaysPartition` holds of every full binary tree, every way its splits run, any area with integer sides
and any gap; the invariant of `Layout` says that no other tree is reachable.  The
halves of a box are apart and inside it (`ChildBoxFacts`, `SiblingsFacts`), also
when rounding towards zero makes one of them negative; so two leaves are apart
since they are below the two children of the node where they part.  A leaf that
has room is below nodes that all have room (`BelowIsWithin`), so that passing
over an empty node loses none.  Without a gap the areas of the halves add up to
that of the box, and hence those of the leaves to that of the root
(`AreaIsFilled`, by way of the lemmas on sums).  For the search it is shown
that at every node it returns a nearest leaf of those below that fit
(`SearchIsNearest`).

**`Placement`.**  `PlacedTreeIsATree`: keeping boxes changes nothing of the tree,
so that what is proved of `Layout` holds here.  Its invariant `PInv` adds that
every node has a box, and that while the workspace is arranged the boxes are
those of the tree at hand, as far down as there is room (`Settled`): each handler
that changes the tree ends in an arrangement.  With `SearchIsNearest` it gives
`DirectionAlwaysFindsNearest`, under the premises of the property: an arrangement
in force, and room for every node.

**`Desktop`.**  The inductive invariant `IInv` (`Inductive`) consists of the
types, `LinksOK` and `FocusOK`.  `LinksOK` is `LinkedOnce`, `ListedTiled` and,
without late mapping, `TilesLiveAtHome`.  These support each other: a window
can be added to a list only because it is in none, which needs `LinkedOnce`,
and sending a window away keeps `ListedTiled` because the tile removed is that
of the window unlinked.  `FocusOK` has the keyboard's window activated, the
activated windows alive, and, without late mapping, the keyboard's
window remembered by its workspace.  Liveness is needed for the last of these:
a dead window's address may be given a new home by the next toplevel, which
would disturb it.  Of `hovered_toplevel` `IInv` claims no more than its type.  The
proof has a lemma for each action, and below them lemmas for the operators the
actions share (`FocusToplevel`, `PointAt`, `Rearrange`, `Unlink`, `Cons`,
`Neighbour`).  The monocle cycle is a pair of steps taken once per output,
proved by `CycleOnceStep` for one of them and applied twice.

From `IInv` follow `TypeCorrect`, `AlwaysLinkedOnce`, `AlwaysListedTiled`,
`KeyboardAlwaysActivated`, `FocusAlwaysLive`, and under `~LateMap` `TilesStayHome`
and `KeyboardAlwaysRemembered`.  `EveryWorkspaceIsATileSet` is the refinement: for
each workspace every handler is a step of `TileSet` or leaves its sets alone,
with late mapping too.  `CycleAlwaysVisitsNext` has the premises `~LateMap`, since
the cycle starts from the window that is remembered, and `Outputs # 2`, since a
second output makes it skip one.  `OnlyCyclingFaults` and `ScreenAlwaysRight` have
the premise `Session`, which says what the run `desktop_session` says in its
configuration: windows are mapped at home, none is sent elsewhere, and
workspaces that are switched to exist.  Each part is needed: without any one of
them TLC finds `NoOtherFault` violated.  Both are about dereferences: `aborted`, the
`free()` of a layout's root, is the other end such a session can come to.  Their
invariant `SessionInv`
adds to `IInv` that a workspace only remembers live windows of its own, and
`ScreenOK`: the screen shows nothing of other workspaces, all listed windows when
tiling, and at most one in the monocle.

**`Seat`.**  `IInv` (`FocusIsInductive`) says that the lists agree with the homes
of the windows, and of the seat (`Good`): the keyboard's window is remembered by
its workspace, a workspace remembers only windows of its own, the pointer's
window is in the workspace on display, the layer surface that is remembered has
a role and is the one with the keyboard if one has it, and a surface with the keyboard
exists.  The
operators of the seat are proved one by one to keep `Good`, so that an action
is a chain of such steps.  The theorems are `LayerFocusAlwaysSound`,
`InputAlwaysSound`, and the action properties `NoShapeEverLeft`,
`KeyboardAlwaysHandedBack` and `LayerAlwaysKeepsKeyboard`.

**`Outputs`.**  `IInv` (`PanelsAreInductive`) adds to the types that a panel which
has a display is linked to one that is there, that an output which has gone
has neither panels nor an area, and that each area is what some size leaves of
the panels' claims.  A change to one panel changes the sum for its own output
only, which is what keeps the areas of the others right.  The
theorems are `PanelsAlwaysHoldTheirSpace` and the action property
`WindowsAlwaysClear`, of the step in which a panel changes its claim.

**`Keybindings`.**  `IInv` consists of the types of the other variables,
`TableOwnsHeap`, `RepeatWhileHeld` and `ClientKeysHeld`.  The fact on which
`TableOwnsHeap` rests is `NewEntriesAreFree`: what is allocated while the old
entries are set aside reuses none of their addresses, so that neither freeing
the old ones nor putting them back touches a new one.  Two theorems are action
properties: `FailedReloadAlwaysKeeps` follows from the same fact,
`GoodReloadAlwaysHeals` from the entries being one for each key.

**`ConfigWatch`.**  `NoMissedChange` speaks of moments when no handler runs;
it is not inductive, since an editor may save while one does.  `IInv`
(`ReloadsAreInductive`) says what a running handler has done: it is about to
watch the main file, or to read it, or has found it to end before its includes, or has `Steps2 - k` steps on included
files left; so far each watch is charged to a mention of its own that it has come
to (`Phase`, `Charged`).  Every watch on the present inode of its file is `Fresh`: it has
fired, or its file is still to be read, or the version loaded is the present
one.  The order of the two system calls is what keeps this true: the read
that follows a watch finds all that the watch did not see.  `InodesWritten`
keeps a new inode from being one that is watched already.  From it follow
`ChangesNeverMissed` and `WatchesNeverPileUp`: the charges are one to one.

**The services.**  `RampsAlwaysOwned`, which like the property excepts outputs whose reset was
skipped or refused: the invariant adds to `RampHasOwner` that a
live control has an output that is there.  `InhibitionIsExact`: the count is the
cardinality of the set of inhibitors.  `BarAlwaysOnTime`: a bar's age is at most
a period and a delay over its duration, so that the unsigned difference of
clock and start is the age (`ElapsedIsAge`), around the wrap of the clock too;
without `Duration + Period + MaxLate < Width` this would be false.
`ServicesAreIndependent`: the composition of the three implements each of them.
`ServerAlwaysSound`: `IpcInv` says of each connection (`ConnOK`) whether it waits in
the queue, is the one served, or is neither, and that the queue holds no client
twice; the registry fits its array because the capacity is doubled when it is
reached.

Recursions are reasoned about by extremal counterexamples.  Where an induction
over paths, trees or finite sets is called for, a proof takes a shortest or
deepest path, or a smallest set, of which the claim is false, and shows that
there is a shorter, deeper or smaller one (`ShortestPath`, `DeepestPath`,
`SmallestSubset`).  That the recursive functions exist at all is proved the same
way (`PathRecursion`, `LeafRecursion`, `AddsExists`).  No module declares a
`RECURSIVE` operator.

Only model-checked: liveness under fairness (`ConfigSettles`, `ClientsReleased`,
`BarGoes`), which is out of the prover's reach, and the three properties of
`Options`, whose `Load` is a fold of one operator over the options of two files.

## What is not modelled

- Interactive move and resize, which reach floating windows only, and no window
  is ever made floating; maximize and fullscreen requests, which only
  acknowledge; popups and decorations, which forward one request each.
- Drags and pointer axis events; modifier events; pointers' and keyboards'
  capabilities.
- The geometry of borders, drawing and frames; transforms and scale of outputs;
  of a monitor's entry, all but mode and position.
- The parsing of colours and of key names; environment and cursor options of
  the start; files that include each other, which are read without end.
- `spawn`, `quit-compositor` as a binding, the creation of the library objects
  at startup, and what plugins do beyond aborting, quitting and setting the
  decoration mode.
- Late mapping and windows sent elsewhere in `Seat`; `Desktop` has them.
- Allocation is taken to succeed, but for the array of plugins.

## Plan

Done, in this order: `TileSet`, `Layout`, `Desktop`, `Desktop_proofs`,
`Keybindings`, `Keybindings_proofs`, `ConfigWatch`, `Geometry`, `Seat`,
`Outputs`, `Gamma`, `Idle`, `ErrorBar`, `Ipc`, `Options`, `ConfigWatch_proofs`,
`Services_proofs`, `Seat_proofs`, `Outputs_proofs`, `Data_proofs`, `Layout_proofs`,
`Placement`.  Next:

1. `Options`: `ModeAsAsked`, by what `highest` and `nearest` are of every prefix of
   the list of modes; then `LastWordWins` and `ChangesShowHere`, by an invariant of
   the load after each of its steps: where it has stopped, and for each option
   which file has had the last word on it so far.
2. One specification of the keyboard's owner that `Desktop` and `Seat` both
   implement, and the proof that they do.
