# dwm-dunc in TLA+

A verification development for dwm-dunc, a fork of the dwm window manager for
X11 (`src/dwm.c` and its helpers). It models how the window manager keeps track
of windows: the lists they are on, which one is selected and gets the keys, which
tags are in view and with which settings, where the layouts put them, what
fullscreen, swallowing, class stacking and monitors that come and go do to them;
the alt-tab switcher and the bar; and the IPC server, which answers other
processes and tells them what changes. TLC checks the models on small instances,
TLAPS proves the properties that matter most for any number of windows, monitors,
tags and peers.

Line numbers refer to `src/dwm.c` unless a file is named.

## 1. The system

dwm is one process with one thread. `run` (17736) waits in `epoll_wait` for the
X connection, the IPC socket, its clients and a signal pipe, and runs one
handler at a time to its end. A handler never waits for another one, so a
handler is atomic towards the rest of the program. What is not ordered is the
world it reacts to: X clients map, unmap and destroy windows when they like,
the pointer may be over any window or monitor when a command starts, events
arrive about windows that have since been hidden, left the view or gone,
screens are unplugged, and IPC peers connect, stall and vanish. Some handlers
(`movemouse`, `altTabStart`, ...) run an event loop of their own. And `xerror` is
called from within any X call.

### Inventory

| Component | State | Operations | Behaviours that are hard | Module |
|---|---|---|---|---|
| Client lists | `m->clients`/`c->next` (layout order), `m->stack`/`c->snext`,`sprev` (focus order), `c->mon` | `attach*`, `detach*` | nothing validates a link: each handler must detach and attach exactly once, on the right monitor | ClientLists |
| Selection and focus | `selmon`, `m->sel`, `m->focusontag[]`, the X input focus | `focus`, `getfocusable`, `setfocus`, `focusmonex`, `guessnextfocus`, `sendmon` | remembered pointers used long after; two notions of focus that move at different moments | Focus |
| Handlers | all of the above | `manage`, `unmanage`, `view`, `tag`, `tagmon`, `focusstack`, `zoom`, `hidewin`, `enternotify`, ... | the pointer selects another monitor at the start of a command; urgent clients; clients that vanish | Handlers |
| Tag views and per-tag settings | `tagset[2]`, `seltags`, `pertag`, the monitor's copies | `viewmontag`, `toggleviewex`, `setmfact`, `setlayoutex`, `togglebar`, ... | two copies of each setting, two indices that must move together | TagView, Views |
| Class stacking | `c->stackhead`, `isstackhead` | `attach_stackhead`, `arrangemon_process_classstack`, `groupallclassstacks` | a second order woven into both chains | Stacking |
| Parents, groups, modal clients | `parent`, `ultparent`, `prevsel`, `ismodal` | `getparentclient`, `modalgroupclients`, `focus` | raw pointers to clients that go; recursion in `focus` | Stacking, Lifecycle |
| Terminal swallowing | `c->swallowing`, `c->dormant` | `swallow`, `unswallow`, `termforwin`, `xerror` | a client that is on no list; windows that change hands; errors that arrive in the middle of a handler | Lifecycle |
| Fullscreen states | `isfullscreen`, `fakefullscreen`, `oldstate`, `oldx`... and `_NET_WM_STATE` | `setfullscreen` and its callers | the state has two masters, the window's property and the window manager; a bit-lock on what is saved | Fullscreen |
| Monitors | `mons`, `pmons`, `enablesplit`, `c->monindex` | `updategeom`, `updatevirtualmonitors`, `updateclientmonitors`, `cleanupmon` | clients and pointers into monitors that disappear and return | Monitors |
| Layouts and gaps | gaps, `mfact`, `cfact`, `nmaster`, `mirror` | the thirteen layouts of `vanitygaps.c`, `setgaps`, `setmfact`, ... | remainders, pixels that are lost or taken twice | Layouts, Tiling |
| Alt-tab switcher | `altTabN`, `altsnext`, `highlight`, the views it changes | `altTabStart`, `altTab`, `highlight`, `altTabEnd` | a nested event loop over clients that may go away, and previews to undo | AltTab |
| Bar, status, tray | `m->bar[]`, `m->tagw[]`, the status text, the tray's width | `drawbar`, `updatestatus`, `buttonpress`, `seturgent` | a click is resolved against sizes the last draw left; partial draws | Bar |
| IPC server (`src/ipc-patch`) | connections, subscriptions, buffers, the epoll interest, the state told last | `ipc_read_client`, `ipc_write_client`, `ipc_send_events`, ... | batch events that are out of date when served, requests in pieces, slow and vanishing peers | IpcServer |
| Session persistence | window properties, the layout file | `setclienttagprop`, `scan`, `manage` | a restart between two changes | in Fullscreen, Lifecycle, Monitors |
| Mouse drag loops | the client held by the loop | `movemouse`, `resizemouse`, `dragfact`, ... | nested event loops | not modelled |
| Process control | `c->pid`, pause state | `killclient`, `terminate`, `pausegroup` | signals to a process that ended | not modelled |
| Main loop, signals | `running`, `restart`, closing countdown | `run`, `sighup`, `sigterm`, `sigchld` | | not modelled, see 6 |
| Rules, JSON configuration, expression parser | rule and layout trees | `applyrules`, `parselayoutjson`, `parsemon` | text | not modelled |

What makes each correct: lists, that both chains hold the clients of their
monitor and nothing else; selection, that every remembered pointer is to a live
client of the right monitor, that what is selected can be seen and that keys go
to nothing else; handlers, that they disturb only what they are about; views,
that the settings in force belong to what is shown; class stacking, one tile for
a class; swallowing and fullscreen, that what was saved is given back exactly
once; monitors, that no client or pointer is lost with its monitor; layouts, that
windows neither overlap nor lose a pixel; the switcher, that it leaves nothing
behind; the bar, that a click hits what is seen; IPC, that each request has one
answer, each subscriber each event, and no peer blocks another.

`PROJECT.json` lists the hazards line by line, with the properties that cover
them.

## 2. Modules

```
ClientLists  <-  Focus  <-  Handlers  <-  MCHandlers          (model, TLC)
                   |  \         |
                   |   Stacking <- MCStacking
                           Handlers_proof                     (TLAPS)

Views  <-(refines)-  TagView  <-  MCTagView    Sums  <-  Lines  <-  Layouts  <-  Tiling  <-  MCTiling
                        |                                                           |
                        +----------------------  Settings_proof  -------------------+  (TLAPS)

Sublists  <-  Monitors  <-  MCMonitors       Sublists  <-  IpcServer  <-  MCIpcServer
                 |                                             |
              Monitors_proof                               IpcServer_proof   (TLAPS)

Fullscreen  <-  MCFullscreen            Sublists  <-  Lifecycle  <-  MCLifecycle
     |                                                   |
Fullscreen_proof                                      Lifecycle_proof        (TLAPS)

Bar  <-  MCBar                          Sublists  <-  AltTab  <-  MCAltTab
                                                        |
                                                     AltTab_proof           (TLAPS)
```

Orders_proof, about naturals, loops, sublists, sums, divisions, and rows and columns of
rectangles (Lines), is under Handlers_proof,
Settings_proof, Monitors_proof, IpcServer_proof, Lifecycle_proof and AltTab_proof.
Settings_proof extends both TagView, which keeps a tag's settings, and Tiling, which
arranges windows by them; the names of Tiling's own specification begin with `Tiling`.

The MC modules hold the values of constants that a .cfg cannot write, and
symmetries; the configurations replace no definition.

**ClientLists** has the state of the window manager as one record and the list
functions as operators from record to record. A C function that changes global
state is an operator `F(s, args)`, and a handler is the composition of those
operators in the order of the code. That is the shape of the code (functions
over globals that call each other), and it is what lets a lemma about a
function be cited wherever it is called. A chain is a sequence; `None` is NULL.

**Focus** adds the functions between lists and handlers. `guessnextfocus`
picks a client by geometry (what the pointer is in, what overlaps); the model
takes the set of all clients it could return.

**Handlers** has one action per command and event handler over the single
variable `wm`. Each command has the pointer's monitor `pm` and the client under
it `at` as inputs, since most commands start with `checkmouseoverclient` or
`checkmouseovermonitor` and change the selection before they do anything else.
A new window's attributes (monitor, tags, floating, minimized, autofocus, newmaster,
urgent), which rules, hints and its own state set, are inputs of `Manage`. A client may
also minimize itself, by a message (`HiddenMessage`, 4925) or by writing its state
(`HiddenProperty`, 24351); both call `sethidden` and leave the selection where it is, so that
a selected client may be minimized and `viewmontag` may remember it for a tag.

**Stacking** builds on Focus and regroups the chains behind the handlers' backs.
Its record has in addition `head` and `heads` (`stackhead`, `isstackhead`),
`modal` and `fault`. `arrangemon_process_classstack` and `modalgroupclients` relink
`next`, `snext` and `sprev` in place, following pointers they are changing; the
model does it on the sequences, and sets `fault` where the code's relinking
leaves a chain that is no sequence any more. No handler runs after a fault.

**Views** is the abstract view of a monitor: what is shown and what was shown
before. **TagView** is how the code keeps it, `tagset[2]` and `seltags`, and the
settings that go with it: `pertag`, one entry per tag and entry 0 for the view
of all tags, `curtag` and `prevtag`, and the monitor's own copy of the settings
in force. TagView implements Views (`ImplementsViews`), and Handlers uses the
view in the form of Views (`wm.view[m].cur`, `.alt`).

**Layouts** has the thirteen layout functions as functions from a monitor's
settings to the sequence of rectangles of its tiled windows, with the integer
divisions and remainders of the code, on the rows and columns of **Lines** and the sums of
**Sums** (`getfacts`). The rectangles are what a layout asks of `resize`, the least size of a
window included; `FlippedCut` keeps that a mirrored `bstackhoriz` turns a window by a float
and by the height before the least size (418-424 of vanitygaps.c). **Tiling** has the commands
that change the settings and the clients that come and go. Each command ends in `arrange`:
`asked` is what the layout asks for with the new settings, and `rects` what comes of it, since
`applysizehints` (3688-3695) pulls a window that would begin past the right or lower edge back by
the size it *had* (`PullBack`), which depends on the command before. `Sizes` is that size; it
counts the borders that `resizeclient` gives to a window alone on its tag (16577).

**Fullscreen** has `setfullscreen` with the four combinations of `isfullscreen`
and `fakefullscreen`, and everybody who calls it. `prop` is what the window's
property says, `notify` the PropertyNotify on its way, `msg` the client message
that `togglefullscreen` sends to itself through the X server. `cl[c].old`, `saved`,
`lock` are what the client was before. A restart forgets what is not in a
property and reads the rest back.

**Lifecycle** treats clients as cells that are allocated, freed and used again
(`Ids`), and windows as things of the X server (`xs`), which dwm hears of from a
queue. `swallow` moves a window from one cell to the other; `xerror` makes a client
dormant and `arrange` frees it. The managed clients are one sequence, oldest first,
which stands for the order of `c->index`; what is unlinked from it is `Only`.

**Monitors** has the screens the X server reports, the physical monitors, the list
of monitors made of them, and for each client the monitor it is on and the one it
wants (`monindex`). `updatevirtualmonitors` and `updateclientmonitors` are operators
on a record, composed in `updategeom` as in the code. Each loop of the code is a
recursive function from the number of rounds done to the record they leave.

**Sublists** has `Only(q, S)`, what is left of a list when the elements outside S are
unlinked, and the messages of one kind in a stream of several.

**AltTab** is the switcher: `altTabStart` collects the clients and then reads the
events itself; each event of its loop is an action that is enabled while it is
open. `highlight` changes the view of a monitor, `before` (a history variable)
remembers what the properties compare with.

**Bar** has the elements of the bar with their place and width, and `shown`, what is
seen at each pixel, as `drawbar` leaves it: from a pixmap whose earlier content is
unknown (`"old"`). Text is a number of pixels.

**IpcServer** has the main loop, the server's side of each connection, the socket
between and the peers. Where the other modules have atomic handlers, this one is
about what happens between them:

- `EpollWait` takes what is ready into `ready`, the batch that `epoll_wait`
  returned; the loop serves one source after the other (`AcceptClient`,
  `HandleHup`, `HandleOut`, `HandleIn`, `XEvent`, in any order), and a peer may act
  between two of them, so that an event may be out of date when it is served.
  HUP is looked at first, then OUT, then IN (1477-1496 of ipc.c).
- `Ask`, `Mute`, `Subscribe`, `Unsubscribe`, `RunCommand` and `ReadFailed` are what
  `ipc_read_client` and `ipc_handle_client_epoll_event` do with a request: a get
  request or one that is refused has one reply, one that cannot be parsed has
  none, a header without the magic string ends the connection.
- `accept` (1086) makes a blocking socket and only `FD_CLOEXEC` is set on it, so a
  read waits for the rest of a request (`Whole`) and a write for room (`Cap`). The
  unit of a buffer is a message; a request may come in two parts, header and
  payload (`half`). `WriteMessage` writes the buffer message by message, and the
  process stays in the write until the buffer is empty.
- `SendEvents` is one round of the loop of `ipc_send_events` over the monitors,
  with the window manager's state before it replaced by any other (`XEvent`,
  `RunCommand`): whatever a handler does, what was told and what is so are
  compared afterwards. `RunCommand` passes the monitor that was selected before
  the command, as `run` does (17797).
- `Connect`, `Send`, `Finish`, `Receive` and `Close` are the other processes'. A
  peer of `Leavers` may go at any moment, another one when it has its answers and
  no subscription (`Settled`).

The client that an event names as selected before may have been freed: `WinOf` then
gives its window or `Junk`.

### What the modules leave out

Drawing, warping, colours and the text that clients share with the rules are left
out everywhere. What each module cuts off, beyond the components of section 6:

- *Handlers*: the clients are ordinary windows: none is a desktop, panel, ignored,
  game, modal, sticky, fullscreen or dormant one, no two share a window class,
  none has a parent, none is swallowed, `switchonempty` is 0, and the layout of a
  monitor (monocle or tiling) is fixed during a run. Under that profile the
  branches left out are those whose guards are false. `HideOthers` has a guard the
  code lacks: `hidewin` with an argument reads `selmon->sel->mon` (10165) before it
  tests that there is a selection.
- *Stacking*: one monitor (a client that is sent to another one and back returns
  with its mark `Away`), families are given and parents outlive their children, a
  modal client has a parent, and clients never move to another class.
- *TagView*: `nmaster` is unbounded in the code and stopped at `MaxNMaster`.
- *Tiling*: size hints are not obeyed by tiled windows (`resizehints` is 0 in
  config.def.h); products with `mfact` and `cfact` are cut to integers where the code
  cuts them, the rounding of floats itself is left out.
- *Fullscreen*: one dimension, monitors of one width; a client whose restored width
  is negative is not sent on to another monitor; the other states of the same
  property (sticky, hidden, urgent) are left out.
- *Lifecycle*: one monitor and one tag; the client focused next is any; a window's
  id is not used again; no terminal is found gone while a window is being mapped;
  at a restart no window unmaps itself during the scan; `Hasty` windows may unmap
  themselves while they are being managed, `Remaps` map themselves again.
- *Monitors*: at most `AtOnce` screens go at once (see 4); transients belong to
  clients that are not transient; rules are not asked again at a restart; the
  direction of a split is fixed.
- *AltTab*: `Early = FALSE`: the X error about a closed client comes after the
  highlight has left it, and a list that is empty is not opened (see 4); the
  mouse's popup is a set of rows.
- *Bar*: one bar, `TagBar` in every layout, no icons on it, no monitor fixed for the
  status; the tray is where the selected monitor's status is.
- *IpcServer*: the layout and state events (the same comparison as for the tags),
  the title event (no caller), `ipc_cleanup`, system calls that fail.

## 3. Runs

Eleven runs show that properties hold, one shows a disagreement between the code
and what is said of it. Fairness is assumed in `ipc` and `fullscreen` only; in a
window manager nothing else has to happen unless a user or a client acts.

| Run | Instance | What it shows |
|---|---|---|
| `handlers_monitors` | 2 clients, 2 monitors (one monocle), 2 tags, one client that may float, viewontag | both chains agree with `c->mon`, no stale pointer, selections and keys on the screen, selections kept, a quiet map and unmap |
| `handlers_order` | 3 tiled clients, 1 monitor, 2 tags, toggled views and tags, one client that may be minimized, by a command or by itself | no blank view, a handler reorders nothing but the client it moves, and selects no client that is minimized or out of view |
| `tagview_toggle` | 2 tags, two configurations, all masks of view, toggleview, all commands | the copy follows the store, other tags' settings are kept, two slots implement the view |
| `stacking` | 2 clients of class a, 1 of class b, a dialog of the first that may be modal, 2 tags | one tile per class, chains whole, a modal dialog is focused in place of its family |
| `stacking_lost` | the same | disagreement, see 4 |
| `tiling` | 13 layouts, 131 x 117 pixels, up to 6 windows, 0 to 2 masters, gaps of four sizes, windows that come larger than the least size | nothing overlaps, leaves the area or is pushed out of sight, no pixel is lost, a change moves only what it is about, `setmfact` ends on a step |
| `fullscreen` | a client that may do everything and one that is never fullscreen, 2 monitors, restarts | state kept and given back, window and window manager agree, exchanges of notifications end |
| `lifecycle` | a terminal, a program that swallows it, its dialog; 3 cells; restarts | no dangling link, one client for a window, an unmapped terminal returns, what is on the screen is managed |
| `monitors` | up to 3 screens in 5 arrangements, one split in columns, one in rows, 2 clients | the list is the screens, no client is lost, each is at home as soon as its monitor is there |
| `alttab` | 8 modes, 4 clients of 2 classes, 2 monitors, 2 tags, one client that dies | the list fits its memory, previews are put back, exactly the chosen client is selected |
| `bar` | a bar 41 pixels wide, 3 tags of which a click counts 2 as all, vacant tags hidden, 2 texts, 2 symbols, a tray of 0 or 3 pixels, 1 client | a click finds what is seen, the bar is whole, the tags' colours are current |
| `ipc` | p1 asks, subscribes, unsubscribes and leaves at any moment, p2 runs commands and sends what cannot be parsed | EPOLLOUT goes with what is queued, one reply per request in order, an unbroken chain of events, a subscriber knows what is so; only a peer that is there can hold the loop up; requests are answered if the peers keep up |

Bounds. *Handlers*: two clients are enough for every relation between a selected
client and another one; orders need a third between two, so `handlers_order` has
three. Two monitors give "here and elsewhere"; the code never tells three apart
except by direction, which `TagMon` and `FocusMon` leave open. Two tags give "in
view and not". `ViewMasks`, `ToggleMasks`, `MayFloat` and `MayHide` keep the instances
apart so that each explores one mixture completely; `handlers_order` does
not go on from states where all three clients are there and one has all tags (`FewToggled`),
though it checks them. *TagView*: `MaxChanges` is two,
one change for each of two tags, between any number of views. *Stacking*: a class
needs two clients to have a head and a member, and a third client of another class
to be between them on a chain; the faults need no more. *Tiling*: the sizes have no
common divisor with any count or factor, so every remainder occurs; six windows
fill the smallest grids with an incomplete column, and with the least sizes push windows out of the area, where
they are pulled back, and of a third master of
`centredmaster` section 4 says what goes wrong. The constraint `Bounded` keeps `cfact`, `mfact` and the gaps from all
being unusual at once: a width or height depends on them one at a time. *Fullscreen*: one
client exercises all of `setfullscreen`, the second takes the focus; more clients
only repeat either. *Lifecycle*: the longest chain of links in the code is a dialog
of a program that swallowed a terminal; three cells for three windows make every
freed cell be used again. *Monitors*: three screens are the least with a middle one
to lose; mirrored and resized ones are among the arrangements. *AltTab*: four clients
make a round with a middle, on both monitors and both tags. *Bar*: a pixel is a unit;
the sizes are such that the title has room or has none. `Low` stands for the eight tags of
255 among `TAGMASK` (three tags, two of them in `Low`, as the shipped nine and eight), and `Taggings` are
no client, one on a tag outside, one on exactly `Low`, and one on all. *Ipc*: `MaxRequests` bounds the
requests of a peer to two over all its connections, so two replies can be in flight
with events between them; `Cap` is 1, the smallest socket, where the second message already
waits. The buffer has no limit in the code; `MaxBuffer` stops X events and newcomers,
never the server, while a buffer is that long. Two peers are enough for one that
acts while the other is served.

Symmetry is used where clients (`handlers_order`: the two that cannot be minimized;
`monitors`), or cells (`lifecycle`), are told apart by nothing, and never in a run
with a liveness property.

Deadlock is checked but in `ipc` (a peer that leaves in the middle of a write may end
the process by SIGPIPE, a state without a step of the server), `lifecycle` (every
window may be gone), `bar`, and `stacking` (nothing is modelled after a fault).

Fairness. In `ipc`: the process runs (weak fairness of `EpollWait`, `XEvent`,
`SendEvents` and of the server's steps for each peer: the loop goes through all of a
batch before it waits again, so no event of a batch is passed over for ever). Nothing is
assumed of the peers, since nothing in the code makes them do anything: sockets block, and a
peer that stops reading, or never sends the rest of its request, keeps the main loop, and with
it the window manager, in `write` (198 of ipc.c) or `read`. `BlockedByPeersOnly` says that nothing
else does: the loop comes round again, or the process has ended by SIGPIPE, or it waits for a
peer that is there and still owes it something (`WaitsFor`); it never waits for one that has
gone. `Answered` is about peers that keep up, and says so in its premise (`PeersKeepUp`: weak
fairness of `Receive` and `Finish`). Its other premise is `Calm`: the X connection is drained now
and then and the window manager's state settles, which is needed because of the `else if`
at 1491 of ipc.c: as long as there are events to write to a subscriber, its own
requests are not read. In `fullscreen`: weak fairness of the handler of PropertyNotify,
since the main loop handles every event it is sent. `Settles` says that if from some moment on
nobody but that handler changes anything, there comes a moment from which on no notification is on its
way and windows and window manager agree: an exchange of notifications that goes on for ever violates
it, also one that agrees now and then.

What the runs leave out on purpose: with minimized clients
`SelShown` and `KeepsSelection` do not hold (`handlers_monitors` and the theorems about them have
`MayHide = {}`): a client that minimizes itself stays selected. What still holds is that no handler begins to
select a client that is not shown (`PicksShown`, in `handlers_order`). An activation message for a
minimized client of the other monitor makes `viewmontag` focus whatever is
selected, and `focus` without a client it can focus clears `selmon->sel`. With a
never-focus client `XFocusShown` does not hold, since `focus` selects the client and
leaves the keys where they were (the theorem assumes `NeverFocus = {}`). And the X focus is not the client selected on the
selected monitor in general, since `checkmouseoverclient` selects a monitor without
moving the X focus; that is why the properties speak of the X focus by itself.
`HitsShown` leaves out the pixel at the end of each element and, where vacant tags are
hidden, the tags while a client is on exactly the tags of 255, and `HitsShown` and
`BarWhole` bars without room for the title (both in section 4).

## 4. Disagreements met

With a run:

- `stacking_lost`: `attach_stackhead` (4035) links the new client behind `h->snext` and
  takes the successor of the client it has just linked past
  (`c->snext = h->snext->snext`), so a class's old head that is not the top of the
  stack is left off the focus chain. It keeps a tile of its own, where the README
  says that class stacking makes it "true for visible tiled clients of the same class
  to occupy the same tile" (src/README.md:239-240). When the lost client is detached,
  `detachstackex` walks a chain that does not hold it. It happens with class
  stacking switched off as well.

The following were met while modelling. The models have them as the code does, or
bound them off where "bound" is said; none has a run.

Lists, focus, handlers:
- `manage` has a branch to "try to prevent focus-stealing from floating clients
  to unrelated floating clients" (12642). The branch calls `focus(c, 0)`, which
  selects the new client.
- `attachstack` wants to "keep floating clients above tiled in the stack" (4107),
  but when all clients of the stack are floating, the tiled one goes on top.
- `hidewin` with an argument reads `selmon->sel->mon` (10165) before it tests that
  there is a selection.
- In `guessnextfocus` the comparison `m->sel == c` (9822) never holds.
- `clientmessage` (4925) and `updatewindowstate` (24351) minimize the selected client and do not call
  `focus`, so that the keys and commands act on a minimized client, and `viewmontag` (24609) remembers
  it for its tag. `HiddenMessage` and `HiddenProperty` have it; no property says otherwise.

Views:
- `toggleviewex` replaces `prevtag` when the current tag leaves the view and
  does not change `seltags`, so a later `view(0)` pairs a view with the settings
  of a tag that is not in it (22920; src/README.md:84). Without toggleview this cannot
  happen: `CurStaysInView` is proved.
- `toggleviewex` says "apply settings for this view" (22925) and does not load
  `class_stacking`; `togglestacking` then keeps the copy and the store opposite, so
  `AppliedFresh` leaves `class_stacking` out.
- `cursorautohide` is documented as a per-tag setting (`config.def.h:69`) and
  stored per tag, but never loaded from there.

Class stacking and modal clients:
- `modalgroupclients` follows `s->snext` without a test and joins the two parts through
  NULL when the family is the end of the stack (12944; fault "join").
- The test whether anything has changed ignores the last client of the stack
  (8198, 12904), and the redirection of `focus` to a modal child gives up at the first
  child that is not in view (8186).
- `togglestacking` may move the selection to a head without `focus`, so the keys stay
  where they were.

Layouts:
- `deck` without masters places its windows one vertical gap too low; two windows of
  `horizgrid` ignore the inner gap, and with more the row of the masters takes the
  rest of the wrong division (about vanitygaps.c:1413); `spiral` counts the odd pixel
  twice when the last window is the 4th, 8th, ...; windows of `dwindle` and `spiral`
  that pile up are a pixel too large; the mirrored stacks of `bstack`, `bstackhoriz`,
  `dwindle` and `spiral` are two borders off. `Placed` names each of these excesses
  (`OverRight`, `OverBelow`, `OverLeft`, `OverAbove`, `Trim`).
- A window that least sizes push past the edge is pulled back by the size it had before
  (3688), onto its neighbour or short of the place it would have (`Kept` names these windows). In a mirrored
  `bstackhoriz` the windows of the stack are up to a pixel higher than their mirror image, since they
  are turned by a float (418-424 of vanitygaps.c; `FlippedCut`).
- `centredmaster` loses the pixels left over among three and more masters
  (vanitygaps.c:644).
- The comment on `setmfact` has a step "snapped to the nearest value divisible by |arg|" (19466-19468). The
  code ends on the next multiple on its way: -0.20 from 0.65 gives 0.60, where 0.40 is nearest to 0.45.
  And a step down by more than `mfact` raises it: the remainder of the negative sum is
  negative and is taken off (19497), so -0.20 from 0.15 ends at 0.20. `MfactSteps` says what the code
  does in both cases, for all steps; the instance takes both.

Fullscreen:
- A floating client that is restored on another monitor has its size capped with the
  room right of it, which may be negative (19163-19168).
- A restart in real fullscreen may return as fake fullscreen (4684), and `manage`
  reads the lock bit of the saved state from `isfloating` (12245); restarts are bound
  to moments when no notification is on its way (`Quiet`).
- `updatewindowstate` stores hidden, sticky and urgent as set even when the property
  has dropped them (24351), and its loop (24295) need not end when reading fails.

Windows that come and go:
- A swallowed terminal whose window gave an error is dormant, and `arrangemon` frees it
  (3777) while its program still names it; the terminal does not return
  (src/README.md:102). `Returns` leaves out windows that gave an error (`lost`).
- A program that unmaps itself while it is being managed leaves its terminal mapped
  without a client (`ScreenManaged` leaves out `lost`).
- When a program swallows a terminal that is not selected and takes the focus, the
  swallowed cell is put back on the stack (12633). A terminal that maps itself while
  swallowed gets a second client (bound: `Remaps`).
- `manage` finds the terminal (12081) before it arranges and uses it after (12620), when it
  may have been freed (bound in `maprequest`). `unmanage` reads `c->parent` for the next
  focus after parents may have gone.
- A crash leaves swallowed terminals unmapped; a clean restart maps them.

Monitors:
- When two neighbouring screens go at once, `pp` names a physical monitor that was
  freed (24233; bound: `AtOnce` = 1), and the loop reads `next` of what it has freed.
- A removed monitor without clients is not reported as a change; the odd pixel of a
  split monitor belongs to neither half; a rule's wish for a monitor that is not there
  is overwritten for clients that are not transient (12066).

Alt-tab:
- The loop drops every event it has no use for (21954): a window that asks to be mapped
  meanwhile is never managed, one that is destroyed leaves a client until an X error
  tells of it.
- The highlight may be a client that has been freed (20999; bound: `Early`).
- With both the flags for one class and for hidden clients, the list may be empty when
  there is a hidden client of another class: `drawTab` then divides by its length
  (21165; bound: the guard on the list in `altTabStart`).
- Previews overwrite `pertag->prevtag`; with the highlight in the bar's tabs a hidden
  client cannot be chosen by keyboard.

Bar:
- `buttonpress` counts the pixel after an element as the element's (`<=`, 4354), and so for
  the blocks of the status.
- A title narrower than the bar is high, or a status wider than the bar, make an
  unsigned number wrap (7706, 6811); the title ignores the pixels of a panel on the
  left (7418). Without `TagBar` in the layout nothing is where it is looked for.
- The tray is placed where the status was at the draw before (23998).
- Which tags are vacant is decided twice: a click leaves out clients with `tags == 255` (4375), the drawing
  those with `TAGMASK` (6709), 511 with the shipped nine tags. With `hidevacant`, a client on tags 1 to 8
  is drawn as occupying them and not counted for a click, which then goes to other tags (`Counted`
  and `Vacant`; `HitsShown` leaves this case out).
- The attention asked for by a client that is out of view and has no WM_HINTS is not drawn
  until something else is (bound: the client of the run has WM_HINTS, `Hinted`).

IPC:
- `selmon` is passed to `ipc_send_events` by value before a command runs (17797), so a
  change of monitor by the command is told with the next X event, or, after another
  command, for a monitor that is no longer selected (ipc.h:277).
- `m->lastsel` still names a client that `unmanage` has freed when the next
  `ipc_send_events` makes an event from it (ipc.c:1315, 1442).
- `ipc_write_message` documents a return "due to EAGAIN or EWOULDBLOCK" (188 of
  ipc.c) and `ipc_write_client` keeps the rest for later (1200); sockets block, so
  neither happens.
- A write to a peer that has gone raises SIGPIPE, for which there is no handler.
- Unsubscribing flips the bit (986 of ipc.c), so it subscribes who was not
  subscribed. `EventsChain` and `SubscriberKnows` leave out subscriptions with an
  unsubscribe among their requests.
- A find or get request that cannot be parsed has no reply (790, 829 of ipc.c).
  `AnsweredInOrder` is about the others.

## 5. Proofs

Everything below holds for any sets of clients, monitors, tags and peers, any masks,
layouts, sizes and configuration, from the assumptions on the constants named
in the modules (`None` is not a client, there is a monitor, tags are naturals
and there is one, masks are sets of tags, sizes are integers, ...).

**Handlers_proof.** The inductive invariant is
`IInv == TypeOK /\ ListsAgree /\ RefsValid /\ NeverBlank /\ Fits(wm, FALSE)`. The parts need each
other: a chain is edited at the place of a client found through a pointer, so a stale
pointer would break a chain; a pointer is chosen from a chain, so a chain with a
foreign client would yield a stale pointer; the lowest tag of a view is a tag
only when the view is not empty. The handlers
pass through states where the invariant does not hold: a client between `detach` and
`attach` is on no chain, and a new one is listed nowhere. The proofs therefore use a
generalisation, `Sound(s, X, Y, Z)`: the clients of X are off the layout chain, those of
Y off the stack, and no pointer names one of Z; `Good(s)` has all three empty.
`Fits(s, full)` is about selections: the keys are on the screen where no client is
of the never-focus kind, a selected client is one of its monitor, and with `full` no
client is minimized and what is selected is in view. `Fits(s, TRUE)` is kept by every handler only where no client
may be minimized, and that is an assumption of the theorems that use it. That nothing minimized is
*newly* selected (`PicksShown`) is only model-checked.
`Handlers_proof` first says what each list function of ClientLists does to these sets,
then lifts that to the functions of Focus (each keeps a good record good, and says
where it leaves selection, view and keys), and then has one lemma per action.

Theorems without further assumptions: `Inductive`, `TypeCorrect`, `ListsStayAgreed`,
`RefsStayValid`, `ViewsStayFilled`, `OthersKeepOrder` and `ComesAndGoesQuietly` (action properties). With `MayHide = {}`:
`SelectionsStayShown`, `SelectionIsKept` (an action property). With `NeverFocus = {}`:
`KeysStayOnScreen`. With both: `ActsOnScreen`. Section 3 says how the code breaks them
otherwise, so the assumptions are the weakest of their kind.

**Settings_proof, the monitor of TagView.** `IInv == TypeOK /\ AppliedFresh` is inductive: loading copies
all that `AppliedFresh` is about, and each command makes the same change to the
copy and to the entry of `curtag` (`ChangeSets`). The bar is special, as loading
toggles it through a function that also stores; `LoadKeeps` shows that what is
stored is what was there. From the invariant follow `TypeCorrect`,
`AppliedStaysFresh`, `OtherTagsKept` (an action property) and
`SlotsImplementViews` (the refinement of Views). `CurStaysInView` assumes that
toggleview is never used and needs more: each slot goes with its tag, the one in
view with `curtag` and the other with `prevtag` (`SlotsInv`).

**Settings_proof, the layouts of Tiling.** The theorems hold for any area, border, bar
height, gaps, arguments of the commands and number of windows. The invariant is `Settled`:
the settings are within the bounds the commands check (`TilingSettings`) and `rects` is what
the layout makes of them. All else is about the layouts as functions.

- What `getfacts` divides is used up: the shares and the pixels handed out one by one add up to
  the length that was divided (`EvenSplitSum`), and so do the columns of the grids
  (`LineRuns`), the rows of `nrowgrid` (`Dealt`, `RowEndsRun`) and the sides of
  `centredmaster` (`TurnsSum`).
- A row or a column of rectangles has the gap between its members, also where `resize`
  keeps one at the least size, and ends at the edge where none is kept so (`RowLevel`,
  `ColumnUpright`; as what a layout needs of it, `Columnar`, `Upper`, `Lower`).
- Two parts of a layout meet with a gap between them (`Two`, `Joined`), three in
  `centredmaster` (`CentreMeets`, `CentreApart`), cells of a grid by their column and row
  (`GridPlaces`).
- Parts that take turns or follow each other cover the sum of what each covers (`CoverJoin`),
  and a part covers one length times another (`Covers`), which gives `Fills`.
- A layout is a function of the settings, so a change of one `cfact` leaves an area alone
  whose factors it is not among (`Spared`, `AreaKept`), and the same layout with the mirror
  on is turned part by part (`TurnedAreas`, `TurnedRows`); for `dwindle` and `spiral` the
  rounds of `fibonacci` with and without the mirror are compared, one by one.

Theorems: `TilingTyped`, `LayoutsPlaced`, `AreaFilled`, `LocalChanges` (an action property of all
thirteen layouts), `MfactLands` (an action property). `LayoutsPlaced` and `AreaFilled` leave
layouts out (`WellPlaced`, and the hypothesis of `AreaFilled`), which only the run checks, on
its area. `centredfloatingmaster` gives its masters a share of the whole monitor (725-746 of
vanitygaps.c) without regard to the outer gaps, so that with larger gaps than the run's
they do pass them. `dwindle` and `spiral` halve what is left until half of it is no more than the
least size of a window, and pile up the windows that remain; for every size only
`TilingTyped`, `LocalChanges` and `MfactLands` are proved of them. The proofs also corrected the model: a window that is kept at the least size
in `tile`, `deck`, `dwindle` or `spiral` is not turned into its own mirror image
but into that of the window that was asked for (`MirrorTurns` asks `Free` of each window).

**Fullscreen_proof.** `IInv` is `TypeOK`, `StatesAgree` and for each client `Sound(c, p)`:
the lock is set exactly in real fullscreen, and then the client floats and covers its
monitor; fake fullscreen has no third state, nor its second one while the client is
fullscreen; and a client of `Never` is not. `Consistent` needs all of it, since `setfullscreen` decides by the lock
whether it stores or restores. `StatesAgree` depends on it
through the changes to `full`, each of which must publish (`PublishSafe`). Most handlers change
several clients at once, through `focus` and `arrange`; the lemmas `SetOneSound`,
`SetFull`, `FocusKeeps`, `FocusAnyKeeps` are about records, as in Handlers_proof, and each
says both that the result is sound and that what was saved is still there, so that
`NeverLoses` (an action property) comes from the same case analysis. Theorems:
`AlwaysConsistent`, `AlwaysAgree`, `NeverLoses`.

**IpcServer_proof.** Neither `TypeOK` nor `ArmedPending` is inductive alone: a
connection may be dropped while its events wait in the batch, and the server
would then read from a connection that is gone. `IInv` adds three facts:
`ReadyConn` (what the batch says of a connection is about one that exists),
`ServedOnce` (the peer being served has nothing else in the batch, so dropping it
on a failed read leaves nothing behind) and `WritePending` (a write that has begun
has something to write). There is one lemma per action; `DropKeeps`, `TurnKeeps`,
`RepliedKeeps` and `PeerKeeps` have what several of them share. Theorems:
`ServerTypeCorrect`, `ArmedStaysPending`.

What goes over the connections has an invariant of its own, `SInv`. For each peer,
`InOrder`: what it has read, the replies on their way and those owed to requests still
to be read are together the replies owed to all it asked. `Stream`: for each kind of
event a peer subscribes to, what it knows, the events on their way and what the server keeps as
told form one chain. `ToldCurrent`: what is told of the monitors the loop of
`ipc_send_events` has passed is so. A step moves a message from one of these sequences
to the next and leaves their concatenation alone, or appends at its end; `OnlyConcat`,
`OnlyHead` and `OnlyAppend` of Orders_proof say that filtering by kind goes along with
that. Theorems: `StreamsInductive`, `RepliesInOrder`, `ChainUnbroken`, `KnowsWhatIsSo`.

**Monitors_proof.** Between two events `Settled` holds: each physical monitor is
done (it has the halves its split asks for, side by side in it, in the list), the list
holds nothing else, every client and the selection is on a monitor of the list,
and each client is where it wants to be if that is there. Within `updategeom` it does
not hold: physical monitors are added, changed and removed one after the other. `Rounds(s, k, l)`
says that the first k of l physical monitors are done and the others as they were
left, so that it is the invariant of the loop over them; what is evicted goes to
another monitor of the list. `IInv` is `Settled`, that the
physical monitors are those of the screens X reports while no report is on its way
(`FollowsIn`), and that at most one is left over. That last part needs
`AtOnce <= 1`: when two neighbours go at once the code goes on with one
it has freed (section 4), so there is nothing to prove then. Theorems, all with that
assumption: `MonitorsInductive`, `MonitorsConsistent`, `WishesGranted`, `HomesStay` (an
action property).

**Lifecycle_proof.** `Good(W)` is what a record of clients keeps whatever operator
is applied: list, stack and selection hold allocated cells (`Listed`), links go to
managed clients and ultimate parents are their own (`Linked`), parents are older
(`Older`), the cell a client keeps for a terminal is on no list and keeps none itself
(`Swallowing`), and no two clients have a window in common (`Apart`). A parent that goes
is replaced by its own, which is older still, and an ultimate parent by one child for
all of them, which is why both survive `removelinks`. Each operator has a lemma that it keeps `Good`
and what it leaves alone (`Keeps`); the loop of `arrange` is proved with `Upwards`.
A handler then meets a contract, `Fits(W, o, G)`: from a good record W its outcome o is
good, the windows in G are no client's any more, and those it maps and unmaps are accounted for.

The rest is between dwm and the X server. `IInv` is `Sound` of screen, queue and clients:
a window that dwm unmapped is unmapped and no client's window (`Away`); whatever happened
to a client's window has an event still to come (`Told`); a window asks to be mapped
once, and not while it is a client's (`Asked`); dwm forgets nothing it manages
(`Known`). `ScreenManaged` needs more (`Shown`), in particular an order: the unmapping of a
swallowed terminal comes in the queue before any event of the program that stands in
for it (`Ahead`). Otherwise the program's end would map the terminal, and the old event would
then unmanage a terminal that is on the screen.

All theorems assume `Settled`: no window takes the focus while it is swallowed, since
`manage` would put the swallowed cell back on the stack, and none maps itself then
(section 4 has both). `LifecycleScreenManaged` also assumes `Calm`: no window unmaps
itself while it is being swallowed. The instance of the run satisfies both. Theorems:
`LifecycleInductive`, `LifecycleConsistent`, `LifecycleReturns`, `LifecycleScreenManaged`.

**AltTab_proof.** `IInv` says of the windows that each monitor's stack has every client
that is not freed, once, and its selection (`Good`); and, while the switcher is open,
`Open`: its list is within its memory and everything listed or highlighted is on a monitor
it shows (`Listing`), and nothing but what the switcher may change has changed since it
was opened (`Held`): a view only where its old tags are in `selTags`, a selection only
where the client was freed. `Held` compares with `before`, which makes undoing provable:
`selTags` alone does not say what the other slot of a view had.

The list is built by loops over stacks and monitors, then sorted. That each keeps every client
once is proved loop by loop (`RoundElements`, `AllGathered`; `SortedElements` counts the
predecessors of an element), as is that the second pass lists at most what the first
counted (`ListCounted`). A function over windows has a relation that it meets: `Settles`
(`arrangemon`), `Turns` (`viewmontag`, with what it notes in `selTags`), `Backs` (the loop that puts
views back). Leaving composes them to `Outcome`, of which the two action properties are the parts.

Nothing is assumed of `Early`, modes, number of tabs or classes: a highlighted
client that is freed early is read through its old fields, as in the run. Assumed:
monitors are naturals, a client has a tag, modes are sets of flags, and no two names tie.
Theorems: `SwitcherInductive`, `ListKept`, `PreviewsArePutBack`, `WindowsLeftAsAsked`.

**Orders_proof** has what several proofs need: the least and greatest element of a set
of naturals; loops, as recursive functions on the rounds (`Upwards`: what holds before the
first round and is kept by each holds after the last; `LoopRuns`: such a function
exists and obeys its equation); what `Only` picks, keeps and does with a
concatenation and with the order of what is left (`Precedes`); and what the layouts
need of sums (`Total`, `SumOf`) and integer divisions: that a length dealt out part by
part, or in equal parts with the remainder to the first ones, is used up to the last
pixel (`Dealt`, `LineRuns`, `TurnsSum`).

Induction over data is done there, without the library's induction theorems: they
take an operator as a parameter, which the provers cannot instantiate, but the claim
may be written as a set of the lengths it fails for, which has a least element
(`LeastNat`). It is why Sublists, Sums and the loops of Monitors and AltTab are recursive
functions and not `SelectSeq` or folds, of which the provers know only the definition by `RECURSIVE`.

Only model-checked: the properties of Bar and Stacking, and of Tiling what is named above.
Those of Stacking rest on the
lemmas of Handlers_proof but do not hold for any number of clients (section 4: a chain is
left broken in several ways). Those of Bar hold for the order of the elements that a layout of the bar
gives, one of many; it could be proved about and is the next candidate. Out of the prover's reach altogether: liveness and
`ENABLED` (`Answered`, `BlockedByPeersOnly`, `Settles`), and recursive operators.

## 6. What is left, and what is not modelled

The next steps, in order of what they would add:

1. Proofs about Bar.
2. What the dropped events of the switcher's loop do to Lifecycle: a composition of
   both, with the queue of Lifecycle read by AltTab's loop.
3. The mouse loops as a composition of the same kind: `movemouse` calls the handler of
   map requests from its own loop, which may free the client it holds; it also returns
   without giving up its grab when the pointer cannot be queried.
4. The persistence of tags, the order of clients and the settings of views over a
   restart.

Not modelled, and why: process control (`killclient`, `terminate`, the pausing of
processes) sends signals to processes by number, what it keeps is a flag per process
that `restack` and `setfocus` set and clear; the main loop is modelled by what it
guarantees (one handler at a time), and its epoll part in IpcServer; the rules, the
JSON readers and the expression parser are text (their effect on a new client is an input
of the actions that manage one, on a monitor an input of TagView's and Monitors' `Init`);
the system tray beyond its place on the bar is the XEmbed protocol with the X server on
the other side; the tab bar, icons, drawing (`drw.c`), crop windows, barriers and warping
are geometry and resources of the X server; of the IPC server, the layout, title and
state events, `ipc_cleanup`, system calls that fail and the text of the messages.
