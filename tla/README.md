# Jack Graph in TLA+

A specification of Jack Graph (a patchbay for JACK and the ALSA sequencer that can also start and
stop jackd), checked with TLC and, for the parts where that matters most, proved with TLAPS. Paths
are relative to the repository's `src/`.

## The system

One process, one main loop (`platform/x11window.cpp`), and three kinds of activity that the loop
does not control: JACK's notification threads, child processes and the signals of their exits, and
the user.

| Component | State | Operations | Talks to |
|---|---|---|---|
| Wake pipe (`platform/wakepipe.cpp`) | the pipe, `gPosted`, the watched pids | `post` (any thread), `onSigchld` (signal), `watch`, `forget`, `drain` | turns bytes into calls of App's handlers |
| JACK client (`JackClient.cpp`) | the handle, `m_server_gone`, three callbacks, the port list | `connect`, `disconnect`, `scan_ports`, `connect_ports`, the callbacks JACK runs | called by App; calls back on JACK's threads, which set App's flags and `post` |
| Server control (`JackServerControl.cpp`) | `m_child_pid`, `m_is_child`, the pid file | `spawn`, `is_running`, `owned_alive`, `request_stop`, `force_kill`, `child_exited`, `forget_owned`, adoption at start-up | processes; the wake pipe reports exits |
| App (`app.cpp`) | the operation in flight and its ticks, the reconnect poll, the refresh timer, the flags, the settings window | handlers of posts, descriptors, timers, buttons | everything |
| Canvas (`graphpanel.cpp`, `ClientBox.cpp`) | nodes, boxes, saved positions, cables, the gesture in progress | refresh, layout, press, release, motion | asked by App to rebuild; asks App to connect and disconnect |
| Settings window (`settingspanel.cpp`, `gfx/combo.cpp`) | the state it shows, its fields | start, stop, apply, open and close a combo | told its state by App; calls App's hooks |
| Event loop (`platform/x11window.cpp`, `main.cpp`) | timers, descriptors, dialogs | dispatch, add, remove, close | calls every handler |
| Configuration (`Config.cpp`, `platform/fs.cpp`) | the settings, a file | setters, load, save, write, read and remove a file | App, settings window |
| ALSA client (`AlsaClient.cpp`) | a sequencer handle, its queue of announcements | connect, drain, list ports and connections, (un)subscribe | App |
| Toolbar (`chrome.cpp`) | the pill pressed | press, release | App divides presses and releases between it and the canvas |
| About card, drawing, fonts | hover | drawing | nothing |

What is hard about it, and what each component has to get right:

* **Wake pipe.** Nothing may be lost between a thread that posts, a signal that is not queued, a
  pipe that may be full and a loop that goes to sleep; no exit may be reported twice, or of a child
  that lives; a pid may be recycled once its child is reaped.
* **Client and server control in App.** Notifications arrive after what they are about has changed
  (a new client, a new child). A poll, a start and a user's button run into each other. An
  operation must end even if jackd neither answers nor exits. What the program believes it owns
  must be a jackd, and must be what it recorded for the next session.
* **Settings window.** Its buttons reflect a state pushed to it earlier, which may be out of date
  when they are pressed. A push may come while a popup is open or a button pressed, and a card may
  go while it is chosen. What Apply Live saves must be what the server took, and what the fields
  of a running server show must be what it was started with.
* **Canvas.** The server decides when everything is rebuilt, also in the middle of a gesture.
  Positions survive rebuilds and absences of a client; only the user's hand and the Refresh pill
  change them. No cable is drawn that the server has not.
* **Ports and cables.** They are read one by one from two systems that go on changing; JACK
  announces a port's end too early, the sequencer's queue overflows, addresses are reused.
* **Stereo pairing.** A loop that relocates and rescans must make progress on every input.
* **Event loop.** Lists that handlers change while they are being walked; a busy connection; dialogs
  that close themselves.
* **Configuration.** A crash or an error in the middle of a save, a save in the middle of a load;
  values that do not parse; device names that mean another card later.

## The modules

| Module | What it specifies |
|---|---|
| `Mailbox` | what the wake pipe promises: a set of pending notifications, each delivered once; an exit reported once |
| `WakePipe` | `wakepipe.cpp` at the grain of memory accesses and system calls, with App's flags around it |
| `JackServerControl` | the owned jackd, its pid file, and the processes of the machine |
| `JackClient` | the client, JACK's callbacks, the flags |
| `App` | the handlers of `app.cpp`; composes `JackServerControl` and `JackClient` |
| `AlsaClient` | `AlsaClient.cpp` and the sequencer: ports, subscriptions, announcements |
| `PortGraph` | `App::refreshPorts` and what leads to it; composes `AlsaClient` with JACK's registry |
| `StereoPairs` | `pairStereoPorts` |
| `Arrangement` | what the canvas promises about positions |
| `GraphPanel` | `graphpanel.cpp` and the toolbar: boxes, cables, gestures, refreshes |
| `AudioDevices` | the names of playback devices, and their migration |
| `SettingsPanel` | `settingspanel.cpp` and `gfx/combo.cpp`, with App's part in opening and telling the window; extends `AudioDevices` |
| `CrashRegister` | what a configuration file promises: a register that a crash may set back but not tear |
| `AtomicFile` | `platform/fs.cpp`: one file, read and replaced by processes, system call by system call |
| `ConfigStore` | `Config.cpp` on top of `AtomicFile`: setters, load, save |
| `Reactor` | what `x11window.h` promises of timers and descriptors: only what is registered, and due or ready, is called |
| `EventLoop` | `X11Window::run` with its timers, descriptors, X events and the two dialogs of `main.cpp` |

`WakePipeProofs`, `AppProofs`, `PortGraphProofs`, `StereoPairsProofs`, `GraphPanelProofs`,
`SettingsPanelProofs`, `ConfigStoreProofs` and `EventLoopProofs` hold the theorems. `MC*` modules
give the constants values for TLC; the `.cfg` files say what is checked.

Variables and actions carry the names of the members and functions they stand for
(`mServerOp`, `startServer`, `onJackdExited`). `PROJECT.json` maps each definition to its lines.

### Wake pipe

The main loop's position is `mpc`; every read, store, exchange, `write`, `read` and `waitpid` is a
step, so JACK's threads and the signal can come between any two. `TakeFlag` is one of the three
exchanges in `App::onPostFromJackThread`. A post carries no data, so the abstract state is just
which flags are up (`pending`), and for each pid whether an exit is still to be reported. A post
that finds its flag already up, and everything the pipe itself does, is invisible to `Mailbox`.

`WaitPid` merges the two branches of `drain` that add a pid to `exited` (reaped, or `ECHILD`); the
invariant shows that a watched child is never already gone, so the second is not taken.

`MaxPosts` bounds the posts of a behaviour. It is part of the guard of `SetFlag` only; the theorems
hold for every value of it.

### App

A handler runs to its end before the next one, so it is one step. The exception is opening a
client: between `connect()` and `attachJackCallbacks()` JACK's threads already run, so the step
ends at `mpc = "attach"` and `Attach` is the rest.

* `JackClient` reads the flags as delivered once set; that is `Mailbox`'s promise.
* The shutdown callback reads `m_shutdown_callback` while the main loop assigns it. That is a data
  race; its outcomes here are that the callback is seen or that it is not (`Posting`).
* Processes do as they please: come up or not, answer, stop answering, exit or not. A pid is free
  again once its process is reaped and may be given to a jackd or to any other process. Sending a
  signal obliges a process to nothing.
* `Leave` is both the orderly end and a kill; what is left is the pid file and the processes.
* `startServer` and `stopServer` have early returns for a client already open and for a server that
  is not ours. They do not change state, and `StartOnlyWhenIdle` and `StopFollowsOwnership` say
  that the window does not offer the buttons in those states.
* `StopFollowsOwnership` is about what the program knows. Of a child of its own that is more: its
  exit is reported. An adopted jackd that exits is not missed by anybody, its pid stays owned, and
  Stop stays offered for it (`recycled_pid` shows where that leads).
* Reduced: the graph to whose ports it shows and whether it is out of date (`PortGraph` has the
  rest), the timers to whether they are armed. The wall clock is left out: a timer that is armed may
  fire.

### Ports and cables

`refreshPorts` reads the ports one after the other (`ReadPort`) and then what each is connected to
(`ReadCables`); JACK and the sequencer change between any two of these steps. `Draw` puts on the
canvas what was found. No handler runs meanwhile. Which handler starts a refresh is as in `app.cpp`:
a post after JACK's callbacks, a sequencer announcement, the button, and connecting to or losing
JACK.

* A sequencer announcement is a `"change"` or another event. The queue holds `QueueSize` of them and
  drops the rest, setting `overrun`; `drain_events` then reports a change whatever was read.
* A port of JACK is known by its name, one of the sequencer by its address (`at`). A refresh
  collects names and addresses, and asks again about each (`ReadPort`, `ReadCables`); by then an
  address may be another port's. `Draw` looks both ends of a connection up among the ports it found
  earlier (`Drawn`), and subscriptions are made and undone by address as well. The canvas is cleared
  when a refresh begins (`Clear`), and `view.of` is the system it is then drawn of.
* A subscription may be exclusive: another program keeps a port to itself. The sequencer then
  answers `-EBUSY`, which `connect_ports` takes for "already subscribed" (`Busy`).
* JACK announces that a port goes (`leaving`) while its registry still lists it. The refresh timer
  fires 100 ms after the first post of a burst and is not put off by later ones, so it may come
  before the registry has caught up (`Settle`). `lingered` is a history variable: the ports that
  the last refresh found although they were leaving.
* `connectJack` drops a client that is open already and may then fail to open another, in which
  case nothing is read. When it succeeds, ports may be in the registry whose going was announced
  before the callbacks were attached, and the server may be dead by then without anybody being told
  (`jack = "deaf"`).

So the canvas may come to rest on something that is not there. `StaleIsNoticed` and `ViewSettles`
name each such case and claim the rest; without any one of the exceptions TLC refutes them:

| Exception | When | Until |
|---|---|---|
| `Lingers` | a port, with its cables, was read between the announcement of its end and the end | the next refresh |
| `Refused` | the user drew a cable to or from a port that is kept exclusively | the next refresh |
| `Stranded` | a connect failed and took JACK's old client with it: JACK's graph is shown without a client | the next refresh |
| not `Followed` | the server died before the callbacks were attached, or there is no subscription to the sequencer's announcements | the user acts |

### Canvas

A canvas of three columns of rows; a box is one column wide and as high as its longer list of
ports. A pointer event hits anything on the canvas. A refresh may come at any time after the
server's ports or connections changed (`pending`), which includes in the middle of a gesture, and
replaces all nodes. A node is taken to be its port: a cable being drawn when a refresh comes goes
on from the port, whose dot may be elsewhere by then. `Rescanned` leaves the order of the cables
open. Pan and zoom are left out, as is `compatible` (one kind of port).

The toolbar shares the mouse with the canvas (`App::button`): a press on a pill is the toolbar's
until its release (`mPressTarget`), and a release on the pill pressed is not passed to the canvas.
`ToolRefresh` is the pill that rebuilds the graph at once; the others change nothing here.

`Arrangement` is the promise about positions (`graphpanel.h:67-71`). Its state is who is shown, the
place of every client seen so far (`LastSeen`), what the user's hand holds (`moving`) and whether
the Refresh pill is down. A rebuild (`Show`) moves no box that was ever seen; `Move` moves the box
in the hand, to where the hand is, and no other; only letting go of the Refresh pill, with nothing
in the hand, gives places up (`Forget`).

`MaxCables` bounds how many cables the user adds between two refreshes; `Grid` is where the pointer
goes. Neither bounds the theorems' statements otherwise: they hold for every value.

### Stereo pairing

A column is a sequence of ports with names; `base` maps a name to the name it belongs after, which
is never itself. One pass of the loop is one step. The initial states are all orders of all subsets
of the ports.

### Settings window

A place of the window is the control drawn there; with a popup open it is a row of the popup or
none. `press` records the target, a release acts only on the same one. `Fixed` stands for the three
combos that are treated alike. A combo's items are values; `popup` maps the combo that is open to
its highlighted row.

* `ServerChanges` is App's part: what it pushes (`pushServerState`), in the order that module `App`
  allows. `server` is what a jackd of ours was started with, and is forgotten once it is shown as
  gone.
* `Replug` gives the machine another assignment of card numbers. The names that are offered contain
  the card's id, those that 1.x saved its number; `Means` is what jackd makes of a name.

### Configuration

`AtomicFile` has inodes whose contents may be in the cache only, and a directory entry likewise. A
power cut keeps what is on the disk, of unsynced contents any prefix; the cache may be written back
in any order. Every call of `writeFileAtomic` may fail, writes and reads may be short, and a process
may be killed between any two calls. `ConfigStore` puts two runs of the program on it, which load
once and then set and save. A file is a sequence of lines; a number that is not readable is passed
over, a flag is true or it is not, and the last line of a key counts.

### Event loop

`pc` is the phase of the pass: drain the X events, reap closed dialogs, paint, sample the timers,
dispatch them, reap and paint again, look at Xlib's queue, sleep, dispatch the descriptors.
`handleEvent` ignores an X event, invalidates its window, or calls a handler of the main window or
of a dialog still listed. While a handler runs `pc` is `"calling"`; what it may do to the loop
(register, remove, invalidate, make a round trip to the X server, open or close a dialog, quit) are
actions of their own, in any order and number, until `Return`.

* The clock is left out. A timer past its deadline is in `due`; being called re-arms it.
* X events are counted, on the connection (`wire`, which `select` sees) and in Xlib's queue
  (`queued`, which it does not see). Painting and round trips move them from one to the other.
* A window object that is gone may be used again, as its address may. A dialog that is closed and
  opened again before the loop has reaped it replaces an object that the loop still lists; the
  destructor unregisters it. (The comment at `main.cpp:165` takes the window to be closed by then.)
* `mDirty` is one flag: painting takes every dirty window at once.

`MaxToken` bounds registrations, `MaxX` the X events under way. They are guards of the registering
actions and of `XEventArrives`; the theorems hold for every value of both.

## Runs

| Run | States | Bounds and why they are enough |
|---|---|---|
| `wakepipe` | 126 thousand | two posting threads, two children, three posts, a pipe of two bytes read one at a time: a full pipe, a post during every step of `drain`, an exit during it, two exits behind one signal, a recycled pid |
| `app_safety` | 1.4 million | two pids: an owned jackd with a foreign one or a second start, and recycling; each timeout two ticks: before, at and after each threshold |
| `app_live` | 53 thousand | one pid |
| `ports` | 253 thousand | an ALSA output; an ALSA port of both directions, which may be connected to itself; one that is not exported and may get its address; subscriptions that are exclusive or not; a queue of one announcement, so that the one lost may be the one that counts; an output and an input of JACK |
| `stereo` | 7 thousand | all orders of up to six names: a chain `x`, `xR`, `xRR`, a pair, a port of its own |
| `graph` | 552 thousand | a source with one port and a client with one port of each direction (so that it may be a source, a sink or both); two cells for the pointer; two pills |
| `settings` | 321 thousand | a card that stays and one that comes and goes and may take its number; one card has only a device other than 0; three saved configurations: by the number of a card, by that of one with a device other than 0, and with values no longer offered |
| `config` | 629 thousand | two runs of the program, which save and load at once; four inodes (the old file, one still read, two temporaries); a number, one of whose values does not load, and a flag; a file cut short, and one edited by hand |
| `eventloop` | 236 thousand | one or two descriptors from the start and what handlers register, so that one handler can remove what the same pass is about to call; one X event, on the wire or queued; two window objects, so that a dialog can be opened again before its old window is reaped |

What they show is stated at each property. In short: no lost wakeup and no lost exit; the wake pipe
is a mailbox; Start is offered only when nothing is in flight; Stop while a pid is owned, and no
other operation is under way; the owned child is a jackd not yet reaped; the pid file names nothing
that is not owned; a late shutdown notification does no harm; starts, stops and polls end; changes
reach the canvas, whatever is lost on the way, a canvas that is out of date has a refresh on its way
but for the exceptions above, and it shows one system at a time; a drag survives refreshes; a box
moves only in the user's hand or when Refresh is let go of, and new ones are placed clear of their
column; nothing is drawn that JACK refused; fields that are fixed are not changed by what was open
before, a saved device is found again under its new number, and Apply Live saves only what the
server took; the configuration is one whole save whenever it is read; no removed handler is called;
the loop never sleeps on an event, a dirty window or a dialog to be closed; what the program
believes of its dialogs is what is on the screen; due timers and ready descriptors are served.

### Where the code does something else than it says

Each of these is a run that TLC refutes; `PROJECT.json` quotes the sentence concerned.

| Run | What happens |
|---|---|
| `stale_child` | A jackd that has stopped answering but not exited (it is cleaning up or dumping core) leaves the window at "Stopped". Start spawns a second one; then the first one's exit is reported, and the second one's pid is forgotten and its pid file removed. TLC's shortest trace has the exit wait in the wake pipe; the same follows whenever the exit comes later. |
| `recycled_pid` | An adopted jackd is checked at start-up only. Stop signals the pid whatever has it by then. |
| `stereo_same_name` | Two ALSA ports of one name ending in `R`, next to a port of the name without it, make `pairStereoPorts` loop for ever. |

### Observations

What modelling showed besides, and no run states:

* Start does not end the reconnect poll that a server's death began, and the poll may connect to the
  new jackd first. `pollServerOp` supposes that "there is no client of ours yet" (`app.cpp:478`): it
  probes, drops that client and opens another. When the second cannot be opened, `connectJack` only
  updates the status: the canvas keeps JACK's ports without a client and, once that jackd has gone,
  without a server, although `README.md:40` says that ALSA's are shown then. This is `Stranded`;
  TLC reaches such a state of `App` (`MCApp.cfg`) in 15 steps.
* "By which time JACK state has settled" (`JackClient.cpp:205`) holds for the post that armed the
  refresh timer. A port announced as going just before the timer fires is read while it is still
  listed, and nothing follows that would take it off the canvas (`Lingers`).
* `-EBUSY` is not only "already subscribed" (`AlsaClient.cpp:207`): the sequencer also returns it
  when another program holds one of the two ports exclusively. The canvas then shows a cable that
  nobody has (`Refused`).
* A server that dies between `connect()` and `attachJackCallbacks()` is never noticed: nothing is
  posted and the window stays with a dead client until the user acts (`app.cpp:144`).
* An adopted jackd that exits leaves its pid owned and Stop offered (`app.cpp:569`).
* A pass of the loop in which the X connection has an event skips `select` (`x11window.cpp:781`). A
  stream of events without end would keep the descriptors waiting as long, and within the drain the
  timers too.
* A cable drawn across a refresh onto a port that is connected already leaves a second cable where
  the source was before (`graphpanel.cpp:667`): the server says `EEXIST`, no refresh follows.
* A jackd that exits after Stop gave up is reported as having stopped unexpectedly
  (`app.cpp:549`); a server that refuses the client leaves Start disabled when the poll gives up
  (`app.cpp:259`, `settingspanel.cpp:193`); a box whose client changed its column keeps its place
  and can be covered by a new one of the old column (`graphpanel.cpp:299`).
* The Frames field is set when "Running" is shown. It is not when the client connects after that,
  when another program changes the size, or when the size is not in the list.
* Start on a "Stopped" that is out of date, with a server running, saves settings that server does
  not have: `doStart` saves (`settingspanel.cpp:210`) before `startServer` finds the server
  (`app.cpp:424`). `SavedIfAccepted` leaves Start out for that reason.
* If the chosen card is gone when the window opens it shows "default", and Start then overwrites
  the saved choice. A device saved as `hw:CARD=x,DEV=0` by hand is not recognized as `hw:CARD=x`.
* A kill during a save leaves its temporary in the directory. The directory is not synced, so the
  newest save may be lost with the power, though never torn.
* A window size outside the range that loads is saved, and read back as the default.

## Fairness

* `WakePipe`: a callback that has begun a post finishes it, a pending signal is delivered, `drain`
  and `watch` run to their end (weak fairness: nothing disables these steps but themselves).
  `BeginDrain` is strongly fair: the loop comes back to it between other handlers, as long as it
  comes to `select` at all. That is `FdsServed` of `EventLoop`.
* `App`: JACK calls the shutdown callback; a handler that began finishes; a timer that is armed and
  a post that is pending are served although other handlers run in between
  (`TimersServed` and `FdsServed` of `EventLoop`). Nothing is assumed of the user or of processes.
* `PortGraph`: a refresh that began ends and JACK's registry catches up (weak fairness; nothing else
  disables them), handlers that are wanted run (strong fairness, as for `App`), and the end of a
  server whose callbacks are attached is noticed (`ShutdownNoticed` of `App`). `ViewSettles`
  supposes that from some time on ports, cables and the client stay as they are, and claims the
  canvas but for the exceptions above.
* `EventLoop`: the loop goes on and handlers return (weak fairness of `Loop` and `Return`; not of
  `SelectFails`). X events may arrive without end, so the two liveness properties say what they
  need: `TimersServed` that the loop leaves the drain of X events again and again, `FdsServed` that
  it reaches `select` again and again. A connection that has an event in every pass skips `select`
  (`x11window.cpp:781`) and delays the descriptors, the wake pipe among them, for as long.
* `StereoPairs`: the loop runs.
* `GraphPanel`, `SettingsPanel` and `ConfigStore` state no liveness: what they do, they do for the
  user, who owes them nothing.

## Proofs

Each `*Proofs` module has the same shape: the invariant holds initially, each step keeps it, the
properties follow from it, and the temporal theorem combines the three.

* **`WakePipeProofs`** (any sets of threads and pids, any pipe and buffer size). The properties are
  about the moment the loop can sleep. They become inductive by saying where a notification is
  while it is under way: a raised flag has `gPosted` up, a thread before its store, or a loop
  before its exchange (`FlagWillBeTaken`); `gPosted` has a byte in the pipe, a thread before its
  `write`, or a loop between the read and the exchange (`PostWillBeSeen`); likewise for a zombie
  (`ExitWillBeSeen`), with the bookkeeping of `drain` (`WatchesAreChildren`). `Refinement` maps
  every step to a step of `Mailbox` or to none.
* **`AppProofs`** (any pids and timeouts). All safety properties of the runs. `OwnedChildUnreaped`
  needs that all our children are jackds; what the window shows needs that no operation or client
  appears without it being told, for which the timers' counters must be below their limits
  (`TimersCount`). `ChangeIsDue` is the part about JACK's graph: a change that the canvas lacks has
  `mPortsPosted` up or the refresh timer armed. It needs that `mRefreshPending` is up only with its
  timer, that a client has its callbacks whenever the loop is idle, and that `m_server_gone` is
  never set while the client's server lives, since `scan_ports` then reads nothing. From the last
  follows `LateShutdownHarmless` too.
* **`PortGraphProofs`** (any ports, addresses, capabilities and queue). `OneSystem` becomes
  inductive by saying what a refresh under way has read: ports of the system the canvas was cleared
  for, since nothing connects or drops JACK before it ends (`ReadsOneSystem`). `StaleIsNoticed` says
  that no change is missed, but for the exceptions named: a canvas at rest shows what there is
  unless a refresh is due, that is, posted, pending, announced in the queue (or lost from it with
  `overrun` set), or JACK has gone. It becomes inductive with `ReadSoFar` (as long as nothing is
  due, what has been read is what there is), `CablesRun` (whoever connects connects outputs to
  inputs, and no two ports have one address at the same time) and `Announced` (a loss leaves the
  queue full, so the descriptor readable; a port that is leaving has been posted, or was read
  after that and is in `lingered`). `DrawnIsTrue` is the step from the second reading to the
  canvas: if no announcement is due, every address found is still its port's, so looking the ends up
  by address draws the connections there are. Each action is then shown either to change
  nothing that counts or to make a refresh due.
* **`StereoPairsProofs`** (any column). `BaseAt` is the least of a set of indices, which exists by
  well-ordering; a relocation permutes the column (`Relocated`, from what `RemoveAt` and `InsertAt`
  do to each index), and the loop ends only when nothing is misplaced. `OthersKeepOrder` says of any
  two ports that are nobody's right channel that the one that came first is first; it is stated
  without filtering the column, whose order would be an induction over it.
  `RelocationsProgress` is the step on which `LoopEnds` rests where names are unique
  (`OneNameEach`, which the two ALSA ports of the run `stereo_same_name` break): a relocation puts a
  port after its base and takes out of place only the port named after it, whose name is longer.
  That the loop therefore ends is an induction over the names, and left to TLC.
* **`GraphPanelProofs`** (any finite sets of clients and ports). `Arrangement` and `DragFollows`
  rest on `MovedHasPlace`: every step is one of the hand, of the pill or a rebuild that moves no
  box already seen, if the client of a box that is being moved has a place on the canvas or among
  the saved ones, and it is under the pointer, also while the client is away.
  `CablesAreWires` needs `UpToDate` (without a refresh pending the nodes are the server's).
  `ColumnsStack` is about `layout` alone: a new box begins at the floor of its column plus the
  heights of the new boxes before it, counted as sets of rows, of which one contains the other
  (`AboveIsBelow`); the boxes that were there end above the floor (`FloorIsBelow`).
* **`SettingsPanelProofs`** (any cards, fields, items and saved settings). `PanelInv` says what a
  shown window has: enabled is what is offered, every combo has a value, one popup at most. With
  `ServerInv` (a server of ours is not shown as stopped) the fields that could contradict it are
  not offered, so none of them is open, pressed or saved: `InEffect`. `SavedIfAccepted` rests on
  `PanelInv` too: a button that acts is still the one pressed and offered. `SavedDeviceShown` rests
  on `DeviceInv`: the saved name stands for the device that was chosen, through any renumbering, unless
  it is still the number of a card without an id; and on the list of devices naming each that is
  there (`OrderedLists`). That an ordered listing of a finite set exists is shown by counting the
  elements before each (`AheadCounts`), which needs no induction.
* **`ConfigStoreProofs`** (any programs, inodes, settings and lines). The inductive invariant of the
  file says how far a save has got (`ProgressOf`), that a temporary is nobody else's (`Private`) and
  that a file is synced before it has the name (`EntrySettled`), which is what a power cut relies
  on; every step of the file is then a step of `CrashRegister`. `WholeFiles` adds that what has, or
  had, the name is one save. `ConfigIsFile` shows that the configuration uses the file only as
  `AtomicFile` allows, which carries its theorems over.
* **`EventLoopProofs`** (any number of registrations, X events and window objects). The refinement
  needs that an entry of the copy that is still registered is still due or ready (`CopyIsCurrent`)
  and that a token is never used twice (`TokensAreNew`), so that it is the same registration.
  `OpenIsShown` needs that every window the loop lists belongs to exactly one dialog
  (`DialogsAreOwned`), which is also why the loop never follows a pointer to a destroyed window.
  `DoneInOrder` carries what each phase has finished to the moment of sleeping.

Assumptions: the named `ASSUME`s of the modules, which TLC evaluates: sets are what they are called
(`ConstantsAssumption`, `PidAssumption`, `PortsAssumption`, `PortAssumption`, `LoopAssumption`,
`AlsaAssumption`, `FileAssumption`), bounds are positive and `kKillTicks <= kGiveUpTicks`
(`TickAssumption`), a port's name is not its own base (`NamesAssumption`), a card has one number and
finitely many devices (`SlotsAssumption`, `FoundAssumption`), no two clients have the same place in
the order of the boxes (`PortsAssumption`: the order of their names), combos, toggles and buttons
are different controls, every default is among its items and a saved device has a name that some
version of the program makes (`PanelAssumption`), each key is saved once
and a number that loads is one that may be set (`ConfigAssumption`).

Model-checked only:

* liveness, the fair part of `MailboxSpec` included: the prover does not do fairness and
  `ENABLED`. These are `OperationEnds`, `ShutdownNoticed`, `PollEnds`, `PortChangeShown`, `LoopEnds`,
  `TimersServed`, `FdsServed` and `ViewSettles`. For `PortChangeShown` and `ViewSettles` the proved
  invariants say half of it: that what is to be shown has a handler under way (`ChangeIsDue`,
  `StaleIsNoticed`); that the handler runs, and finds rest at last, is left to TLC.

Everything else that a run checks and finds true is also a theorem.

## Not modelled

* Drawing, fonts, keys, resource lookup, X errors, the input method, packaging, `tools/`: nothing in
  them keeps state that the rest depends on.
* Pan, zoom, hit testing, hovering, scrolling, the status line, messages, labels, the tail of the
  log and jackd's command line: conversions and geometry without effect on control. (The list of a
  combo with more devices than the window has room for cannot be scrolled.)
* Several instances of the program at once share a pid file; one instance is modelled there. The
  configuration file has two.

What remains to do: the composition of `App` with `WakePipe` through `Mailbox` in one state space
(each side is checked against what it takes of the other), and a second instance at the pid file.
