# polybar in TLA+

A formal model of [polybar](../src) (at this commit still also known as
lemonbuddy): TLA+ modules that follow its C++ code, TLC runs that check them on
small instances, and TLAPS proofs, for all instances, of what matters most.

Paths are relative to the repository root, `src/`; C++ identifiers keep their
names in the modules wherever TLA+ allows it (`m_process_events`, `m_deferred`,
`m_lastinput`). `PROJECT.json` lists every run, every theorem, the lines of C++
each definition stands for, for each property one mutation of a definition that
breaks it, and the hazards of the code with the properties that watch them (the
forty that matter most; section 6 has more).

## 1. The system

polybar is one process that draws a status bar. A *controller* owns a *bar*
window and a list of *modules*; every module has a thread that watches
something (a timer, a file, a socket) or hears of X events on the main thread,
and announces changes; the controller serialises everything in an event queue
and redraws the bar. Clicks, messages on a fifo and the modules themselves
trigger *actions* and shell commands. Signals and the config watch make it end
or re-execute itself.

### Threads

| thread | code | what it does |
|---|---|---|
| main | `controller::read_events` | `select()` on X, a self-pipe, the config watch and the ipc fifo; X event handlers of bar, tray, screen and static modules run here; so do `~controller`, `~bar`, `~module` |
| worker | `controller::process_eventqueue` | takes events: redraws (`process_update` -> `bar::parse`), actions and commands (`process_inputdata`) |
| one per module | `timer_module::runner` etc. | waits, `update()`, `broadcast()`, sleeps |
| task queue | `taskqueue` constructor | runs deferred callbacks: delayed clicks and dimming steps of the bar |
| animation, mainloop | `network`, `battery`; libpulse | redraw a ramp; dispatch what the sound server sends |
| signal handlers | `interrupt_handler` | run on any of them, in the middle of anything |

### How they interact

    signals, fifo, X, config ──> main thread ──enqueue──┐
                                     │                  v
    module threads ──broadcast──> signal_emitter ──> event queue ──> worker ──> bar::parse
                                     │                  ^              │
    bar's clicks ──defer──> task queue ──button_press───┘              └──> action_router ──> modules

### Components

For each: what it keeps and does, what is hard, when it is correct, and the
module that has it.

| component | state, operations | hard | correct when | module |
|---|---|---|---|---|
| controller (`components/controller.cpp`) | `g_terminate`, `g_reload`, the self-pipe, the queue, `m_process_events`, `m_inputdata`; main loop, worker, handlers | an unprotected string written by three threads, stored before its event is accepted; an input replaces an update; the queue orders nothing between producers; handlers nest | it stops when asked, for the reason it was asked; no input blocks the next; the last change is drawn | `Controller`, partly |
| task queue (`components/taskqueue.cpp`) | `m_deferred`, `m_active`, `m_lock`; `defer`, `defer_unique`, `purge`, `exist`, `tick` | callbacks run outside the lock; `defer_unique` is two critical sections | a callback runs as often as asked, is not late; the queue can be destroyed | `TaskQueue` |
| module lifecycle (`modules/meta/`) | `m_enabled`, `m_changed`, `m_cache`, two mutexes, a runner; `start`, `stop`, `broadcast`, `contents` | `m_changed` is cleared after the build; `stop()` runs on two threads at once | teardown excludes refreshes and builds; the destructor returns; a change is drawn | `Module`, partly |
| bar: drawing and clicks (`components/bar.cpp`) | `m_lastinput`, `m_visible`, `m_mutex`, action areas, the pending click | whoever finds `m_mutex` taken gives up; delayed clicks run without it | one clicks what one sees; clicks are not multiplied | `Bar`, partly |
| bar: pointer | `m_opts.dimmed`, the dimming tasks, the cursor | a task that was called stays for another delay | dim when the pointer is away, bright when it is there | `Hover` |
| bar: window (`bar.cpp`, `utils/i3.cpp`, `utils/bspwm.cpp`, `x11/window.cpp`) | hints, mapping, stacking | the window manager acts later | what it announced is what is on screen | `Window`, partly |
| monitors (`x11/extensions/randr.cpp`, `components/screen.cpp`) | `m_monitors`, `m_sigraised`; match, purge clones, size, struts | a list that is compared only in part; events while a list is read | a change is one reload; the bar is on its monitor | `Screen`, partly |
| tags and builder (`tags/`, `components/builder.cpp`, `modules/meta/base.*`) | counters of open tags; the position in the input | nesting, repetition, raw output, errors | what is written is read; a module does not change the look of the next | `Parser`, `Tags`, `Builder` |
| renderer and cairo (`components/renderer.cpp`, `include/cairo/`) | blocks, layers, the corner mask, fonts | blocks are kept between draws; half pixels | texts and their areas do not part; what is pushed is popped | `Renderer`, `Painting`, `Fonts` |
| drawtypes (`drawtypes/`) | labels with tokens, progress bars, ramps | drawn on one thread and filled on another; boundaries | the widths, colours and values are those configured | `Drawing`, partly |
| configuration (`components/config*.cpp`) | files, lines, sections | cycles of includes and references, fallbacks | everything is read once per way to it, references are what they refer to | `Config`, partly |
| start (`main.cpp`, `command_line.cpp`) | options, positional arguments | first value wins, values of short and long options | the command line is read as the usage page says | `Start`, partly |
| ipc (`components/ipc.cpp`, `ipc.cpp`, `modules/ipc.cpp`) | the fifo, a buffer, `m_output` | the fifo is reopened after each read; messages may arrive together; actions are delivered by the worker, hooks run on the main thread | each message runs what it names; the fifo is gone afterwards | `Ipc`, partly |
| tray (`x11/tray_*.cpp`, `xembed.cpp`) | the selection, clients, `m_mapped`, `m_hidden`, a lock that is only tried | other managers, dying clients; events show a past state; who finds the lock taken does nothing | it owns the selection iff active; its clients are those in its window | `Tray`, partly |
| background manager | slices held weakly, root pixmap | slices expire; pixmaps die | the wallpaper is what is behind the bar | `Background` |
| script, command, process, io | the child, its pipe, `m_stopping` | stop while reading; lines that come together | no command is left behind | `Script`, partly |
| menu, action strings | the level; `m_inputdata` | inputs cross | a click does what is under it | `Menu` |
| mpd, bspwm, i3 | a socket, the last status | reconnection; two connections in one process; reads that cut a line | what is shown is what the service said last | `Mpd`, `Bspwm`, `I3`, partly |
| alsa, pulseaudio, network | handles; event queue, sink; last readings | two threads, one without a lock; sinks come and go | shown is heard; a step moves the volume | `Alsa`, `Pulse`, `Net`, partly |
| battery, cpu, memory, temperature, fs, backlight, date | last readings | watches that hear the module's own reads; lists replaced while drawn | shown is read | `Battery`, `Meters`, `Fs`, `Backlight`, `Date` |
| xkeyboard, xworkspaces, xwindow | the layout, desktops, the title | properties change one by one and are read later; the keyboard is shared by three threads without a lock | shown is published | `Keyboard`, `XWorkspaces`, `XWindow`, partly |
| systray module, github, counter and text modules | a placeholder; a count; a text | nothing beside a module's life | | not modelled |
| utilities (`utils/`, `math.hpp`), signals and receivers, X connection | | | | no module of their own: what has a state is with its user |
| event queue (`concurrentqueue`) | a stream per thread | no order between threads | what one thread enqueues is taken in its order | `Controller`, partly |
| logger, build files, tests | | | | not modelled: output, not part of the program |

`PROJECT.json` says under each component what "partly" leaves out.
Of `moodycamel::BlockingConcurrentQueue` the model has what `controller.cpp`
calls: an enqueue without a token goes to the stream of the calling thread
(`Streams`, `Produce`), a dequeue waits for a semaphore that counts all of them
(`Signalled`) and takes the head of any (`Take`): one FIFO per producer, no
order between them.

## 2. The modules

| module | models | how it is run |
|---|---|---|
| `DeferredTasks` | abstract contract of a queue of deferred tasks | `TaskQueue` implements it (`DT == INSTANCE ... WITH`) |
| `TaskQueue`, `TaskQueueProofs` | `taskqueue.cpp`, theorems | `MCTaskQueue` |
| `Controller`, `ControllerProofs` | `controller.cpp`, theorems | `MCController` |
| `Bar`, `BarProofs` | `bar.cpp`, `action_context.cpp`, theorems | `MCBar` |
| `Module`, `ModuleProofs` | `base.inl` and the runners, theorems | `MCParts` extends it |
| `Script` | `script.cpp`, `command.cpp` | a part of `MCParts` |
| `Mpd` | the mpd module and adapter | a part of `MCParts` |
| `Hover` | dimming and cursor of `bar.cpp` | a part of `MCParts` |
| `Tray`, `TrayProofs` | the tray, theorems | a part of `MCParts` |
| `Pulse` | the pulseaudio module and adapter, theorems | a part of `MCParts` |
| The other modules named in the table above | their components | parts of `MCParts` |
| `Tags` | elements, contexts, action blocks | extended by `Builder` and `Renderer` |
| `ProvenParts` | the parts with proofs as instances, their invariants, theorems | extended by `MCParts` |

`MCParts` puts the parts into one specification: each behaviour is one of one
part, chosen at the start. `Module` keeps its own variables; the other parts are
instances whose variables are *slots* `s1 .. s19`, so that a part that does not
run costs nothing. `PartsFairSpec` adds each part's own weak fairness. The cfg
names the parts a run looks at.

Operators whose name carries a suffix (`Notify_Nobody`, `TryLock_Ignored`) are
mistakes the code could contain. No specification uses them; substituted for the
operator without the suffix they must violate the property that is listed with
them, which shows that the property depends on that piece of code.

How state and actions correspond to the code, for the larger modules; the
others have it in their first comment and, per definition, in `map`.

### TaskQueue

The vector of shared pointers is the set `m_deferred` of task numbers; since
tasks are only appended, the order of the vector is the numeric order. The
fields of `deferred` are functions `id`, `wait`, `left`, `count`. Time is
relative: `left[t]` is what remains to `now + wait`, and `TimePasses` decreases
it together with the timeout of `wait_for`.

| action | code |
|---|---|
| `CheckActive`, `Hold`, `Timeout`, `Resume` | the worker's loop, its lock, the computation of its timeout, its waits (lines 17-38) |
| `SpuriousWakeup` | a condition variable may return at any time |
| `TickBusy`, `TickCollect`, `RunCallback`, `RunDone` | `tick()`: `try_lock`, collecting under the lock, running without it (67-91) |
| `Use`, `Lock...`, `AddLocked`, `Notify` | `defer`, `defer_unique`, `purge`, `exist`, with one step per critical section and one for the notification |
| `DestroyFlag`, `DestroyNotify`, `Join` | the destructor (40-46) |

There is one client, since only the main thread uses the queue, and it uses it
as `bar.cpp` does: `unique` is a click, `unless_exists` and `purge_if_exists`
are dimming. `called` and `total` are history.

### Controller

The event types and the force flag of an update make one event name. The
contents of all modules are a version number: `version` counts changes, `shown`
is what the last `process_update()` read. A *scenario* is a set of stimuli that
each happen once, at any time, in any order: signals, fifo messages, X events,
double clicks, changes of modules, the config file, the loss of the X server,
the end of the last module.

| action | code |
|---|---|
| `Loop`, `Readable`, `Select`, `Selected` | `read_events()`, its `select()` and the order in which it looks at the descriptors (215-330) |
| `DrainPipe`, `ReadConfig`, `ReadX`, `ReadIpc` | the four descriptors; the handlers they reach (`on(ui::button_press)`, `on(ipc::...)`, `on(ui::...)`) are part of the step |
| `HandlerStep` | one statement of `interrupt_handler()` (33-53), on a stack of frames per thread |
| `InputCheck`, `InputSet`, `InputEnqueue` | `enqueue(string&&)` (201-213), on the main and the task queue thread |
| `Ready`, `WorkerAnnounce` | the start of `process_eventqueue()`, `ui::ready`, and an update the worker announces itself |
| `WorkerLoop`, `WaitDequeue`, `GotEvent`, `Swallow`, `SwallowEnd` | the loop and the swallowing (332-400) |
| `MoveInput`, `ClearInput`, `Dispatch`, `ProcessUpdate` | `process_inputdata()`, `process_update()` |
| `EnqueueQuit`, `Join` | the end of `run()` |

### Module

`source` is the state of the world, `data` what `update()` read last, `m_cache`
what `contents()` built, `shown` what the bar was given. Several pending UPDATE
events count as one; that the worker merges them is `Controller`'s matter.
`kind` selects the runner: `timer`, `event`, `inotify`, `static`.

| action | code |
|---|---|
| `Acquire`, `Poll`, `Refresh`, `Fail`, `Idle`, `Awake`, `Loop`, `Return`, `Halted` | the runners of the meta modules: what they hold while they poll, when they refresh, that an exception halts |
| `SetChanged`, `EmitChange` | the two statements of `broadcast()` |
| `StopCheck` ... `StopRelease` | `stop()`: test, exchange, the two locks, teardown and the `check_state` signal |
| `Contents`, `Build`, `Clear` | `contents()`: test of `m_changed`, the build under `m_buildlock`, the reset |
| `HandleX`, `HandlerSet`, `HandlerEmit` | a static module's X event handler |
| `BeginStop`, `Destroy`, `Join` | `~controller()`, the members, `~module()` |

### Bar

The contents are a version number, 0 for an empty bar. `Layout` gives the action
areas of each version in the order of their ids.

| action | code |
|---|---|
| `ProcessUpdate`, `TryLock`, `Decide`, `Reset`, `Fill`, `End` | `parse()` on the worker (330-388): it gives up, compares with `m_lastinput`, resets the action context, fills it, draws |
| `Hide`, `Show`, `Redraw` | `hide()`, `show()`, and the `parse()` of `show()` on the main thread |
| `Motion` | the motion handler's `try_lock` |
| `Press`, `Dispatch`, `CheckDouble`, `Purge`, `Add`, `DeliverNow` | the button press handler (738-797): which click waits for a second one, `exist`/`defer_unique` on the task queue |
| `Collect`, `Find`, `Get`, `Forget` | the task queue thread: `deferred_fn` of a click, which looks up its area twice |

`delivered`, `acted` and `others` are history: the actions run so far, how many
of them for the last accepted click, and how many clicks were still delayed when
it came. The code has no click but the last: `m_buttonpress_btn` and
`m_buttonpress_pos` are what every call reads.

### Tray

`x` is the X server: who owns the selection, which windows exist, which are
inside the tray window, which are mapped, whose events polybar gets, and the
queue of those events. A request changes `x` at once; an event is handled later,
so the manager's variables describe a past state. `m_clients`, `clients_mapped`
and `flags` are the list of `tray_client`s, their `m_mapped` and their
`_XEMBED_INFO`; sizes are counted in icons. The tray window exists exactly while
`m_activated`. `m_mtx` is held by the worker within `refresh_window()` (`Held`;
`refresh` is what it has read by then) and else only within one step; `refused`
is history: a `reconfigure()` has found it taken, or the list of clients has
changed while the worker counted it, and nothing was reconfigured since.

| action | code |
|---|---|
| `Activate`, `Track`, `Take`, `Verify` | `activate()` and `acquire_selection()`, one step between two questions to the server; on the worker when the bar starts, on the main thread afterwards |
| `Deactivate` (in `Track`, `Lost`) | `deactivate()`: the selection, the clients' destructors, the window |
| `Reconfigure`, `Remove` | `reconfigure()` with its `try_lock` and its three parts, `remove_client()` |
| `Redraw`, `Refresh`, `Clear` | `redraw_window()` on the main thread, `refresh_window()` on the worker |
| `Dock`, `Setup` | `process_docking_request()`, split where the icon may die |
| `SelectionClear`, `Lost`, `PropertyNotify`, `ConfigureRequest`, `ReparentNotify`, `DestroyNotify`, `MapNotify`, `UnmapNotify`, `Expose`, `UpdateBackground` | the handlers |
| `SetVisible`, `Broadcast`, `TellVisibility` | the signals of `bar::hide`, `show` and `broadcast_visibility` |
| `Environment` | other trays take, give up or lose the selection by dying; icons ask, resize, unmap themselves, change their flag, leave, die |

### The parts

Below, *threads* are those whose steps interleave; what is named external is an
environment that may do anything the model of it allows.

| part | state | actions, threads |
|---|---|---|
| `Script` | the command and its process, the pipe and what `readline()` holds of it, `m_stopping` | runner (run or tail), main thread's `stop()` and destructor, worker's reaping look, the child |
| `Parser` | input, position, what was found | `parse_step()` over every input that a builder or a script may have made |
| `Builder` | open tags, what was flushed | one step per piece of a format, then `flush()` and `decorate()` |
| `Renderer` | blocks, action areas and texts of this draw and the last | modules hidden and shown, one step per element, `end()` |
| `Painting` | cairo's stack, blocks with their layers, the corner mask | `begin`, `render_text`, `change_alignment`, `end` |
| `Fonts` | the fonts loaded, the text that is left | one step per run of characters |
| `Mpd` | link, `m_idle`, the status, the SIGPIPE handler and its flag | runner, worker (actions, formats); the server |
| `Bspwm`, `I3` | the socket, what has been received, what is shown | runner, worker's actions, main thread's `stop()`; the window manager, which ends and starts again |
| `XWorkspaces`, `XWindow`, `Keyboard` | the module's copy of properties, the events under way | main thread's handlers, worker's actions, a starter thread; the X server and its clients |
| `Screen`, `Window`, `Background` | monitors; mapping, hints and stacking; slices | worker (start) and main thread; server, manager, wallpaper |
| `Hover` | `dimmed`, the delayed task, the cursor | main thread, task queue thread, worker; the pointer |
| `Config`, `Start` | frames of files, sections; options and positional arguments | one step per line, section, argument |
| `Alsa`, `Pulse`, `Net` | handles and volumes; event queue, sink, lock; readings | runner, worker, mainloop or animation thread; the system |
| `Ipc` | the fifo, its text, the hooks that run, the stored input and its event, `m_output` | main thread (messages, hooks), worker (actions, quit), `polybar-msg` |
| `Battery`, `Meters`, `Fs`, `Backlight`, `Date` | last readings, watches, format | runner, worker; sysfs, X and clock |
| `Drawing` | one label and what is left of an update | runner, worker |
| `Menu` | the level, `m_inputdata` | the thread of the click or the message, worker |

## 3. The runs

Twelve runs: four pass, eight show a finding. Every run ends within three minutes.
None looks for deadlocks, because every behaviour comes to rest (after `run()`
returned, the events are used up, the queue is destroyed, the bound of what
others do is reached); that nothing rests too early is what the liveness
properties say.

| run | shows |
|---|---|
| `taskqueue` | Calls never exceed what was asked (`CallsWithinCount`), a parked worker never sleeps past a deadline (`NoOversleep`), a name is in the queue once (`UniqueNames`), the threads implement the contract of `DeferredTasks` (`Contract`), everything deferred is called (`EventuallyCalled`), a queue destroyed with tasks in it is joined (`JoinsWhenPending`). |
| `controller` | Scenarios that end polybar in every way at once, inputs from fifo, click and double click, and changes before, during and after start-up. The outcome was asked for (`OutcomeJustified`), `run()` returns (`RequestsHonoured`), an input never blocks those after it (`InputHasEvent`, `InputsNeverStuck`), each change is drawn although updates are merged (`ChangeHasEvent`, `ChangesShown`), and a forced update stays forced or is lost only to an unforced one (`ForcedHasEvent`). |
| `bar` | Clickable is what is drawn (`AreasMatchWindow`), a click's action runs once, and once more only for each click that was still delayed when it came (`ClicksNotMultiplied`), `m_lastinput` is what is in the window (`WindowShowsLastInput`). |
| `parts` | For `Module`: nothing is refreshed or built during teardown (`QuietTeardown`), at most one refresh follows it (`LateRefreshes`), a change is drawn unless its broadcast was overwritten (`ChangeOnItsWay`), the destructor returns also when the module halts at the same time (`JoinReturns`). For the others the properties of the next table. |
| `taskqueue_exit`, `controller_early`, `controller_hide`, `module_drawn`, `bar_areas`, `tray_follows`, `script_lines`, `bar_buttons` | **Violations**: the findings 1 to 8 of section 5. |

| property of `parts` | says of |
|---|---|
| `ShownFollows` | mpd, alsa, pulseaudio, i3, the fifo, the network, battery, backlight, clock, the load of the processors, memory and temperature, active window, desktops, keyboard, monitors, the pointer and its cursor, the wallpaper and the bar's window: what is shown at rest is what the outside is, in whatever order it was told; this one is proved |
| `OthersFollow` | the same of bspwm, fs and hooks; how the bar's window is stacked |
| `ActionsTakeEffect` | alsa, backlight, keyboard, i3: a click or a step of the wheel does what it says; proved |
| `DrawnAsGiven` | labels, progress bars, ramps; layers, corners and borders; text from UTF-8 to glyphs |
| `AwaitedHappens` | eleven parts: something waited for happens (a stopped module is stopped, an event is processed, a message read, a wallpaper drawn) |
| `ParsedAsWritten` | what the builder writes the parser reads, an error leaves what follows alone; the command line is read as its usage says; includes, inheritance and references of the configuration |
| `EdgesClean` | one module's contents do not change the look of the next |
| `BlocksVisible`, `ClicksOnText` | blocks do not cover one another (proved); areas lie under their text, and a click in a menu opens, closes or executes what it is on |
| `MonitorsHandled` | the monitor matched, struts, clones; proved |
| `SelectionConsistent`, `IconsMirrored`, `RoomForIcons` | the tray and the X server agree when the events are handled |
| `CommandsTerminated` | no command of a script module survives it |
| `PipeHandled` | a broken mpd connection does not end polybar |
| `PartsTypeOK` | the type invariants of all parts |

### Bounds, and why they are enough

- `TaskQueue`, `MaxOps = 3`: client calls. A race needs a task in the queue, one
  that replaces it and one beside it; the requests have waits 0, 1 and 2, an
  offset, and counts 1 and 2, so tasks of one name meet, overtake and repeat.
- `Controller`: a scenario has up to five stimuli. Each hazard listed for the
  controller needs at most three. `m_swallow_limit` is 2, where the default is 5:
  the events of one scenario reach it and exceed it.
- `Bar`, `MaxEvents = 6`: clicks, motions and commands together; a double click
  of two buttons and a `hide`/`show` fit. Three layouts: empty, with a double
  click area, without one.
- `Module`, `MaxChanges = 2`: one change that is being drawn and one that
  arrives meanwhile; four kinds of runner.
- `Tray`, two icons, two other trays, `MaxOps = 3` things that others or the user
  do; at first all icons want to be mapped or none. The exception `overtaken`
  needs both other trays, a stale slot two icons; a refused `reconfigure()` is
  reached with 3. Checked once with `MaxOps = 5`.
- What happens outside of a part is bounded by a number of operations: one that
  is under way, one that crosses it, and where a third makes a difference (a
  service that goes, comes back and changes) three: `Bspwm`, `XWorkspaces`,
  `Window`, `XWindow`, `Background`, `Menu`, `I3`, `Meters` have 3, `Mpd`,
  `Backlight` and `Hover` 4, `Script` two lines, `Screen`, `Alsa`, `Pulse`,
  `Net`, `Battery` and `Keyboard` 2, `Fs` 1, `Date` three clicks in two ticks.
- What is counted is small but crosses its limit: a buffer of 20 tags (`Bspwm`)
  or 5 pieces (`Ipc`), a stack of 8 references, counters that wrap at 16
  (`Net`) and 4 (`Meters`), times at 2 (`Keyboard`), a maximal volume of 3 in
  steps of 2 (`Pulse`), a wallpaper of 5 columns under a bar of 3.
- Inputs are sets in `MCParts`: every format of up to two pieces with labels
  that set everything, something or nothing, every command line of up to three
  arguments out of those listed, disks with includes in a line, twice and in a
  circle, layouts with clones, disconnected and moved monitors.

### Fairness

Weak fairness of threads that can run, never of what is outside.
`Controller`: each thread, each step of a signal handler and the second half of
a broadcast. `TaskQueue`: worker, client in a call, clock. `Module`: runner,
worker, main thread and each stopping thread; that a raised SIGALRM makes the
main loop return is `RequestsHonoured` of `Controller`. No mutex is assumed to
be fair, although the inotify runner releases and retakes its lock in a loop:
`stop()` clears `m_enabled` before it waits for the lock, so the loop ends.
`Tray`: both threads. `Script`: runner, main thread, stopping threads; and
that a command ends which is not tailed or was sent a signal. `Mpd`, `I3`,
`Pulse`, `Ipc`, `Battery`, `Date`: runner (and mainloop, stopping thread,
clock). `Config`: the next line is read. `Background`, `Window`: events are
handled and updates drawn. Everything else has safety properties only.

## 4. The proofs

`tlapm` checks all of them; `BarAssumption`, `ControllerAssumption`,
`ModuleAssumption`, `TaskQueueAssumption`, and the thirteen of `ProvenParts` are the
only assumptions, and TLC evaluates them in the runs.

**`TaskQueueProofs`**, for every set of names and requests and every `MaxOps`:

- `TypeCorrect`. `TypeOK` is not inductive: that `made` stays in its range needs
  `Room`: while the client is in a call, a number is left for its task.
- `NoExtraCalls`: `Spec => []CallsWithinCount`. `task->count--` on an unsigned
  number is only safe because the worker decrements what it collects; the
  strengthening `Shape` says that nothing is collected unless callbacks run, and
  that a task that was not made yet was never called.
- `WorkerNeverOversleeps`: `NoOversleep` is inductive on top of types. It splits
  into steps that leave tasks alone (`ControlStep`) and those that do not.
- `NamesStayUnique`: needs that after `exist()` answered no, or `purge()`
  returned, no task of the name exists while the client holds no lock
  (`Answered`): the single client is what makes the two critical sections safe.
- `ImplementsContract`: every step of `TaskQueue` is a step of `DeferredTasks`
  or a stutter, under the mapping that also names the run.

**`ControllerProofs`**, for every set of actions and commands, any scenarios and
any `m_swallow_limit`: stimuli may come at any time and in any order. The
inductive invariant is the conjunction of `TypeOK` and

- `Heard`: whatever is on its way to a reload or to a look at the connection (a
  byte in the fifo, an X event, a queued event, a frame of a handler) was asked
  for,
- `Decided`: as long as nothing but a reload was asked for, a QUIT that `run()`
  has enqueued comes after the decision, and a thread that is between the two
  assignments of `interrupt_handler()` is main or the worker, for both of which
  `run()` waits; without that the outcome could be read half written. (A frame
  on a module's thread means that the last module stopped, an end that was asked
  for.)
- `Accepted`: an input that waits has an INPUT event in a queue, or a thread
  that is about to enqueue it; with no input before `ui::ready`, the event is
  never rejected after the string has been stored,
- `Announced`: what the worker has in hand while a change or a forced update
  waits.

`OutcomeCorrect` follows from `Heard` and `Decided`, `InputCorrect` from
`Accepted` (under `~EarlyInput`, which is what finding 2 is about), `ChangeCorrect`
and `ForcedCorrect` from `Announced`.

**`BarProofs`**, for every layout, any presses and any `MaxEvents`. The
inductive invariant is the conjunction of

- `Typed` and `Clicking` (types, and that a click in the handler is the one in
  `m_buttonpress_btn`),
- `Owned`: who holds `m_mutex` is who is in its critical section,
- `AreasInv`: outside `Reset`/`Fill`, `blocks` are those of the text drawn, or of
  the text about to be,
- `ShownInv`: a thread that draws draws `m_lastinput`,
- `Balance`: an accepted click is in one place: queued, at hand, running or
  delivered; and what is queued, at hand or running, with how often the last
  click has acted, is at most that click and those that were delayed when it
  came (`others`).

`AreasCorrect`, `WindowCorrect` and `ClicksCorrect` follow. `TypeCorrect` does
not stand alone: `delivered`, `acted` and `others` are bounded only through
`Balance`.
`HasActionType` needs that a finite set of ids has a highest, which is obtained
from the well-foundedness of the strict subset order on finite sets.

**`ModuleProofs`**, for any kinds of module and any `MaxChanges`. The inductive
invariant adds to `TypeOK`

- `Owned`: `stop()` holds both locks from `StopLock` to `StopRelease`, the worker
  `m_buildlock` while it builds, and every runner but a static module's
  `m_updatelock` in `update()` and `poll()`. A runner that goes back to `poll()`
  has kept the lock through its wait, and a static module never halts: without
  those two conjuncts the others are true but not inductive,
- `Stopped`: `teardown()` has run at most once per thread that has got past it,
  and only with `m_enabled` cleared,
- `Rounds`: only inotify modules poll again, never in their first round, and a
  runner whose refresh came too late is on its way out,
- `Announced`: while nobody is about to set `m_changed`, it is set unless the
  cache is up to date or the broadcast was `lost`.

`TeardownCorrect` (`QuietTeardown`), `LateCorrect` (`LateRefreshes`) and
`ChangeCorrect` (`ChangeOnItsWay`) follow. `TypeCorrect` needs `Stopped` for the
bound of `torn`.

**Parts.** A theorem about a part is needed of the part as `MCParts` runs it, an
instance whose variables are slots. So the proofs of most parts stand in
`ProvenParts`, which names the instances (`Script!Inv` is the `Inv` at the end of
`Script`); those of the tray and of pulseaudio, which are longer, are in
`TrayProofs` and at the end of `Pulse` and are cited from there. `ProvenParts` shows that
each part starts in its invariant (`ProvenInitInv`), that each step keeps it
(`ProvenInvKept`), that parts which do not run cannot disturb it
(`ProvenStays`), and what the invariants say (`ProvenInvSays`). `MCParts` shows
that a run of parts is one of those (`PartsStart`, `PartsGoOn`); its nine
theorems follow by one temporal step each. They hold for every value of the
constants under the assumptions named in `ProvenParts`: `TrayWindows` (icons,
other trays and the tray's own window are different, and there are finitely many
icons), `IpcMessages` (a message is not empty and shorter than the buffer),
`RendererMeasures` (a bar's sizes and distances are lengths), `BatteryScale` (a
charge is a number), `BacklightRanges` (a screen is one of the two kinds and has
a range of values), `KeyboardGroups` (a keyboard has groups, and the server's
clock a width), `HoverCursors` (a bar's cursors have names that X knows), `ScreenMonitors` (each
monitor and each output has a name of its own, and lengths are numbers), `I3Layout`
(the bar's output is one of i3's, and each of those has workspaces, at least one),
`PulseLevels` (a volume has more than two levels), `NetDrivers` (a wireless
interface that is up has joined an access point, and a byte counter has more than
one value), `MeterRange` (a processor has a number, there are finitely many, and
a counter of theirs does not turn round once while it is watched) and
`BackgroundMeasures` (bar and tray begin on the screen).

- `CommandsAlwaysTerminated` (`CommandsTerminated`), for commands of any number
  of lines, tailed or not. `Script!Owned`: a module without a command object has
  no living process either; `Script!Gone`: what holds once the main thread is
  past the destruction of the last command, that no process lives unless the
  runner executed one after that (`overrun`). Both rest on one fact about
  `~command()`: it does not return before the process is collected
  (`ScriptDestroyedEffect`).
- `PipesHandled` (`PipeHandled`), for any number of changes, restarts of the
  server and actions. `Mpd!Armed`: a connected module has the SIGPIPE handler
  armed unless an action has taken it down.
- `SelectionAlwaysConsistent` (`SelectionConsistent`), `IconsAlwaysMirrored`
  (`IconsMirrored`) and `RoomAlwaysMade` (`RoomForIcons`), for any icons, other
  trays and operations; see `TrayProofs`.
- `BlocksAlwaysVisible` (`BlocksVisible`), for bars of any size and blocks of any
  whole number of pixels that fit, whatever was drawn before. The argument is the
  arithmetic of `block_x` (`RendererCenterPlaced`): the center block begins behind
  the left one and leaves room for the right one, although its position is the
  middle of the bar or of the gap, cut off on either side and halved.
- `ShownAlwaysFollows` (`ShownFollows`), seventeen parts:
  - `Mpd`: `Served`, a connection that works has a server; and while connected a
    play state that is not the server's has an event on its way.
  - `Alsa`: `Cached`, a mixer of which no event waits is cached as it is; and
    with nothing unread what was computed is that of the caches, or an update is
    under way. For any mixers and any range of volumes.
  - `Pulse`: `Orderly`, who waits for a reply has one coming and only one, and a
    reply never names a sink whose removal was sent before it; `Taking`, the sink
    that the module has, or will take when the reply is there, exists and is the
    default or the one specified, unless an event that makes it look again has
    not been looked at; `Read` and `Showing`, its volume is known, on its way or
    will be asked for. The event in hand stays in the queue until it is done
    with, so what waits is the rest of it (`Rest`). For any sinks and volumes,
    except a REMOVE that waits behind NEW, and what changes before the module
    subscribes (`missed`, `misled`).
  - `Ipc`: `Serving`, who waits for messages has a fifo and reads it, whatever the
    worker does with those that were read; and `InTransit`, each message is in the
    fifo, in the buffer, or has been handled.
  - `Battery`: `ReadRight`, what `on_event()` has read of a battery that does not
    change is so until it has read everything; `Told`, what it found is shown;
    `Counted`, each reading that is skipped is one less that may be, which bounds
    how long a change waits; and `Unwatched`, the module reads without watches,
    so nothing it does wakes it. The time to an empty or a full battery
    (`TimeLeft`) is arithmetic on charge and rate alone.
  - `Backlight`: `Heard`, what is shown is the value unless the watch has heard more or a
    change fell between two watches.
  - `Date`: `Fresh` and `Held`, which format was shown last and what a click has
    asked for since.
  - `Hover`: between the crossings that X has reported and those the bar has
    handled lies a queue, so the invariant speaks of `Pointed`, where the pointer
    is as far as the bar was told. `Alternate` (crossings alternate and the last
    is true of the pointer) makes each handled one turn `Pointed`; `Corrected`: a
    flag which is not as `Pointed` wants it has a task or a callback that will
    correct it, and none under way would spoil it. `Pointing`: the cursor that the
    bar remembers is the one that X shows, because a bar whose areas all name a
    cursor of X never asks for one that fails.
  - `Keyboard`: `Follows`, of whatever the module does not know of group, keyboard
    and locks an event is queued, or was denied for its time; `LastSays`, the last
    event queued about the group is true of it, whatever the earlier ones say;
    `Labelled`, the labels say what the module knows, or some thread is about to
    read or to fill in what it has read, unless updates ran beside one another; and
    `Clicked`, the group that the worker is about to ask for and to set is one of
    the keyboard's, and the server's once it was asked for, unless an event says
    otherwise. For any keyboards, any number of groups and clicks at any time.
    `Follows` and `Clicked` need each other: a group set by the worker is right
    because no other one was told since it was asked for (`raced`).
  - `XWindow`: the window that the module knows is the active one, or an event
    that will tell it is queued; it hears of the properties of that window.
  - `XWorkspaces`: `ReadAsPublished`, for each property either the module has
    read what is published or an event of it is queued; `ShownAsRead`, what is
    shown is what follows from what was read. The states of desktops depend on
    their positions and not on the states before (`XWorkspacesStatesAgain`).
  - `I3`: `Told`, the last mode in the stream is i3's mode, and `Answered`, the
    workspaces are those of the last answer or an event is queued.
  - `Net`: `Counted`, what was received since the last query is what the counters
    have moved on by, modulo their width, so that the difference of two readings
    is the traffic between them although a counter wrapped; `Published`, the
    addresses are those of the last query, and at rest what it led to was
    broadcast; `Pinging`, the counter of updates is the age of the last ping. For
    any addresses and access points (the loops over them: `NetLastFoundIs`).
  - `Meters`: `Counted`, the readings that the module keeps are the counters of
    now less what was counted since, modulo their width; so the load that is shown
    is the share of that time in which a processor was busy, although a counter
    wrapped (`MetersDiffIs`). The lines are those of the processors that are
    online, in order (`MetersInOrder`). What is shown of memory is a
    percentage, and a temperature is rounded without changing its order, which is
    arithmetic (`MetersReadingsAreRight`). For any processors and any counters.
  - `Background`: `Filled`, a slice shows the wallpaper behind its window unless the
    manager has not heard yet of another one or of a move; `Current`, the windows
    have what their slices have; a held slice is listed (`SlicesListed`), so that
    it is not forgotten when it is to be filled. For any places and widths.
  - `Screen`: `Watched`, while the screen subscribes it knows the layout, and later
    an event is queued or the monitors are the same. The code compares only that
    there are as many and that each new one is known; since no list has a monitor
    twice (`ScreenMonitorsListed`), that is enough (`SameLength`, the pigeonhole
    principle).
  - `Window`: the requests that wait for the manager are of few kinds
    (`MapsWhatIsVisible`), which ends with the window mapped iff the bar thinks
    it visible; `Tells`, what was announced is so or an event or a request will
    make the bar look again; `Asks`, the position was asked for or will be. A
    window that was hidden or shown too soon (`hasty`) is excepted, and TLC
    finds that it must be. For any managers and any windows on the screen.

- `MonitorsAlwaysHandled` (`MonitorsHandled`), for any monitors, outputs and bars.
  What `get_monitors()` lists is found by going through the outputs one by one
  (`UpTo`, `StepsExist`): each monitor has a name of its own. The purge goes on
  while it changes the list it goes through; behind each place it has passed no
  clone is left (`ScreenRoundClears`), and what it drops lies in something that is
  left because a clone of a clone is one (`ScreenCloneOfClone`). `match_monitor()`
  returns the first exact match, or else the last other one (`ScreenMatched`). The struts are arithmetic over
  a bar placed by per cent and pixels (`ScreenBarMade`), for bars that begin on
  their monitor and are not told to reserve less (`Outward`).
- `ActionsAlwaysTakeEffect` (`ActionsTakeEffect`), four parts:
  - `Alsa`: `Toggling`. An action reads `m_muted` and then goes through the mixers
    one by one; until the last is set the states of those already set are what
    was asked for, and nothing crosses it (`Undisturbed`), so that at the end all
    are, with the headphones or the speaker, whichever counts. A step of so many
    per cent that it is at least one raw value moves the volume, in either
    direction, through two roundings (`StepsMove`).
  - `Backlight`: `Led`, the value is where the last step led it from the
    percentage shown: more, or less, unless the screen goes no further.
  - `Keyboard`: `GroupOfKeyboard`, the server's group is one of its keyboard's,
    and `Clicked`: from the reading of the group to the request the worker's
    group is the one after the server's, and the first after the last, if the
    module was in step when the worker read it and nothing else has changed the
    server since; events that the main thread handles in between change nothing
    of that.
  - `I3`: `Placed`, on each output one of its workspaces is visible; `Scrolling`,
    a scroll that has decided (`go`) and that no other client crosses sends the
    commands for what it saw. `next_on_output` from the one that is visible is
    the next one, or around the end if wrapping is asked for (`I3NextPlaced`).

**`TrayProofs`.** The X server executes requests at once and tells of them
later, so the invariants are about the events that are queued.

- `SelectionAgreed`: a tray that is active but has lost the selection has a
  `clear` queued or in hand; while a thread is between a question and a request
  (`Turns`, `Decides`) the other one concludes nothing about the selection.
- `IconsAgreed` and `RoomMade`, by the invariant `Embedded`. `View` is what
  polybar believes (its clients, their flags, which windows it takes for
  mapped), `x` is what is so, and `Fits` says that the queue is the difference:
  the last event of a window, if there is one, says whether it is mapped
  (`Told`); of a client that is not in the tray's window an event says that it
  has gone (`Going`); and unless an icon has withdrawn, one that was unmapped
  is about to go (`Orderly`). A request keeps `Fits` because it queues what it
  changes (`SaysFits`), a handler because it believes what it takes from the
  queue (`TakesFits`), and a step of neither may forget clients or notice what
  it sees (`SeesFits`). `Room`: unless the last `reconfigure()` was refused, the
  room is even with the clients taken for mapped (`Even`) and stays so when the
  worker sets the width that it has read (`EvenSoon`), or some client's leaving is
  queued, whose handler makes it so again or is refused in its turn.
  `Early`: no icon asks before the first activation on the worker has taken the
  selection, so that one needs no more than that.

`reconfigure_clients()` and `deactivate()` send requests for each icon of a set,
a fold: that a fold keeps what each step keeps (`ForAllKeeps`), and gets on as
each step does (`ForAllAdvance`), is proved by induction over finite sets, for
one operator at a time, from the well-foundedness of the strict subset order
(`SetRecursion`, `SubsetInduction`, `ForAllSteps`).

**Only model-checked:** everything under fairness (`EventuallyCalled`,
`JoinsWhenPending`, `RequestsHonoured`, `InputsNeverStuck`, `ChangesShown`,
`JoinReturns`, `AwaitedHappens`), which is beyond the prover; and the properties
of the other parts, many of which are about recursive functions of texts.

## 5. Findings

1. `taskqueue_exit`: `~taskqueue()` clears `m_active` and notifies without
   `m_lock`. A worker that has just tested `m_active` misses it, and on an empty
   queue it waits without timeout: `join()` hangs. `polybar -w` builds a bar and
   destroys it at once.
2. `controller_early`: an ipc action received before `ui::ready` stays in
   `m_inputdata` for ever, because its event is rejected; every later input is
   swallowed.
3. `controller_hide`: an input within 10 ms after an action replaces the update
   the action announced; `#module.module_hide` leaves the module on screen.
4. `module_drawn`: `contents()` resets `m_changed` after the build. A broadcast
   in between is overwritten, and a static module is out of date until the next
   X event.
5. `bar_areas`: the delayed click calls `has_action()` and `get_action()` without
   `m_mutex`; the worker may reset the areas in between, and the assertion of
   `get_action()` fails.
6. `tray_follows`: `on(visibility_change)` decides by `m_mapped`, which lags
   behind the server. A bar hidden before the tray's `map_notify` arrives leaves
   the tray on the screen; so does one hidden while the worker is announcing it
   as visible.
7. `script_lines`: `readline()` makes a stream for each call, which reads ahead
   into a buffer of its own: lines that were written together are lost but for
   the first.
8. `bar_buttons`: of all delayed clicks the bar keeps one button and one
   position. A left click and a right click within the interval run the action
   of the right one twice, and that of the left one not at all.

Not a run of its own, but part of what `ParsedAsWritten` says: a local reference
`${section.key:fallback}` looks for a key named `key:fallback`, does not find it
and takes the fallback, also when `section.key` has a value.

## 6. What is left out, and what the properties except

Left out of the models:

- `Controller`: what a shell command writes, the X handlers of other components
  except for the events they enqueue, the writing to stdout. Memory effects of
  the unprotected `m_inputdata` other than the interleaving of its statements.
- `Module`: intervals (a timed wait may end whenever), concurrent `update()` and
  `build()` on the same data (see `Drawing` and `Fs`), `set_visible()`.
- `Bar`: the shading, which is compiled away.
- `Tray`: drawing and geometry, `WM_DELETE` (the window is override-redirect),
  the manager's destructor, icons without `_XEMBED_INFO`, failing window
  creation, which window an icon is in when it is not in this one.
- `TaskQueue`: nothing, except that durations are small numbers.
- Parts: what `PROJECT.json` says under each component. Labels, icons and
  formats are left out nearly everywhere, since they go through `Drawing`,
  `Tags` and `Builder`.

Properties of the parts are stated as broadly as they hold. Where the code does
otherwise, and nothing in the repository promises better, the property has an
explicit exception; these are deviations a maintainer may want to know of:

- *Configuration and text.* `Drawing`: a token's text with another token in it
  is replaced in its turn; more colors than a bar has cells; a minimal length
  above the maximal one. `Fonts`: bytes that are not UTF-8; a screen that says
  it is 0 mm wide. `Date`: two formats of which only one has a time. `Start`:
  empty arguments, `-o=VALUE`, a bar named like the value of an option.
- *Sound.* `Pulse`: events that come while `m_events` is drained, a sink that
  goes between two requests, the lock that is not given back then. `Alsa`: a
  toggle that an update crosses.
- *Readings.* `Net`: failed queries, counters that go all around between two, and
  that an interface of unknown state counts as up. `Meters`: failed readings, no swap. `Fs`: a drawing that an
  update crosses. `Backlight`: changes in the pause after one, a step from a
  value that is not current, a step below the smallest value.
- *Windows.* `Screen`: a change missed between looking and subscribing; struts of a
  bar that begins left of its monitor or is told to reserve less. `Window`: hidden before it was mapped, shown before the manager
  has handled the hide; the position among other windows is only asked for at
  the start. `XWindow`: a title in `WM_NAME` is not heard of when it changes;
  the event mask of the active window is shared with xworkspaces. `XWorkspaces`:
  viewports that change alone, an index beyond the desktops; a desktop whose
  position has the same sum as a monitor's is shown with it, which the property
  says rather than excepts. `Background`: no
  pixmap, one smaller than the screen, a bar partly off it. `Tray`: a selection
  taken while the first activation runs (`SelectionConsistent`); a
  `reconfigure()` that finds the lock taken by the worker's refresh, and a list of
  clients that changes while the worker counts it, until the next one
  (`RoomForIcons`).
- *Drawing.* `Renderer`: a block whose modules are all hidden keeps its width.
  `Painting`: an alignment that comes back, an empty bar, a corner mask that is
  older than the size. `Hover`: a pointer that enters and leaves within one
  delay; only one of the areas under a moving pointer sets the cursor; what is
  drawn anew under a resting one does not.
- *Keyboard and window managers.* `Keyboard`: updates that
  cross, a group that the worker sets after the main thread was told another one,
  a group change denied, locks without a modifier. `Bspwm`: a report
  cut by the end of the buffer. `I3`: what happens between the end of a
  connection and the next, a focus that has moved on between a query and the
  command, a runner that reconnects while it is stopped.
- *Messages.* `Ipc`: messages that arrive together, one of exactly `BUFSIZ`
  bytes, a fifo that is not there yet, a hook of a module that the worker sends
  something at the same time. `Menu`: items that do not exist are read
  after the error; a command that another input crosses is lost. `Mpd`: the
  status of before a reconnection; a null `m_status` after one that failed; the
  flag of SIGPIPE taken by the other connection.
- *Controller and bar.* A second click between one and two intervals after the
  first is neither a double click nor a first one (`Bar` has it, nothing says
  it should be otherwise). The config watch sets `g_reload` without looking
  whether SIGTERM has arrived meanwhile (`OutcomeJustified` allows it, since a
  reload was asked for). `main()` waits for its children with `WNOHANG`, so it
  only reaps those that are already dead.

Not modelled at all: the `systray` module, which only debug builds have; github,
counter and text modules, which add nothing to the life of a module; the
logger; signals and receivers, which are synchronous calls. Of the event queue, its blocks, its
atomics and a failed allocation are left out.

## 7. What remains

- Proofs about further parts: `Fs`, `Bspwm`.
- Abstract specifications: for the event queue of `Controller`, a set of pending
  redraws in which a later one subsumes an earlier; for `Tray`, a set of clients.
- `Controller` composed with `Module`: at present each has the other as a
  version number and an event.
