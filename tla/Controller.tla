----------------------------- MODULE Controller -----------------------------
(***************************************************************************)
(* The controller (src/components/controller.cpp): the main thread that    *)
(* waits for file descriptors, the event queue worker, and what other      *)
(* threads do to them: module threads that broadcast, the task queue that  *)
(* delivers double clicks, and signal handlers that run on any of them.    *)
(*                                                                         *)
(* An event is its type and flag together.  The contents of the modules    *)
(* are a version number: version counts changes, shown is the version the  *)
(* last process_update() read.                                             *)
(*                                                                         *)
(* Operators whose name has a suffix (Ready_Silent) are bugs that the code *)
(* could have; the specification does not use them.                        *)
(***************************************************************************)
EXTENDS Naturals, Sequences

CONSTANTS
  Actions,         \* inputs that name an action of a module
  Commands,        \* inputs that are shell commands
  Scenarios,       \* what happens around the controller, each at most once
  EarlyInput,      \* may inputs arrive before ui::ready?
  m_swallow_limit  \* updates merged into one

Inputs == Actions \cup Commands
NoInput == "none"
EmptyFifo == "empty"
NotInputs == {"quit", "restart", "hook", "background", "randr", "SIGTERM",
              "SIGUSR1", "first", "second"}

Signals == {"SIGTERM", "SIGUSR1", "SIGALRM"}

(* Signals sent to the process; messages on the ipc pipe; X events; double *)
(* clicks, which the task queue delivers; and the rest: a module changes,  *)
(* the config file is written, the last module stops, the X server goes.   *)
Stimuli ==
  [type : {"signal"}, arg : {"SIGTERM", "SIGUSR1"}]
    \cup [type : {"ipc"}, arg : {"quit", "restart", "hook"} \cup Inputs]
    \cup [type : {"x"}, arg : {"background", "randr"} \cup Inputs]
    \cup [type : {"doubleclick"}, arg : Inputs]
    \cup [type : {"change"}, arg : {"first", "second"}]
    \cup [type : {"config", "nomodules", "disconnect"}, arg : {""}]

ASSUME ControllerAssumption ==
  /\ Inputs \cap ({NoInput, EmptyFifo, ""} \cup NotInputs) = {}
  /\ Scenarios \subseteq SUBSET Stimuli
  /\ EarlyInput \in BOOLEAN
  /\ m_swallow_limit \in Nat

Threads == {"main", "worker", "module", "taskqueue"}
Events == {"update", "forced", "input", "quit", "reload"}

VARIABLES
  todo,              \* stimuli of the scenario that have not happened
  fifo, xcb, conf, disconnected,  \* what the descriptors have to say
  g_terminate, g_reload, pipe,    \* pipe: g_eventpipe holds a byte
  handlers,          \* interrupt_handler() frames on each thread's stack
  mpc, fdset,        \* main: program counter, result of select()
  m_queue,           \* one FIFO per producer: no order between producers
  m_process_events, m_inputdata,
  typing,            \* enqueue(string) in progress on a thread
  announcing,        \* a module has changed and is about to say so
  wpc, evt, swallowed, cmd,       \* worker, and its local variables
  version, shown, forced,         \* contents; forced redraws asked for
  handled,           \* history: inputs acted upon
  replaced,          \* history: what swallowing lost and no redraw made up for
  asked              \* history: "quit", "reload" and "error" so far

flags == <<g_terminate, g_reload, pipe, handlers>>
fds == <<fifo, xcb, conf, disconnected>>
input == <<m_inputdata, typing, handled>>
screen == <<version, shown, forced, announcing, replaced>>
worker == <<wpc, evt, swallowed, cmd>>
main == <<mpc, fdset>>
vars == <<todo, fifo, xcb, conf, disconnected, g_terminate, g_reload, pipe,
          handlers, mpc, fdset, m_queue, m_process_events, m_inputdata,
          typing, announcing, wpc, evt, swallowed, cmd, version, shown,
          forced, replaced, handled, asked>>

MainPC == {"loop", "select", "ready", "drain", "config", "xcb", "ipc",
           "quit", "join", "returned"}
WorkerPC == {"start", "announce", "loop", "wait", "got", "swallow", "input",
             "clear", "dispatch", "update", "exited"}
Frames == [sig : Signals, step : {"check", "terminate", "reload"}]
Typing == [step : {"idle", "check", "set", "enqueue"},
           data : Inputs \cup {NoInput}]

TypeOK ==
  /\ todo \subseteq Stimuli
  /\ fifo \in {EmptyFifo, "quit", "restart", "hook"} \cup Inputs
  /\ xcb \subseteq {"background", "randr"} \cup Inputs
  /\ conf \in BOOLEAN /\ disconnected \in BOOLEAN
  /\ g_terminate \in BOOLEAN /\ g_reload \in BOOLEAN /\ pipe \in BOOLEAN
  /\ handlers \in [Threads -> Seq(Frames)]
  /\ mpc \in MainPC /\ fdset \subseteq {"pipe", "config", "xcb", "ipc"}
  /\ m_queue \in [Threads -> Seq(Events)]
  /\ m_process_events \in BOOLEAN /\ m_inputdata \in Inputs \cup {NoInput}
  /\ typing \in [{"main", "taskqueue"} -> Typing]
  /\ announcing \in BOOLEAN
  /\ wpc \in WorkerPC /\ evt \in Events /\ cmd \in Inputs \cup {NoInput}
  /\ swallowed \in 0 .. m_swallow_limit
  /\ version \in Nat /\ shown \in 0 .. version /\ forced \in BOOLEAN
  /\ handled \subseteq Inputs /\ replaced \subseteq {"change", "forced"}
  /\ asked \subseteq {"quit", "reload", "error"}

Idle == [step |-> "idle", data |-> NoInput]

(* The lock-free queue: each thread that enqueues finds its own stream by  *)
(* its id, and appends to it; a semaphore counts what all of them hold.    *)
Streams == [t \in Threads |-> <<>>]
Produce(t, e) == m_queue' = [m_queue EXCEPT ![t] = Append(@, e)]
Signalled == \E t \in Threads : m_queue[t] # <<>>

Init ==
  /\ todo \in Scenarios /\ fifo = EmptyFifo /\ xcb = {}
  /\ conf = FALSE /\ disconnected = FALSE
  /\ g_terminate = FALSE /\ g_reload = FALSE /\ pipe = FALSE
  /\ handlers = [t \in Threads |-> <<>>]
  /\ mpc = "loop" /\ fdset = {}
  /\ m_queue = Streams
  /\ m_process_events = FALSE /\ m_inputdata = NoInput
  /\ typing = [t \in {"main", "taskqueue"} |-> Idle]
  /\ announcing = FALSE
  /\ wpc = "start" /\ evt = "forced" /\ swallowed = 0 /\ cmd = NoInput
  /\ version = 0 /\ shown = 0 /\ forced = FALSE
  /\ handled = {} /\ replaced = {} /\ asked = {}

-----------------------------------------------------------------------------
(* enqueue(event) by thread t: rejected before ui::ready unless it is a    *)
(* QUIT.                                                                   *)
Accepts(e) == m_process_events \/ e \in {"quit", "reload"}

Enqueue(t, e) ==
  /\ IF Accepts(e) THEN Produce(t, e) ELSE UNCHANGED m_queue
  /\ forced' = (forced \/ (e = "forced" /\ Accepts(e)))

(* enqueue(string) by thread t: look at m_inputdata, fill it, enqueue an   *)
(* INPUT event.  Nothing protects the string.                              *)
Begin(t, i) == typing' = [typing EXCEPT ![t] = [step |-> "check", data |-> i]]

InputCheck(t) ==
  /\ typing[t].step = "check"
  /\ typing' = [typing EXCEPT ![t] =
                  IF m_inputdata = NoInput THEN [@ EXCEPT !.step = "set"]
                  ELSE Idle]
  /\ UNCHANGED <<m_inputdata, handled, m_queue, forced>>

InputSet(t) ==
  /\ typing[t].step = "set"
  /\ m_inputdata' = typing[t].data
  /\ typing' = [typing EXCEPT ![t].step = "enqueue"]
  /\ UNCHANGED <<handled, m_queue, forced>>

InputEnqueue(t) ==
  /\ typing[t].step = "enqueue"
  /\ Enqueue(t, "input")
  /\ typing' = [typing EXCEPT ![t] = Idle]
  /\ UNCHANGED <<m_inputdata, handled>>

(* The main thread does nothing else while a handler runs on it.           *)
InputStep(t) ==
  /\ handlers[t] = <<>>
  /\ InputCheck(t) \/ InputSet(t) \/ InputEnqueue(t)
  /\ UNCHANGED <<todo, fds, flags, main, m_process_events, worker, version,
                 shown, announcing, replaced, asked>>

-----------------------------------------------------------------------------
(* interrupt_handler(): the first decision counts, unless another thread   *)
(* is in the middle of its own.                                            *)
Raise(t, s) ==
  handlers' = [handlers EXCEPT ![t] = Append(@, [sig |-> s, step |-> "check"])]

Top(t) == handlers[t][Len(handlers[t])]
Advance(t, step) ==
  handlers' = [handlers EXCEPT ![t][Len(handlers[t])].step = step]
Return(t) == handlers' = [handlers EXCEPT ![t] = SubSeq(@, 1, Len(@) - 1)]

Decision(sig) == sig = "SIGUSR1"

HandlerStep(t) ==
  /\ handlers[t] # <<>>
  /\ CASE Top(t).step = "check" ->
            /\ IF g_reload \/ g_terminate THEN Return(t)
               ELSE Advance(t, "terminate")
            /\ UNCHANGED <<g_terminate, g_reload, pipe>>
       [] Top(t).step = "terminate" ->
            /\ g_terminate' = TRUE
            /\ Advance(t, "reload")
            /\ UNCHANGED <<g_reload, pipe>>
       [] Top(t).step = "reload" ->
            /\ g_reload' = Decision(Top(t).sig)
            /\ pipe' = TRUE
            /\ Return(t)
            /\ UNCHANGED g_terminate
  /\ UNCHANGED <<todo, fds, main, m_queue, m_process_events, input, worker,
                 screen, asked>>

-----------------------------------------------------------------------------
(* The environment.                                                        *)
Happens(s) ==
  /\ mpc # "returned" /\ s \in todo
  /\ s.arg \in Inputs => EarlyInput \/ m_process_events
  /\ todo' = todo \ {s}

Asks(w) == asked' = asked \cup {w}

(* A signal interrupts select(): read_events() leaves its loop.            *)
Signal(s) ==
  /\ s.type = "signal" /\ Happens(s)
  /\ Raise("main", s.arg)
  /\ mpc' = IF mpc = "select" THEN "quit" ELSE mpc
  /\ Asks(IF s.arg = "SIGUSR1" THEN "reload" ELSE "quit")
  /\ UNCHANGED <<fds, g_terminate, g_reload, pipe, fdset, m_queue,
                 m_process_events, input, worker, screen>>

(* The last module stops: check_state raises SIGALRM on the thread of that *)
(* module.                                                                 *)
NoModules(s) ==
  /\ s.type = "nomodules" /\ Happens(s)
  /\ Raise("module", "SIGALRM") /\ Asks("error")
  /\ UNCHANGED <<fds, g_terminate, g_reload, pipe, main, m_queue,
                 m_process_events, input, worker, screen>>

DescriptorReady(s) ==
  /\ Happens(s)
  /\ \/ /\ s.type = "ipc" /\ fifo = EmptyFifo
        /\ fifo' = s.arg
        /\ asked' = asked \cup {w \in {"quit", "reload"} :
                                  \/ w = "quit" /\ s.arg = "quit"
                                  \/ w = "reload" /\ s.arg = "restart"}
        /\ UNCHANGED <<xcb, conf, disconnected>>
     \/ /\ s.type = "x"
        /\ xcb' = xcb \cup {s.arg}
        /\ asked' = asked \cup {w \in {"reload"} : s.arg = "randr"}
        /\ UNCHANGED <<fifo, conf, disconnected>>
     \/ /\ s.type = "config"
        /\ conf' = TRUE /\ Asks("reload")
        /\ UNCHANGED <<fifo, xcb, disconnected>>
     \/ /\ s.type = "disconnect"
        /\ disconnected' = TRUE /\ Asks("error")
        /\ UNCHANGED <<fifo, xcb, conf>>
  /\ UNCHANGED <<flags, main, m_queue, m_process_events, input, worker,
                 screen>>

(* The task queue thread delivers a double click: bar.cpp, deferred_fn.    *)
DoubleClick(s) ==
  /\ s.type = "doubleclick" /\ Happens(s)
  /\ typing["taskqueue"] = Idle
  /\ Begin("taskqueue", s.arg)
  /\ UNCHANGED <<fds, flags, main, m_queue, m_process_events, m_inputdata,
                 handled, worker, screen, asked>>

(* A module changes, and then says so: broadcast().                        *)
Change(s) ==
  /\ s.type = "change" /\ Happens(s)
  /\ ~announcing
  /\ version' = version + 1 /\ announcing' = TRUE
  /\ UNCHANGED <<fds, flags, main, m_queue, m_process_events, input, worker,
                 shown, forced, replaced, asked>>

Announce ==
  /\ announcing /\ announcing' = FALSE
  /\ Enqueue("module", "update")
  /\ UNCHANGED <<todo, fds, flags, main, m_process_events, input, worker,
                 version, shown, replaced, asked>>

Stimulus ==
  \E s \in todo :
    \/ Signal(s) \/ NoModules(s) \/ DescriptorReady(s) \/ DoubleClick(s)
    \/ Change(s)

-----------------------------------------------------------------------------
(* The main thread: read_events(), then the end of run().                  *)
MainAt(pc) == mpc = pc /\ handlers["main"] = <<>> /\ typing["main"] = Idle
MainOnly == <<todo, m_process_events, worker, version, shown, announcing,
              replaced>>

Loop ==
  /\ MainAt("loop")
  /\ mpc' = IF g_terminate THEN "quit" ELSE "select"
  /\ UNCHANGED <<MainOnly, fds, flags, fdset, m_queue, forced, input, asked>>

Readable ==
  {f \in {"pipe", "config", "xcb", "ipc"} :
     \/ f = "pipe" /\ pipe
     \/ f = "config" /\ conf
     \/ f = "xcb" /\ (xcb # {} \/ disconnected)
     \/ f = "ipc" /\ fifo # EmptyFifo}

Select ==
  /\ MainAt("select") /\ Readable # {}
  /\ fdset' = Readable /\ mpc' = "ready"
  /\ UNCHANGED <<MainOnly, fds, flags, m_queue, forced, input, asked>>

Selected ==
  /\ MainAt("ready")
  /\ mpc' = IF g_terminate \/ disconnected THEN "quit" ELSE "drain"
  /\ UNCHANGED <<MainOnly, fds, flags, fdset, m_queue, forced, input, asked>>

DrainPipe ==
  /\ MainAt("drain") /\ mpc' = "config"
  /\ pipe' = (pipe /\ "pipe" \notin fdset)
  /\ UNCHANGED <<MainOnly, fds, g_terminate, g_reload, handlers, fdset,
                 m_queue, forced, input, asked>>

(* The config file was written, or replaced: reload, whatever was decided  *)
(* in the meantime.                                                        *)
ReadConfig ==
  /\ MainAt("config") /\ mpc' = "xcb"
  /\ IF "config" \in fdset
     THEN conf' = FALSE /\ g_terminate' = TRUE /\ g_reload' = TRUE
     ELSE UNCHANGED <<conf, g_terminate, g_reload>>
  /\ UNCHANGED <<MainOnly, fifo, xcb, disconnected, pipe, handlers, fdset,
                 m_queue, forced, input, asked>>

ReadX ==
  /\ MainAt("xcb")
  /\ \/ /\ "xcb" \notin fdset \/ xcb = {}
        /\ mpc' = "ipc"
        /\ UNCHANGED <<xcb, handlers, typing, m_queue, forced>>
     \/ /\ "xcb" \in fdset /\ UNCHANGED mpc
        /\ \E e \in xcb :
             /\ xcb' = xcb \ {e}
             /\ \/ /\ e \in Inputs /\ Begin("main", e)
                   /\ UNCHANGED <<handlers, m_queue, forced>>
                \/ /\ e = "background" /\ Enqueue("main", "forced")
                   /\ UNCHANGED <<handlers, typing>>
                \/ /\ e = "randr" /\ Raise("main", "SIGUSR1")
                   /\ UNCHANGED <<typing, m_queue, forced>>
  /\ UNCHANGED <<MainOnly, fifo, conf, disconnected, g_terminate, g_reload,
                 pipe, fdset, m_inputdata, handled, asked>>

QuitEvent_Swapped(reload) == IF reload THEN "quit" ELSE "reload"
QuitEvent(reload) == IF reload THEN "reload" ELSE "quit"

(* on(ipc::command): hide, show and toggle concern the bar only.           *)
Command(c) ==
  /\ c \in {"quit", "restart"}
  /\ Enqueue("main", QuitEvent(c = "restart"))
  /\ UNCHANGED <<typing, version>>

(* A hook makes the ipc module run a command and broadcast, on this thread.*)
Hook ==
  /\ version' = version + 1
  /\ Enqueue("main", "update")
  /\ UNCHANGED typing

ReadIpc ==
  /\ MainAt("ipc") /\ mpc' = "loop"
  /\ \/ /\ "ipc" \notin fdset
        /\ UNCHANGED <<fifo, typing, version, m_queue, forced>>
     \/ /\ "ipc" \in fdset /\ fifo' = EmptyFifo
        /\ \/ /\ fifo \in Inputs /\ Begin("main", fifo)
              /\ UNCHANGED <<version, m_queue, forced>>
           \/ Command(fifo)
           \/ fifo = "hook" /\ Hook
  /\ UNCHANGED <<todo, m_process_events, worker, shown, announcing, replaced,
                 xcb, conf, disconnected, flags, fdset, m_inputdata, handled,
                 asked>>

EnqueueQuit_Missing ==
  /\ MainAt("quit") /\ mpc' = "join"
  /\ UNCHANGED <<MainOnly, fds, flags, fdset, m_queue, forced, input, asked>>

(* run() wakes the worker, which may be waiting for an event.              *)
EnqueueQuit ==
  /\ MainAt("quit") /\ mpc' = "join"
  /\ Enqueue("main", QuitEvent(g_reload))
  /\ UNCHANGED <<MainOnly, fds, flags, fdset, input, asked>>

Join ==
  /\ MainAt("join") /\ wpc = "exited" /\ mpc' = "returned"
  /\ UNCHANGED <<MainOnly, fds, flags, fdset, m_queue, forced, input, asked>>

MainStep ==
  \/ Loop \/ Select \/ Selected \/ DrainPipe \/ ReadConfig \/ ReadX \/ ReadIpc
  \/ EnqueueQuit \/ Join

-----------------------------------------------------------------------------
(* The event queue worker: process_eventqueue().                           *)
WorkerAt(pc) == wpc = pc /\ handlers["worker"] = <<>>
WorkerOnly == <<todo, fds, g_terminate, g_reload, pipe, main, typing,
                announcing, asked>>
Quiet == <<m_queue, m_process_events, forced, version, shown, replaced>>

Ready_Silent ==
  /\ WorkerAt("start") /\ wpc' = "loop"
  /\ m_process_events' = TRUE
  /\ UNCHANGED <<WorkerOnly, handlers, m_queue, forced, version, shown,
                 replaced, m_inputdata, handled, evt, swallowed, cmd>>

(* ui::ready, or the start signal that leads to it.                        *)
Ready ==
  /\ WorkerAt("start") /\ wpc' = "announce"
  /\ m_process_events' = TRUE
  /\ UNCHANGED <<WorkerOnly, handlers, m_queue, forced, version, shown,
                 replaced, m_inputdata, handled, evt, swallowed, cmd>>

(* The worker enqueues an update itself: after ui::ready, or because a     *)
(* module changed while it handled an action.                              *)
WorkerAnnounce ==
  /\ WorkerAt("announce") /\ wpc' = "loop"
  /\ Enqueue("worker", evt)
  /\ UNCHANGED <<WorkerOnly, handlers, m_process_events, version, shown,
                 replaced, m_inputdata, handled, evt, swallowed, cmd>>

WorkerLoop ==
  /\ WorkerAt("loop")
  /\ wpc' = IF g_terminate THEN "exited" ELSE "wait"
  /\ UNCHANGED <<WorkerOnly, handlers, Quiet, m_inputdata, handled, evt,
                 swallowed, cmd>>

(* try_dequeue() favours the longest of the first streams that it finds    *)
(* non-empty, by sizes that may be stale: any stream with an event.        *)
Take(t) ==
  /\ m_queue[t] # <<>>
  /\ evt' = Head(m_queue[t])
  /\ m_queue' = [m_queue EXCEPT ![t] = Tail(@)]

WaitDequeue ==
  /\ WorkerAt("wait") /\ Signalled /\ wpc' = "got"
  /\ \E t \in Threads : Take(t)
  /\ UNCHANGED <<WorkerOnly, handlers, m_process_events, forced, version,
                 shown, replaced, m_inputdata, handled, swallowed, cmd>>

(* What the worker does with e, outside the swallowing loop.               *)
Process(e) ==
  CASE e = "quit" -> wpc' = "loop" /\ Raise("worker", "SIGALRM")
    [] e = "reload" -> wpc' = "loop" /\ Raise("worker", "SIGUSR1")
    [] e = "input" -> wpc' = "input" /\ UNCHANGED handlers
    [] OTHER -> wpc' = "update" /\ UNCHANGED handlers

GotEvent ==
  /\ WorkerAt("got")
  /\ \/ g_terminate /\ wpc' = "exited" /\ UNCHANGED handlers
     \/ /\ ~g_terminate /\ evt = "update"
        /\ wpc' = "swallow" /\ UNCHANGED handlers
     \/ ~g_terminate /\ evt # "update" /\ Process(evt)
  /\ swallowed' = 0
  /\ UNCHANGED <<WorkerOnly, Quiet, m_inputdata, handled, evt, cmd>>

(* The event in hand gives way to the next one.                            *)
Replace ==
  replaced' = replaced
    \cup {l \in {"change"} : evt' \notin {"update", "forced"}}
    \cup {l \in {"forced"} : evt = "forced" /\ evt' # "forced"}

Swallow_NoLimit ==
  /\ WorkerAt("swallow")
  /\ \E t \in Threads : Take(t)
  /\ swallowed' = swallowed + 1 /\ Replace
  /\ \/ evt' \in {"update", "forced"} /\ UNCHANGED <<wpc, handlers>>
     \/ evt' \notin {"update", "forced"} /\ Process(evt')
  /\ UNCHANGED <<WorkerOnly, m_process_events, forced, version, shown,
                 m_inputdata, handled, cmd>>

(* Updates that follow within the swallow time replace the one in hand; a  *)
(* QUIT or INPUT replaces it for good.  (Events of another type would go   *)
(* back to the queue; nothing creates one.)                                *)
Swallow ==
  /\ WorkerAt("swallow") /\ swallowed < m_swallow_limit
  /\ \E t \in Threads : Take(t)
  /\ swallowed' = swallowed + 1 /\ Replace
  /\ \/ evt' \in {"update", "forced"} /\ UNCHANGED <<wpc, handlers>>
     \/ evt' \notin {"update", "forced"} /\ Process(evt')
  /\ UNCHANGED <<WorkerOnly, m_process_events, forced, version, shown,
                 m_inputdata, handled, cmd>>

SwallowEnd_Drop ==
  /\ WorkerAt("swallow") /\ wpc' = "loop"
  /\ swallowed = m_swallow_limit \/ ~Signalled
  /\ UNCHANGED <<WorkerOnly, handlers, Quiet, m_inputdata, handled, evt,
                 swallowed, cmd>>

SwallowEnd ==
  /\ WorkerAt("swallow") /\ wpc' = "update"
  /\ swallowed = m_swallow_limit \/ ~Signalled
  /\ UNCHANGED <<WorkerOnly, handlers, Quiet, m_inputdata, handled, evt,
                 swallowed, cmd>>

(* process_update(): read the contents of every module and draw them.      *)
ProcessUpdate ==
  /\ WorkerAt("update") /\ wpc' = "loop"
  /\ shown' = version
  /\ replaced' = IF evt = "forced" THEN {} ELSE replaced \ {"change"}
  /\ forced' = (forced /\ evt # "forced")
  /\ UNCHANGED <<WorkerOnly, handlers, m_queue, m_process_events, version,
                 m_inputdata, handled, evt, swallowed, cmd>>

MoveInput_Copy ==
  /\ WorkerAt("input")
  /\ wpc' = IF m_inputdata = NoInput THEN "loop" ELSE "dispatch"
  /\ cmd' = m_inputdata
  /\ UNCHANGED <<WorkerOnly, handlers, Quiet, m_inputdata, handled, evt,
                 swallowed>>

(* process_inputdata(): move the string out, then clear it.                *)
MoveInput ==
  /\ WorkerAt("input")
  /\ wpc' = IF m_inputdata = NoInput THEN "loop" ELSE "clear"
  /\ cmd' = m_inputdata /\ m_inputdata' = NoInput
  /\ UNCHANGED <<WorkerOnly, handlers, Quiet, handled, evt, swallowed>>

ClearInput ==
  /\ WorkerAt("clear") /\ wpc' = "dispatch"
  /\ m_inputdata' = NoInput
  /\ UNCHANGED <<WorkerOnly, handlers, Quiet, handled, evt, swallowed, cmd>>

(* An action goes to its module, which may change; a command goes to the   *)
(* shell, followed by a forced update.                                     *)
Dispatch ==
  /\ WorkerAt("dispatch")
  /\ handled' = handled \cup {cmd}
  /\ cmd' = NoInput
  /\ \/ cmd \in Actions /\ wpc' = "loop" /\ UNCHANGED <<evt, version>>
     \/ /\ cmd \in Actions /\ wpc' = "announce"
        /\ evt' = "update" /\ version' = version + 1
     \/ /\ cmd \in Commands /\ wpc' = "update"
        /\ evt' = "forced" /\ UNCHANGED version
  /\ UNCHANGED <<WorkerOnly, handlers, m_queue, m_process_events, forced,
                 shown, replaced, m_inputdata, swallowed>>

WorkerStep ==
  \/ Ready \/ WorkerAnnounce \/ WorkerLoop \/ WaitDequeue \/ GotEvent
  \/ Swallow \/ SwallowEnd \/ ProcessUpdate \/ MoveInput \/ ClearInput
  \/ Dispatch

-----------------------------------------------------------------------------
Next ==
  \/ Stimulus
  \/ Announce
  \/ \E t \in {"main", "taskqueue"} : InputStep(t)
  \/ \E t \in Threads : HandlerStep(t)
  \/ MainStep
  \/ WorkerStep

Spec == Init /\ [][Next]_vars

(* Threads that can run do run; nothing is promised of the environment.    *)
FairSpec ==
  /\ Spec
  /\ WF_vars(MainStep) /\ WF_vars(WorkerStep) /\ WF_vars(Announce)
  /\ \A t \in {"main", "taskqueue"} : WF_vars(InputStep(t))
  /\ \A t \in Threads : WF_vars(HandlerStep(t))

-----------------------------------------------------------------------------
Returned == mpc = "returned"

(* polybar re-executes itself only if somebody asked for a reload, and     *)
(* exits only if somebody asked it to or something went wrong: no          *)
(* interleaving of signals, commands, the config watch and the QUIT that   *)
(* run() enqueues on its way out changes the decision by itself.           *)
OutcomeJustified ==
  /\ g_reload => "reload" \in asked
  /\ Returned /\ ~g_reload => asked \cap {"quit", "error"} # {}

(* An input that is waiting has an INPUT event that will find it, or is    *)
(* about to get one: otherwise every later input is swallowed for ever.    *)
InputHasEvent ==
  m_inputdata # NoInput =>
    \/ \E t \in Threads : \E n \in DOMAIN m_queue[t] : m_queue[t][n] = "input"
    \/ \E t \in {"main", "taskqueue"} : typing[t].step = "enqueue"
    \/ wpc \in {"got", "input"} /\ evt = "input"
    \/ wpc = "clear"
    \/ g_terminate

(* A change that is not on the screen is on its way there, unless an input *)
(* took the place of the update that announced it.                         *)
ChangeHasEvent ==
  version > shown =>
    \/ announcing \/ ~m_process_events \/ "change" \in replaced
    \/ \E t \in Threads : \E n \in DOMAIN m_queue[t] :
         m_queue[t][n] \in {"update", "forced"}
    \/ wpc \in {"announce", "got", "swallow", "update"}
    \/ g_terminate \/ \E t \in Threads : handlers[t] # <<>>

(* A forced redraw that was asked for, for a new background say, is on its *)
(* way, unless the worker swallowed it: a later update that is not forced, *)
(* or an input, took its place.                                            *)
ForcedHasEvent ==
  forced =>
    \/ "forced" \in replaced
    \/ \E t \in Threads : \E n \in DOMAIN m_queue[t] : m_queue[t][n] = "forced"
    \/ wpc \in {"got", "swallow", "update"} /\ evt = "forced"
    \/ g_terminate \/ \E t \in Threads : handlers[t] # <<>>

(* Whatever asks polybar to quit or reload, and whenever, run() returns:   *)
(* no wake-up of select(), of the event queue or of the join is lost.      *)
RequestsHonoured == (asked # {}) ~> Returned

(* A waiting input is taken, and those after it can come in.               *)
InputsNeverStuck ==
  (m_inputdata # NoInput) ~> (m_inputdata = NoInput \/ g_terminate)

(* A change reaches the screen unless polybar is told to stop, or an input *)
(* took the place of the update that announced it.                         *)
ChangesShown ==
  (version > shown)
    ~> (version = shown \/ g_terminate \/ "change" \in replaced)

(* What the user is promised: no exception for inputs.                     *)
EveryChangeShown == (version > shown) ~> (version = shown \/ g_terminate)
=============================================================================
