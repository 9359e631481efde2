------------------------------- MODULE Module -------------------------------
(***************************************************************************)
(* The life of one module: include/modules/meta/base.inl and the runners   *)
(* of timer, event, inotify and static modules.  Three threads meet here:  *)
(* the runner, which refreshes the module's data and broadcasts; the event *)
(* queue worker, which asks for contents(); and the main thread, which     *)
(* handles X events (static modules) and destroys the module in the end.   *)
(*                                                                         *)
(* What a module shows is a version number: source is the state of the     *)
(* world, data what update() last read, m_cache what contents() built,     *)
(* shown what the bar was given.  Time is left out: a thread in a timed    *)
(* wait may wake at any moment, so wakeup() changes nothing.  Several      *)
(* pending UPDATE events count as one, as the worker swallows them.        *)
(*                                                                         *)
(* Operators whose name has a suffix (Loop_Always) are bugs that the code  *)
(* could have; the specification does not use them.                        *)
(***************************************************************************)
EXTENDS Naturals

CONSTANTS
  Kinds,      \* the kinds of module considered
  MaxChanges  \* bound on how often the world changes

AllKinds == {"timer", "event", "inotify", "static"}

ASSUME ModuleAssumption == Kinds \subseteq AllKinds /\ MaxChanges \in Nat

VARIABLES
  kind,
  source, data,
  m_enabled, m_changed, m_cache,
  m_updatelock, m_buildlock,     \* which thread holds them, or "free"
  rpc, first, again,   \* runner: warming up?  still in the poll loop?
  wpc, queued, shown,  \* worker: is an UPDATE event pending?
  mpc,                 \* main thread
  stopper,             \* where each thread is in stop()
  raised,              \* SIGALRM, because no module runs any more
  torn, late,          \* history: teardown() calls, refreshes after one
  lost                 \* history: a broadcast was overwritten

content == <<source, data>>
cache == <<m_changed, m_cache>>
locks == <<m_updatelock, m_buildlock>>
runner == <<rpc, first, again>>
worker == <<wpc, queued, shown>>
history == <<torn, late, lost>>
vars == <<kind, source, data, m_enabled, m_changed, m_cache, m_updatelock,
          m_buildlock, rpc, first, again, wpc, queued, shown, mpc, stopper,
          raised, torn, late, lost>>

RunnerPC == {"loop", "acquire", "poll", "update", "set", "emit", "idle",
             "asleep", "return", "halting", "exited"}
WorkerPC == {"idle", "running", "contents", "build", "clear", "gone"}
MainPC == {"run", "set", "emit", "quit", "stopping", "join", "done"}
Stoppers == {"main", "runner"}
StopPC == {"check", "disable", "lock", "teardown", "release", "out"}

TypeOK ==
  /\ kind \in Kinds
  /\ source \in 0 .. MaxChanges /\ data \in 0 .. source
  /\ m_enabled \in BOOLEAN /\ m_changed \in BOOLEAN /\ m_cache \in 0 .. data
  /\ m_updatelock \in Stoppers \cup {"free"}
  /\ m_buildlock \in Stoppers \cup {"worker", "free"}
  /\ rpc \in RunnerPC /\ first \in BOOLEAN /\ again \in BOOLEAN
  /\ wpc \in WorkerPC /\ queued \in BOOLEAN /\ shown \in 0 .. m_cache
  /\ mpc \in MainPC
  /\ stopper \in [Stoppers -> StopPC]
  /\ raised \in BOOLEAN
  /\ torn \in 0 .. 2 /\ late \in Nat /\ lost \in BOOLEAN

(* The module is constructed, its thread started; ui::ready has enqueued   *)
(* an update.                                                              *)
Init ==
  /\ kind \in Kinds
  /\ source = 0 /\ data = 0
  /\ m_enabled = TRUE /\ m_changed = TRUE /\ m_cache = 0
  /\ m_updatelock = "free" /\ m_buildlock = "free"
  /\ rpc = "acquire" /\ first = TRUE /\ again = FALSE
  /\ wpc = "idle" /\ queued = TRUE /\ shown = 0
  /\ mpc = "run"
  /\ stopper = [t \in Stoppers |-> "out"]
  /\ raised = FALSE
  /\ torn = 0 /\ late = 0 /\ lost = FALSE

Change ==
  /\ source < MaxChanges /\ source' = source + 1
  /\ UNCHANGED <<kind, data, m_enabled, cache, locks, runner, worker, mpc,
                 stopper, raised, history>>

-----------------------------------------------------------------------------
(* broadcast() sets m_changed, then has an UPDATE event enqueued.          *)
SetChanged_Forgotten ==
  /\ UNCHANGED <<m_changed, lost>>
  /\ UNCHANGED <<kind, content, m_enabled, m_cache, locks, first, again,
                 worker, stopper, raised, torn, late>>

SetChanged ==
  /\ m_changed' = TRUE
  /\ lost' = (lost \/ wpc = "clear")
  /\ UNCHANGED <<kind, content, m_enabled, m_cache, locks, first, again,
                 worker, stopper, raised, torn, late>>

EmitChange ==
  /\ queued' = TRUE
  /\ UNCHANGED <<kind, content, m_enabled, cache, locks, again, wpc, shown,
                 stopper, raised, history>>

-----------------------------------------------------------------------------
(* The runner.                                                             *)
RunnerOnly == <<kind, source, cache, m_buildlock, worker, mpc, raised, torn,
                lost>>

(* Taking m_updatelock; a static module has no use for it.                 *)
Acquire ==
  /\ rpc = "acquire"
  /\ IF kind = "static" THEN UNCHANGED m_updatelock
     ELSE m_updatelock = "free" /\ m_updatelock' = "runner"
  /\ rpc' = IF kind = "inotify" /\ ~first THEN "poll" ELSE "update"
  /\ UNCHANGED <<RunnerOnly, data, m_enabled, first, again, stopper, late>>

Poll_Forever ==
  /\ rpc = "poll"
  /\ \/ rpc' = "asleep" /\ again' = FALSE
     \/ rpc' = "update" /\ again' = FALSE
     \/ source = data /\ rpc' = "idle" /\ again' = TRUE
  /\ UNCHANGED <<RunnerOnly, data, m_enabled, m_updatelock, first, stopper,
                 late>>

(* An inotify module polls its watches with the lock held, for as long as  *)
(* it is enabled and nothing happens; without watches it sleeps and tries  *)
(* again.                                                                  *)
Poll ==
  /\ rpc = "poll"
  /\ \/ rpc' = "asleep" /\ again' = FALSE
     \/ ~m_enabled /\ rpc' = "return" /\ UNCHANGED again
     \/ m_enabled /\ rpc' = "update" /\ again' = FALSE
     \/ m_enabled /\ source = data /\ rpc' = "idle" /\ again' = TRUE
  /\ UNCHANGED <<RunnerOnly, data, m_enabled, m_updatelock, first, stopper,
                 late>>

(* Does a runner broadcast before it releases m_updatelock?                *)
KeepsLock == kind = "inotify" \/ (kind = "event" /\ first)

Release(keep) ==
  m_updatelock' = IF keep \/ kind = "static" THEN m_updatelock ELSE "free"

Late == late' = late + (IF torn > 0 THEN 1 ELSE 0)

(* update(), or on_event(), and has_event() before it: a timer module may  *)
(* announce a change although there is none.                               *)
Refresh ==
  /\ rpc = "update"
  /\ data' = source
  /\ Late
  /\ \/ /\ first \/ source # data \/ kind = "timer"
        /\ rpc' = "set" /\ Release(KeepsLock)
     \/ /\ ~first /\ source = data
        /\ rpc' = "idle" /\ Release(kind = "inotify")
  /\ UNCHANGED <<RunnerOnly, m_enabled, first, again, stopper>>

(* update() throws: the lock is released on the way to halt().             *)
Fail ==
  /\ rpc = "update" /\ kind # "static"
  /\ rpc' = "halting" /\ Release(FALSE) /\ Late
  /\ stopper' = [stopper EXCEPT !["runner"] = "check"]
  /\ UNCHANGED <<RunnerOnly, data, m_enabled, first, again>>

RunnerSet == rpc = "set" /\ rpc' = "emit" /\ SetChanged /\ UNCHANGED mpc

RunnerEmit ==
  /\ rpc = "emit" /\ EmitChange /\ UNCHANGED mpc
  /\ first' = FALSE
  /\ rpc' = CASE kind = "static" -> "exited"
              [] first -> "return"
              [] OTHER -> "idle"

(* idle(), sleep() or sleep_until(): only while the module is enabled.     *)
Idle ==
  /\ rpc = "idle"
  /\ rpc' = IF m_enabled THEN "asleep" ELSE IF again THEN "poll" ELSE "return"
  /\ UNCHANGED <<RunnerOnly, data, m_enabled, m_updatelock, first, again,
                 stopper, late>>

Awake ==
  /\ rpc = "asleep" /\ rpc' = IF again THEN "poll" ELSE "return"
  /\ UNCHANGED <<RunnerOnly, data, m_enabled, m_updatelock, first, again,
                 stopper, late>>

Return ==
  /\ rpc = "return" /\ rpc' = "loop"
  /\ m_updatelock' = IF m_updatelock = "runner" THEN "free" ELSE m_updatelock
  /\ UNCHANGED <<RunnerOnly, data, m_enabled, first, again, stopper, late>>

Loop_Always ==
  /\ rpc = "loop" /\ rpc' = "acquire"
  /\ UNCHANGED <<RunnerOnly, data, m_enabled, m_updatelock, first, again,
                 stopper, late>>

Loop ==
  /\ rpc = "loop" /\ rpc' = IF m_enabled THEN "acquire" ELSE "exited"
  /\ UNCHANGED <<RunnerOnly, data, m_enabled, m_updatelock, first, again,
                 stopper, late>>

Halted ==
  /\ rpc = "halting" /\ stopper["runner"] = "out" /\ rpc' = "exited"
  /\ UNCHANGED <<RunnerOnly, data, m_enabled, m_updatelock, first, again,
                 stopper, late>>

RunnerStep ==
  \/ Acquire \/ Poll \/ Refresh \/ Fail \/ RunnerSet \/ RunnerEmit \/ Idle
  \/ Awake \/ Return \/ Loop \/ Halted

-----------------------------------------------------------------------------
(* stop(), on the runner when it halts or on the main thread.              *)
StopOnly == <<kind, content, cache, runner, worker, mpc, late, lost>>
Proceed(t, pc) == stopper' = [stopper EXCEPT ![t] = pc]

StopCheck(t) ==
  /\ stopper[t] = "check"
  /\ Proceed(t, IF m_enabled THEN "disable" ELSE "out")
  /\ UNCHANGED <<StopOnly, m_enabled, locks, raised, torn>>

StopDisable(t) ==
  /\ stopper[t] = "disable" /\ Proceed(t, "lock")
  /\ m_enabled' = FALSE
  /\ UNCHANGED <<StopOnly, locks, raised, torn>>

StopLock_BuildOnly(t) ==
  /\ stopper[t] = "lock" /\ Proceed(t, "teardown")
  /\ m_buildlock = "free" /\ m_buildlock' = t
  /\ UNCHANGED <<StopOnly, m_enabled, m_updatelock, raised, torn>>

(* std::lock() takes both or neither.                                      *)
StopLock(t) ==
  /\ stopper[t] = "lock" /\ Proceed(t, "teardown")
  /\ m_updatelock = "free" /\ m_buildlock = "free"
  /\ m_updatelock' = t /\ m_buildlock' = t
  /\ UNCHANGED <<StopOnly, m_enabled, raised, torn>>

(* teardown(), then check_state: the controller raises SIGALRM when no     *)
(* module is left, unless its destructor has detached it.                  *)
StopTeardown(t) ==
  /\ stopper[t] = "teardown" /\ Proceed(t, "release")
  /\ torn' = torn + 1
  /\ raised' = (raised \/ mpc \notin {"stopping", "join"})
  /\ UNCHANGED <<StopOnly, m_enabled, locks>>

StopRelease(t) ==
  /\ stopper[t] = "release" /\ Proceed(t, "out")
  /\ m_updatelock' = "free" /\ m_buildlock' = "free"
  /\ UNCHANGED <<StopOnly, m_enabled, raised, torn>>

StopStep(t) ==
  \/ StopCheck(t) \/ StopDisable(t) \/ StopLock(t) \/ StopTeardown(t)
  \/ StopRelease(t)

-----------------------------------------------------------------------------
(* The worker: process_update() and contents().  It takes no event any more*)
(* once the main loop has been told to quit.                               *)
WorkerOnly == <<kind, content, m_enabled, m_updatelock, runner, mpc, stopper,
                raised, torn, late>>

TakeUpdate ==
  /\ wpc = "idle" /\ mpc # "quit" /\ queued
  /\ queued' = FALSE /\ wpc' = "running"
  /\ UNCHANGED <<WorkerOnly, cache, m_buildlock, shown, lost>>

Skip ==
  /\ wpc = "running"
  /\ wpc' = IF m_enabled THEN "contents" ELSE "idle"
  /\ UNCHANGED <<WorkerOnly, cache, m_buildlock, queued, shown, lost>>

Contents ==
  /\ wpc = "contents"
  /\ IF m_changed
     THEN /\ m_buildlock = "free" /\ m_buildlock' = "worker"
          /\ wpc' = "build" /\ UNCHANGED shown
     ELSE wpc' = "idle" /\ shown' = m_cache /\ UNCHANGED m_buildlock
  /\ UNCHANGED <<WorkerOnly, cache, queued, lost>>

(* get_output() reads what update() writes; the lock it holds is another.  *)
Build ==
  /\ wpc = "build" /\ wpc' = "clear"
  /\ m_cache' = data /\ m_buildlock' = "free" /\ lost' = FALSE
  /\ UNCHANGED <<WorkerOnly, m_changed, queued, shown>>

Clear_Data ==
  /\ wpc = "clear" /\ wpc' = "idle"
  /\ m_changed' = FALSE /\ shown' = data
  /\ UNCHANGED <<WorkerOnly, m_cache, m_buildlock, queued, lost>>

Clear ==
  /\ wpc = "clear" /\ wpc' = "idle"
  /\ m_changed' = FALSE /\ shown' = m_cache
  /\ UNCHANGED <<WorkerOnly, m_cache, m_buildlock, queued, lost>>

(* The worker leaves process_eventqueue().                                 *)
Gone ==
  /\ wpc = "idle" /\ mpc = "quit" /\ wpc' = "gone"
  /\ UNCHANGED <<WorkerOnly, cache, m_buildlock, queued, shown, lost>>

WorkerStep == TakeUpdate \/ Skip \/ Contents \/ Build \/ Clear \/ Gone

-----------------------------------------------------------------------------
(* The main thread.                                                        *)
MainOnly == <<kind, source, m_enabled, locks, runner, raised, torn, late>>

(* An X event makes a static module refresh itself on this thread.         *)
HandleX ==
  /\ mpc = "run" /\ kind = "static" /\ source # data
  /\ data' = source /\ mpc' = "set"
  /\ UNCHANGED <<MainOnly, cache, worker, stopper, lost>>

HandlerSet == mpc = "set" /\ mpc' = "emit" /\ SetChanged /\ UNCHANGED rpc

HandlerEmit ==
  /\ mpc = "emit" /\ mpc' = "run" /\ EmitChange /\ UNCHANGED <<rpc, first>>

Quit ==
  /\ mpc = "run" /\ mpc' = "quit"
  /\ UNCHANGED <<MainOnly, data, cache, worker, stopper, lost>>

(* run() has joined the worker; ~controller() stops the module ...         *)
BeginStop ==
  /\ mpc = "quit" /\ wpc = "gone" /\ mpc' = "stopping"
  /\ stopper' = [stopper EXCEPT !["main"] = "check"]
  /\ UNCHANGED <<MainOnly, data, cache, worker, lost>>

(* ... and the members of the module are destroyed before ~module() joins  *)
(* the runner.                                                             *)
Destroy ==
  /\ mpc = "stopping" /\ stopper["main"] = "out" /\ mpc' = "join"
  /\ UNCHANGED <<MainOnly, data, cache, worker, stopper, lost>>

Join ==
  /\ mpc = "join" /\ rpc = "exited" /\ mpc' = "done"
  /\ UNCHANGED <<MainOnly, data, cache, worker, stopper, lost>>

MainStep ==
  HandleX \/ HandlerSet \/ HandlerEmit \/ BeginStop \/ Destroy \/ Join

-----------------------------------------------------------------------------
Next ==
  \/ Change \/ Quit
  \/ RunnerStep \/ WorkerStep \/ MainStep
  \/ \E t \in Stoppers : StopStep(t)

Spec == Init /\ [][Next]_vars

(* Threads run, timed waits end, and a raised signal makes the main loop   *)
(* return (RequestsHonoured in Controller).  No mutex has to be fair: stop *)
(* clears m_enabled before it waits for the runner's.                      *)
FairSpec ==
  /\ Spec
  /\ WF_vars(RunnerStep) /\ WF_vars(WorkerStep) /\ WF_vars(MainStep)
  /\ WF_vars(raised /\ Quit)
  /\ \A t \in Stoppers : WF_vars(StopStep(t))

-----------------------------------------------------------------------------
Updating == m_updatelock = "runner" /\ rpc \in {"update", "poll"}

(* stop() promises that nothing is refreshed or built while teardown()     *)
(* takes the module apart, whoever calls it.                               *)
QuietTeardown ==
  \A t \in Stoppers :
    stopper[t] = "teardown" => ~Updating /\ wpc # "build"

(* teardown() may still be followed by one refresh, of a runner that had   *)
(* looked at m_enabled before stop() cleared it, but never by two: also    *)
(* not when the runner halts while the main thread stops the module.       *)
LateRefreshes == late <= 1

(* A module that is running and whose data is newer than what is shown has *)
(* an update on its way that will rebuild the cache, unless its broadcast  *)
(* fell between the end of a build and the reset of m_changed.             *)
ChangeOnItsWay ==
  data > shown /\ m_enabled /\ ~lost =>
    \/ rpc \in {"set", "emit"} \/ mpc \in {"set", "emit"}
    \/ (queued \/ wpc # "idle") /\ (m_changed \/ m_cache = data)

(* Destruction returns, whatever the runner does and even if it halts at   *)
(* the same time; and a module that halts brings polybar down with it when *)
(* it is the last.                                                         *)
JoinReturns == (raised \/ mpc = "quit") ~> mpc = "done"

(* What a broadcast announces is drawn, while the module runs.             *)
ChangesDrawn ==
  (data > shown)
    ~> \/ data = shown \/ ~m_enabled
       \/ mpc \in {"quit", "stopping", "join", "done"}
=============================================================================
