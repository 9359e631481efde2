------------------------------- MODULE Script -------------------------------
(***************************************************************************)
(* A script module and the command it runs: modules/script.cpp,            *)
(* utils/command.cpp, utils/process.cpp and the line reader of utils/io.cpp*)
(* The runner executes the command and reads its output; the main thread   *)
(* stops and destroys the module; the event queue worker may ask whether   *)
(* the command runs, which reaps it; the child prints and exits on its own.*)
(*                                                                         *)
(* Lines are numbered by the command that prints them.  Time is left out:  *)
(* sleep() and a poll with a timeout may end at any moment.  Operators     *)
(* whose name has a suffix are bugs that the code could have.              *)
(***************************************************************************)
EXTENDS Naturals, Sequences

CONSTANT MaxLines  \* bound on the lines a command prints

VARIABLES
  m_tail,                \* configured: tail = true
  m_enabled, m_stopping,
  m_handler,             \* who holds the lock around the handler, or "free"
  m_command,             \* is there a command object?
  child, failed,         \* its process, and how that exited
  term,                  \* SIGTERM was sent to it
  line, pipe, partial,   \* lines printed; unread ones; the start of another
  m_output, read,        \* the line shown; history: lines read from the child
  rpc, mpc, stopper,
  overrun                \* history: one was executed on a destroyed module

process == <<child, failed, term>>
output == <<line, pipe, partial>>
vars == <<m_tail, m_enabled, m_stopping, m_handler, m_command, child, failed,
          term, line, pipe, partial, m_output, read, rpc, mpc, stopper,
          overrun>>

Alive == {"running", "closed", "zombie"}
Stoppers == {"main", "runner"}

TypeOK ==
  /\ m_tail \in BOOLEAN /\ m_enabled \in BOOLEAN /\ m_stopping \in BOOLEAN
  /\ m_handler \in Stoppers \cup {"free"} /\ m_command \in BOOLEAN
  /\ child \in {"none", "reaped"} \cup Alive
  /\ failed \in BOOLEAN /\ term \in BOOLEAN
  /\ line \in 0 .. MaxLines /\ pipe \in Seq(1 .. MaxLines)
  /\ partial \in BOOLEAN
  /\ m_output \in 0 .. MaxLines /\ read \in Seq(1 .. MaxLines)
  /\ rpc \in {"loop", "condition", "lock", "start", "poll", "input", "read",
              "after", "wait", "first", "sleep", "halt", "exited"}
  /\ mpc \in {"run", "stop", "destroy", "join", "done"}
  /\ stopper \in [Stoppers -> {"lock", "reset", "leave", "out"}]
  /\ overrun \in BOOLEAN

Init ==
  /\ m_tail \in BOOLEAN /\ m_enabled = TRUE /\ m_stopping = FALSE
  /\ m_handler = "free" /\ m_command = FALSE
  /\ child = "none" /\ failed = FALSE /\ term = FALSE
  /\ line = 0 /\ pipe = <<>> /\ partial = FALSE
  /\ m_output = 0 /\ read = <<>>
  /\ rpc = "loop" /\ mpc = "run"
  /\ stopper = [t \in Stoppers |-> "out"]
  /\ overrun = FALSE

-----------------------------------------------------------------------------
(* The child process: external.                                            *)
ChildOnly == <<m_tail, m_enabled, m_stopping, m_handler, m_command, m_output,
               read, rpc, mpc, stopper, overrun>>

PrintLine ==
  /\ child = "running" /\ line < MaxLines
  /\ line' = line + 1 /\ pipe' = Append(pipe, line + 1) /\ partial' = FALSE
  /\ UNCHANGED <<ChildOnly, process>>

(* It prints the start of a line, and may never end it.                    *)
PrintPart ==
  /\ child = "running" /\ line < MaxLines /\ ~partial /\ partial' = TRUE
  /\ UNCHANGED <<ChildOnly, process, line, pipe>>

(* It closes its streams and becomes a zombie, with either exit status.    *)
Close ==
  /\ child = "running" /\ child' = "closed" /\ failed' \in BOOLEAN
  /\ UNCHANGED <<ChildOnly, term, output>>

Exit ==
  /\ child = "closed" /\ child' = "zombie"
  /\ UNCHANGED <<ChildOnly, failed, term, output>>

ChildStep == PrintLine \/ PrintPart \/ Close \/ Exit

-----------------------------------------------------------------------------
(* is_running(): waitpid(WNOHANG).  The first call after the exit collects *)
(* the child and still answers yes.                                        *)
IsRunning == m_command /\ child \in Alive

Reap == child' = IF child = "zombie" THEN "reaped" ELSE child

Hup == child # "running"

(* The worker asks for %pid% in get_output().                              *)
WorkerLooks ==
  /\ mpc = "run" /\ m_tail /\ IsRunning /\ Reap /\ child' # child
  /\ UNCHANGED <<ChildOnly, failed, term, output>>

-----------------------------------------------------------------------------
(* The runner: start(), check_condition(), process() and the handlers.     *)
RunnerOnly == <<m_tail, m_enabled, m_stopping, mpc, stopper>>
Goto(pc) == rpc' = pc

Loop ==
  /\ rpc = "loop"
  /\ Goto(IF m_enabled /\ ~m_stopping THEN "condition" ELSE "exited")
  /\ UNCHANGED <<RunnerOnly, m_handler, m_command, process, output, m_output,
                 read, overrun>>

(* exec-if, when configured, decides by the status of another command.     *)
CheckCondition ==
  /\ rpc = "condition"
  /\ \/ Goto("lock") /\ UNCHANGED m_output
     \/ Goto("sleep") /\ m_output' = 0
  /\ UNCHANGED <<RunnerOnly, m_handler, m_command, process, output, read, overrun>>

LockHandler ==
  /\ rpc = "lock" /\ m_handler = "free" /\ m_handler' = "runner"
  /\ Goto("start")
  /\ UNCHANGED <<RunnerOnly, m_command, process, output, m_output, read, overrun>>

(* A tailed command that still runs goes on.                               *)
Resume ==
  /\ rpc = "start" /\ m_tail /\ IsRunning /\ Reap /\ Goto("poll")
  /\ UNCHANGED <<RunnerOnly, m_handler, m_command, failed, term, output,
                 m_output, read, overrun>>

Spawn ==
  /\ m_command' = TRUE /\ child' = "running"
  /\ failed' = FALSE /\ term' = FALSE
  /\ line' = 0 /\ pipe' = <<>> /\ partial' = FALSE /\ read' = <<>>

(* Otherwise a new one is made, which destroys the old one.                *)
Execute ==
  /\ rpc = "start" /\ ~(m_tail /\ IsRunning) /\ Spawn
  /\ overrun' = (mpc \in {"join", "done"})
  /\ Goto(IF m_tail THEN "poll" ELSE "wait")
  /\ UNCHANGED <<RunnerOnly, m_handler, m_output>>

(* fork() or a pipe fails: the handler throws and the runner halts.        *)
Fail ==
  /\ rpc = "start" /\ ~(m_tail /\ IsRunning)
  /\ m_command' = TRUE /\ child' = "none"
  /\ m_handler' = "free" /\ m_stopping' = TRUE
  /\ stopper' = [stopper EXCEPT !["runner"] = "lock"] /\ Goto("halt")
  /\ UNCHANGED <<m_tail, m_enabled, mpc, failed, term, output, m_output, read, overrun>>

Poll_Deaf ==
  /\ rpc = "poll"
  /\ IF IsRunning
     THEN Reap /\ Goto(IF Hup THEN "after" ELSE "input")
     ELSE UNCHANGED child /\ Goto("after")
  /\ UNCHANGED <<RunnerOnly, m_handler, m_command, failed, term, output,
                 m_output, read, overrun>>

(* The condition of the tail loop, in its order.                           *)
Poll ==
  /\ rpc = "poll"
  /\ IF ~m_stopping /\ IsRunning
     THEN Reap /\ Goto(IF Hup THEN "after" ELSE "input")
     ELSE UNCHANGED child /\ Goto("after")
  /\ UNCHANGED <<RunnerOnly, m_handler, m_command, failed, term, output,
                 m_output, read, overrun>>

PollRead ==
  /\ rpc = "input"
  /\ Goto(IF pipe # <<>> \/ partial THEN "read" ELSE "poll")
  /\ UNCHANGED <<RunnerOnly, m_handler, m_command, process, output, m_output,
                 read, overrun>>

(* A stream's buffer takes all that the pipe holds.                        *)
Underflow == pipe' = <<>> /\ partial' = FALSE

(* io_util::readline() makes a stream of its own, takes the first line and *)
(* drops the rest.  Without a line end it waits for more, or for the end   *)
(* of the stream.                                                          *)
Readline ==
  /\ \/ /\ pipe # <<>>
        /\ m_output' = Head(pipe) /\ read' = Append(read, Head(pipe))
     \/ pipe = <<>> /\ Hup /\ m_output' = 0 /\ UNCHANGED read
  /\ Underflow /\ UNCHANGED line

ReadLine ==
  /\ rpc = "read" /\ Readline /\ Goto("poll")
  /\ UNCHANGED <<RunnerOnly, m_handler, m_command, process, overrun>>

(* How long to sleep: asks again whether the command runs.                 *)
After ==
  /\ rpc = "after" /\ Goto("sleep") /\ m_handler' = "free"
  /\ IF ~m_stopping /\ IsRunning THEN Reap ELSE UNCHANGED child
  /\ UNCHANGED <<RunnerOnly, m_command, failed, term, output, m_output, read, overrun>>

(* Without tail: wait for the command, then read its first line.           *)
WaitCommand ==
  /\ rpc = "wait" /\ child \in {"zombie", "reaped"} /\ Reap /\ Goto("first")
  /\ UNCHANGED <<RunnerOnly, m_handler, m_command, failed, term, output,
                 m_output, read, overrun>>

FirstLine ==
  /\ rpc = "first" /\ Goto("sleep") /\ m_handler' = "free"
  /\ IF pipe # <<>> \/ partial THEN Readline
     ELSE /\ m_output' = IF failed THEN 0 ELSE m_output
          /\ UNCHANGED <<output, read>>
  /\ UNCHANGED <<RunnerOnly, m_command, process, overrun>>

Awake ==
  /\ rpc = "sleep" /\ Goto("loop")
  /\ UNCHANGED <<RunnerOnly, m_handler, m_command, process, output, m_output,
                 read, overrun>>

Halted ==
  /\ rpc = "halt" /\ stopper["runner"] = "out" /\ Goto("exited")
  /\ UNCHANGED <<RunnerOnly, m_handler, m_command, process, output, m_output,
                 read, overrun>>

RunnerStep ==
  \/ Loop \/ CheckCondition \/ LockHandler \/ Resume \/ Execute \/ Fail
  \/ Poll \/ PollRead \/ ReadLine \/ After \/ WaitCommand \/ FirstLine
  \/ Awake \/ Halted

-----------------------------------------------------------------------------
(* stop(), on the main thread or on a runner that halts.                   *)
StopOnly == <<m_tail, m_stopping, failed, output, m_output, read, rpc, mpc, overrun>>
Proceed(t, pc) == stopper' = [stopper EXCEPT ![t] = pc]

StopLock(t) ==
  /\ stopper[t] = "lock" /\ Proceed(t, "reset")
  /\ m_handler = "free" /\ m_handler' = t
  /\ UNCHANGED <<StopOnly, m_enabled, m_command, child, term>>

(* m_command.reset(): ~command asks twice whether the command runs; if so  *)
(* terminate() signals its group and waits for it: the reset goes on until *)
(* there is no command.                                                    *)
Destroyed ==
  /\ Reap
  /\ term' = (term \/ (m_command /\ child \in {"running", "closed"}))
  /\ m_command' = (m_command /\ child \in {"running", "closed"})

StopReset_Forgets(t) ==
  /\ stopper[t] = "reset" /\ m_command' = FALSE
  /\ UNCHANGED <<child, term>> /\ Proceed(t, "leave")
  /\ UNCHANGED <<StopOnly, m_enabled, m_handler>>

StopReset(t) ==
  /\ stopper[t] = "reset" /\ Destroyed
  /\ Proceed(t, IF m_command' THEN "reset" ELSE "leave")
  /\ UNCHANGED <<StopOnly, m_enabled, m_handler>>

(* module::stop() is called with the lock held.                            *)
StopLeave(t) ==
  /\ stopper[t] = "leave" /\ Proceed(t, "out")
  /\ m_enabled' = FALSE /\ m_handler' = "free"
  /\ UNCHANGED <<StopOnly, m_command, child, term>>

StopStep(t) == StopLock(t) \/ StopReset(t) \/ StopLeave(t)

-----------------------------------------------------------------------------
(* The main thread stops and destroys the module.                          *)
MainOnly == <<m_tail, m_enabled, m_handler, failed, output, m_output, read,
              rpc, overrun>>

Stop ==
  /\ mpc = "run" /\ mpc' = "stop" /\ m_stopping' = TRUE
  /\ Proceed("main", "lock")
  /\ UNCHANGED <<MainOnly, m_command, child, term>>

BeginDestroy ==
  /\ mpc = "stop" /\ stopper["main"] = "out" /\ mpc' = "destroy"
  /\ UNCHANGED <<MainOnly, m_stopping, stopper, m_command, child, term>>

(* ~script_module() destroys m_command without the lock, before ~module()  *)
(* joins the runner.                                                       *)
Destroy ==
  /\ mpc = "destroy" /\ Destroyed
  /\ mpc' = IF m_command' THEN "destroy" ELSE "join"
  /\ UNCHANGED <<MainOnly, m_stopping, stopper>>

Join ==
  /\ mpc = "join" /\ rpc = "exited" /\ mpc' = "done"
  /\ UNCHANGED <<MainOnly, m_stopping, stopper, m_command, child, term>>

MainStep == BeginDestroy \/ Destroy \/ Join

-----------------------------------------------------------------------------
Next ==
  \/ ChildStep \/ WorkerLooks \/ RunnerStep
  \/ \E t \in Stoppers : StopStep(t)
  \/ Stop \/ MainStep

Spec == Init /\ [][Next]_vars

CommandEnds == (~m_tail \/ term) /\ Close

(* Threads run; a command that is not tailed ends, and so does one that    *)
(* was sent SIGTERM.                                                       *)
FairSpec ==
  /\ Spec
  /\ WF_vars(RunnerStep) /\ WF_vars(MainStep)
  /\ \A t \in Stoppers : WF_vars(StopStep(t))
  /\ WF_vars(CommandEnds) /\ WF_vars(Exit)

-----------------------------------------------------------------------------
(* stop() terminates the command that runs: once the module is gone none   *)
(* is left, unless a runner that was past its look at m_stopping executed  *)
(* one on the module being destroyed.                                      *)
CommandsTerminated ==
  mpc = "done" /\ ~overrun => child \in {"none", "reaped"}

(* Stopping a script module ends, unless the runner waits for the rest of  *)
(* a line with the lock held.                                              *)
Stopping == mpc = "stop"
Stopped == mpc = "done" \/ (rpc = "read" /\ pipe = <<>> /\ child = "running")
ScriptStops == Stopping ~> Stopped

(* What command.hpp shows of readline(): each call returns the next line.  *)
LinesInOrder == \A i \in DOMAIN read : read[i] = i

-----------------------------------------------------------------------------
(* What is proved of it: a process is only ever without its command object *)
(* when it has been collected, and none is left behind by a module that is *)
(* gone.                                                                   *)

(* What child and m_command may be.                                        *)
Typed == child \in {"none", "reaped"} \cup Alive /\ m_command \in BOOLEAN

Collected == child \in {"none", "reaped"}

(* ~command() does not return before its process is collected, so that a   *)
(* module without a command has no process either.                         *)
Owned == m_command \/ Collected

(* ~script_module() has destroyed the last command; only one that was      *)
(* executed afterwards can live.                                           *)
Gone == mpc \in {"join", "done"} /\ ~overrun => Collected

Inv == Typed /\ Owned /\ Gone

(* The steps that neither make a process nor destroy a command: a process  *)
(* ends or is collected, and the main thread does not get past the         *)
(* destruction of the last command.                                        *)
Ages ==
  /\ UNCHANGED <<m_command, overrun>>
  /\ UNCHANGED child \/ (child \in Alive /\ child' \in Alive \cup {"reaped"})
  /\ mpc' = mpc \/ mpc' \notin {"join", "done"} \/ mpc = "join"
=============================================================================
