---------------------------- MODULE MCController ----------------------------
(* Small instances of Controller: what happens around it in each run.      *)
EXTENDS Controller

S(type, arg) == [type |-> type, arg |-> arg]

MCActions == {"#date.toggle", "#menu.open"}
MCCommands == {"xterm"}

(* Signals, a command, the config watch and the X server race to end it;   *)
(* and the end of the last module with a command under way.                *)
ShutdownEnv ==
  { S("signal", "SIGTERM"), S("signal", "SIGUSR1"), S("ipc", "quit"),
    S("config", ""), S("disconnect", "") }

LastModuleEnv ==
  { S("nomodules", ""), S("signal", "SIGTERM"), S("ipc", "restart") }

(* Changes, of modules and of the background, and a screen change.         *)
UpdateEnv ==
  { S("change", "first"), S("ipc", "hook"), S("x", "background"),
    S("x", "randr"), S("change", "second") }

(* Inputs over ipc, from a click and from a double click.                  *)
InputEnv ==
  { S("ipc", "#date.toggle"), S("x", "#menu.open"), S("doubleclick", "xterm") }

(* The scenarios of the runs: all of these; one ipc action, while polybar  *)
(* starts; an action and a click soon after it.                            *)
AllScenarios == {ShutdownEnv, LastModuleEnv, InputEnv, UpdateEnv}
EarlyAction == {{ S("ipc", "#date.toggle") }}
ActionThenClick == {{ S("ipc", "#date.toggle"), S("x", "#menu.open") }}
=============================================================================
