--------------------------------- MODULE I3 ---------------------------------
(***************************************************************************)
(* The i3 module (modules/i3.cpp, utils/i3.cpp): a runner waits on a       *)
(* socket for events and asks i3 for its workspaces after each; clicks and *)
(* the wheel send commands from the event queue's worker; the main thread, *)
(* when the worker is gone, ends the sockets to stop the runner.           *)
(*                                                                         *)
(* i3 (external) has outputs with workspaces in an order, one visible on   *)
(* each, one of those focused, and a mode; it can be started again.        *)
(***************************************************************************)
EXTENDS Integers, Sequences, FiniteSets, TLC

CONSTANTS Outputs,    \* a sequence of [name, workspaces], workspaces of
                      \* [name, num]; names are strings without quotes
          BarOutput,  \* an index of Outputs: m_bar.monitor
          MaxOps      \* bound on what i3 and the user do

VARIABLES
  conf,      \* [pin, show_urgent, indexsort, wrap]
  i3,        \* [up, focus, visible, urgent, mode]
  stream,    \* events that the runner has not read
  socket,    \* the runner's: "open", "closed"
  rpc,       \* "warm up", "event", "update", "idle", "halted", "exited"
  m_workspaces, m_mode,
  shown,     \* [workspaces, mode] of the last broadcast
  stopper,   \* stop(): "out", "enabled", "lock", "done"
  m_enabled,
  scroll,    \* focus_direction(): [on, next, go, current, focused]
  scrolled,  \* history: [of, was, after, next], i3 before and after a scroll
  gap, ops   \* history: what changed while no socket was open; bound

vars == <<conf, i3, stream, socket, rpc, m_workspaces, m_mode, shown, stopper, m_enabled,
          scroll, scrolled, gap, ops>>

-----------------------------------------------------------------------------
Name(o, i) == Outputs[o].workspaces[i].name
Names == UNION {{Name(o, i) : i \in DOMAIN Outputs[o].workspaces} : o \in DOMAIN Outputs}

(* What i3 answers: output by output, in order.                            *)
OutputWorkspaces(o) ==
  [i \in DOMAIN Outputs[o].workspaces |->
    [name |-> Name(o, i), num |-> Outputs[o].workspaces[i].num, output |-> o,
     visible |-> i3.visible[o] = i, focused |-> i3.visible[o] = i /\ i3.focus = o,
     urgent |-> Name(o, i) \in i3.urgent]]
Concat(lists) ==
  LET upto[n \in 0 .. Len(lists)] == IF n = 0 THEN <<>> ELSE upto[n - 1] \o lists[n]
  IN upto[Len(lists)]
GetWorkspaces == Concat([o \in DOMAIN Outputs |-> OutputWorkspaces(o)])

(* workspaces(): those of an output, and urgent ones elsewhere.            *)
WorkspacesOf(all, outputs, show_urgent) ==
  SelectSeq(all, LAMBDA w : w.output \in outputs \/ (show_urgent /\ w.urgent))

State(w) ==
  IF w.focused THEN "focused" ELSE IF w.urgent THEN "urgent" ELSE IF w.visible THEN "visible" ELSE "unfocused"

(* update(): asked for, sorted, and given a label each.                    *)
Chosen(c, all) ==
  LET ws == WorkspacesOf(all, IF c.pin THEN {BarOutput} ELSE DOMAIN Outputs, c.pin /\ c.show_urgent)
  IN IF c.indexsort THEN SortSeq(ws, LAMBDA v, w : v.num < w.num) ELSE ws
Asked == Chosen(conf, GetWorkspaces)
Labels(ws) == [n \in DOMAIN ws |-> [name |-> ws[n].name, state |-> State(ws[n])]]

DEFAULT_MODE == "default"
None == [workspaces |-> <<>>, mode |-> "none"]

TypeOK ==
  /\ conf \in [{"pin", "show_urgent", "indexsort", "wrap"} -> BOOLEAN] /\ i3.focus \in DOMAIN Outputs /\ i3.urgent \subseteq Names
  /\ \A o \in DOMAIN Outputs : i3.visible[o] \in DOMAIN Outputs[o].workspaces
  /\ rpc \in {"warm up", "event", "update", "idle", "halted", "exited"}
  /\ stopper \in {"out", "enabled", "lock", "done"} /\ m_enabled \in BOOLEAN /\ gap \subseteq {"workspace", "mode"}

Started ==
  [up |-> TRUE, focus |-> BarOutput, visible |-> [o \in DOMAIN Outputs |-> 1], urgent |-> {},
   mode |-> DEFAULT_MODE]
AtRest == [on |-> FALSE, next |-> TRUE, go |-> FALSE, current |-> 1, focused |-> FALSE]
NoScroll == [of |-> "none", was |-> Started, after |-> Started, next |-> TRUE]

(* The module subscribes before its runner asks for the first time.        *)
Init ==
  /\ \E pin \in BOOLEAN : conf = [pin |-> pin, show_urgent |-> pin, indexsort |-> TRUE, wrap |-> ~pin]
  /\ i3 = Started /\ stream = <<>> /\ socket = "open" /\ rpc = "warm up"
  /\ m_workspaces = <<>> /\ m_mode = DEFAULT_MODE /\ shown = None
  /\ stopper = "out" /\ m_enabled = TRUE /\ scroll = AtRest /\ scrolled = NoScroll /\ gap = {} /\ ops = 0

-----------------------------------------------------------------------------
(* update() with a connection of its own: without i3 that is an exception  *)
(* that ends the runner; what is made of the answer is broadcast.          *)
Update ==
  /\ rpc \in {"warm up", "update"}
  /\ IF i3.up
     THEN /\ m_workspaces' = Labels(Asked) /\ shown' = [workspaces |-> m_workspaces', mode |-> m_mode]
          /\ rpc' = "idle"
     ELSE m_workspaces' = <<>> /\ rpc' = "halted" /\ UNCHANGED shown
  /\ gap' = IF i3.up THEN gap \ {"workspace"} ELSE gap
  /\ UNCHANGED <<conf, i3, stream, socket, m_mode, stopper, m_enabled, scroll, scrolled, ops>>

(* has_event(): one event; a mode is kept for the label.                   *)
ReadEvent ==
  /\ rpc = "event" /\ stream # <<>> /\ stream' = Tail(stream)
  /\ m_mode' = IF Head(stream) = "workspace" THEN m_mode ELSE Head(stream)
  /\ gap' = IF Head(stream) # "workspace" /\ socket = "open" THEN gap \ {"mode"} ELSE gap
  /\ rpc' = "update"
  /\ UNCHANGED <<conf, i3, socket, m_workspaces, shown, stopper, m_enabled, scroll, scrolled, ops>>

(* A socket that has ended is opened again, if there is somebody to answer;*)
(* that is no event.                                                       *)
Reconnect ==
  /\ rpc = "event" /\ socket = "closed" /\ stream = <<>> /\ rpc' = "idle"
  /\ socket' = IF i3.up THEN "open" ELSE "closed"
  /\ UNCHANGED <<conf, i3, stream, m_workspaces, m_mode, shown, stopper, m_enabled, scroll, scrolled, gap, ops>>

Idle ==
  /\ rpc = "idle" /\ rpc' = IF m_enabled THEN "event" ELSE "exited"
  /\ UNCHANGED <<conf, i3, stream, socket, m_workspaces, m_mode, shown, stopper, m_enabled, scroll,
                 scrolled, gap, ops>>

-----------------------------------------------------------------------------
(* stop(), by the main thread or by the runner that halts: the sockets,    *)
(* the flag, and then the lock, which the runner has while it waits for an *)
(* event or updates.                                                       *)
Locked == rpc \in {"warm up", "event", "update"}
Shutdown ==
  /\ stopper = "out" /\ ~scroll.on /\ stopper' = "enabled" /\ socket' = "closed"
  /\ UNCHANGED <<conf, i3, stream, rpc, m_workspaces, m_mode, shown, m_enabled, scroll, scrolled, gap, ops>>
Disable ==
  /\ stopper = "enabled" /\ m_enabled' = FALSE
  /\ stopper' = IF m_enabled THEN "lock" ELSE "done"
  /\ UNCHANGED <<conf, i3, stream, socket, rpc, m_workspaces, m_mode, shown, scroll, scrolled, gap, ops>>
Lock ==
  /\ stopper = "lock" /\ ~Locked /\ stopper' = "done"
  /\ UNCHANGED <<conf, i3, stream, socket, rpc, m_workspaces, m_mode, shown, m_enabled, scroll, scrolled, gap, ops>>
Halt ==
  /\ rpc = "halted" /\ rpc' = "exited" /\ socket' = "closed" /\ m_enabled' = FALSE
  /\ UNCHANGED <<conf, i3, stream, m_workspaces, m_mode, shown, stopper, scroll, scrolled, gap, ops>>

-----------------------------------------------------------------------------
Tell(new, event) ==
  /\ i3' = new /\ gap' = IF socket = "open" THEN gap ELSE gap \cup {IF event = "workspace" THEN event ELSE "mode"}
  /\ stream' = IF socket = "open" THEN Append(stream, event) ELSE stream

(* Commands: a workspace by its name; the next or the one before on the    *)
(* output that is focused, around its end.                                 *)
Focus(s, o, i) == [s EXCEPT !.focus = o, !.visible[o] = i, !.urgent = @ \ {Name(o, i)}]
OnOutput(s, next) ==
  LET o == s.focus
      n == Len(Outputs[o].workspaces)
  IN Focus(s, o, IF next THEN (s.visible[o] % n) + 1 ELSE ((s.visible[o] + n - 2) % n) + 1)

ActionFocus(o, i) ==
  /\ ops < MaxOps /\ ops' = ops + 1 /\ i3.up /\ ~scroll.on /\ stopper = "out"
  /\ \E n \in DOMAIN m_workspaces : m_workspaces[n].name = Name(o, i)
  /\ Tell(Focus(i3, o, i), "workspace") /\ scrolled' = NoScroll
  /\ UNCHANGED <<conf, socket, rpc, m_workspaces, m_mode, shown, stopper, m_enabled, scroll>>

(* focus_direction() asks for the workspaces of the bar's output, and then *)
(* sends its commands: to that output first, when the focus is elsewhere.  *)
ActionScroll(next) ==
  /\ ops < MaxOps /\ ops' = ops + 1 /\ i3.up /\ ~scroll.on /\ stopper = "out"
  /\ LET ws == OutputWorkspaces(BarOutput)
         current == CHOOSE n \in DOMAIN ws : ws[n].visible
         turns == conf.wrap \/ current # (IF next THEN Len(ws) ELSE 1)
     IN scroll' = [on |-> TRUE, next |-> next, go |-> turns, current |-> current, focused |-> ws[current].focused]
  /\ scrolled' = [of |-> "begun", was |-> i3, after |-> i3, next |-> next]
  /\ UNCHANGED <<conf, i3, stream, socket, rpc, m_workspaces, m_mode, shown, stopper, m_enabled, gap>>
From == IF scroll.focused THEN i3 ELSE Focus(i3, BarOutput, scroll.current)
SendCommands ==
  /\ scroll.on /\ scroll' = AtRest
  /\ IF i3.up /\ scroll.go
     THEN Tell(OnOutput(From, scroll.next), "workspace")
     ELSE UNCHANGED <<i3, gap, stream>>
  /\ scrolled' = IF scrolled.of = "begun" /\ scrolled.was = i3 THEN [scrolled EXCEPT !.of = "done", !.after = i3'] ELSE NoScroll
  /\ UNCHANGED <<conf, socket, rpc, m_workspaces, m_mode, shown, stopper, m_enabled, ops>>

(* What others do with i3.                                                 *)
Elsewhere ==
  /\ ops < MaxOps /\ ops' = ops + 1 /\ scrolled' = NoScroll
  /\ \/ \E o \in DOMAIN Outputs : LET i == Len(Outputs[o].workspaces) IN
          i3.up /\ Focus(i3, o, i) # i3 /\ Tell(Focus(i3, o, i), "workspace")
     \/ i3.up /\ Tell([i3 EXCEPT !.urgent = Names], "workspace")
     \/ \E mode \in {DEFAULT_MODE, "resize"} \ {i3.mode} : i3.up /\ Tell([i3 EXCEPT !.mode = mode], mode)
  /\ UNCHANGED <<conf, socket, rpc, m_workspaces, m_mode, shown, stopper, m_enabled, scroll>>
Restart ==
  /\ ops < MaxOps /\ ops' = ops + 1 /\ scrolled' = NoScroll
  /\ i3' = IF i3.up THEN [i3 EXCEPT !.up = FALSE] ELSE Started
  /\ socket' = "closed" /\ gap' = {"workspace", "mode"}
  /\ UNCHANGED <<conf, stream, rpc, m_workspaces, m_mode, shown, stopper, m_enabled, scroll>>

RunnerStep == Update \/ ReadEvent \/ Reconnect \/ Idle \/ Halt
StopStep == Shutdown \/ Disable \/ Lock
Next ==
  \/ RunnerStep \/ StopStep \/ SendCommands \/ Elsewhere \/ Restart
  \/ \E next \in BOOLEAN : ActionScroll(next)
  \/ \E o \in DOMAIN Outputs : \E i \in DOMAIN Outputs[o].workspaces : ActionFocus(o, i)
Spec == Init /\ [][Next]_vars

-----------------------------------------------------------------------------
(* When the events are read, what is shown is what i3 has: unless it was   *)
(* started again or changed without a socket, for nothing asks after that. *)
ShownAsAnswered ==
  rpc = "event" /\ socket = "open" /\ stream = <<>> =>
    /\ "workspace" \in gap \/ shown.workspaces = Labels(Asked)
    /\ "mode" \in gap \/ shown.mode = i3.mode

(* One workspace is focused, none is shown twice, they are by number; an   *)
(* urgent one is shown wherever it is.                                     *)
WorkspacesOnce ==
  LET ws == Asked IN
    /\ Cardinality({n \in DOMAIN ws : State(ws[n]) = "focused"}) <= 1
    /\ \A n, k \in DOMAIN ws : n < k => ws[n].name # ws[k].name /\ ws[n].num <= ws[k].num
    /\ conf.show_urgent => i3.urgent \subseteq {ws[n].name : n \in DOMAIN ws}
    /\ \E n \in DOMAIN ws : ws[n].output = BarOutput /\ ws[n].visible

(* The wheel turns to the next workspace of the bar's output, wherever the *)
(* focus was, and leaves other outputs alone; it stops at the ends if it   *)
(* is not to wrap.  If nothing else happens to i3 in between.              *)
ScrollTurns ==
  scrolled.of = "done" =>
    LET old == scrolled.was
        new == scrolled.after
        n   == Len(Outputs[BarOutput].workspaces)
        to  == old.visible[BarOutput] + (IF scrolled.next THEN 1 ELSE -1)
    IN /\ \A o \in DOMAIN Outputs \ {BarOutput} : new.visible[o] = old.visible[o]
       /\ to \in 1 .. n => new.visible[BarOutput] = to /\ new.focus = BarOutput
       /\ to \notin 1 .. n =>
            IF conf.wrap THEN new.visible[BarOutput] = (IF to = 0 THEN n ELSE 1) ELSE new = old

(* stop() ends, unless the runner had the time to open the socket again    *)
(* before it saw the flag: then it waits for an event of i3.               *)
Stopping == stopper = "lock"
Stopped == stopper = "done" \/ (rpc = "event" /\ socket = "open")

-----------------------------------------------------------------------------
(* What is proved of it: a mode that is read last is the one of i3, and    *)
(* the runner is on its way to ask for what it has not shown.              *)
Modes == {DEFAULT_MODE, "resize"}

LastMode(events, mode) ==
  \A n \in 1 .. Len(events) :
    events[n] \in {"workspace", mode} \/ \E k \in 1 .. Len(events) : k > n /\ events[k] # "workspace"

Told ==
  /\ stream \in Seq({"workspace"} \cup Modes)
  /\ socket = "open" \/ "mode" \notin gap => LastMode(stream, i3.mode)
  /\ "mode" \notin gap =>
       m_mode = i3.mode \/ \E n \in 1 .. Len(stream) : stream[n] \in Modes

Due == rpc \in {"warm up", "update"}
Answered ==
  /\ rpc \in {"event", "idle"} => shown.mode = m_mode
  /\ "workspace" \in gap \/ Due \/ rpc \in {"halted", "exited"} \/ stream # <<>> \/ shown.workspaces = Labels(Asked)

Following ==
  /\ i3 = [up |-> i3.up, focus |-> i3.focus, visible |-> i3.visible, urgent |-> i3.urgent, mode |-> i3.mode]
  /\ i3.mode \in Modes /\ Told /\ Answered

(* The bar's output is one of those that i3 has, and each has workspaces.  *)
Layout ==
  /\ BarOutput \in DOMAIN Outputs
  /\ \A o \in DOMAIN Outputs :
       LET n == Len(Outputs[o].workspaces) IN n \in Nat \ {0} /\ DOMAIN Outputs[o].workspaces = 1 .. n

(* The next workspace of an output that is focused, around its end.        *)
NextOn(s, next) ==
  LET v == s.visible[s.focus]
      n == Len(Outputs[s.focus].workspaces)
  IN IF next THEN (IF v = n THEN 1 ELSE v + 1) ELSE (IF v = 1 THEN n ELSE v - 1)

Placed(s) ==
  /\ s.focus \in DOMAIN Outputs /\ DOMAIN s.visible = DOMAIN Outputs
  /\ \A o \in DOMAIN Outputs : s.visible[o] \in DOMAIN Outputs[o].workspaces

(* A scroll that has begun will turn from where i3 is still.               *)
Turns(s, next) ==
  conf.wrap \/ s.visible[BarOutput] # (IF next THEN Len(Outputs[BarOutput].workspaces) ELSE 1)
Scrolling ==
  /\ conf.wrap \in BOOLEAN /\ scroll.on \in BOOLEAN /\ scroll.next \in BOOLEAN
  /\ scroll.on => scroll.current \in DOMAIN Outputs[BarOutput].workspaces
  /\ scrolled = [of |-> scrolled.of, was |-> scrolled.was, after |-> scrolled.after, next |-> scrolled.next]
  /\ scrolled.of = "begun" =>
       /\ scroll.on /\ scrolled.was.up /\ scrolled.next \in BOOLEAN
       /\ scroll.next = scrolled.next /\ scroll.go = Turns(scrolled.was, scrolled.next)
       /\ scroll.current = scrolled.was.visible[BarOutput]
       /\ scroll.focused = (scrolled.was.focus = BarOutput)
  /\ ScrollTurns

Inv == Following /\ Placed(i3) /\ Scrolling
=============================================================================
