-------------------------------- MODULE Bar --------------------------------
(***************************************************************************)
(* The bar window (src/components/bar.cpp): the event queue worker draws   *)
(* the contents that process_update() built; the main thread handles       *)
(* clicks, pointer motion and the commands hide, show and toggle; the task *)
(* queue thread handles delayed clicks.  m_mutex is only ever tried, never *)
(* waited for: whoever finds it taken gives up.                            *)
(*                                                                         *)
(* The contents of the modules are a version number, 0 for an empty bar;   *)
(* Layout gives the action areas of each in the order of their ids.  The   *)
(* delayed clicks of one button are a task of the queue that waits to be   *)
(* called, or is spent but not yet forgotten.  Shading is left out: the    *)
(* handlers that would start it are compiled away.                         *)
(*                                                                         *)
(* Operators whose name has a suffix (TryLock_Ignored) are bugs that the   *)
(* code could have; the specification does not use them.                   *)
(***************************************************************************)
EXTENDS Naturals, Sequences

CONSTANTS
  Layout,        \* version -> sequence of [button, pos, cmd]
  Fallbacks,     \* button -> command, the click-* settings of the bar
  Presses,       \* clicks considered: [button, pos]
  MaxEvents      \* bound on clicks, motions and commands together

Versions == DOMAIN Layout
Timed == {"left", "middle", "right"}
Double == [left |-> "double-left", middle |-> "double-middle",
           right |-> "double-right"]
Doubles == {Double[b] : b \in Timed}
Buttons == Timed \cup Doubles \cup {"scroll"}

ASSUME BarAssumption ==
  /\ MaxEvents \in Nat
  /\ 0 \in Versions /\ Versions \subseteq Nat /\ Layout[0] = <<>>
  /\ \A v \in Versions : Len(Layout[v]) \in Nat
  /\ \A v \in Versions : DOMAIN Layout[v] = 1 .. Len(Layout[v])
  /\ \A p \in Presses : p.button \in Timed \cup {"scroll"}

VARIABLES
  version, pending,          \* contents of the modules; UPDATE event, if any
  m_mutex,
  m_lastinput, m_visible,
  drawn,                     \* version whose text is in the window
  blocks, m_dblclicks,       \* the action context
  parsing,                   \* parse() in progress, on each thread
  mpc,                       \* main thread
  m_buttonpress_btn, m_buttonpress_pos, m_doubleclick,
  tasks, running, action,    \* the task queue; has_action() of a callback
  events, clicks,            \* history: what was done, and accepted clicks
  delivered,                 \* history: the actions run, for any click
  acted,                     \* history: how often that of the last click was
  others,                    \* history: the clicks still delayed when it came
  dropped,                   \* history: the redraw of show() was given up
  failed                     \* history: get_action() of an id that is gone

click == <<m_buttonpress_btn, m_buttonpress_pos, m_doubleclick>>
queue == <<tasks, running, action>>
area == <<blocks, m_dblclicks>>
counts == <<delivered, acted, others>>
history == <<events, clicks, counts, dropped, failed>>
vars == <<version, pending, m_mutex, m_lastinput, m_visible, drawn, blocks,
          m_dblclicks, parsing, mpc, m_buttonpress_btn, m_buttonpress_pos,
          m_doubleclick, tasks, running, action, events, clicks, delivered,
          acted, others, dropped, failed>>

NotParsing == [step |-> "no", data |-> 0, force |-> FALSE]
NoAction == 0

TypeOK ==
  /\ version \in Versions /\ pending \in {"none", "update", "forced"}
  /\ m_mutex \in {"free", "main", "worker"}
  /\ m_lastinput \in Versions /\ m_visible \in BOOLEAN /\ drawn \in Versions
  /\ blocks \in {<<>>} \cup {Layout[v] : v \in Versions}
  /\ m_dblclicks \in BOOLEAN
  /\ parsing \in [{"main", "worker"} ->
        [step : {"no", "lock", "decide", "reset", "fill", "end"},
         data : Versions, force : BOOLEAN]]
  /\ mpc \in {"idle", "show", "press", "exist", "purge", "add", "now",
              "motion"}
  /\ m_buttonpress_btn \in Buttons
  /\ m_buttonpress_pos \in {p.pos : p \in Presses}
  /\ m_doubleclick \in BOOLEAN
  /\ tasks \in [Timed -> {"none", "waiting", "spent"}]
  /\ running \subseteq Timed /\ action \in Nat
  /\ events \in 0 .. MaxEvents /\ clicks \in 0 .. events
  /\ delivered \in 0 .. MaxEvents /\ acted \in 0 .. 5 /\ others \in 0 .. 4
  /\ dropped \in BOOLEAN /\ failed \in BOOLEAN

(* After on(start): the window is mapped and empty, modules have contents  *)
(* and ui::ready has enqueued a forced update.                             *)
Init ==
  /\ version \in Versions /\ pending = "forced"
  /\ m_mutex = "free"
  /\ m_lastinput = 0 /\ m_visible = TRUE /\ drawn = 0
  /\ blocks = Layout[0] /\ m_dblclicks = FALSE
  /\ parsing = [t \in {"main", "worker"} |-> NotParsing]
  /\ mpc = "idle"
  /\ m_buttonpress_btn = "left"
  /\ m_buttonpress_pos \in {p.pos : p \in Presses}
  /\ m_doubleclick = FALSE
  /\ tasks = [b \in Timed |-> "none"] /\ running = {} /\ action = NoAction
  /\ events = 0 /\ clicks = 0
  /\ delivered = 0 /\ acted = 0 /\ others = 0
  /\ dropped = FALSE /\ failed = FALSE

(* A module changes, perhaps back, or something asks for a forced redraw.  *)
Change ==
  /\ version' \in Versions /\ version' # version
  /\ \/ pending' = "update"
     \/ pending' = "forced"
  /\ events < MaxEvents /\ events' = events + 1
  /\ UNCHANGED <<m_mutex, m_lastinput, m_visible, drawn, area, parsing, mpc,
                 click, queue, clicks, counts, dropped, failed>>

-----------------------------------------------------------------------------
(* parse(), on the worker and, from show(), on the main thread.            *)
ParseOnly == <<version, m_visible, click, queue, events, clicks, counts,
               failed>>

Step(t, s) == parsing' = [parsing EXCEPT ![t].step = s]
Leave(t) == parsing' = [parsing EXCEPT ![t] = NotParsing]

(* process_update() has put the contents together.                         *)
ProcessUpdate ==
  /\ pending # "none" /\ parsing["worker"] = NotParsing
  /\ parsing' = [parsing EXCEPT !["worker"] =
        [step |-> "lock", data |-> version, force |-> pending = "forced"]]
  /\ pending' = "none"
  /\ UNCHANGED <<ParseOnly, m_mutex, m_lastinput, drawn, area, mpc, dropped>>

TryLock_Ignored(t) ==
  /\ parsing[t].step = "lock"
  /\ m_mutex' = t /\ Step(t, "decide")
  /\ UNCHANGED <<ParseOnly, pending, m_lastinput, drawn, area, mpc, dropped>>

TryLock(t) ==
  /\ parsing[t].step = "lock"
  /\ IF m_mutex = "free"
     THEN m_mutex' = t /\ Step(t, "decide") /\ UNCHANGED dropped
     ELSE Leave(t) /\ dropped' = (dropped \/ t = "main") /\ UNCHANGED m_mutex
  /\ UNCHANGED <<ParseOnly, pending, m_lastinput, drawn, area, mpc>>

Ignored(t) ==
  /\ ~parsing[t].force
  /\ ~m_visible \/ parsing[t].data = m_lastinput

Decide(t) ==
  /\ parsing[t].step = "decide"
  /\ m_lastinput' = parsing[t].data
  /\ IF Ignored(t) THEN Leave(t) /\ m_mutex' = "free"
     ELSE Step(t, "reset") /\ UNCHANGED m_mutex
  /\ UNCHANGED <<ParseOnly, pending, drawn, area, mpc, dropped>>

(* dispatch::parse() clears the action blocks before it renders new ones.  *)
Reset(t) ==
  /\ parsing[t].step = "reset" /\ Step(t, "fill")
  /\ blocks' = <<>>
  /\ UNCHANGED <<ParseOnly, pending, m_mutex, m_lastinput, drawn, m_dblclicks,
                 mpc, dropped>>

Fill(t) ==
  /\ parsing[t].step = "fill" /\ Step(t, "end")
  /\ blocks' = Layout[parsing[t].data]
  /\ UNCHANGED <<ParseOnly, pending, m_mutex, m_lastinput, drawn, m_dblclicks,
                 mpc, dropped>>

HasDouble ==
  \/ \E n \in DOMAIN blocks : blocks[n].button \in Doubles
  \/ DOMAIN Fallbacks \cap Doubles # {}

End(t) ==
  /\ parsing[t].step = "end" /\ Leave(t)
  /\ drawn' = parsing[t].data /\ m_dblclicks' = HasDouble
  /\ dropped' = FALSE /\ m_mutex' = "free"
  /\ UNCHANGED <<ParseOnly, pending, m_lastinput, blocks, mpc>>

Parse(t) == TryLock(t) \/ Decide(t) \/ Reset(t) \/ Fill(t) \/ End(t)

-----------------------------------------------------------------------------
(* The main thread.                                                        *)
MainAt(pc) == mpc = pc /\ parsing["main"] = NotParsing
Handles == events < MaxEvents /\ events' = events + 1
MainOnly == <<version, pending, m_lastinput, drawn, area>>

Hide ==
  /\ MainAt("idle") /\ Handles
  /\ m_visible /\ m_visible' = FALSE
  /\ UNCHANGED <<MainOnly, m_mutex, parsing, mpc, click, queue, clicks,
                 counts, dropped, failed>>

(* show() maps the window, then draws a copy of m_lastinput.               *)
Show ==
  /\ MainAt("idle") /\ Handles
  /\ ~m_visible /\ m_visible' = TRUE
  /\ mpc' = "show"
  /\ UNCHANGED <<MainOnly, m_mutex, parsing, click, queue, clicks, counts,
                 dropped, failed>>

Redraw_Unforced ==
  /\ MainAt("show") /\ mpc' = "idle"
  /\ parsing' = [parsing EXCEPT !["main"] =
        [step |-> "lock", data |-> m_lastinput, force |-> FALSE]]
  /\ UNCHANGED <<MainOnly, m_mutex, m_visible, click, queue, history>>

Redraw ==
  /\ MainAt("show") /\ mpc' = "idle"
  /\ parsing' = [parsing EXCEPT !["main"] =
        [step |-> "lock", data |-> m_lastinput, force |-> TRUE]]
  /\ UNCHANGED <<MainOnly, m_mutex, m_visible, click, queue, history>>

(* The cursor follows what is under the pointer; here only the lock counts.*)
Motion ==
  /\ \/ /\ MainAt("idle") /\ Handles /\ m_mutex = "free"
        /\ m_mutex' = "main" /\ mpc' = "motion"
     \/ /\ MainAt("motion")
        /\ m_mutex' = "free" /\ mpc' = "idle" /\ UNCHANGED events
  /\ UNCHANGED <<MainOnly, m_visible, parsing, click, queue, clicks, counts,
                 dropped, failed>>

(* The clicks whose call is still to come: they wait in a task, or their   *)
(* task is being called.                                                   *)
Waiting(b) == IF tasks[b] = "waiting" THEN 1 ELSE 0
Queued == Waiting("left") + Waiting("middle") + Waiting("right")
Running == IF running = {} THEN 0 ELSE 1

(* A button press that finds the mutex taken is ignored.                   *)
Press(p) ==
  /\ MainAt("idle") /\ Handles /\ m_mutex = "free"
  /\ m_mutex' = "main" /\ mpc' = "press"
  /\ m_buttonpress_btn' = p.button /\ m_buttonpress_pos' = p.pos
  /\ clicks' = clicks + 1 /\ acted' = 0 /\ others' = Queued + Running
  /\ UNCHANGED <<MainOnly, m_visible, parsing, m_doubleclick, queue, delivered,
                 dropped, failed>>

PressOnly == <<MainOnly, m_visible, parsing, m_buttonpress_pos, running,
               action, events, clicks, dropped, failed>>

(* Without double click handlers, or for the wheel, act at once.           *)
Dispatch ==
  /\ MainAt("press")
  /\ mpc' = IF m_dblclicks /\ m_buttonpress_btn \in Timed THEN "exist"
            ELSE "now"
  /\ UNCHANGED <<PressOnly, m_mutex, m_buttonpress_btn, m_doubleclick, tasks,
                 counts>>

(* check_double(): the first click waits in the task queue; a second one   *)
(* within the interval is a double click and is delivered without delay;   *)
(* a later one, while the task is not yet forgotten, is lost.              *)
CheckDouble ==
  /\ MainAt("exist")
  /\ \/ /\ tasks[m_buttonpress_btn] = "none"
        /\ m_doubleclick' = TRUE /\ mpc' = "add"
        /\ UNCHANGED m_mutex
     \/ /\ tasks[m_buttonpress_btn] # "none" /\ m_doubleclick
        /\ m_doubleclick' = FALSE /\ mpc' = "purge"
        /\ UNCHANGED m_mutex
     \/ /\ tasks[m_buttonpress_btn] # "none"
        /\ m_doubleclick' = TRUE /\ mpc' = "idle" /\ m_mutex' = "free"
  /\ UNCHANGED <<PressOnly, m_buttonpress_btn, tasks, counts>>

TaskOf(b) == CHOOSE t \in Timed : b \in {t, Double[t]}

Purge ==
  /\ MainAt("purge") /\ mpc' = "add"
  /\ m_buttonpress_btn' = Double[m_buttonpress_btn]
  /\ tasks' = [tasks EXCEPT ![m_buttonpress_btn] = "none"]
  /\ others' = others - Waiting(m_buttonpress_btn)
  /\ UNCHANGED <<PressOnly, m_mutex, m_doubleclick, delivered, acted>>

Add ==
  /\ MainAt("add") /\ mpc' = "idle" /\ m_mutex' = "free"
  /\ tasks' = [tasks EXCEPT ![TaskOf(m_buttonpress_btn)] = "waiting"]
  /\ UNCHANGED <<PressOnly, m_buttonpress_btn, m_doubleclick, counts>>

-----------------------------------------------------------------------------
(* deferred_fn(): the topmost area under the click, or the setting of the  *)
(* bar for that button.  Of all clicks only the button and the position of *)
(* the last one are kept: whatever click a call is of, it acts for that.   *)
Hit(n) ==
  /\ blocks[n].button = m_buttonpress_btn
  /\ blocks[n].pos = m_buttonpress_pos

HasAction ==
  IF \E n \in DOMAIN blocks : Hit(n)
  THEN CHOOSE n \in DOMAIN blocks :
         Hit(n) /\ \A k \in DOMAIN blocks : Hit(k) => k <= n
  ELSE NoAction

FallbackFound == m_buttonpress_btn \in DOMAIN Fallbacks

Act ==
  IF HasAction # NoAction \/ FallbackFound
  THEN delivered' = delivered + 1 /\ acted' = acted + 1 /\ UNCHANGED others
  ELSE UNCHANGED counts

DeliverNow ==
  /\ MainAt("now") /\ mpc' = "idle" /\ m_mutex' = "free"
  /\ Act
  /\ UNCHANGED <<PressOnly, m_buttonpress_btn, m_doubleclick, tasks>>

MainStep == Redraw \/ Dispatch \/ CheckDouble \/ Purge \/ Add \/ DeliverNow

-----------------------------------------------------------------------------
(* The task queue thread (TaskQueue), which does not take m_mutex.         *)
QueueOnly == <<version, pending, m_mutex, m_lastinput, m_visible, drawn, area,
               parsing, mpc, click, events, clicks, dropped>>

Collect_Kept(b) ==
  /\ running = {} /\ action = NoAction
  /\ tasks[b] = "waiting"
  /\ running' = {b}
  /\ UNCHANGED <<QueueOnly, tasks, action, counts, failed>>

Collect(b) ==
  /\ running = {} /\ action = NoAction
  /\ tasks[b] = "waiting" /\ tasks' = [tasks EXCEPT ![b] = "spent"]
  /\ running' = {b}
  /\ UNCHANGED <<QueueOnly, action, counts, failed>>

(* A task is forgotten when its wait is over for the second time.          *)
Forget(b) ==
  /\ tasks[b] = "spent" /\ tasks' = [tasks EXCEPT ![b] = "none"]
  /\ running = {} /\ action = NoAction
  /\ UNCHANGED <<QueueOnly, running, action, counts, failed>>

Find(b) ==
  /\ b \in running /\ running' = running \ {b}
  /\ action' = HasAction
  /\ Act
  /\ UNCHANGED <<QueueOnly, tasks, failed>>

(* get_action(): the areas may have changed since.                         *)
Get ==
  /\ action # NoAction /\ action' = NoAction
  /\ failed' = (failed \/ action \notin DOMAIN blocks)
  /\ UNCHANGED <<QueueOnly, tasks, running, counts>>

QueueStep == Get \/ \E b \in Timed : Collect(b) \/ Forget(b) \/ Find(b)

-----------------------------------------------------------------------------
Next ==
  \/ Change \/ ProcessUpdate
  \/ \E t \in {"main", "worker"} : Parse(t)
  \/ Hide \/ Show \/ Motion \/ \E p \in Presses : Press(p)
  \/ MainStep
  \/ QueueStep

Spec == Init /\ [][Next]_vars

-----------------------------------------------------------------------------
(* What can be clicked is what is drawn, and the bar waits for a double    *)
(* click only if there is one: whenever nobody holds m_mutex the action    *)
(* context belongs to the text in the window, although two threads draw.   *)
AreasMatchWindow ==
  m_mutex = "free" => blocks = Layout[drawn]

(* Clicks are never multiplied: neither by the two critical sections of    *)
(* defer_unique(), nor by a task that is collected while it is replaced.   *)
(* The action of a click is run once, and once more only for each click    *)
(* that was still delayed when it came, was not replaced by it as the      *)
(* first half of a double click, and so does not run its own action: there *)
(* are never more actions than clicks.                                     *)
ClicksNotMultiplied == acted <= 1 + others /\ delivered <= clicks

(* A visible bar shows m_lastinput, which parse() compares new contents    *)
(* with: it may skip contents only because they are already in the window. *)
(* The one exception is a redraw that show() gave up.                      *)
WindowShowsLastInput ==
  m_visible /\ m_mutex = "free" /\ mpc # "show" /\ parsing["main"] = NotParsing
    => drawn = m_lastinput \/ dropped

(* The assertion of get_action(): the id that has_action() returned is     *)
(* still one of the areas.                                                 *)
ActionExists == ~failed

(* A click runs the action that its button has where it was clicked, once: *)
(* a user who clicks one area with two buttons gets the action of each.    *)
ClicksActOnce == acted <= 1
=============================================================================
