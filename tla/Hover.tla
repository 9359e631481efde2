------------------------------- MODULE Hover -------------------------------
(***************************************************************************)
(* What the bar does under the pointer (components/bar.cpp): a bar with a  *)
(* dim-value turns bright when the pointer enters and dim three seconds    *)
(* after it left, through one delayed task; and the cursor tells what a    *)
(* click would do.  The main thread handles the events of X, the task      *)
(* queue calls back, the event queue worker draws.                         *)
(*                                                                         *)
(* Delays are not counted: a task may be called any time after it has been *)
(* queued.  A called task stays in the queue, spent, for a second delay.   *)
(***************************************************************************)
EXTENDS Naturals, Sequences

CONSTANTS Bars,   \* [dimvalue, click, scroll, fallbacks]: dimvalue in
                  \* percent, the cursors, and what the bar itself answers
          Areas,  \* what may be on the bar: position -> subset of ActionKinds
          MaxOps

ActionKinds == {"click", "scroll"}
cursors == {"pointer", "ns-resize", "default"}

VARIABLES
  m_opts, areas, m_mutex,
  inside, events, heard,  \* the pointer; crossings to come; has there been one?
  dimmed, opacity, task, callback,
  cursor, shown, at,      \* m_opts.cursor; the window's; where the pointer moved
  hasty,                  \* history: the pointer left while a task was to
                          \* brighten the bar, or crossed during a callback
  ops

pointer == <<cursor, shown, at>>
dimming == <<dimmed, opacity, task, callback>>
vars == <<m_opts, areas, m_mutex, inside, events, heard, dimming, pointer, hasty, ops>>

NoTask == [to |-> FALSE, spent |-> TRUE, is |-> FALSE]
Deferred(to) == [to |-> to, spent |-> FALSE, is |-> TRUE]

TypeOK ==
  /\ m_opts \in Bars /\ areas \in Areas /\ m_mutex \in {"free", "worker"}
  /\ inside \in BOOLEAN /\ dimmed \in BOOLEAN /\ opacity \in 0 .. 100
  /\ callback \in {"none", "dim", "bright", "dims", "brightens"}
  /\ cursor \in cursors \cup {""} /\ shown \in cursors \cup {"inherited"}

Init ==
  /\ m_opts \in Bars /\ areas \in Areas /\ m_mutex = "free"
  /\ inside \in BOOLEAN /\ events = <<>> /\ heard = FALSE
  /\ dimmed = FALSE /\ opacity = 100 /\ task = NoTask /\ callback = "none"
  /\ cursor = "" /\ shown = "inherited" /\ at = 0 /\ hasty = FALSE /\ ops = 0

Event == ops < MaxOps /\ ops' = ops + 1

-----------------------------------------------------------------------------
(* The user; only a bar that may be dimmed asks for these events.          *)
Cross ==
  /\ Event /\ inside' = ~inside
  /\ events' = IF m_opts.dimvalue = 100 THEN events ELSE Append(events, inside')
  /\ UNCHANGED <<m_opts, areas, m_mutex, heard, dimming, pointer, hasty>>

Handles(entered) ==
  /\ events # <<>> /\ Head(events) = entered /\ events' = Tail(events) /\ heard' = TRUE
  /\ UNCHANGED <<m_opts, areas, m_mutex, inside, dimmed, opacity, callback, pointer, ops>>

EnterNotify ==
  /\ Handles(TRUE)
  /\ task' = IF dimmed THEN Deferred(FALSE) ELSE NoTask
  /\ hasty' = (callback = "dim")
LeaveNotify ==
  /\ Handles(FALSE)
  /\ task' = IF dimmed THEN task ELSE Deferred(TRUE)
  /\ hasty' = (dimmed /\ ((task.is /\ ~task.spent) \/ callback = "bright"))

(* tick(): the lock is free again when the callback runs; it sets the flag *)
(* and emits dim_window, whose handler sets flag and opacity.              *)
Tick ==
  /\ task.is /\ callback = "none"
  /\ task' = IF task.spent THEN NoTask ELSE [task EXCEPT !.spent = TRUE]
  /\ callback' = IF task.spent THEN "none" ELSE IF task.to THEN "dim" ELSE "bright"
  /\ UNCHANGED <<m_opts, areas, m_mutex, inside, events, heard, dimmed, opacity, pointer, hasty, ops>>
Callback ==
  /\ callback \in {"dim", "bright"} /\ dimmed' = (callback = "dim")
  /\ callback' = IF dimmed' THEN "dims" ELSE "brightens"
  /\ UNCHANGED <<m_opts, areas, m_mutex, inside, events, heard, opacity, task, pointer, hasty, ops>>
DimWindow ==
  /\ callback \in {"dims", "brightens"} /\ callback' = "none"
  /\ opacity' = IF callback = "dims" THEN m_opts.dimvalue ELSE 100
  /\ dimmed' = (opacity' # 100)
  /\ UNCHANGED <<m_opts, areas, m_mutex, inside, events, heard, task, pointer, hasty, ops>>

-----------------------------------------------------------------------------
(* cursor_change: a name that is not known is an exception, which the      *)
(* event loop logs.                                                        *)
Change(name) ==
  /\ cursor' = name
  /\ shown' = IF name # cursor /\ name \in cursors THEN name ELSE shown

MotionNotify(p) ==
  /\ Event /\ m_mutex = "free" /\ (m_opts.click # "" \/ m_opts.scroll # "") /\ at' = p
  /\ \/ "click" \in areas[p] /\ Change(m_opts.click)
     \/ areas[p] = {"scroll"} /\ Change(m_opts.scroll)
     \/ /\ areas[p] = {}
        /\ Change(IF m_opts.click # "" /\ "click" \in m_opts.fallbacks THEN m_opts.click
                  ELSE IF m_opts.scroll # "" /\ "scroll" \in m_opts.fallbacks THEN m_opts.scroll
                  ELSE "default")
  /\ UNCHANGED <<m_opts, areas, m_mutex, inside, events, heard, dimming, hasty>>

(* bar::parse() while the worker has the lock: motions are not looked at.  *)
ParseBegin ==
  /\ Event /\ m_mutex = "free" /\ m_mutex' = "worker" /\ at' = 0
  /\ UNCHANGED <<m_opts, areas, inside, events, heard, dimming, cursor, shown, hasty>>
ParseEnd ==
  /\ m_mutex = "worker" /\ m_mutex' = "free" /\ areas' \in Areas
  /\ UNCHANGED <<m_opts, inside, events, heard, dimming, pointer, hasty, ops>>

Next ==
  \/ Cross \/ EnterNotify \/ LeaveNotify \/ Tick \/ Callback \/ DimWindow
  \/ (\E p \in DOMAIN areas : MotionNotify(p)) \/ ParseBegin \/ ParseEnd
Spec == Init /\ [][Next]_vars

-----------------------------------------------------------------------------
(* When all events are handled and the task has been called, the bar is    *)
(* dim if and only if the pointer is elsewhere: unless the pointer left    *)
(* before an entering had its effect, or crossed while a callback was      *)
(* about to set the flag.                                                  *)
DimmedAsPointed ==
  heard /\ events = <<>> /\ task.spent /\ callback = "none" /\ ~hasty =>
    dimmed = ~inside /\ opacity = IF inside THEN 100 ELSE m_opts.dimvalue

(* The cursor promises nothing that a click would not do, and never        *)
(* nothing where it does: as long as the bar has both cursors, two that    *)
(* can be told apart, and has not been drawn again under the pointer.      *)
Distinct == m_opts.click # m_opts.scroll /\ {"", "default"} \cap {m_opts.click, m_opts.scroll} = {}
CursorAsArea ==
  at # 0 /\ Distinct =>
    LET answers == areas[at] \cup m_opts.fallbacks IN
    /\ shown = m_opts.click => "click" \in answers
    /\ shown = m_opts.scroll => "scroll" \in answers
    /\ shown \notin {m_opts.click, m_opts.scroll} => answers = {}

-----------------------------------------------------------------------------
(* Proofs, for any bars, any areas and any number of crossings: when the   *)
(* delayed task has had its effect, the bar is dim exactly when the        *)
(* pointer is elsewhere.                                                   *)

(* What the variables may be; a task that is not queued counts as spent.    *)
Typed ==
  /\ inside \in BOOLEAN /\ dimmed \in BOOLEAN /\ hasty \in BOOLEAN /\ heard \in BOOLEAN
  /\ task \in [to : BOOLEAN, spent : BOOLEAN, is : BOOLEAN] /\ (~task.is => task.spent)
  /\ callback \in {"none", "dim", "bright", "dims", "brightens"}

(* A bar without a dim-value has no task and hears of no crossing.         *)
Quiet == m_opts.dimvalue = 100 => events = <<>> /\ ~heard /\ ~task.is /\ callback = "none"

(* Crossings alternate, and the last of them says where the pointer is.    *)
Alternate ==
  /\ events \in Seq(BOOLEAN)
  /\ \A i \in 1 .. Len(events) : events[i] = IF i = Len(events) THEN inside ELSE ~events[i + 1]

(* What the opacity lags behind is a callback that has set the flag only.  *)
Opaque ==
  /\ callback = "dims" => dimmed
  /\ callback = "brightens" => ~dimmed
  /\ callback \notin {"dims", "brightens"} =>
       opacity = IF dimmed THEN m_opts.dimvalue ELSE 100

(* Where the pointer is, as far as the bar has been told.                  *)
Pointed == IF events = <<>> THEN inside ELSE ~Head(events)

(* The task that will set the flag to what is wanted.                      *)
Waits(to) == ~task.spent /\ task.to = to

(* A flag that is not as the pointer wants it has a task or a callback     *)
(* that will correct it, and nothing is under way that would spoil it.     *)
Corrected ==
  heard /\ ~hasty =>
    /\ ~task.spent => task.to = ~Pointed
    /\ Pointed => (dimmed => Waits(FALSE) \/ callback = "bright") /\ callback # "dim"
    /\ ~Pointed => /\ ~dimmed => Waits(TRUE) \/ callback = "dim"
                   /\ callback = "bright" => ~dimmed /\ Waits(TRUE)

Dimming == Typed /\ Quiet /\ Alternate /\ Opaque /\ Corrected

(* The cursors of a bar have names that X knows, and what it answers to is *)
(* a click or a scroll.                                                    *)
Named == \A b \in Bars : {b.click, b.scroll} \subseteq cursors \cup {""} /\ b.fallbacks \subseteq ActionKinds

(* The bar remembers the cursor it has set; while it draws, nothing says   *)
(* what the pointer is on.                                                 *)
Pointing ==
  /\ m_opts \in Bars /\ (m_mutex = "worker" => at = 0)
  /\ Distinct /\ cursor # "" => shown = cursor
  /\ CursorAsArea

Inv == Dimming /\ Pointing
============================================================================
