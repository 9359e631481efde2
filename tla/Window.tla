------------------------------- MODULE Window -------------------------------
(***************************************************************************)
(* The bar's window, the window manager and the X server (components/      *)
(* bar.cpp, utils/i3.cpp, utils/bspwm.cpp, x11/window.cpp).  The event     *)
(* queue worker creates and maps the window, the main thread hides and     *)
(* shows it on command and handles its events.                             *)
(*                                                                         *)
(* Requests about a window that is not override-redirect wait for the      *)
(* window manager; the others are executed at once.                        *)
(***************************************************************************)
EXTENDS Naturals, Sequences, FiniteSets, FiniteSetsExt

CONSTANTS
  Setups,   \* [override, restack, placing]: does the manager choose the
            \* place of the windows it maps?
  Stacks,   \* windows on the screen, the lowest first: "i3", "far", "near"
            \* are root windows of managers, others anything else
  MaxOps

VARIABLES
  setup, pc,                 \* the worker: what it does next
  stack, mapped, iconic, hints, place, \* of the window, at the server
  wm, managed,               \* requests to the manager; hints it mapped the window with
  events,                    \* of the window, for the main thread
  m_visible, told,           \* told: the visibility that was last announced
  closing, disconnected,
  hasty, shown, ops          \* hidden or shown too soon; shown once more

server == <<stack, mapped, iconic, hints, place>>
wmanager == <<wm, managed>>
main == <<m_visible, told, closing, disconnected>>
vars == <<setup, pc, server, wmanager, events, main, hasty, shown, ops>>

Icccm == {"name", "class"}
Ewmh == {"type", "state", "desktop", "pid"}
Struts == {"strut"}
WmHints == Icccm \cup Ewmh \cup Struts

TypeOK ==
  /\ setup \in Setups /\ pc \in {"create", "map", "announce", "done"}
  /\ Range(wm) \subseteq {"map", "unmap", "move"} /\ hints \subseteq WmHints /\ managed \subseteq WmHints
  /\ Range(events) \subseteq {"state", "expose", "destroy", "delete"}
  /\ {mapped, iconic, m_visible, told, closing, disconnected} \subseteq BOOLEAN
  /\ place \in {"created", "asked", "chosen"} /\ setup.override => wm = <<>>

Init ==
  /\ setup \in Setups /\ pc = "create" /\ stack \in Stacks
  /\ mapped = FALSE /\ iconic = FALSE /\ hints = {} /\ place = "created"
  /\ wm = <<>> /\ managed = WmHints /\ events = <<>>
  /\ m_visible = TRUE /\ told = FALSE /\ closing = FALSE /\ disconnected = FALSE
  /\ hasty = FALSE /\ shown = FALSE /\ ops = 0

Exists == pc # "create"
Viewable == mapped /\ ~iconic

-----------------------------------------------------------------------------
(* restack_window(): a manager does not let other windows restack          *)
(* themselves; without wm-restack nothing is tried.                        *)
Above(w, s) == LET others == SelectSeq(s, LAMBDA v : v # "bar")
                   n == Min({i \in DOMAIN others : others[i] = w})
               IN SubSeq(others, 1, n) \o <<"bar">> \o SubSeq(others, n + 1, Len(others))
AtBottom(s) == <<"bar">> \o SelectSeq(s, LAMBDA v : v # "bar")
I3Root(s) == {"i3"} \cap Range(s)
BspwmRoots(s) == {"far", "near"} \cap Range(s)
OnMonitor(roots) == roots \cap {"near"}
Sibling(s) == CASE setup.restack = "i3" -> I3Root(s)
                [] setup.restack = "bspwm" -> OnMonitor(BspwmRoots(s))
                [] setup.restack \in {"generic", "none"} -> {}
Restacked(s) ==
  IF ~setup.override THEN s
  ELSE IF setup.restack = "generic" THEN AtBottom(s)
  ELSE IF Sibling(s) = {} THEN s
  ELSE Above(CHOOSE w \in Sibling(s) : TRUE, s)

(* What the server or the manager makes of requests, in their order.       *)
Requests(rs, visible) ==
  IF setup.override
  THEN /\ mapped' = visible /\ wm' = wm
       /\ place' = IF "move" \in Range(rs) THEN "asked" ELSE place
  ELSE /\ wm' = wm \o rs /\ mapped' = (mapped /\ visible) /\ place' = place

(* reconfigue_window(); the struts are a property like the other hints.    *)
Reconfigure(s, rs, visible) ==
  stack' = Restacked(s) /\ hints' = WmHints /\ Requests(<<"move">> \o rs, visible)

-----------------------------------------------------------------------------
(* The worker: bar::on(eventqueue::start), with the renderer's window.     *)
Create ==
  /\ pc = "create" /\ pc' = "map" /\ Reconfigure(Append(stack, "bar"), <<>>, FALSE)
  /\ UNCHANGED <<setup, iconic, managed, events, main, hasty, shown, ops>>
Map ==
  /\ pc = "map" /\ pc' = "announce" /\ Requests(<<"map", "move">>, setup.override \/ mapped)
  /\ UNCHANGED <<setup, stack, iconic, hints, managed, events, main, hasty, shown, ops>>
Announce ==
  /\ pc = "announce" /\ pc' = "done" /\ told' = Viewable
  /\ UNCHANGED <<setup, server, wmanager, events, m_visible, closing, disconnected, hasty, shown, ops>>

(* The main thread.  There is nothing to unmap before the window exists,   *)
(* and that is an error.                                                   *)
Command == ops < MaxOps /\ ops' = ops + 1 /\ ~closing /\ UNCHANGED <<setup, pc, iconic, managed, closing, disconnected>>
Hide ==
  /\ Command /\ m_visible /\ told' = FALSE /\ m_visible' = ~Exists
  /\ IF Exists THEN Requests(IF mapped THEN <<"unmap">> ELSE <<>>, FALSE) ELSE UNCHANGED <<mapped, wm, place>>
  /\ hasty' = (hasty \/ (Exists /\ ~mapped))
  /\ UNCHANGED <<stack, hints, events, shown>>
Show ==
  /\ Command /\ ~m_visible /\ m_visible' = TRUE /\ told' = TRUE
  /\ Reconfigure(stack, <<"map">>, setup.override \/ mapped)
  /\ hasty' = (hasty \/ wm # <<>>) /\ shown' = TRUE
  /\ UNCHANGED events
Toggle == Hide \/ Show

Event(type) ==
  /\ events # <<>> /\ Head(events) = type /\ events' = Tail(events) /\ ~disconnected
  /\ UNCHANGED <<setup, pc, server, wmanager, m_visible, closing, hasty, shown, ops>>
BroadcastVisibility == Event("state") /\ told' = Viewable /\ UNCHANGED disconnected
HandleExpose == Event("expose") /\ told' \in {told, Viewable} /\ UNCHANGED disconnected \* with the tray
Shutdown == (Event("destroy") \/ Event("delete")) /\ disconnected' = TRUE /\ UNCHANGED told
HandleEvent == BroadcastVisibility \/ HandleExpose \/ Shutdown

-----------------------------------------------------------------------------
(* The manager.  It takes its properties off a window that is withdrawn,   *)
(* whoever has written them meanwhile.                                     *)
Serves(request) ==
  /\ wm # <<>> /\ Head(wm) = request /\ wm' = Tail(wm) /\ ~closing
  /\ UNCHANGED <<setup, pc, stack, main, hasty, shown, ops>>
Manage ==
  /\ Serves("map") /\ mapped' = TRUE /\ iconic' = FALSE /\ managed' = hints
  /\ place' = IF setup.placing THEN "chosen" ELSE place
  /\ events' = Append(events, "state") /\ UNCHANGED hints
Withdraw ==
  /\ Serves("unmap") /\ hints' = hints \ {"state", "desktop"} /\ events' = Append(events, "state")
  /\ UNCHANGED <<mapped, iconic, place, managed>>
Place == Serves("move") /\ place' = "asked" /\ UNCHANGED <<mapped, iconic, hints, managed, events>>
Iconify ==
  /\ Command /\ mapped /\ ~setup.override /\ iconic' = ~iconic /\ events' = Append(events, "state")
  /\ UNCHANGED <<stack, mapped, hints, place, wm, m_visible, told, hasty, shown>>

(* Other windows appear, on top, and go away from over the bar; somebody   *)
(* closes the bar's window.                                                *)
Open ==
  /\ Command /\ Len(stack) < 4 /\ stack' = Append(stack, "new")
  /\ UNCHANGED <<mapped, hints, place, wm, events, m_visible, told, hasty, shown>>
Uncover ==
  /\ Command /\ Viewable /\ events' = Append(events, "expose")
  /\ UNCHANGED <<stack, mapped, hints, place, wm, m_visible, told, hasty, shown>>
Close(type) ==
  /\ pc = "done" /\ ~closing /\ closing' = TRUE /\ events' = Append(events, type)
  /\ mapped' = (mapped /\ type = "delete")
  /\ UNCHANGED <<setup, pc, stack, iconic, hints, place, wmanager, m_visible, told, disconnected, hasty, shown, ops>>

Next ==
  \/ Create \/ Map \/ Announce \/ Toggle \/ HandleEvent \/ Manage \/ Withdraw \/ Place
  \/ Iconify \/ Open \/ Uncover \/ \E type \in {"destroy", "delete"} : Close(type)
Spec == Init /\ [][Next]_vars

-----------------------------------------------------------------------------
Settled == pc = "done" /\ wm = <<>> /\ events = <<>> /\ ~closing /\ ~hasty

(* Once everybody has done their part, the window is mapped if the bar     *)
(* thinks it visible, and what the bar announced, for the tray, is what    *)
(* can be seen, unless a command hid it before it was mapped or showed it  *)
(* before the manager knew it hidden.                                      *)
VisibilityTold == Settled => mapped = m_visible /\ told = Viewable

(* The manager finds all hints whenever it maps the window, though it      *)
(* takes some away each time the window is hidden; the window is where it  *)
(* was asked to be, unless it was shown again by a manager that chooses.   *)
HintsKept == ~hasty => managed = WmHints
PlacedAsAsked == Settled => (place = "asked" \/ (setup.placing /\ shown))

(* The bar is above the root window of its manager and below the windows   *)
(* that were there.                                                        *)
StackedLow ==
  Exists /\ setup.override /\ (setup.restack = "generic" \/ Sibling(stack) # {}) =>
    \A i, j \in DOMAIN stack : stack[i] = "bar" =>
      /\ stack[j] \in Sibling(stack) => j < i
      /\ stack[j] \in {"client", "new"} => i < j

-----------------------------------------------------------------------------
(* The requests that the manager can still have, one after the other, if   *)
(* nobody was hasty: to map the window, at first or again, or to unmap it. *)
First == {<<"move", "map", "move">>, <<"map", "move">>}
Again == {<<"move", "map">>, <<"map">>}
Unmapping == {<<"move", "unmap">>, <<"unmap">>}
Moving == {<<"move">>, <<>>}

Typed ==
  /\ events \in Seq({"state", "expose", "destroy", "delete"})
  /\ mapped \in BOOLEAN /\ iconic \in BOOLEAN /\ m_visible \in BOOLEAN /\ told \in BOOLEAN
  /\ hasty \in BOOLEAN /\ shown \in BOOLEAN /\ closing \in BOOLEAN
  /\ pc \in {"create", "map", "announce", "done"} /\ hints \subseteq WmHints

Started == pc \in {"announce", "done"}
MapsWhatIsVisible ==
  \/ ~Started /\ ~mapped /\ m_visible /\ IF Exists THEN wm \in Moving /\ hints = WmHints ELSE wm = <<>>
  \/ Started /\ wm \in First \cup Again /\ ~mapped /\ m_visible /\ hints = WmHints
  \/ Started /\ wm \in Unmapping /\ ~mapped /\ ~m_visible
  \/ Started /\ wm \in Moving /\ mapped = m_visible
Coming == \E i \in 1 .. Len(events) : events[i] \in {"state"}
Tells == pc = "done" => told = Viewable \/ Coming \/ wm \in First \cup Again \cup Unmapping
Asks ==
  /\ wm \in Again => shown
  /\ Exists => \/ place = "asked" \/ (setup.placing /\ shown)
               \/ wm \in First \cup {<<"move", "map">>, <<"move", "unmap">>, <<"move">>}

Inv ==
  /\ Typed /\ (setup.override => wm = <<>> /\ ~iconic)
  /\ ~hasty => managed = WmHints /\ (closing \/ (MapsWhatIsVisible /\ Tells /\ Asks))

(* A window that is closed ends the program.                               *)
Closing == closing
Disconnected == disconnected
=============================================================================
