---------------------------- MODULE XWorkspaces ----------------------------
(***************************************************************************)
(* The xworkspaces module (modules/xworkspaces.cpp): the desktops that the *)
(* window manager publishes in properties of the X root window and of its  *)
(* clients.  The window manager changes one property at a time; polybar is *)
(* notified of each later and then reads the properties as they are.       *)
(*                                                                         *)
(* A viewport is known by its position.  A window is on desktop AllDesktops *)
(* (0xFFFFFFFF) when it is sticky.  A handler that throws is reported and  *)
(* forgotten by the controller.  Operators whose name has a suffix are bugs *)
(* that the code could have.                                               *)
(***************************************************************************)
EXTENDS Naturals, Sequences, FiniteSets

CONSTANTS
  Windows,
  MaxDesktops,  \* bound on the number of desktops
  MaxSteps      \* bound on what the window manager and the user do

AllDesktops == MaxDesktops + 1  \* stands for 0xFFFFFFFF
Positions == {<<0, 0>>, <<1, 0>>, <<0, 1>>}
Desktops == 0 .. MaxDesktops - 1

VARIABLES
  number, viewports, current, client_list, desk, urgent, \* properties
  steps,
  events,          \* property_notify events on their way
  watched,         \* clients whose property changes are reported
  pinned,          \* the positions to show: all, or those on the bar's monitor
  m_desktop_count, \* the number of m_desktop_names
  m_current_desktop, m_clients, m_urgent_desktops,
  m_viewports,     \* position -> desktop -> state, of those that are shown
  stale,           \* history: viewports changed since they were read
  corrupt          \* history: a desktop beyond m_desktop_names was used

wm == <<number, viewports, current, client_list, desk, urgent, steps>>
data == <<m_desktop_count, m_current_desktop, m_clients, m_urgent_desktops, m_viewports>>
vars == <<wm, events, watched, pinned, data, stale, corrupt>>

States == {"urgent", "active", "occupied", "empty"}
Atoms == {"clients", "desktop", "number", "current", "hints"}

TypeOK ==
  /\ number \in 1 .. MaxDesktops /\ viewports \in Seq(Positions)
  /\ current \in Desktops /\ client_list \subseteq Windows
  /\ desk \in [Windows -> Desktops \cup {AllDesktops}] /\ urgent \subseteq Windows
  /\ events \in Seq(Atoms) /\ watched \subseteq Windows
  /\ m_desktop_count \in 1 .. MaxDesktops
  /\ \A m \in DOMAIN m_viewports : m_viewports[m] \in [DOMAIN m_viewports[m] -> States]

-----------------------------------------------------------------------------
(* rebuild_desktops(): one viewport for each distinct position, a missing  *)
(* position counts as the origin.  Positions beyond the desktops stay, so  *)
(* that a viewport may hold desktops that do not exist.  The positions of  *)
(* the desktops and of the viewport are compared by the sum of their       *)
(* coordinates, so that a desktop may be in several viewports.             *)
Position(d) == IF d < Len(viewports) THEN viewports[d + 1] ELSE <<0, 0>>

Sum(position) == position[1] + position[2]

Rebuilt(count) ==
  LET all == 0 .. (IF Len(viewports) > count THEN Len(viewports) ELSE count) - 1
      shown == {Position(d) : d \in all} \cap pinned
  IN [m \in shown |-> [d \in {d \in all : Sum(Position(d)) = Sum(m)} |-> "empty"]]

(* rebuild_urgent_hints(): sticky windows do not count.                    *)
UrgentDesktops(count) ==
  [d \in 0 .. count - 1 |-> \E w \in client_list : desk[w] = d /\ w \in urgent]

ClientDesktops == [w \in client_list |-> desk[w]]

State(d, urgents, active, clients) ==
  CASE urgents[d] -> "urgent"
    [] ~urgents[d] /\ d = active -> "active"
    [] ~urgents[d] /\ d # active /\ \E w \in DOMAIN clients : clients[w] = d -> "occupied"
    [] OTHER -> "empty"

(* rebuild_desktop_states(): an index beyond the names is out of bounds.   *)
WithStates(views, urgents, active, clients) ==
  [m \in DOMAIN views |->
     [d \in DOMAIN views[m] |->
        IF d \in DOMAIN urgents THEN State(d, urgents, active, clients) ELSE "empty"]]

OutOfBounds(views, urgents) ==
  \E m \in DOMAIN views : \E d \in DOMAIN views[m] : d \notin DOMAIN urgents

-----------------------------------------------------------------------------
Init ==
  /\ number \in 1 .. MaxDesktops /\ current = 0
  /\ viewports \in {<<>>, [d \in 1 .. number |-> IF d = 1 THEN <<0, 0>> ELSE <<1, 0>>]}
  /\ client_list \in {{}, Windows}
  /\ desk = [w \in Windows |-> 0] /\ urgent = {} /\ steps = 0
  /\ events = <<>> /\ watched = client_list
  /\ pinned \in {Positions, {<<0, 0>>}, {<<1, 0>>}}
  /\ m_desktop_count = number /\ m_current_desktop = current
  /\ m_clients = ClientDesktops /\ m_urgent_desktops = UrgentDesktops(number)
  /\ m_viewports = WithStates(Rebuilt(number), m_urgent_desktops, current, m_clients)
  /\ stale = FALSE /\ corrupt = FALSE

-----------------------------------------------------------------------------
(* The window manager and its clients: external.  One property at a time.  *)
ModuleOnly == <<watched, pinned, data, corrupt>>
Step == steps < MaxSteps /\ steps' = steps + 1
Notify(atom) == events' = Append(events, atom)
NotifyClient(w, atom) == events' = IF w \in watched THEN Append(events, atom) ELSE events

SetNumber ==
  /\ Step /\ number' \in (1 .. MaxDesktops) \ {number} /\ Notify("number")
  /\ UNCHANGED <<viewports, current, client_list, desk, urgent, ModuleOnly, stale>>

SetViewports ==
  /\ Step /\ viewports' \in [1 .. number -> Positions] /\ viewports' # viewports
  /\ stale' = TRUE
  /\ UNCHANGED <<number, current, client_list, desk, urgent, events, ModuleOnly>>

SetCurrent ==
  /\ Step /\ current' \in (0 .. number - 1) \ {current} /\ Notify("current")
  /\ UNCHANGED <<number, viewports, client_list, desk, urgent, ModuleOnly, stale>>

SetClients(w) ==
  /\ Step /\ Notify("clients")
  /\ client_list' = IF w \in client_list THEN client_list \ {w} ELSE client_list \cup {w}
  /\ UNCHANGED <<number, viewports, current, desk, urgent, ModuleOnly, stale>>

SetDesktop(w) ==
  /\ Step /\ \E d \in 0 .. number - 1 \cup {AllDesktops} :
       d # desk[w] /\ desk' = [desk EXCEPT ![w] = d]
  /\ NotifyClient(w, "desktop")
  /\ UNCHANGED <<number, viewports, current, client_list, urgent, ModuleOnly, stale>>

SetHints(w) ==
  /\ Step /\ NotifyClient(w, "hints")
  /\ urgent' = IF w \in urgent THEN urgent \ {w} ELSE urgent \cup {w}
  /\ UNCHANGED <<number, viewports, current, client_list, desk, ModuleOnly, stale>>

-----------------------------------------------------------------------------
(* handle(property_notify) on the main thread.                             *)
Take(atoms) == ~corrupt /\ events # <<>> /\ Head(events) \in atoms /\ events' = Tail(events)

Rebuild(views) ==
  /\ m_viewports' = WithStates(views, m_urgent_desktops', m_current_desktop', m_clients')
  /\ corrupt' = OutOfBounds(views, m_urgent_desktops')

(* rebuild_clientlist() listens to the clients it has not seen.            *)
RebuildClientlist(count) ==
  /\ watched' = watched \cup client_list
  /\ m_clients' = ClientDesktops /\ m_urgent_desktops' = UrgentDesktops(count)

HandleClients ==
  /\ Take({"clients", "desktop"})
  /\ RebuildClientlist(m_desktop_count)
  /\ UNCHANGED <<wm, pinned, m_desktop_count, m_current_desktop, stale>>
  /\ Rebuild(m_viewports)

HandleNumber_NoStates ==
  /\ Take({"number"})
  /\ m_desktop_count' = number /\ stale' = FALSE
  /\ RebuildClientlist(number) /\ m_viewports' = Rebuilt(number)
  /\ UNCHANGED <<wm, pinned, m_current_desktop, corrupt>>

HandleNumber ==
  /\ Take({"number"})
  /\ m_desktop_count' = number /\ stale' = FALSE
  /\ RebuildClientlist(number)
  /\ UNCHANGED <<wm, pinned, m_current_desktop>>
  /\ Rebuild(Rebuilt(number))

(* update_current_desktop() throws for a desktop it does not know of.      *)
HandleCurrent ==
  /\ Take({"current"})
  /\ m_current_desktop' = current
  /\ UNCHANGED <<wm, watched, pinned, m_desktop_count, m_clients, m_urgent_desktops, stale>>
  /\ IF current < m_desktop_count THEN Rebuild(m_viewports)
     ELSE UNCHANGED <<m_viewports, corrupt>>

HandleHints ==
  /\ Take({"hints"})
  /\ m_urgent_desktops' = UrgentDesktops(m_desktop_count)
  /\ UNCHANGED <<wm, watched, pinned, m_desktop_count, m_current_desktop, m_clients, stale>>
  /\ Rebuild(m_viewports)

-----------------------------------------------------------------------------
(* focus_desktop(), on the event queue's worker, under the lock that the   *)
(* handlers take too: the window manager goes there if the desktop exists. *)
Focus(d) ==
  /\ current' = IF d < number THEN d ELSE current
  /\ events' = IF current' # current THEN Append(events, "current") ELSE events
  /\ UNCHANGED <<number, viewports, client_list, desk, urgent, ModuleOnly, stale>>

(* A click names a desktop that was shown once.                            *)
ActionFocus == ~corrupt /\ Step /\ \E d \in Desktops : Focus(d)

(* focus_direction(), from the first desktop of the first viewport to the  *)
(* last of the last one, the viewports in the order of a std::set; the     *)
(* desktop before the first is 0xFFFFFFFF.  Without any desktop its use of *)
(* front() and back() is undefined: the module is in a format then that    *)
(* has no area to scroll on.                                               *)
Indexes == UNION {DOMAIN m_viewports[m] : m \in DOMAIN m_viewports}

NotAfter(p, q) == p[1] < q[1] \/ (p[1] = q[1] /\ p[2] <= q[2])
First == CHOOSE m \in DOMAIN m_viewports : \A n \in DOMAIN m_viewports : NotAfter(m, n)
Last == CHOOSE m \in DOMAIN m_viewports : \A n \in DOMAIN m_viewports : NotAfter(n, m)
Front == CHOOSE d \in DOMAIN m_viewports[First] : \A e \in DOMAIN m_viewports[First] : d <= e
Back == CHOOSE d \in DOMAIN m_viewports[Last] : \A e \in DOMAIN m_viewports[Last] : d >= e

Next_(d) == LET n == IF d + 1 < Back THEN d + 1 ELSE Back IN IF n = d THEN Front ELSE n
Prev(d) ==
  IF d = 0 THEN AllDesktops
  ELSE LET n == IF d - 1 > Front THEN d - 1 ELSE Front IN IF n = d THEN Back ELSE n

ActionScroll ==
  ~corrupt /\ Step /\ Indexes # {} /\ (Focus(Next_(current)) \/ Focus(Prev(current)))

Next ==
  \/ SetNumber \/ SetViewports \/ SetCurrent
  \/ \E w \in Windows : SetClients(w) \/ SetDesktop(w) \/ SetHints(w)
  \/ HandleClients \/ HandleNumber \/ HandleCurrent \/ HandleHints
  \/ ActionFocus \/ ActionScroll

Spec == Init /\ [][Next]_vars

-----------------------------------------------------------------------------
(* Once its events are handled the module shows what the window manager    *)
(* has: every desktop at a position to show, with which one is active,     *)
(* which are urgent, occupied or empty, in whatever order properties       *)
(* changed.  A desktop of another monitor is there too only if the sum of  *)
(* its coordinates is that of a desktop to show.  Exceptions: a change of  *)
(* the viewports alone, which is not handled; a current desktop that does  *)
(* not exist; and an index out of bounds, when more viewports than desktops *)
(* were published.                                                         *)
ToShow == {d \in 0 .. number - 1 : Position(d) \in pinned}

ShownAsPublished ==
  events = <<>> /\ ~corrupt /\ ~stale =>
    /\ Indexes = {d \in 0 .. number - 1 : \E e \in ToShow : Sum(Position(d)) = Sum(Position(e))}
    /\ \A m \in DOMAIN m_viewports : \A d \in DOMAIN m_viewports[m] :
         \/ m_viewports[m][d] = State(d, UrgentDesktops(number), current, ClientDesktops)
         \/ ~(current < number)

-----------------------------------------------------------------------------
(* What is proved of it: what the module has read is what is published, or *)
(* an event that makes it read that again is on its way; the states of the *)
(* desktops are of what was read, unless the handler has thrown.           *)
Waits(atoms) == \E i \in 1 .. Len(events) : events[i] \in atoms
Shape(views) == [m \in DOMAIN views |-> DOMAIN views[m]]

ReadAsPublished ==
  /\ Waits({"number"}) \/ m_desktop_count = number
  /\ Waits({"current"}) \/ m_current_desktop = current
  /\ Waits({"clients"}) \/ client_list \subseteq watched
  /\ Waits({"clients", "desktop"}) \/ m_clients = ClientDesktops
  /\ Waits({"clients", "desktop", "hints"}) \/ m_urgent_desktops = UrgentDesktops(m_desktop_count)
  /\ stale \/ Waits({"number"}) \/ Shape(m_viewports) = Shape(Rebuilt(number))

ShownAsRead ==
  /\ DOMAIN m_urgent_desktops = 0 .. m_desktop_count - 1
  /\ corrupt \/ ~OutOfBounds(m_viewports, m_urgent_desktops)
  /\ \/ m_viewports = WithStates(m_viewports, m_urgent_desktops, m_current_desktop, m_clients)
     \/ ~(m_current_desktop < m_desktop_count)

Inv ==
  /\ number \in Nat /\ viewports \in Seq(Positions) /\ events \in Seq(Atoms)
  /\ ReadAsPublished /\ ShownAsRead
=============================================================================
