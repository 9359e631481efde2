-------------------------------- MODULE Tray --------------------------------
(***************************************************************************)
(* The system tray (src/x11/tray_manager.cpp, tray_client.cpp,             *)
(* xembed.cpp): one owner at a time of a selection of the X server embeds  *)
(* the icons of other programs in its window.                              *)
(*                                                                         *)
(* x is the X server.  It executes requests at once and queues what it has *)
(* to tell polybar in x.events, so polybar sees a past state.  The main    *)
(* thread handles one event at a time; the tray is first activated by the  *)
(* event queue worker, which starts the bar and then tells the tray that   *)
(* it is visible.  That may redraw the window, under m_mtx; both threads   *)
(* only ever try to take that lock.                                        *)
(*                                                                         *)
(* The tray window exists while m_activated; nobody else destroys it.      *)
(* Sizes are counted in icons.  Icons have an _XEMBED_INFO property, and   *)
(* at first all of them or none want to be mapped.                         *)
(*                                                                         *)
(* Operators whose name has a suffix (NoSlot_OneMore) are bugs that the    *)
(* code could have; the specification does not use them.                   *)
(***************************************************************************)
EXTENDS Naturals, Sequences, FiniteSets, FiniteSetsExt

CONSTANTS
  Icons,    \* windows that want to be embedded
  Others,   \* windows of other tray managers
  MaxOps    \* bound on what other programs and the user do

None == "none"
Tray == "tray"

VARIABLES
  x,                        \* the X server
  m_activated, m_acquired_selection, m_othermanager,
  m_mapped, m_hidden,       \* of the tray window; m_hidden: of the bar
  m_clients,                \* icons polybar believes to be embedded,
  clients_mapped, flags,    \* their m_mapped and XEMBED_MAPPED flags
  configured_slots, configured_w,
  pc, docking,              \* on each thread; the icon being set up
  visible,                  \* is the bar?
  ops,
  refresh,                  \* what the worker has read in refresh_window()
  withdrawn, overtaken,     \* history: an icon has withdrawn; the selection
                            \* was lost while the worker was activating;
  refused                   \* nothing was reconfigured since a reconfigure()
                            \* found the lock taken

selection == <<m_activated, m_acquired_selection, m_othermanager>>
clients == <<m_clients, clients_mapped, flags>>
room == <<configured_slots, configured_w, refused>>
vars == <<x, selection, m_mapped, m_hidden, clients, room, pc, docking,
          visible, ops, refresh, withdrawn, overtaken>>

Events ==
  [type : {"dock", "configure", "property", "map", "unmap", "reparent",
           "destroy", "clear", "expose", "background", "stale"},
   win : Icons \cup Others \cup {Tray, None}, parent : {Tray, None}]

PC == {"idle", "activate", "track", "take", "verify", "lost", "setup",
       "broadcast", "tell_visible", "tell_hidden", "refresh", "clear",
       "terminated"}
NotRefreshing == [clients |-> {}, width |-> 0]

TypeOK ==
  /\ x.owner \in Others \cup {None, Tray}
  /\ x.alive \subseteq Icons \cup Others /\ x.inside \subseteq x.alive \cap Icons
  /\ x.mapped \subseteq x.alive \cup {Tray} /\ x.info \subseteq Icons
  /\ x.heard \subseteq Icons \cup Others \cup {Tray} /\ x.events \in Seq(Events)
  /\ m_activated \in BOOLEAN /\ m_acquired_selection \in BOOLEAN
  /\ m_othermanager \in Others \cup {None, Tray}
  /\ m_mapped \in BOOLEAN /\ m_hidden \in BOOLEAN
  /\ m_clients \subseteq Icons /\ clients_mapped \subseteq m_clients
  /\ flags \subseteq Icons
  /\ configured_slots \in 0 .. Cardinality(Icons)
  /\ configured_w \in 0 .. Cardinality(Icons)
  /\ pc \in [{"main", "worker"} -> PC] /\ docking \in Icons \cup {None}
  /\ visible \in BOOLEAN /\ ops \in 0 .. MaxOps
  /\ withdrawn \in BOOLEAN /\ overtaken \in BOOLEAN /\ refused \in BOOLEAN
  /\ refresh \in [clients : SUBSET Icons, width : 0 .. Cardinality(Icons)]

Init ==
  /\ x \in [owner : Others \cup {None}, alive : {Icons \cup Others},
            inside : {{}}, mapped : {{}}, info : {{}, Icons}, heard : {{}},
            events : {<<>>}]
  /\ m_activated = FALSE /\ m_acquired_selection = FALSE
  /\ m_othermanager = None /\ m_mapped = FALSE /\ m_hidden = FALSE
  /\ m_clients = {} /\ clients_mapped = {} /\ flags = {}
  /\ configured_slots = 0 /\ configured_w = 0
  /\ pc = [main |-> "idle", worker |-> "activate"] /\ docking = None
  /\ visible = TRUE /\ ops = 0 /\ withdrawn = FALSE
  /\ overtaken = FALSE /\ refused = FALSE /\ refresh = NotRefreshing

-----------------------------------------------------------------------------
(* The X server: what a request makes of it, s.                            *)
Event(type, win) == [type |-> type, win |-> win, parent |-> None]

(* Events of a window reach polybar if it has asked for them.              *)
Tell(s, e) == IF e.win \in s.heard THEN [s EXCEPT !.events = Append(@, e)] ELSE s

XMap(s, w) ==
  IF w \in s.mapped \/ w \notin s.alive \cup {Tray} THEN s
  ELSE Tell([s EXCEPT !.mapped = @ \cup {w}], Event("map", w))

XUnmap(s, w) ==
  IF w \notin s.mapped THEN s
  ELSE Tell([s EXCEPT !.mapped = @ \ {w}], Event("unmap", w))

(* A mapped window is unmapped, moved and mapped again.                    *)
XReparent(s, i, p) ==
  IF i \notin s.alive THEN s
  ELSE LET moved == Tell([XUnmap(s, i) EXCEPT
                            !.inside = IF p = Tray THEN @ \cup {i} ELSE @ \ {i}],
                         [Event("reparent", i) EXCEPT !.parent = p])
       IN IF i \in s.mapped THEN XMap(moved, i) ELSE moved

(* The selection of a window that is destroyed has no owner.               *)
XDestroy(s, w) ==
  Tell([XUnmap(s, w) EXCEPT !.alive = @ \ {w}, !.inside = @ \ {w},
                            !.owner = IF @ = w THEN None ELSE @],
       Event("destroy", w))

(* The tray window is told when it loses the selection.                    *)
XSetOwner(s, w) ==
  [(IF s.owner = Tray THEN Tell(s, Event("clear", Tray)) ELSE s)
     EXCEPT !.owner = w]

(* ~tray_client(): the icon goes back to the root window, unmapped.        *)
Unembed(s, i) == XReparent(XUnmap(s, i), i, None)

(* One request for each icon of a set.                                     *)
Requests == {"map", "unmap", "unembed"}
Ask(s, request, i) ==
  CASE request = "map" -> XMap(s, i)
    [] request = "unmap" -> XUnmap(s, i)
    [] request = "unembed" -> Unembed(s, i)
ForAll(S, request, s) == FoldSet(LAMBDA i, t : Ask(t, request, i), s, S)

-----------------------------------------------------------------------------
(* Activation, on either thread.                                           *)
Running == pc["worker"] # "terminated"
At(t, step) == Running /\ pc[t] = step
Goto(t, step) == pc' = [pc EXCEPT ![t] = step]
Finish(t) == Goto(t, IF t = "worker" THEN "broadcast" ELSE "idle")
Window == <<m_mapped, m_hidden>>
User == <<visible, ops, refresh, withdrawn, overtaken>>

Activate(t) ==
  /\ At(t, "activate") /\ ~m_activated
  /\ m_activated' = TRUE
  /\ x' = [x EXCEPT !.heard = @ \cup {Tray}]
  /\ m_othermanager' = x.owner
  /\ Goto(t, IF x.owner = None THEN "take" ELSE "track")
  /\ UNCHANGED <<m_acquired_selection, Window, clients, room, docking, User>>

TrackOwner(s) ==
  IF m_othermanager \in s.alive
  THEN [s EXCEPT !.heard = @ \cup {m_othermanager}] ELSE s

(* deactivate(): what the X server still has to say of the old tray window *)
(* means nothing to the handlers any more.                                 *)
Outdated(events) ==
  [n \in DOMAIN events |-> IF events[n].win = Tray THEN Event("stale", None) ELSE events[n]]

Deactivate(s, clear_selection) ==
  LET cleared == IF clear_selection /\ m_acquired_selection
                 THEN XSetOwner(s, None) ELSE s
      left == ForAll(m_clients, "unembed", cleared)
  IN /\ x' = [left EXCEPT
              !.owner = IF @ = Tray THEN None ELSE @,
              !.inside = {}, !.mapped = @ \ {Tray}, !.heard = @ \ {Tray},
              !.events = Outdated(@)]
     /\ m_activated' = FALSE /\ m_acquired_selection' = FALSE
     /\ m_mapped' = FALSE
     /\ m_clients' = {} /\ clients_mapped' = {} /\ flags' = {}
     /\ configured_slots' = 0 /\ configured_w' = 0 /\ refused' = FALSE

Track_Stays(t) ==
  /\ At(t, "track") /\ Finish(t) /\ x' = TrackOwner(x)
  /\ UNCHANGED <<selection, Window, clients, room, docking, User>>

(* Somebody else owns the selection: wait for the end of that window.      *)
Track(t) ==
  /\ At(t, "track") /\ Finish(t)
  /\ \/ ~m_acquired_selection /\ Deactivate(TrackOwner(x), TRUE)
     \/ /\ m_acquired_selection /\ x' = TrackOwner(x)
        /\ UNCHANGED <<m_activated, m_acquired_selection, m_mapped, clients, room>>
  /\ UNCHANGED <<m_othermanager, m_hidden, docking, User>>

Take(t) ==
  /\ At(t, "take") /\ Goto(t, "verify")
  /\ x' = XSetOwner(x, Tray)
  /\ UNCHANGED <<selection, Window, clients, room, docking, User>>

(* If it did not work out an exception leaves activate(): on the main      *)
(* thread controller catches it, on the worker nobody does.                *)
Verify(t) ==
  /\ At(t, "verify")
  /\ \/ /\ x.owner = (IF m_activated THEN Tray ELSE None)
        /\ m_acquired_selection' = TRUE /\ Finish(t)
     \/ /\ x.owner # (IF m_activated THEN Tray ELSE None)
        /\ UNCHANGED m_acquired_selection
        /\ Goto(t, IF t = "worker" THEN "terminated" ELSE "idle")
  /\ UNCHANGED <<x, m_activated, m_othermanager, Window, clients, room,
                 docking, User>>

-----------------------------------------------------------------------------
mapped_clients_FromOne(C, mapped) == Cardinality(C \cap mapped) + 1

mapped_clients(C, mapped) == Cardinality(C \cap mapped)

(* m_mtx: the worker is in refresh_window().                               *)
Held == pc["worker"] = "clear"

(* reconfigure(): clients whose window is gone are dropped, the others are *)
(* mapped as their flag says, and so is the window of the tray; or nothing *)
(* is done, and nothing repeats it.                                        *)
Reconfigure(s, clients_, mapped_, flags_) ==
  LET live == clients_ \cap s.alive
      n == mapped_clients(live, mapped_)
      icons == ForAll((live \cap mapped_) \ flags_, "unmap",
                      ForAll((live \cap flags_) \ mapped_, "map", s))
  IN \/ /\ Held /\ refused' = TRUE /\ x' = s
        /\ m_clients' = clients_ /\ clients_mapped' = mapped_ /\ flags' = flags_
        /\ UNCHANGED <<configured_slots, configured_w>>
     \/ /\ ~Held /\ refused' = FALSE
        /\ x' = IF n = 0 /\ m_mapped THEN XUnmap(icons, Tray)
                ELSE IF n > 0 /\ ~m_mapped /\ ~m_hidden THEN XMap(icons, Tray)
                ELSE icons
        /\ m_clients' = live /\ clients_mapped' = mapped_ \cap live
        /\ flags' = flags_ \cap live
        /\ configured_slots' = n /\ configured_w' = n

(* The icon leaves the list even if nothing is reconfigured.               *)
Remove(s, i) ==
  Reconfigure(Unembed(s, i), m_clients \ {i}, clients_mapped \ {i}, flags \ {i})

(* redraw_window() on the main thread has one lasting effect: on           *)
(* configured_w, if the lock is free.                                      *)
Redraw(mapped) ==
  /\ configured_w' = IF m_activated /\ mapped /\ ~Held
                     THEN mapped_clients(m_clients, clients_mapped)
                     ELSE configured_w
  /\ UNCHANGED refused

(* on(visibility_change), which is received while the tray is active: the  *)
(* window is mapped or unmapped, or else redrawn.                          *)
Redrawn(v) == m_activated /\ m_mapped /\ v /\ clients_mapped # {}

Toggle(s, v) ==
  LET some == clients_mapped # {}
  IN \/ /\ m_activated /\ m_hidden' = ~v
        /\ x' = IF v /\ ~m_mapped /\ some THEN XMap(s, Tray)
                ELSE IF ~(v /\ some) /\ m_mapped THEN XUnmap(s, Tray)
                ELSE s
     \/ ~m_activated /\ x' = s /\ UNCHANGED m_hidden

VisibilityChange(s, v) == Toggle(s, v) /\ Redraw(Redrawn(v))

(* After the activation bar::on(start) asks for the state of its window    *)
(* and tells it.                                                           *)
Broadcast ==
  /\ At("worker", "broadcast")
  /\ Goto("worker", IF visible THEN "tell_visible" ELSE "tell_hidden")
  /\ UNCHANGED <<x, selection, Window, clients, room, docking, User>>

TellVisibility(v) ==
  /\ At("worker", IF v THEN "tell_visible" ELSE "tell_hidden")
  /\ Goto("worker", IF Redrawn(v) THEN "refresh" ELSE "idle")
  /\ Toggle(x, v)
  /\ UNCHANGED <<selection, m_mapped, clients, room, docking, User>>

(* refresh_window() on the worker: it goes away again if there is nothing  *)
(* to refresh, or if the main thread has the lock just then ...            *)
Refresh ==
  /\ At("worker", "refresh")
  /\ \/ Goto("worker", "idle") /\ UNCHANGED refresh
     \/ /\ m_activated /\ m_mapped /\ Goto("worker", "clear")
        /\ refresh' = [clients |-> m_clients,
                       width |-> mapped_clients(m_clients, clients_mapped)]
  /\ UNCHANGED <<x, selection, Window, clients, room, docking, visible, ops,
                 withdrawn, overtaken>>

(* ... and sets the width it has read at first, if any icon is mapped now. *)
(* The main thread changes m_clients without the lock, under the feet of   *)
(* the worker, which then has counted anything, or dies.                   *)
Clear ==
  /\ At("worker", "clear") /\ refresh' = NotRefreshing
  /\ \/ /\ m_clients = refresh.clients /\ Goto("worker", "idle")
        /\ configured_w' = IF clients_mapped = {} THEN 0 ELSE refresh.width
        /\ UNCHANGED refused
     \/ /\ m_clients # refresh.clients /\ refused' = TRUE
        /\ \E step \in {"idle", "terminated"} : Goto("worker", step)
        /\ configured_w' \in 0 .. Cardinality(Icons)
  /\ UNCHANGED <<x, selection, Window, clients, configured_slots, docking,
                 visible, ops, withdrawn, overtaken>>

(* bar::hide(), bar::show()                                                *)
SetVisible(v) ==
  /\ At("main", "idle") /\ visible = ~v /\ ops < MaxOps
  /\ visible' = v /\ ops' = ops + 1
  /\ VisibilityChange(x, v)
  /\ UNCHANGED <<selection, m_mapped, clients, configured_slots, pc, docking,
                 refresh, withdrawn, overtaken>>

-----------------------------------------------------------------------------
(* The events of the X server, one at a time.                              *)
Handles(type) ==
  /\ At("main", "idle") /\ x.events # <<>> /\ Head(x.events).type = type
Subject == Head(x.events).win
Rest == [x EXCEPT !.events = Tail(@)]

Ignore ==
  /\ x' = Rest
  /\ UNCHANGED <<selection, Window, clients, room, pc, docking, User>>

(* The window of such an event is neither m_tray nor one of the icons.     *)
Stale == Handles("stale") /\ Ignore

(* process_docking_request(): ask for its _XEMBED_INFO ...                 *)
Dock ==
  /\ Handles("dock")
  /\ LET i == Subject
     IN \/ (~m_activated \/ i \in m_clients) /\ Ignore
        \/ /\ m_activated /\ i \notin m_clients /\ i \notin x.alive
           /\ Reconfigure(Rest, m_clients, clients_mapped, flags)
           /\ UNCHANGED <<selection, Window, pc, docking, User>>
        \/ /\ m_activated /\ i \notin m_clients /\ i \in x.alive
           /\ m_clients' = m_clients \cup {i}
           /\ flags' = (flags \ {i}) \cup ({i} \cap x.info)
           /\ docking' = i /\ Goto("main", "setup") /\ x' = Rest
           /\ UNCHANGED <<selection, Window, clients_mapped, room, User>>

Setup_HearLast ==
  /\ At("main", "setup") /\ Goto("main", "idle") /\ docking' = None
  /\ LET inside == XReparent(x, docking, Tray)
         mapped == IF docking \in flags THEN XMap(inside, docking) ELSE inside
     IN x' = [mapped EXCEPT !.heard = @ \cup {docking}]
  /\ UNCHANGED <<selection, Window, clients, room, User>>

(* ... then embed it, or drop it when the icon is gone meanwhile.          *)
Setup ==
  /\ At("main", "setup") /\ Goto("main", "idle") /\ docking' = None
  /\ LET heard == [x EXCEPT !.heard = @ \cup {docking}]
         inside == XReparent(heard, docking, Tray)
     IN \/ /\ docking \in x.alive
           /\ x' = IF docking \in flags THEN XMap(inside, docking) ELSE inside
           /\ UNCHANGED clients
        \/ /\ docking \notin x.alive
           /\ m_clients' = m_clients \ {docking}
           /\ clients_mapped' = clients_mapped \ {docking}
           /\ flags' = flags \ {docking} /\ UNCHANGED x
  /\ UNCHANGED <<selection, Window, room, User>>

(* Events of the tray window only come while it is active.                 *)
SelectionClear ==
  /\ Handles("clear") /\ x' = Rest
  /\ m_othermanager' = x.owner /\ Goto("main", "lost")
  /\ overtaken' = (overtaken \/ pc["worker"] = "verify")
  /\ UNCHANGED <<m_activated, m_acquired_selection, Window, clients, room,
                 docking, visible, ops, refresh, withdrawn>>

Lost ==
  /\ At("main", "lost") /\ Goto("main", "idle")
  /\ Deactivate(TrackOwner(x), FALSE)
  /\ UNCHANGED <<m_othermanager, m_hidden, docking, User>>

PropertyNotify ==
  /\ Handles("property")
  /\ LET i == Subject
         queried == (flags \ {i}) \cup ({i} \cap x.info)
     IN \/ i \notin m_clients /\ Ignore
        \/ /\ i \in m_clients
           /\ \/ i \notin x.alive /\ Remove(Rest, i)
              \/ /\ i \in x.alive \cap x.info
                 /\ Reconfigure(Rest, m_clients, clients_mapped, queried)
              \/ /\ i \in x.alive \ x.info
                 /\ x' = Rest /\ flags' = queried
                 /\ UNCHANGED <<m_clients, clients_mapped, room>>
           /\ UNCHANGED <<selection, Window, pc, docking, User>>

(* An icon wants to be resized: it is told its size, if it still exists.   *)
ConfigureRequest ==
  /\ Handles("configure")
  /\ \/ Subject \in m_clients \ x.alive /\ Remove(Rest, Subject)
        /\ UNCHANGED <<selection, Window, pc, docking, User>>
     \/ Subject \notin m_clients \ x.alive /\ Ignore

ReparentNotify ==
  /\ Handles("reparent")
  /\ \/ Subject \in m_clients /\ Head(x.events).parent # Tray
        /\ Remove(Rest, Subject)
        /\ UNCHANGED <<selection, Window, pc, docking, User>>
     \/ (Subject \notin m_clients \/ Head(x.events).parent = Tray) /\ Ignore

DestroyNotify_IconsOnly ==
  /\ Handles("destroy")
  /\ \/ /\ Subject \in m_clients /\ Remove(Rest, Subject)
        /\ UNCHANGED <<selection, Window, pc, docking, User>>
     \/ Subject \notin m_clients /\ Ignore

DestroyNotify ==
  /\ Handles("destroy")
  /\ \/ /\ ~m_activated /\ Subject = m_othermanager
        /\ x' = Rest /\ Goto("main", "activate")
        /\ UNCHANGED <<selection, Window, clients, room, docking, User>>
     \/ /\ m_activated /\ Subject \in m_clients
        /\ Remove(Rest, Subject)
        /\ UNCHANGED <<selection, Window, pc, docking, User>>
     \/ /\ IF m_activated THEN Subject \notin m_clients
           ELSE Subject # m_othermanager
        /\ Ignore

NoSlot_OneMore(mapped) ==
  mapped_clients(m_clients, mapped) > configured_slots + 1

NoSlot(mapped) == mapped_clients(m_clients, mapped) > configured_slots

MapNotify ==
  /\ Handles("map")
  /\ LET w == Subject
         mapped == clients_mapped \cup {w}
     IN \/ /\ w = Tray /\ m_mapped' = TRUE /\ x' = Rest /\ Redraw(TRUE)
           /\ UNCHANGED <<m_hidden, clients, configured_slots>>
        \/ /\ w \in m_clients /\ NoSlot(mapped)
           /\ Reconfigure(Rest, m_clients, mapped, flags) /\ UNCHANGED Window
        \/ /\ w \in m_clients /\ ~NoSlot(mapped)
           /\ clients_mapped' = mapped /\ x' = Rest
           /\ UNCHANGED <<m_clients, flags, room, Window>>
        \/ /\ w \notin m_clients \cup {Tray} /\ x' = Rest
           /\ UNCHANGED <<clients, room, Window>>
  /\ UNCHANGED <<selection, pc, docking, User>>

UnmapNotify ==
  /\ Handles("unmap") /\ x' = Rest
  /\ m_mapped' = (m_mapped /\ Subject # Tray)
  /\ clients_mapped' = clients_mapped \ {Subject}
  /\ UNCHANGED <<selection, m_hidden, m_clients, flags, room, pc, docking, User>>

(* The bar window was exposed: bar::handle(expose) broadcasts its state.   *)
Expose ==
  /\ Handles("expose") /\ VisibilityChange(Rest, visible)
  /\ UNCHANGED <<selection, m_mapped, clients, configured_slots, pc, docking, User>>

UpdateBackground ==
  /\ Handles("background") /\ x' = Rest /\ Redraw(m_mapped)
  /\ UNCHANGED <<selection, Window, clients, configured_slots, pc, docking, User>>

Handler ==
  \/ Dock \/ ConfigureRequest \/ SelectionClear \/ PropertyNotify
  \/ ReparentNotify \/ DestroyNotify \/ MapNotify \/ UnmapNotify \/ Expose \/ UpdateBackground
  \/ Stale

MainStep ==
  Activate("main") \/ Track("main") \/ Take("main") \/ Verify("main")
    \/ Setup \/ Lost \/ Handler

WorkerStep ==
  Activate("worker") \/ Track("worker") \/ Take("worker") \/ Verify("worker")
    \/ Broadcast \/ Refresh \/ Clear
    \/ \E v \in BOOLEAN : TellVisibility(v)

-----------------------------------------------------------------------------
(* Other programs, and events that come from the user.                     *)
World ==
  /\ Running /\ ops < MaxOps /\ ops' = ops + 1
  /\ UNCHANGED <<selection, Window, clients, room, pc, docking, visible,
                 refresh, overtaken>>
Elsewhere == World /\ UNCHANGED withdrawn

OtherTakes(o) ==
  Elsewhere /\ o \in x.alive /\ x.owner # o /\ x' = XSetOwner(x, o)

OtherReleases(o) ==
  Elsewhere /\ x.owner = o /\ x' = XSetOwner(x, None)

Dies(w) == Elsewhere /\ w \in x.alive /\ x' = XDestroy(x, w)

(* An icon sees that the tray owns the selection and asks to be embedded.  *)
Asks(i) ==
  /\ Elsewhere /\ i \in x.alive \ x.inside /\ x.owner = Tray
  /\ x' = [x EXCEPT !.events = Append(@, Event("dock", i))]

Resizes(i) ==
  /\ Elsewhere /\ i \in x.inside
  /\ x' = [x EXCEPT !.events = Append(@, Event("configure", i))]

UnmapsItself(i) ==
  /\ World /\ withdrawn' = TRUE
  /\ i \in x.mapped \cap x.inside /\ x' = XUnmap(x, i)

Leaves(i) == Elsewhere /\ i \in x.inside /\ x' = XReparent(XUnmap(x, i), i, None)

SetsFlag(i) ==
  /\ World /\ i \in x.alive /\ withdrawn' = (withdrawn \/ i \in x.info)
  /\ x' = Tell([x EXCEPT !.info = IF i \in @ THEN @ \ {i} ELSE @ \cup {i}],
               Event("property", i))

Happens(type) ==
  Elsewhere /\ x' = [x EXCEPT !.events = Append(@, Event(type, None))]

Environment ==
  \/ \E o \in Others : OtherTakes(o) \/ OtherReleases(o)
  \/ \E w \in Icons \cup Others : Dies(w)
  \/ \E i \in Icons :
       Asks(i) \/ Resizes(i) \/ UnmapsItself(i) \/ Leaves(i) \/ SetsFlag(i)
  \/ \E type \in {"expose", "background"} : Happens(type)

Next ==
  \/ MainStep \/ WorkerStep
  \/ \E v \in BOOLEAN : SetVisible(v)
  \/ Environment

Spec == Init /\ [][Next]_vars

(* Both threads run; nothing is promised of anybody else.                  *)
FairSpec == Spec /\ WF_vars(MainStep) /\ WF_vars(WorkerStep)

-----------------------------------------------------------------------------
AtRest == x.events = <<>> /\ pc = [main |-> "idle", worker |-> "idle"]

(* Once everything the X server had to say is handled, the tray is active  *)
(* exactly if it owns the selection, whoever took it, gave it up or died   *)
(* between its question and its request; unless the selection was lost in  *)
(* the middle of the first activation, which the worker then goes on with. *)
SelectionConsistent ==
  AtRest /\ ~overtaken =>
    /\ m_activated <=> x.owner = Tray
    /\ m_activated => m_acquired_selection

(* ... its clients are the icons in its window, and their flags and its    *)
(* own say which of them are mapped.                                       *)
IconsMirrored ==
  AtRest => /\ m_clients = x.inside
            /\ clients_mapped = x.inside \cap x.mapped
            /\ m_mapped <=> Tray \in x.mapped

(* ... and the bar leaves room for every icon that is mapped, unless a     *)
(* reconfigure() was refused, or the list changed while the worker counted *)
(* it: nothing makes up for that until the next reconfigure().  Only the   *)
(* width may be that of fewer icons, once an icon has withdrawn:           *)
(* unmap_notify() does not reconfigure, so the next icon takes its slot,   *)
(* but not its width.                                                      *)
RoomForIcons ==
  AtRest /\ ~refused =>
    /\ Cardinality(clients_mapped) <= configured_slots
    /\ Cardinality(clients_mapped) <= configured_w \/ withdrawn

(* The news of the end of the manager that polybar has tracked gives the   *)
(* selection a new owner: polybar, or another manager.                     *)
OwnerEnds ==
  /\ Running /\ ~m_activated /\ m_othermanager \in Others
  /\ \E n \in DOMAIN x.events : x.events[n] = Event("destroy", m_othermanager)
OwnerAgain == m_acquired_selection \/ x.owner \in Others \/ ~Running
Reactivates == OwnerEnds ~> OwnerAgain

(* The comment on on(visibility_change): the tray window is toggled        *)
(* whenever the visibility of the bar window changes.  (No other event of  *)
(* that kind arrives: nobody selects visibility_notify for the tray.)      *)
TrayFollowsBar ==
  AtRest /\ m_activated /\ clients_mapped # {} =>
    (visible <=> Tray \in x.mapped)
=============================================================================
