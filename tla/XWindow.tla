------------------------------ MODULE XWindow ------------------------------
(***************************************************************************)
(* The module that shows the title of the active window (modules/          *)
(* xwindow.cpp): its own thread updates it once, the main thread on        *)
(* property changes of the root window and of windows it listens to.  The  *)
(* update mutex is held for the several requests of one update, between    *)
(* which windows and the window manager go on.                             *)
(***************************************************************************)
EXTENDS Naturals, Sequences

CONSTANTS Windows,  \* positive numbers
          MaxSteps

VARIABLES
  active,           \* _NET_ACTIVE_WINDOW, 0 for none
  net, wmname,      \* titles: _NET_WM_NAME, WM_NAME; 0 for an empty one
  mask,             \* windows whose property changes this client gets
  events,           \* of the X connection
  lock, started,    \* "none", or the thread that updates; the first update is over
  m_active, m_label,
  unheard, steps    \* a WM_NAME changed that was not read since

server == <<active, net, wmname, mask>>
module == <<lock, started, m_active, m_label>>
vars == <<server, events, module, unheard, steps>>

(* What the server is asked; the visible name counts as the name.          *)
NetName(w) == net[w]
WmName(w) == wmname[w]
GetActiveWindow == active

Title(w) == IF NetName(w) # 0 THEN NetName(w) ELSE WmName(w)
Label(w) == IF w = 0 THEN <<"empty", 0>> ELSE <<"active", Title(w)>>

TypeOK ==
  /\ {active, m_active} \subseteq Windows \cup {0} /\ mask \subseteq Windows
  /\ lock \in {"none", "own", "main"} /\ m_label[1] \in {"none", "empty", "active"}

Init ==
  /\ active \in Windows \cup {0} /\ net \in [Windows -> 0 .. 1] /\ wmname = [w \in Windows |-> 0]
  /\ mask = {} /\ events = <<>>
  /\ lock = "none" /\ started = FALSE /\ m_active = 0 /\ m_label = <<"none", 0>>
  /\ unheard = FALSE /\ steps = 0

-----------------------------------------------------------------------------
(* update(): another active window is listened to, and the one before no   *)
(* longer; its title is asked for afterwards.                              *)
Unlisten(w) == mask \ {w}
Activate(thread, force) ==
  /\ lock = "none" /\ lock' = thread
  /\ IF m_active # 0 /\ ~force THEN UNCHANGED <<m_active, mask>>
     ELSE m_active' = GetActiveWindow /\ mask' = Unlisten(m_active) \cup ({GetActiveWindow} \ {0})

ShowTitle ==
  /\ lock # "none" /\ lock' = "none" /\ m_label' = Label(m_active)
  /\ started' = (started \/ lock = "own") /\ unheard' = FALSE
  /\ UNCHANGED <<server, events, m_active, steps>>

(* The module's thread: static_module::start().                            *)
Start ==
  /\ ~started /\ Activate("own", FALSE)
  /\ UNCHANGED <<active, net, wmname, events, started, m_label, unheard, steps>>

(* A change of the active window is a forced update, one of a title, of    *)
(* whichever window, is not, and a WM_NAME is nothing.                     *)
PropertyNotify ==
  /\ events # <<>> /\ lock # "main" /\ events' = Tail(events)
  /\ IF Head(events) \in {"active", "desktop"} THEN Activate("main", TRUE)
     ELSE IF Head(events) = "name" THEN Activate("main", FALSE)
     ELSE UNCHANGED <<lock, m_active, mask>>
  /\ UNCHANGED <<active, net, wmname, started, m_label, unheard, steps>>

-----------------------------------------------------------------------------
(* The window manager and the windows.                                     *)
Step == steps < MaxSteps /\ steps' = steps + 1 /\ UNCHANGED <<module, mask>>
Focus(w) ==
  /\ Step /\ w # active /\ active' = w /\ events' = Append(events, "active")
  /\ UNCHANGED <<net, wmname, unheard>>
Hear(w, atom) == IF w \in mask THEN Append(events, atom) ELSE events
Rename(w, t) ==
  /\ Step /\ t # net[w] /\ net' = [net EXCEPT ![w] = t] /\ events' = Hear(w, "name")
  /\ UNCHANGED <<active, wmname, unheard>>
RenameOld(w) ==
  /\ Step /\ wmname' = [wmname EXCEPT ![w] = 1 - @] /\ events' = Hear(w, "wm_name")
  /\ unheard' = (unheard \/ (w = m_active /\ net[w] = 0))
  /\ UNCHANGED <<active, net>>
SwitchDesktop ==
  /\ Step /\ events' = Append(events, "desktop") /\ UNCHANGED <<active, net, wmname, unheard>>

Next ==
  \/ Start \/ ShowTitle \/ PropertyNotify \/ SwitchDesktop
  \/ \E w \in Windows \cup {0} : Focus(w)
  \/ \E w \in Windows : RenameOld(w) \/ \E t \in 0 .. 2 : Rename(w, t)
Spec == Init /\ [][Next]_vars

-----------------------------------------------------------------------------
(* With all events handled, the label has the title of the active window,  *)
(* whatever changed while it was asked for, unless only a WM_NAME, which   *)
(* nobody looks out for, has changed since; and that window is listened    *)
(* to.                                                                     *)
TitleFollows ==
  started /\ lock = "none" /\ events = <<>> =>
    /\ m_active = active /\ (m_active # 0 => m_active \in mask)
    /\ ~unheard => m_label = Label(active)

-----------------------------------------------------------------------------
(* What is proved of it.  An event of one of these kinds is on its way.    *)
Coming(atoms) == \E i \in 1 .. Len(events) : events[i] \in atoms

Typed ==
  /\ events \in Seq({"active", "desktop", "name", "wm_name"})
  /\ net \in [Windows -> Nat] /\ wmname \in [Windows -> {0, 1}] /\ unheard \in BOOLEAN
  /\ started \in BOOLEAN

(* The window that the module knows of is the active one, or it will hear  *)
(* of that; and it will hear of its title.                                 *)
Inv ==
  /\ Typed
  /\ m_active # 0 \/ started \/ lock # "none" => m_active = active \/ Coming({"active", "desktop"})
  /\ m_active # 0 => m_active \in mask
  /\ started /\ lock = "none" /\ ~unheard =>
       m_label = Label(m_active) \/ Coming({"active", "desktop", "name"})
=============================================================================
