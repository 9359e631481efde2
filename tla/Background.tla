----------------------------- MODULE Background -----------------------------
(***************************************************************************)
(* Pseudo-transparency (x11/background_manager.cpp): the bar and the tray  *)
(* keep slices of the wallpaper behind their windows, and are drawn again  *)
(* when the wallpaper or the place of a window changes.  The main thread   *)
(* handles the events of X and owns the tray, the event queue worker       *)
(* starts the bar and draws it.                                            *)
(*                                                                         *)
(* Slices have columns only: each shows a column of a pixmap, or black.    *)
(* A request is executed at once, what it changes is an event.             *)
(***************************************************************************)
EXTENDS Integers, Sequences, FiniteSetsExt

CONSTANTS Setups,    \* [bar, tray]: is the bar, is the tray transparent?
          PixmapWidth, BarWidth,
          RightEdge, \* of the tray
          Places,    \* where the window manager puts the bar
          MaxIcons, MaxOps  \* bounds

VARIABLES
  setup, started,
  props, alive,      \* properties of the root window that name its pixmap,
                     \* the best first; pixmaps that exist
  place, events,     \* the windows' left edges; notifications to come
  m_slices,          \* its weak pointers, those to what is gone too
  m_attached,
  surface,           \* slice -> what it shows: 0 of the bar; 1, 2 ... of the tray
  m_bg_slice, m_mapped, clients,  \* of the tray (0: no slice yet)
  drawn, tray_drawn, \* the wallpaper in the bar's and in the tray's window
  update,            \* a forced update is queued
  ops

server == <<props, alive, place>>
tray == <<m_bg_slice, m_mapped, clients, tray_drawn>>
vars == <<setup, started, server, events, m_slices, m_attached, surface, tray, drawn, update, ops>>

Black(w) == [i \in 1 .. w |-> <<0, 0>>]

TypeOK ==
  /\ setup \in Setups /\ \A i \in DOMAIN props : props[i] \in 0 .. MaxOps
  /\ Range(events) \subseteq {"property", "configure", "map", "unmap"}
  /\ m_slices \subseteq DOMAIN surface /\ m_bg_slice \in 0 .. MaxOps /\ clients \in 0 .. MaxIcons

Init ==
  /\ setup \in Setups /\ started = FALSE
  /\ props = <<0, 0>> /\ alive = {} /\ place \in [bar : Places, tray : {RightEdge}] /\ events = <<>>
  /\ m_slices = {} /\ m_attached = FALSE /\ surface = [s \in {0} |-> Black(BarWidth)]
  /\ m_bg_slice = 0 /\ m_mapped = FALSE /\ clients = 0
  /\ drawn = Black(BarWidth) /\ tray_drawn = <<>> /\ update = FALSE /\ ops = 0

Window(s) == IF s = 0 THEN "bar" ELSE "tray"
Cap(v, low, high) == IF v < low THEN low ELSE IF v > high THEN high ELSE v

-----------------------------------------------------------------------------
(* root_pixmap(): the first property whose pixmap exists.                  *)
RootPixmap ==
  LET found == {i \in DOMAIN props : props[i] \in alive}
  IN IF found = {} THEN 0 ELSE props[Min(found)]

(* fetch_root_pixmap(): slices that nobody holds are forgotten, the others *)
(* are filled, and without any the manager no longer listens.              *)
Fill(content, x) ==
  LET src == Cap(x, 0, PixmapWidth)
      w   == Cap(Len(content), 0, PixmapWidth - src)
  IN [i \in DOMAIN content |-> IF i <= w THEN <<RootPixmap, src + i>> ELSE content[i]]
Fetch(slices, contents, held, attached) ==
  IF RootPixmap = 0
  THEN m_slices' = slices /\ surface' = contents /\ m_attached' = attached
  ELSE /\ m_slices' = slices \cap ({0} \cup held)
       /\ surface' = [s \in DOMAIN contents |->
                        IF s \in m_slices' THEN Fill(contents[s], place[Window(s)]) ELSE contents[s]]
       /\ m_attached' = (attached /\ m_slices' # {})

(* observe(): a slice without a width is not listed.  The window's holder  *)
(* lets go of the one before only when observe() has returned.             *)
Observe(slice, w, held) ==
  LET contents == [s \in DOMAIN surface \cup {slice} |-> IF s = slice THEN Black(w) ELSE surface[s]]
  IN IF w = 0 THEN m_slices' = m_slices /\ surface' = contents /\ m_attached' = TRUE
     ELSE Fetch(m_slices \cup {slice}, contents, held \cup {slice}, TRUE)

(* reconfigure_bg() *)
Painted(s, contents, mapped, n, before) ==
  IF setup.tray /\ mapped /\ n > 0 THEN contents[s] ELSE before

-----------------------------------------------------------------------------
(* The bar starts: its renderer observes, and the bar tells all that its   *)
(* place may have changed by mapping it.                                   *)
Start ==
  /\ ~started /\ started' = TRUE /\ update' = setup.bar
  /\ IF setup.bar THEN Observe(0, BarWidth, {m_bg_slice})
     ELSE UNCHANGED <<m_slices, surface, m_attached>>
  /\ drawn' = surface'[0]
  /\ UNCHANGED <<setup, server, events, tray, ops>>

(* The tray has n icons: it observes where it was, then moves.             *)
Reconfigure(n) ==
  /\ started /\ setup.tray /\ n # clients /\ ops < MaxOps /\ ops' = ops + 1
  /\ clients' = n /\ m_bg_slice' = m_bg_slice + 1
  /\ Observe(m_bg_slice', n, {m_bg_slice})
  /\ place' = IF n = 0 THEN place ELSE [place EXCEPT !["tray"] = RightEdge - n]
  /\ events' = events \o (IF n = 0 /\ m_mapped THEN <<"unmap">> ELSE <<>>)
                 \o (IF n > 0 /\ ~m_mapped THEN <<"map">> ELSE <<>>)
                 \o (IF place' # place THEN <<"configure">> ELSE <<>>)
  /\ tray_drawn' = Painted(m_bg_slice', surface', m_mapped, n, tray_drawn)
  /\ update' = TRUE
  /\ UNCHANGED <<setup, started, props, alive, m_mapped, drawn>>

(* What property_notify of the root window, and configure_notify of any    *)
(* window through update_geometry, lead to.                                *)
Refresh(listens) ==
  IF ~listens \/ m_slices = {} THEN UNCHANGED <<m_slices, surface, m_attached, tray_drawn, update>>
  ELSE /\ Fetch(m_slices, surface, {m_bg_slice}, m_attached) /\ update' = TRUE
       /\ tray_drawn' = IF m_bg_slice = 0 THEN tray_drawn
                        ELSE Painted(m_bg_slice, surface', m_mapped, clients, tray_drawn)

Handles(type) ==
  /\ events # <<>> /\ Head(events) = type /\ events' = Tail(events)
  /\ UNCHANGED <<setup, started, server, m_bg_slice, clients, drawn, ops>>
PropertyNotify == Handles("property") /\ Refresh(m_attached) /\ UNCHANGED m_mapped
ConfigureNotify == Handles("configure") /\ Refresh(TRUE) /\ UNCHANGED m_mapped
MapNotify ==
  /\ Handles("map") /\ m_mapped' = TRUE
  /\ tray_drawn' = Painted(m_bg_slice, surface, TRUE, clients, tray_drawn)
  /\ UNCHANGED <<m_slices, surface, m_attached, update>>
UnmapNotify ==
  /\ Handles("unmap") /\ m_mapped' = FALSE
  /\ UNCHANGED <<m_slices, surface, m_attached, tray_drawn, update>>
HandleEvent == PropertyNotify \/ ConfigureNotify \/ MapNotify \/ UnmapNotify

Draw ==
  /\ started /\ update /\ update' = FALSE /\ drawn' = surface[0]
  /\ UNCHANGED <<setup, started, server, events, m_slices, m_attached, surface, tray, ops>>

-----------------------------------------------------------------------------
(* Programs that set a wallpaper keep or destroy the one before; the       *)
(* window manager moves the bar.                                           *)
SetWallpaper(i, keep) ==
  /\ ops < MaxOps /\ ops' = ops + 1
  /\ props' = [props EXCEPT ![i] = ops'] /\ alive' = {ops'} \cup (IF keep THEN alive ELSE {})
  /\ events' = IF started THEN Append(events, "property") ELSE events
  /\ UNCHANGED <<setup, started, place, m_slices, m_attached, surface, tray, drawn, update>>
Move(x) ==
  /\ started /\ ops < MaxOps /\ ops' = ops + 1
  /\ x # place["bar"] /\ place' = [place EXCEPT !["bar"] = x] /\ events' = Append(events, "configure")
  /\ UNCHANGED <<setup, started, props, alive, m_slices, m_attached, surface, tray, drawn, update>>

Next ==
  \/ Start \/ HandleEvent \/ Draw
  \/ \E n \in 0 .. MaxIcons : Reconfigure(n)
  \/ \E i \in DOMAIN props, keep \in BOOLEAN : SetWallpaper(i, keep)
  \/ \E x \in Places : Move(x)
Spec == Init /\ [][Next]_vars

-----------------------------------------------------------------------------
Held == (IF setup.bar /\ started THEN {0} ELSE {}) \cup (IF clients > 0 THEN {m_bg_slice} ELSE {})
Right(s, content) ==
  \A i \in DOMAIN content : place[Window(s)] + i <= PixmapWidth =>
    content[i] = <<RootPixmap, place[Window(s)] + i>>

(* When all events are handled and the queued update is drawn, each window *)
(* that is transparent shows the wallpaper that is behind it, whichever    *)
(* slices were replaced, forgotten and listed again before: as far as the  *)
(* pixmap reaches, if there is one.                                        *)
WallpaperBehind ==
  events = <<>> /\ RootPixmap # 0 /\ started =>
    /\ \A s \in Held : Right(s, surface[s])
    /\ m_mapped /\ clients > 0 => Right(m_bg_slice, tray_drawn)
    /\ setup.bar /\ ~update => Right(0, drawn)

(* A slice that a window holds stays listed, and while any is listed the   *)
(* manager listens to the root window.                                     *)
SlicesListed == Held \subseteq m_slices /\ (Held # {} => m_attached)

(* Once nothing changes any more, the wallpaper is drawn.                  *)
Changed == ops = MaxOps /\ started /\ setup.bar /\ RootPixmap # 0
Drawn == Right(0, drawn)

-----------------------------------------------------------------------------
(* What is proved of it, of windows that begin on the pixmap's side of the *)
(* screen.                                                                 *)
Measured ==
  /\ {PixmapWidth, BarWidth} \subseteq Nat \ {0} /\ Places \subseteq Nat
  /\ MaxIcons \in Nat /\ RightEdge \in Nat /\ MaxIcons <= RightEdge
  /\ \A s \in Setups : s.bar \in BOOLEAN /\ s.tray \in BOOLEAN

Typed ==
  /\ setup \in Setups /\ started \in BOOLEAN /\ m_mapped \in BOOLEAN
  /\ place \in [{"bar", "tray"} -> Nat]
  /\ events \in Seq({"property", "configure", "map", "unmap"})
  /\ clients \in 0 .. MaxIcons /\ m_bg_slice \in Nat
  /\ surface = [s \in 0 .. m_bg_slice |-> surface[s]]
  /\ \A s \in 0 .. m_bg_slice : Len(surface[s]) \in Nat /\ DOMAIN surface[s] = 1 .. Len(surface[s])
  /\ clients > 0 => started /\ setup.tray /\ m_bg_slice > 0

(* A wallpaper, or a place, that the manager has not heard of yet.         *)
Moving == {"property", "configure"}
Told == \A i \in 1 .. Len(events) : events[i] \notin Moving
Filled == started /\ RootPixmap # 0 /\ Told => \A s \in Held : Right(s, surface[s])

(* The windows have what their slices have.                                *)
Current ==
  /\ m_mapped /\ clients > 0 => tray_drawn = surface[m_bg_slice]
  /\ setup.bar /\ started /\ ~update => drawn = surface[0]

Inv == Typed /\ SlicesListed /\ Filled /\ Current
=============================================================================
