------------------------------- MODULE Screen -------------------------------
(***************************************************************************)
(* The monitors of the X server: how they are listed and compared          *)
(* (x11/extensions/randr.cpp), watched for changes (components/screen.cpp) *)
(* and chosen and filled by the bar (the constructor of components/bar.cpp *)
(* and its struts).  When they change, polybar reloads; the exec and the   *)
(* new process are not part of this module.                                *)
(*                                                                         *)
(* The size that the screen compares is that of the connection's setup,    *)
(* which never changes.  Operators whose name has a suffix are bugs that   *)
(* the code could have.                                                    *)
(***************************************************************************)
EXTENDS Integers, Sequences, FiniteSetsExt

CONSTANTS
  Layouts,     \* [outputs, monitors, primary, height]: outputs is a sequence
               \* of [id, name, on, connected, x, y, w, h]; monitors are those
               \* that a server with RandR 1.5 lists; height is the root's
  Undashed,    \* name -> name without dashes
  BarConfigs,  \* [monitor, fallback, strict, exact, bottom, width, height,
               \*  x, y, border, strut_top, strut_bottom]
  MaxChanges   \* bound on how often the layout changes

VARIABLES
  layout, changes,
  randr15,     \* does the server have monitors?
  config,
  pc,          \* "look", "select", "wait", "bar", "run", "failed"
  events,      \* screen_change_notify events on their way
  m_monitors,  \* of the screen
  m_sigraised,
  monitor, size, pos, strut,  \* of the bar
  seen,        \* history: the connected monitors when the bar was made
  missed       \* history: the layout changed while the screen set itself up

vars == <<layout, changes, randr15, config, pc, events, m_monitors,
          m_sigraised, monitor, size, pos, strut, seen, missed>>

None == ""
NoMonitor == [output |-> 0, name |-> None, primary |-> FALSE, x |-> 0, y |-> 0, w |-> 0, h |-> 0]

-----------------------------------------------------------------------------
(* get_monitors().                                                         *)
Monitor(output, name, primary, area) ==
  [output |-> output, name |-> name, primary |-> primary,
   x |-> area.x, y |-> area.y, w |-> area.w, h |-> area.h]

(* An output without a crtc is passed over, and if only connected ones are *)
(* wanted so are the others.                                               *)
Listed(o, connected_only) == o.on /\ (connected_only => o.connected)

(* A monitor of the same name gets the output; another output is added.    *)
AddOutput(l, monitors, o) ==
  IF randr15 /\ \E i \in DOMAIN monitors : monitors[i].name = o.name
  THEN [i \in DOMAIN monitors |->
          IF monitors[i].name = o.name THEN [monitors[i] EXCEPT !.output = o.id] ELSE monitors[i]]
  ELSE Append(monitors, Monitor(o.id, o.name, o.name = l.primary, o))

(* The monitors of the server, if it has any, and one output after the     *)
(* other.                                                                  *)
GetMonitors(l, connected_only) ==
  LET with[n \in 0 .. Len(l.outputs)] ==
        IF n = 0 THEN IF randr15 THEN l.monitors ELSE <<>>
        ELSE IF Listed(l.outputs[n], connected_only) THEN AddOutput(l, with[n - 1], l.outputs[n])
        ELSE with[n - 1]
  IN with[Len(l.outputs)]

Covers(a, b) ==
  b.x >= a.x /\ b.x + b.w <= a.x + a.w /\ b.y >= a.y /\ b.y + b.h <= a.y + a.h

(* A clone loses its width; then monitors without any are removed.         *)
Clone(a, b) ==
  /\ a.w # 0 /\ b.w # 0 /\ Covers(a, b)
  /\ ~(randr15 /\ (a.output = 0 \/ b.output = 0))

PurgeInside(monitors, i) ==
  [j \in DOMAIN monitors |->
     IF i # j /\ Clone(monitors[i], monitors[j]) THEN [monitors[j] EXCEPT !.w = 0] ELSE monitors[j]]

(* What is left of the list, without closing its gaps.                     *)
Purged(monitors) ==
  LET after[n \in 0 .. Len(monitors)] ==
        IF n = 0 THEN monitors ELSE PurgeInside(after[n - 1], n)
      all == after[Len(monitors)]
  IN [i \in {j \in DOMAIN all : all[j].w # 0} |-> all[i]]

(* match_monitor(): the first exact match, or else the last of the others. *)
Matches(m, name, exact) == IF exact THEN m.name = name ELSE Undashed[m.name] = Undashed[name]
Matching(monitors, name, exact) == {i \in DOMAIN monitors : Matches(monitors[i], name, exact)}

MatchMonitor_Last(monitors, name, exact) ==
  LET close == Matching(monitors, name, exact)
  IN IF close # {} THEN monitors[Max(close)] ELSE NoMonitor

MatchMonitor(monitors, name, exact) ==
  LET same == Matching(monitors, name, TRUE)
      close == Matching(monitors, name, FALSE)
  IN IF same # {} THEN monitors[Min(same)]
     ELSE IF ~exact /\ close # {} THEN monitors[Max(close)] ELSE NoMonitor

-----------------------------------------------------------------------------
Init ==
  /\ layout \in Layouts /\ changes = 0 /\ randr15 \in BOOLEAN /\ config \in BarConfigs
  /\ pc = "look" /\ events = 0 /\ m_monitors = <<>> /\ m_sigraised = FALSE
  /\ monitor = NoMonitor /\ size = [w |-> 0, h |-> 0] /\ pos = [x |-> 0, y |-> 0]
  /\ strut = [h |-> 0, first |-> 0, last |-> 0]
  /\ seen = {} /\ missed = FALSE

bar == <<monitor, size, pos, strut, seen>>

(* The user plugs monitors in: external.  The event reaches the screen's   *)
(* proxy window once it is selected.                                       *)
ChangeLayout ==
  /\ changes < MaxChanges /\ changes' = changes + 1
  /\ layout' \in Layouts \ {layout}
  /\ events' = IF pc \in {"look", "select"} THEN events ELSE events + 1
  /\ missed' = (missed \/ pc \in {"select", "wait"})
  /\ UNCHANGED <<randr15, config, pc, m_monitors, m_sigraised, bar>>

(* The constructor: the monitors first, then the subscription to changes,  *)
(* and a wait that drops every event but its own.                          *)
Look ==
  /\ pc = "look" /\ pc' = "select" /\ m_monitors' = GetMonitors(layout, TRUE)
  /\ UNCHANGED <<layout, changes, randr15, config, events, m_sigraised, bar, missed>>

SelectInput ==
  /\ pc = "select" /\ pc' = "wait"
  /\ UNCHANGED <<layout, changes, randr15, config, events, m_monitors, m_sigraised, bar, missed>>

Mapped ==
  /\ pc = "wait" /\ pc' = "bar" /\ events' = 0
  /\ UNCHANGED <<layout, changes, randr15, config, m_monitors, m_sigraised, bar, missed>>

(* Which monitor the bar is for, when none is named.                       *)
MonitorName(monitors) ==
  LET primary == {i \in DOMAIN monitors : monitors[i].primary}
      connected == GetMonitors(layout, TRUE)
  IN IF config.monitor # None THEN config.monitor
     ELSE IF primary # {} THEN monitors[Min(primary)].name
     ELSE IF ~config.strict /\ connected # <<>> THEN Head(connected).name
     ELSE Head(monitors).name

Chosen(monitors) ==
  LET wanted == MatchMonitor(monitors, MonitorName(monitors), config.exact)
      fallback == MatchMonitor(monitors, config.fallback, config.exact)
  IN IF wanted = NoMonitor /\ config.fallback # None THEN fallback ELSE wanted

(* geom_format_to_pixels(): percents of the monitor, and pixels.           *)
Pixels(v, max) ==
  LET n == (v.percent * max) \div 100 + v.pixels IN IF v.percent # 0 /\ n < 0 THEN 0 ELSE n

Size(m) ==
  [w |-> Pixels(config.width, m.w), h |-> Pixels(config.height, m.h) + 2 * config.border]

Pos(m, s) ==
  [x |-> Pixels(config.x, m.w) + m.x,
   y |-> IF config.bottom THEN m.y + m.h - s.h - Pixels(config.y, m.h) ELSE Pixels(config.y, m.h) + m.y]

(* reconfigure_struts(): from the edge of the root to that of the bar.     *)
Strut(m, s, p) ==
  LET below == layout.height - (m.y + m.h)
      h == s.h + Pixels(config.y, m.h) +
           (IF config.bottom THEN config.strut_top ELSE config.strut_bottom) +
           (IF ~config.bottom THEN m.y ELSE IF below > 0 THEN below ELSE 0)
      w == s.w + Pixels(config.x, m.w)
  IN [h |-> h, first |-> p.x, last |-> p.x + w - 1]

MakeBar ==
  /\ pc = "bar"
  /\ LET monitors == GetMonitors(layout, config.strict)
         m == IF monitors = <<>> THEN NoMonitor ELSE Chosen(monitors)
         s == Size(m)
     IN IF m # NoMonitor /\ s.w \in 1 .. m.w /\ s.h \in 1 .. m.h
        THEN /\ pc' = "run" /\ monitor' = m /\ size' = s /\ pos' = Pos(m, s)
             /\ strut' = Strut(m, s, Pos(m, s))
        ELSE pc' = "failed" /\ UNCHANGED <<monitor, size, pos, strut>>
  /\ seen' = Range(GetMonitors(layout, TRUE))
  /\ UNCHANGED <<layout, changes, randr15, config, events, m_monitors, m_sigraised, missed>>

(* have_monitors_changed(): lists of one length of which each monitor of   *)
(* the first is in the second are the same.                                *)
HaveMonitorsChanged ==
  LET monitors == GetMonitors(layout, TRUE) IN
    \/ Len(monitors) # Len(m_monitors)
    \/ \E m \in Range(m_monitors) : m \notin Range(monitors)

HandleScreenChange ==
  /\ pc = "run" /\ events > 0 /\ events' = events - 1
  /\ m_sigraised' = (m_sigraised \/ HaveMonitorsChanged)
  /\ UNCHANGED <<layout, changes, randr15, config, pc, m_monitors, bar, missed>>

Next ==
  \/ ChangeLayout \/ Look \/ SelectInput \/ Mapped \/ MakeBar
  \/ HandleScreenChange

Spec == Init /\ [][Next]_vars

-----------------------------------------------------------------------------
TypeOK ==
  /\ layout \in Layouts /\ config \in BarConfigs /\ events \in 0 .. MaxChanges
  /\ pc \in {"look", "select", "wait", "bar", "run", "failed"}
  /\ m_sigraised \in BOOLEAN /\ missed \in BOOLEAN

(* Once the events are handled a reload was asked for, or the connected    *)
(* monitors are those the screen looked at: unless they changed between    *)
(* that look and its subscription, or in the wait that drops events.       *)
ScreenFollows ==
  pc = "run" /\ events = 0 /\ ~m_sigraised /\ ~missed =>
    Range(GetMonitors(layout, TRUE)) = Range(m_monitors)

(* The bar is on the monitor that was asked for by its full name whenever  *)
(* that is there, and with exact names on no other but the fallback.       *)
MonitorMatched ==
  pc = "run" /\ config.monitor # None =>
    /\ \A m \in seen : m.name = config.monitor => monitor.name = config.monitor
    /\ config.exact => monitor.name \in {config.monitor, config.fallback}

(* The struts reserve all of the bar's rows and columns, unless they are   *)
(* configured to reserve less, or the bar to begin left of its monitor.    *)
Outward(m) == Pixels(config.x, m.w) >= 0 /\ config.strut_top >= 0 /\ config.strut_bottom >= 0
StrutsCoverBar ==
  pc = "run" /\ changes = 0 /\ Outward(monitor) =>
    /\ strut.first <= pos.x /\ pos.x + size.w - 1 <= strut.last
    /\ IF config.bottom THEN layout.height - strut.h <= pos.y ELSE pos.y + size.h <= strut.h

(* Purging clones leaves no monitor inside another, and every one that it  *)
(* drops is inside one that is left.                                       *)
ClonesPurged ==
  LET all == GetMonitors(layout, FALSE)
      left == Purged(all)
  IN /\ \A i, j \in DOMAIN left : i # j => ~Clone(left[i], left[j])
     /\ \A i \in DOMAIN all :
          all[i].w = 0 \/ \E j \in DOMAIN left : left[j] = all[i] \/ Clone(left[j], all[i])

(* What a server says of outputs and monitors: each has a name of its own. *)
Names == DOMAIN Undashed
Output == [id : Nat, name : Names, on : BOOLEAN, connected : BOOLEAN, x : Int, y : Int, w : Nat, h : Nat]
MonitorOf == [output : Nat, name : Names, primary : BOOLEAN, x : Int, y : Int, w : Nat, h : Nat]
Named(s) == \A i, j \in DOMAIN s : s[i].name = s[j].name => i = j
Length == [percent : Nat, pixels : Int]
Plausible ==
  /\ \A l \in Layouts :
       /\ l.outputs \in Seq(Output) /\ l.monitors \in Seq(MonitorOf) /\ l.height \in Int
       /\ Named(l.outputs) /\ Named(l.monitors)
  /\ \A c \in BarConfigs :
       /\ {c.width, c.height, c.x, c.y} \subseteq Length
       /\ {c.border, c.strut_top, c.strut_bottom} \subseteq Int
       /\ {c.strict, c.exact, c.bottom} \subseteq BOOLEAN

Looked ==
  /\ layout \in Layouts /\ config \in BarConfigs /\ events \in Nat /\ changes \in Nat
  /\ pc # "look" => \E l \in Layouts : m_monitors = GetMonitors(l, TRUE)

(* While it sets itself up the screen knows the layout, and later it does, *)
(* or an event is on its way.                                              *)
Watched ==
  /\ pc \in {"select", "wait"} /\ ~missed => m_monitors = GetMonitors(layout, TRUE)
  /\ pc \in {"bar", "run"} /\ ~missed /\ events = 0 /\ ~m_sigraised =>
       Range(GetMonitors(layout, TRUE)) = Range(m_monitors)

Inv == Looked /\ Watched /\ MonitorMatched /\ StrutsCoverBar
=============================================================================
