------------------------------- MODULE Bspwm -------------------------------
(***************************************************************************)
(* The bspwm module (modules/bspwm.cpp, utils/bspwm.cpp): bspwm writes a   *)
(* line with its whole state into a socket whenever that changes; the      *)
(* runner reads what is there, up to a buffer, and keeps the monitors of   *)
(* the last line it understood.                                            *)
(*                                                                         *)
(* A line is a sequence of tags, [tag, value], after the prefix "W"; what  *)
(* a desktop or mode looks like is left out.  Operators whose name has a   *)
(* suffix are bugs that the code could have.                               *)
(***************************************************************************)
EXTENDS Naturals, Sequences, SequencesExt

CONSTANTS
  Reports,     \* states of bspwm: sequences of monitors,
               \* [name, focused, desktops, node, flags], desktops of
               \* [state, name]
  BarMonitor,  \* m_bar.monitor->name
  Buffer,      \* BUFSIZ, in tags
  MaxSteps     \* bound on what bspwm does

VARIABLES
  report,      \* the state of bspwm
  up,          \* does it run?
  stream,      \* its side of the socket: tags not read yet
  hup,         \* did it close its side?
  steps,
  rpc,         \* the runner: "event", "receive", "update", "halted", "exited"
  received,    \* what update() has read
  m_hash, m_monitors,
  m_pinworkspaces,
  m_enabled, disconnected,
  shown,       \* the monitors at the last broadcast
  cut          \* history: a read ended within a line

world == <<report, up, steps>>
vars == <<world, stream, hup, rpc, received, m_hash, m_monitors,
          m_pinworkspaces, m_enabled, disconnected, shown, cut>>

-----------------------------------------------------------------------------
(* What bspwm writes.                                                      *)
Tag(t, v) == [tag |-> t, value |-> v]
Newline == Tag("newline", "")
Prefix == Tag("W", "")

MonitorTags(m) ==
  <<Tag(IF m.focused THEN "M" ELSE "m", m.name)>>
    \o [i \in DOMAIN m.desktops |-> Tag(m.desktops[i].state, m.desktops[i].name)]
    \o <<Tag("L", "T"), Tag("T", m.node), Tag("G", m.flags)>>

Line(r) ==
  <<Prefix>> \o FlattenSeq([i \in DOMAIN r |-> MonitorTags(r[i])]) \o <<Newline>>

(* A node that is tiled, as most are, has no mode.                         *)
NodeMode(node) == IF node \in {"=", "F", "P"} THEN <<node>> ELSE <<>>

(* What the module makes of one monitor: its desktops, numbered over all   *)
(* that are shown, and its modes, those of nodes only when it is focused.  *)
Shown(m, n) ==
  [name |-> m.name, focused |-> m.focused,
   workspaces |-> [i \in DOMAIN m.desktops |->
                     [state |-> m.desktops[i].state, name |-> m.desktops[i].name,
                      index |-> n + i]],
   modes |-> <<"T">> \o NodeMode(m.node) \o (IF m.focused THEN m.flags ELSE <<>>)]

Before(r, i) == FoldLeft(LAMBDA n, m : n + Len(m.desktops), 0, SubSeq(r, 1, i - 1))
OwnMonitor(r) ==
  LET own == SelectSeq(r, LAMBDA m : m.name = BarMonitor) IN
    IF own = <<>> THEN <<Head(r)>> ELSE own
Expected(r) ==
  LET pinned == IF m_pinworkspaces THEN OwnMonitor(r) ELSE r
  IN [i \in DOMAIN pinned |-> Shown(pinned[i], Before(pinned, i))]

-----------------------------------------------------------------------------
(* handle_status().                                                        *)
States == {"F", "O", "U", "f", "o", "u"}
IsMonitor(t) == t.tag \in {"m", "M"}

(* pin-workspaces: from the bar's monitor, or the first one, to the next.  *)
Extract(tags) ==
  LET own == {i \in DOMAIN tags : IsMonitor(tags[i]) /\ tags[i].value = BarMonitor}
      start == IF own = {} THEN 1 ELSE CHOOSE i \in own : TRUE
      later == {i \in DOMAIN tags : i > start /\ IsMonitor(tags[i])}
      end == IF later = {} THEN Len(tags)
             ELSE (CHOOSE i \in later : \A j \in later : i <= j) - 1
  IN IF m_pinworkspaces THEN SubSeq(tags, start, end) ELSE tags

OnLast(monitors, F(_)) == [monitors EXCEPT ![Len(monitors)] = F(@)]

Count(monitors) == FoldLeft(LAMBDA n, m : n + Len(m.workspaces), 0, monitors)

Apply(monitors, t) ==
  CASE IsMonitor(t) ->
         Append(monitors, [name |-> t.value, focused |-> t.tag = "M",
                           workspaces |-> <<>>, modes |-> <<>>])
    [] t.tag \in States ->
         LET Add(m) == [m EXCEPT !.workspaces = Append(@,
               [state |-> t.tag, name |-> t.value, index |-> Count(monitors) + 1])]
         IN OnLast(monitors, Add)
    [] t.tag = "L" ->
         LET Add(m) == [m EXCEPT !.modes = Append(@, t.value)] IN OnLast(monitors, Add)
    [] t.tag = "T" ->
         LET Add(m) == [m EXCEPT !.modes = @ \o NodeMode(t.value)] IN OnLast(monitors, Add)
    [] t.tag = "G" ->
         LET Add(m) == IF m.focused THEN [m EXCEPT !.modes = @ \o t.value] ELSE m
         IN OnLast(monitors, Add)
    [] OTHER -> monitors

Parse(tags) == FoldLeft(Apply, <<>>, Extract(tags))

(* One line: skipped if it is no status, or the same as the last.          *)
HandleStatus(state, line) ==
  IF line = <<>> \/ Head(line) # Prefix \/ line = state.hash THEN state
  ELSE [hash |-> line, monitors |-> Parse(Tail(line)), changed |-> TRUE]

(* string_util::split(): the lines, without empty ones.                    *)
Lines(tags) ==
  LET Push(lines, t) ==
        IF t = Newline THEN Append(lines, <<>>)
        ELSE Append(Front(lines), Append(Last(lines), t))
  IN SelectSeq(FoldLeft(Push, <<<<>>>>, tags), LAMBDA line : line # <<>>)

Unchanged == [hash |-> m_hash, monitors |-> m_monitors, changed |-> FALSE]

HandleAll_First(tags) ==
  FoldLeft(LAMBDA s, l : IF s.changed THEN s ELSE HandleStatus(s, l), Unchanged, Lines(tags))

(* Every line is handled, whether or not one before it was a change.       *)
HandleAll(tags) == FoldLeft(HandleStatus, Unchanged, Lines(tags))

-----------------------------------------------------------------------------
Init ==
  /\ report \in Reports /\ up = TRUE /\ steps = 0
  /\ stream = Line(report) /\ hup = FALSE
  /\ rpc = "receive" /\ received = <<>> /\ m_hash = <<>> /\ m_monitors = <<>>
  /\ m_pinworkspaces \in BOOLEAN /\ m_enabled = TRUE /\ disconnected = FALSE
  /\ shown = <<>> /\ cut = FALSE

ModuleOnly == <<rpc, received, m_hash, m_monitors, m_pinworkspaces, m_enabled,
                disconnected, shown, cut>>
Step == steps < MaxSteps /\ steps' = steps + 1

(* bspwm changes, restarts or ends: external.                              *)
Report ==
  /\ Step /\ up /\ report' \in Reports
  /\ stream' = IF hup THEN stream ELSE stream \o Line(report')
  /\ UNCHANGED <<up, hup, ModuleOnly>>

Down == Step /\ up /\ up' = FALSE /\ hup' = TRUE /\ UNCHANGED <<report, stream, ModuleOnly>>
Up == Step /\ ~up /\ up' = TRUE /\ report' \in Reports /\ UNCHANGED <<stream, hup, ModuleOnly>>

-----------------------------------------------------------------------------
RunnerOnly == <<world, m_pinworkspaces, m_enabled, disconnected>>

(* has_event(): a lost connection is made anew, unread lines and all; if   *)
(* that fails the module halts.                                            *)
Reconnect ==
  /\ rpc = "event" /\ m_enabled /\ hup
  /\ IF up THEN rpc' = "receive" /\ hup' = FALSE /\ stream' = Line(report)
     ELSE rpc' = "halted" /\ UNCHANGED <<hup, stream>>
  /\ UNCHANGED <<RunnerOnly, received, m_hash, m_monitors, shown, cut>>

(* ... and peek() waits for data, or for the end of the stream.            *)
Peek ==
  /\ rpc = "event" /\ m_enabled /\ ~hup
  /\ stream # <<>> \/ disconnected
  /\ rpc' = IF stream # <<>> /\ ~disconnected THEN "receive" ELSE "event"
  /\ UNCHANGED <<RunnerOnly, stream, hup, received, m_hash, m_monitors, shown, cut>>

(* update(): receive() waits for data as well; it may end within a line.   *)
Receive ==
  /\ rpc = "receive" /\ (stream # <<>> \/ hup \/ disconnected)
  /\ LET n == IF disconnected THEN 0 ELSE IF Len(stream) < Buffer THEN Len(stream) ELSE Buffer
     IN /\ received' = SubSeq(stream, 1, n) /\ stream' = SubSeq(stream, n + 1, Len(stream))
        /\ cut' = (IF n = 0 THEN cut ELSE received'[n] # Newline \/ (cut /\ received'[1] # Prefix))
  /\ rpc' = "update"
  /\ UNCHANGED <<RunnerOnly, hup, m_hash, m_monitors, shown>>

Update ==
  /\ rpc = "update" /\ rpc' = "event" /\ received' = <<>>
  /\ LET after == HandleAll(received) IN
       /\ m_hash' = after.hash /\ m_monitors' = after.monitors
       /\ shown' = IF after.changed THEN after.monitors ELSE shown
  /\ UNCHANGED <<RunnerOnly, stream, hup, cut>>

Exit ==
  /\ rpc = "event" /\ ~m_enabled /\ rpc' = "exited"
  /\ UNCHANGED <<RunnerOnly, stream, hup, received, m_hash, m_monitors, shown, cut>>

RunnerStep == Reconnect \/ Peek \/ Receive \/ Update \/ Exit

(* stop() on the main thread: closes the socket for reading, then disables *)
(* the module, which waits for the runner to leave peek() and receive().   *)
MainOnly == <<world, stream, hup, rpc, received, m_hash, m_monitors,
              m_pinworkspaces, shown, cut>>
Disconnect == ~disconnected /\ m_enabled /\ disconnected' = TRUE /\ UNCHANGED <<MainOnly, m_enabled>>
Disable == disconnected /\ m_enabled /\ m_enabled' = FALSE /\ UNCHANGED <<MainOnly, disconnected>>

Next == Report \/ Down \/ Up \/ RunnerStep \/ Disconnect \/ Disable

Spec == Init /\ [][Next]_vars

-----------------------------------------------------------------------------
TypeOK ==
  /\ report \in Reports /\ up \in BOOLEAN /\ hup \in BOOLEAN
  /\ rpc \in {"event", "receive", "update", "halted", "exited"}
  /\ Len(received) <= Buffer /\ cut \in BOOLEAN

(* When all that bspwm wrote has been read, the monitors, desktops and     *)
(* modes shown are its own, however many lines arrived together and        *)
(* although a line that repeats the last one is skipped: unless a read     *)
(* ended within the last line, of which only the beginning is shown then.  *)
MonitorsFollow ==
  up /\ ~hup /\ ~disconnected /\ rpc = "event" /\ stream = <<>> /\ ~cut =>
    shown = Expected(report)
=============================================================================
