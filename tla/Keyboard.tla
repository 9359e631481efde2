------------------------------ MODULE Keyboard ------------------------------
(***************************************************************************)
(* The xkeyboard module (modules/xkeyboard.cpp) and what it knows of the   *)
(* keyboard (x11/extensions/xkb.cpp): groups with their layouts, and the   *)
(* locks.  A thread of its own makes the first update, the main thread     *)
(* handles events, and the event queue's worker runs the action.  Nothing  *)
(* guards what they share, m_keyboard and the labels: they read and write  *)
(* it between one another's steps.                                         *)
(*                                                                         *)
(* The server (external) has a keyboard, its group and the locks that are  *)
(* on, and tells each change once, with the time in milliseconds; two      *)
(* changes may have one time, and the time starts again at 0.              *)
(***************************************************************************)
EXTENDS Integers, Sequences, FiniteSets, Functions

CONSTANTS Keyboards,  \* [groups, symbols, modifiers]
          Configs,    \* [blacklist, own_on, own_off, off]
          TimeWidth,  \* times are 0 .. TimeWidth - 1
          MaxOps      \* bound on changes, keyboards and clicks

Locks == <<"caps lock", "num lock", "scroll lock">>  \* INDICATOR_TYPES

VARIABLES
  conf,
  server,      \* [keyboard, group, locks]
  events, time,
  m_keyboard,  \* [layouts, current, masks, on]
  timers,      \* the time of the last event, for each type
  worker,      \* action_switch(): where it is, and its group; see Action
  updates,     \* update() on each thread: "no", about to "read" or to "fill"
  seen,        \* what it has read of m_keyboard: [layout, locks]
  m_layout, m_indicators,
  crossed, mixed,  \* history: updates that another one runs beside, and
                   \* whether the last one done was one of those
  raced,           \* history: a click was told another group and set its own,
                   \* and no event has told a group since
  missed,          \* history: types whose last event was denied
  switched, ops    \* history: the last request, [from, to, of]

label == <<m_layout, m_indicators, crossed, mixed>>
vars == <<conf, server, events, time, m_keyboard, timers, worker, updates, seen, label,
          raced, missed, switched, ops>>

Threads == {"starter", "main", "worker"}

-----------------------------------------------------------------------------
(* get_layouts(): every group has its name and all the symbols that are    *)
(* not excluded; the name of a symbol ends at its options.                 *)
Blacklist == {"group", "inet", "pc", ""}
SymbolNames(symbols) == SelectSeq(symbols, LAMBDA s : s \notin Blacklist)
Layouts(k) ==
  [i \in 1 .. Len(k.groups) |-> [name |-> k.groups[i], symbols |-> SymbolNames(k.symbols)]]

(* get_indicators(): at first a lock is on if its light is; set(): then if *)
(* its modifier is locked.                                                 *)
Query == [layouts |-> Layouts(server.keyboard), current |-> server.group,
          masks |-> server.keyboard.modifiers, on |-> server.locks]
SetLocks(k) == [k EXCEPT !.on = {l \in server.locks : l \in k.masks}]

LayoutName(k, g) ==
  IF g >= Len(k.layouts) \/ g >= Len(k.layouts[g + 1].symbols) THEN ""
  ELSE k.layouts[g + 1].symbols[g + 1]
GroupName(k, g) ==
  IF g < Len(k.layouts) THEN k.layouts[g + 1].name ELSE [name |-> "", variant |-> ""]

LayoutTokens(k) ==
  <<GroupName(k, k.current), LayoutName(k, k.current), k.current>>

(* update(): a label of its own for a lock, or the one for all.            *)
Indicator(c, k, l) ==
  LET on  == l \in k.on
      own == l \in (IF on THEN c.own_on ELSE c.own_off)
  IN [label |-> IF own THEN <<l, on>> ELSE <<"all", on>>, empty |-> ~own /\ ~on /\ c.off = "nothing"]
Listed(c) == Range(Locks) \ c.blacklist
Indicators(c, k) == [l \in Listed(c) |-> Indicator(c, k, l)]

(* build() and get_output(): labels with text, a click if there is another *)
(* layout to switch to.                                                    *)
Drawn ==
  [layout |-> m_layout, locks |-> SelectSeq(Locks, LAMBDA l : l \in DOMAIN m_indicators /\ ~m_indicators[l].empty),
   click |-> Len(m_keyboard.layouts) > 1]

(* event_timer::allow().                                                   *)
Allowed(type, t) == t >= (timers[type] + 1) % TimeWidth

Types == {"new keyboard", "state", "indicator"}
NoSwitch == [from |-> -1, to |-> 0, of |-> 1]
Nothing == [layout |-> <<[name |-> "", variant |-> ""], "", -1>>, locks |-> <<>>]
Mixed == <<[name |-> "?", variant |-> "?"], "?", -1>>  \* tokens of several updates

(* What the worker is at ("late" if the server has still to take what it   *)
(* asked for), the group it is about to ask for and to set; and of its     *)
(* history the group it goes on from, -1 if the module was not in step then*)
(* or the server has changed since, and the group that the last event      *)
(* handled meanwhile has told, or -1.                                      *)
Action(step, group, from, told) == [step |-> step, group |-> group, from |-> from, told |-> told]
Steps == {"no", "size", "request", "set", "late"}
NoAction == Action("no", 0, -1, -1)

TypeOK ==
  /\ conf \in Configs /\ time \in 0 .. TimeWidth - 1 /\ Len(events) <= MaxOps
  /\ timers \in [Types -> 0 .. TimeWidth - 1] /\ updates \in [Threads -> {"no", "read", "fill"}]
  /\ m_keyboard.on \subseteq Range(Locks) /\ missed \subseteq Types /\ crossed \subseteq Threads
  /\ worker.step \in Steps /\ mixed \in BOOLEAN /\ raced \in BOOLEAN

Init ==
  /\ conf \in Configs /\ \E k \in Keyboards : server = [keyboard |-> k, group |-> 0, locks |-> {}]
  /\ events = <<>> /\ time = 0 /\ m_keyboard = Query /\ timers = [t \in Types |-> 0]
  /\ worker = NoAction
  /\ updates = [t \in Threads |-> IF t = "starter" THEN "read" ELSE "no"] /\ seen = [t \in Threads |-> Nothing]
  /\ m_layout = Nothing.layout /\ m_indicators = <<>> /\ crossed = {} /\ mixed = FALSE
  /\ raced = FALSE /\ missed = {} /\ switched = NoSwitch /\ ops = 0

-----------------------------------------------------------------------------
(* update(), of any thread, reads the keyboard while it replaces one token *)
(* after the other: where another thread does the same, the label is that  *)
(* of one of them or has some from each.  A thread that crashes on what    *)
(* another one has freed ends the program, which then shows nothing.       *)
UpdateOnly == <<conf, server, events, time, m_keyboard, timers, worker, raced, missed, switched, ops>>

UpdateRead(t) ==
  /\ updates[t] = "read" /\ updates' = [updates EXCEPT ![t] = "fill"]
  /\ seen' = [seen EXCEPT ![t] = [layout |-> LayoutTokens(m_keyboard), locks |-> Indicators(conf, m_keyboard)]]
  /\ LET beside == {u \in Threads \ {t} : updates[u] = "fill"} IN
       crossed' = IF beside = {} THEN crossed ELSE crossed \cup beside \cup {t}
  /\ UNCHANGED <<UpdateOnly, m_layout, m_indicators, mixed>>

UpdateFill(t) ==
  /\ updates[t] = "fill" /\ updates' = [updates EXCEPT ![t] = "no"]
  /\ seen' = [seen EXCEPT ![t] = Nothing]
  /\ crossed' = crossed \ {t} /\ mixed' = (t \in crossed)
  /\ IF t \in crossed
     THEN /\ m_layout' \in {m_layout, seen[t].layout, Mixed}
          /\ m_indicators' \in {m_indicators, seen[t].locks}
     ELSE m_layout' = seen[t].layout /\ m_indicators' = seen[t].locks
  /\ UNCHANGED UpdateOnly

(* The handlers, on the main thread: an event that is not later than the   *)
(* one before is denied, but counts as the one before for the next.  What  *)
(* the server changes while the keyboard is queried it also tells.         *)
Handled(e) ==
  CASE e.type = "new keyboard" -> Query
    [] e.type = "state"        -> [m_keyboard EXCEPT !.current = e.group]
    [] e.type = "indicator"    -> SetLocks(m_keyboard)

HandleEvent ==
  /\ events # <<>> /\ events' = Tail(events) /\ updates["main"] = "no"
  /\ LET e == Head(events) IN
       /\ timers' = [timers EXCEPT ![e.type] = e.time]
       /\ IF Allowed(e.type, e.time)
          THEN /\ missed' = missed \ (IF e.type = "new keyboard" THEN Types ELSE {e.type})
               /\ m_keyboard' = Handled(e) /\ updates' = [updates EXCEPT !["main"] = "read"]
               /\ IF e.type = "indicator" THEN UNCHANGED <<worker, raced>>
                  ELSE /\ raced' = FALSE
                       /\ worker' = IF worker.step = "no" THEN worker
                                    ELSE [worker EXCEPT !.told = m_keyboard'.current]
          ELSE missed' = missed \cup {e.type} /\ UNCHANGED <<m_keyboard, updates, worker, raced>>
  /\ UNCHANGED <<conf, server, time, seen, label, switched, ops>>

(* The server sends an event for a change.                                 *)
Send(type, group) ==
  \E d \in 0 .. 1 :
    /\ time' = (time + d) % TimeWidth
    /\ events' = Append(events, [type |-> type, group |-> group, time |-> time'])

(* action_switch(), on the worker: the group after the one that the module *)
(* knows, or 0; the request, which the server takes before the module sets *)
(* its own group, or later; then an update.  The server takes a group that *)
(* it does not have for the first.                                         *)
SwitchOnly == <<conf, m_keyboard, timers, updates, seen, label, raced, missed>>
InStep == m_keyboard.current = server.group /\ Len(m_keyboard.layouts) = Len(server.keyboard.groups)

ActionSwitch ==
  /\ Drawn.click /\ ops < MaxOps /\ ops' = ops + 1
  /\ worker.step = "no" /\ updates["worker"] = "no"
  /\ worker' = Action("size", m_keyboard.current + 1, IF InStep THEN server.group ELSE -1, -1)
  /\ switched' = NoSwitch
  /\ UNCHANGED <<SwitchOnly, server, events, time>>

SwitchWrap ==
  /\ worker.step = "size"
  /\ worker' = [worker EXCEPT !.step = "request", !.group = IF @ >= Len(m_keyboard.layouts) THEN 0 ELSE @]
  /\ UNCHANGED <<SwitchOnly, server, events, time, switched, ops>>

SwitchRequest ==
  /\ worker.step \in {"request", "late"}
  /\ worker' = IF worker.step = "late" THEN NoAction ELSE [worker EXCEPT !.step = "set"]
  /\ LET g == IF worker.group < Len(server.keyboard.groups) THEN worker.group ELSE 0 IN
       /\ server' = [server EXCEPT !.group = g]
       /\ IF g = server.group THEN UNCHANGED <<events, time>> ELSE Send("state", g)
       /\ switched' = [from |-> worker.from, to |-> g, of |-> Len(server.keyboard.groups)]
  /\ UNCHANGED <<SwitchOnly, ops>>

SwitchSet ==
  /\ worker.step \in {"request", "set"}
  /\ worker' = IF worker.step = "set" THEN NoAction ELSE [worker EXCEPT !.step = "late"]
  /\ m_keyboard' = [m_keyboard EXCEPT !.current = worker.group]
  /\ updates' = [updates EXCEPT !["worker"] = "read"]
  /\ raced' = (worker.told \notin {-1, worker.group})
  /\ UNCHANGED <<conf, server, events, time, timers, seen, label, missed, switched, ops>>

(* Elsewhere a group is chosen, a lock pressed or a keyboard configured.   *)
Elsewhere ==
  /\ ops < MaxOps /\ ops' = ops + 1
  /\ \/ \E g \in 0 .. Len(server.keyboard.groups) - 1 :
          g # server.group /\ server' = [server EXCEPT !.group = g] /\ Send("state", g)
     \/ \E l \in {"caps lock", "scroll lock"} :
          /\ server' = [server EXCEPT !.locks = (@ \ {l}) \cup ({l} \ @)] /\ Send("indicator", 0)
     \/ \E k \in Keyboards \ {server.keyboard} :
          /\ server' = [server EXCEPT !.keyboard = k, !.group = 0] /\ Send("new keyboard", 0)
  /\ worker' = [worker EXCEPT !.from = -1]
  /\ UNCHANGED <<SwitchOnly, switched>>

Switch == ActionSwitch \/ SwitchWrap \/ SwitchRequest \/ SwitchSet
Next ==
  \/ \E t \in Threads : UpdateRead(t) \/ UpdateFill(t)
  \/ HandleEvent \/ Switch \/ Elsewhere
Spec == Init /\ [][Next]_vars

-----------------------------------------------------------------------------
Idle ==
  /\ events = <<>> /\ worker.step = "no"
  /\ ~mixed /\ \A t \in Threads : updates[t] = "no"

(* When the events and clicks are handled, the label is that of the        *)
(* server's group: its name and its number, whichever of events, clicks    *)
(* and new keyboards crossed, unless an event was denied for its time, two *)
(* updates ran beside one another, or the worker has set the group of a    *)
(* click after the main thread was told another one since the click.       *)
LayoutFollows ==
  Idle /\ ~raced /\ missed \cap {"state", "new keyboard"} = {} =>
    m_layout[3] = server.group /\ m_layout[1] = server.keyboard.groups[server.group + 1]

(* Every lock not blacklisted is shown, as on if it is; one without a      *)
(* modifier is off for set(), whatever its light says.                     *)
LocksFollow ==
  Idle /\ missed \cap {"indicator", "new keyboard"} = {} =>
    /\ DOMAIN m_indicators = Listed(conf)
    /\ \A l \in DOMAIN m_indicators \cap server.keyboard.modifiers :
         m_indicators[l].label[2] <=> l \in server.locks

(* A click leads to the next group, and after the last one to the first,   *)
(* if the module knew the server's keyboard and group when the worker took *)
(* the click and nothing else has changed them before its request: events  *)
(* that are late may still be handled in between.                          *)
SwitchMoves ==
  switched.from # -1 => switched.to = (switched.from + 1) % switched.of

(* Every keyboard has a group, and the server's is one of its keyboard's;  *)
(* what the module and the events say of it are numbers.                   *)
Grouped ==
  /\ TimeWidth \in Nat \ {0}
  /\ \A k \in Keyboards : Len(k.groups) \in Nat \ {0} /\ DOMAIN k.groups = 1 .. Len(k.groups)
Event == [type : Types, group : Nat, time : Nat]
GroupOfKeyboard ==
  /\ server = [keyboard |-> server.keyboard, group |-> server.group, locks |-> server.locks]
  /\ server.keyboard \in Keyboards /\ server.group \in 0 .. Len(server.keyboard.groups) - 1
Numbered ==
  /\ m_keyboard = [layouts |-> m_keyboard.layouts, current |-> m_keyboard.current,
                   masks |-> m_keyboard.masks, on |-> m_keyboard.on]
  /\ m_keyboard.current \in Nat /\ Len(m_keyboard.layouts) \in Nat /\ time \in Nat
  /\ events \in Seq(Event)

(* Of what the module does not know an event is queued, or was denied.     *)
Queued(types) == \E i \in 1 .. Len(events) : events[i] \in {e \in Event : e.type \in types}
Tells(types) == missed \cap types # {} \/ Queued(types)
Late == worker.step = "late" /\ m_keyboard.current = worker.group /\ worker.group < Len(server.keyboard.groups)
Follows ==
  /\ \/ Tells({"new keyboard"})
     \/ m_keyboard.layouts = Layouts(server.keyboard) /\ m_keyboard.masks = server.keyboard.modifiers
  /\ Tells({"state", "new keyboard"}) \/ raced \/ m_keyboard.current = server.group \/ Late
  /\ Tells({"indicator", "new keyboard"}) \/ \A l \in m_keyboard.masks : l \in m_keyboard.on <=> l \in server.locks

(* A click under way: the group is the next one, of the keyboard that the  *)
(* module knew, unless it was told another group since.                    *)
NextOf(group, n) == IF group + 1 >= n THEN 0 ELSE group + 1
Clicked ==
  /\ worker = Action(worker.step, worker.group, worker.from, worker.told)
  /\ worker.step \in Steps /\ worker.group \in Nat
  /\ worker.step = "no" => worker = NoAction
  /\ worker.step # "late" /\ worker.told # -1 => worker.told = m_keyboard.current /\ ~raced
  /\ worker.step \in {"request", "set"} /\ worker.told = -1 =>
       Tells({"new keyboard"}) \/ worker.group < Len(server.keyboard.groups)
  /\ worker.step = "set" /\ worker.told = -1 =>
       Tells({"state", "new keyboard"}) \/ worker.group = server.group
  /\ worker.step = "size" /\ worker.from # -1 =>
       /\ worker.from = server.group /\ worker.group = server.group + 1
       /\ Len(m_keyboard.layouts) = Len(server.keyboard.groups)
  /\ worker.step \in {"request", "late"} /\ worker.from # -1 =>
       worker.from = server.group /\ worker.group = NextOf(server.group, Len(server.keyboard.groups))

(* The last that is queued of a group is true of it.                       *)
LastOfGroup(i) == \A j \in i + 1 .. Len(events) : events[j].type = "indicator"
LastSays == \A i \in 1 .. Len(events) : events[i].type = "state" /\ LastOfGroup(i) => events[i].group = server.group

(* What is shown is what the module knows, or some thread is about to read *)
(* or to fill in what it has read; it has read what the module knows, or   *)
(* another one has still to do so.                                         *)
Reading == [layout |-> LayoutTokens(m_keyboard), locks |-> Indicators(conf, m_keyboard)]
Labelled ==
  /\ updates \in [Threads -> {"no", "read", "fill"}] /\ seen = [t \in Threads |-> seen[t]]
  /\ \A t \in Threads : updates[t] = "fill" /\ t \notin crossed =>
       \/ seen[t] = Reading
       \/ \E u \in Threads : updates[u] = "read"
  /\ \/ mixed \/ \E t \in Threads : updates[t] # "no"
     \/ m_layout = Reading.layout /\ m_indicators = Reading.locks

Inv == GroupOfKeyboard /\ Numbered /\ Clicked /\ Follows /\ LastSays /\ Labelled /\ SwitchMoves
=============================================================================
