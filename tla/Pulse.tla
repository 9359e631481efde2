------------------------------- MODULE Pulse -------------------------------
(***************************************************************************)
(* The pulseaudio module and its adapter (adapters/pulseaudio.cpp): the    *)
(* module's runner, the event queue's worker, which runs actions, and the  *)
(* thread of the mainloop, which dispatches what the server sends, in      *)
(* order.  Who waits for a reply gives the mainloop's lock away, so no step*)
(* below holds it over another one - but for an action that fails and      *)
(* throws.                                                                 *)
(*                                                                         *)
(* The server (external) has sinks, one of them the default; it answers    *)
(* requests one by one and reports what changes to a subscriber.  A sink's *)
(* volume is a small number for all its channels.                          *)
(***************************************************************************)
EXTENDS Integers, Sequences, SequenceTheorems, TLAPS

CONSTANTS Specified,     \* the sink that the configuration names, or ""
          MaxVolume, Step,
          MaxIndex,      \* bounds on new sinks, and on what users
          MaxOps         \* and the server do

VARIABLES
  spec_s_name,
  sinks, default, next,  \* the server: index -> sink; default; new index
  transit,               \* what the server has sent
  subscribed,
  m_events, m_index, cv, muted, success,  \* the adapter
  m_volume, m_muted,                      \* the module
  runner, worker,        \* what each thread does, or waits for
  lock,                  \* "free", or "worker": kept by an action that threw
  ops, missed, misled    \* bound; history: see SinkFollows

vars == <<spec_s_name, sinks, default, next, transit, subscribed, m_events, m_index,
          cv, muted, success, m_volume, m_muted, runner, worker, lock, ops, missed, misled>>
server == <<sinks, default, next>>
adapter == <<m_index, cv, muted, success>>
module == <<m_volume, m_muted>>

Sinks == [name : {"card", "usb", "tv"}, vol : 0 .. MaxVolume, mute : BOOLEAN]
Waits == {"subscribe", "first", "sink", "volume"}

TypeOK ==
  /\ spec_s_name \in Specified /\ default \in DOMAIN sinks
  /\ \A i \in DOMAIN sinks : sinks[i] \in Sinks
  /\ cv \in 0 .. MaxVolume /\ m_volume \in 0 .. MaxVolume
  /\ runner \in Waits \cup {"sink known", "volume known", "idle", "update"}
  /\ worker \in {"idle", "wait", "done", "stuck"} /\ lock \in {"free", "worker"}

Named(s) == {i \in DOMAIN sinks : sinks[i].name = s}
ByName(s) == IF s # "" /\ Named(s) # {} THEN CHOOSE i \in Named(s) : TRUE ELSE 0

(* Construct, up to the subscription: the specified sink, or the default.  *)
Init ==
  /\ spec_s_name \in Specified /\ default \in {1, 2} /\ next = 3
  /\ sinks \in {[i \in {1, 2} |-> [name |-> n[i], vol |-> 1, mute |-> FALSE]] :
                  n \in {<<"card", "usb">>, <<"card", "tv">>}}
  /\ m_index = IF ByName(spec_s_name) # 0 THEN ByName(spec_s_name) ELSE default
  /\ transit = <<>> /\ subscribed = FALSE /\ m_events = <<>> /\ success = FALSE
  /\ cv = 0 /\ muted = FALSE /\ m_volume = 0 /\ m_muted = FALSE
  /\ runner = "subscribe" /\ worker = "idle" /\ lock = "free"
  /\ ops = 0 /\ missed = FALSE /\ misled = FALSE

-----------------------------------------------------------------------------
(* Requests: the server's answer goes behind what it has sent before.      *)
Event(type, i) == [is |-> "event", type |-> type, index |-> i]
Reply(to, i) == [is |-> to, index |-> i]
VolumeReply(i) ==
  IF i \in DOMAIN sinks THEN [is |-> "volume", index |-> i, vol |-> sinks[i].vol, mute |-> sinks[i].mute]
  ELSE Reply("volume", 0)

Subscribe ==
  /\ runner = "subscribe" /\ lock = "free"
  /\ subscribed' = TRUE /\ runner' = "first"
  /\ transit' = Append(transit, VolumeReply(m_index))
  /\ UNCHANGED <<spec_s_name, server, m_events, adapter, module, worker, lock, ops, missed, misled>>

(* process_events(): NEW looks for the specified sink; without one, NEW    *)
(* and SERVER ask for the default; REMOVE always does.  CHANGE, and SERVER *)
(* beside a specified sink, only read the volume.                          *)
Wanted(event) ==
  CASE event = "NEW" /\ spec_s_name # "" -> ByName(spec_s_name)
    [] event = "REMOVE" \/ (event \in {"NEW", "SERVER"} /\ spec_s_name = "") -> default

Misleads(event) == event = "REMOVE" /\ m_index \in DOMAIN sinks

LooksUp(event) == event \in {"NEW", "REMOVE"} \/ (event = "SERVER" /\ spec_s_name = "")

Process(e) ==
  IF LooksUp(e) THEN runner' = "sink" /\ transit' = Append(transit, Reply("sink", Wanted(e)))
  ELSE runner' = "volume" /\ transit' = Append(transit, VolumeReply(m_index))

(* has_event() reads the size of the queue without the lock.               *)
HasEvent ==
  /\ runner = "idle" /\ m_events # <<>> /\ lock = "free"
  /\ Process(Head(m_events))
  /\ misled' = (misled \/ Misleads(Head(m_events)))
  /\ UNCHANGED <<spec_s_name, server, subscribed, m_events, adapter, module, worker, lock, ops, missed>>

UpdateVolume ==
  /\ runner = "sink known" /\ lock = "free"
  /\ runner' = "volume" /\ transit' = Append(transit, VolumeReply(m_index))
  /\ UNCHANGED <<spec_s_name, server, subscribed, m_events, adapter, module, worker, lock, ops, missed, misled>>

(* pop(), and on to the next event: those that came meanwhile too.         *)
Popped == Tail(m_events)
Pop ==
  /\ runner = "volume known" /\ lock = "free" /\ m_events' = Popped
  /\ IF Popped = <<>> THEN runner' = "update" /\ UNCHANGED <<transit, misled>>
     ELSE /\ Process(Head(Popped))
          /\ misled' = (misled \/ Misleads(Head(Popped)))
  /\ UNCHANGED <<spec_s_name, server, subscribed, adapter, module, worker, lock, ops, missed>>

(* The rest of update() reads the cache, without the lock.                 *)
Update ==
  /\ runner = "update" /\ runner' = "idle"
  /\ m_volume' = cv /\ m_muted' = muted
  /\ UNCHANGED <<spec_s_name, server, transit, subscribed, m_events, adapter, worker, lock, ops, missed, misled>>

RunnerStep == Subscribe \/ HasEvent \/ UpdateVolume \/ Pop \/ Update

-----------------------------------------------------------------------------
(* The mainloop's thread: callbacks run under the lock.                    *)
SubscribeCallback(m) ==
  /\ m_events' = IF m.type \in {"CHANGE", "REMOVE"} /\ m.index # m_index THEN m_events
                 ELSE Append(m_events, m.type)
  /\ UNCHANGED <<adapter, runner, worker>>

SinkInfoCallback(m) ==
  /\ m_index' = IF m.index = 0 THEN m_index ELSE m.index
  /\ runner' = "sink known" /\ UNCHANGED <<m_events, cv, muted, success, worker>>

GetSinkVolumeCallback(m) ==
  /\ IF m.index = 0 THEN UNCHANGED <<cv, muted>> ELSE cv' = m.vol /\ muted' = m.mute
  /\ runner' = IF runner = "first" THEN "update" ELSE "volume known"
  /\ UNCHANGED <<m_events, m_index, success, worker>>

SimpleCallback(m) ==
  success' = (m.index # 0) /\ worker' = "done" /\ UNCHANGED <<m_events, m_index, cv, muted, runner>>

Dispatch ==
  /\ transit # <<>> /\ lock = "free" /\ transit' = Tail(transit)
  /\ LET m == Head(transit) IN
       \/ m.is = "event" /\ SubscribeCallback(m)
       \/ m.is = "sink" /\ SinkInfoCallback(m)
       \/ m.is = "volume" /\ GetSinkVolumeCallback(m)
       \/ m.is = "done" /\ SimpleCallback(m)
  /\ UNCHANGED <<spec_s_name, server, subscribed, module, lock, ops, missed, misled>>

-----------------------------------------------------------------------------
(* inc_volume(): from the cache, which it changes before the server has    *)
(* agreed.                                                                 *)
Raised == IF cv + Step <= MaxVolume THEN cv + Step ELSE IF cv < MaxVolume THEN MaxVolume ELSE cv
Lowered == IF cv > Step THEN cv - Step ELSE 0

(* What the server does to a sink, with the event for a subscriber.        *)
SetSink(i, s, reply) ==
  /\ sinks' = IF i \in DOMAIN sinks THEN [sinks EXCEPT ![i] = s] ELSE sinks
  /\ transit' = transit
       \o (IF i \in DOMAIN sinks /\ subscribed /\ sinks[i] # s THEN <<Event("CHANGE", i)>> ELSE <<>>)
       \o reply

Ask(s) ==
  SetSink(m_index, s, <<Reply("done", IF m_index \in DOMAIN sinks THEN m_index ELSE 0)>>)
Ours == IF m_index \in DOMAIN sinks THEN sinks[m_index] ELSE [vol |-> 0, mute |-> FALSE]

Action ==
  /\ worker = "idle" /\ runner \notin {"subscribe", "first"}
  /\ IF lock # "free" THEN worker' = "stuck" /\ UNCHANGED <<sinks, transit, cv, ops>>
     ELSE /\ worker' = "wait" /\ ops < MaxOps /\ ops' = ops + 1
          /\ \/ \E v \in {Raised, Lowered} : cv' = v /\ Ask([Ours EXCEPT !.vol = v])
             \/ Ask([Ours EXCEPT !.mute = ~muted]) /\ UNCHANGED cv
  /\ UNCHANGED <<spec_s_name, default, next, subscribed, m_events, m_index, muted, success, module, runner, lock, missed, misled>>

(* A failure is thrown over the unlock; forward_action()'s caller logs it. *)
ActionReturns ==
  /\ worker = "done" /\ lock = "free" /\ worker' = "idle"
  /\ lock' = IF success THEN "free" ELSE "worker"
  /\ UNCHANGED <<spec_s_name, server, transit, subscribed, m_events, adapter, module, runner, ops, missed, misled>>

-----------------------------------------------------------------------------
Sends(events) ==
  /\ ops < MaxOps /\ ops' = ops + 1
  /\ transit' = IF subscribed THEN transit \o events ELSE transit
  /\ missed' = (missed \/ ~subscribed)
  /\ UNCHANGED <<spec_s_name, subscribed, m_events, adapter, module, runner, worker, lock, misled>>

NewSink ==
  /\ next <= MaxIndex /\ next' = next + 1 /\ UNCHANGED default
  /\ \E n \in {"usb", "tv"} \ {sinks[i].name : i \in DOMAIN sinks} :
       sinks' = [i \in DOMAIN sinks \cup {next} |-> IF i = next THEN [name |-> n, vol |-> 2, mute |-> FALSE] ELSE sinks[i]]
  /\ Sends(<<Event("NEW", next)>>)

RemoveSink ==
  \E i, d \in DOMAIN sinks :
    /\ i # d /\ sinks' = [j \in DOMAIN sinks \ {i} |-> sinks[j]]
    /\ default' = (IF i = default THEN d ELSE default) /\ UNCHANGED next
    /\ Sends(IF i = default THEN <<Event("SERVER", 0), Event("REMOVE", i)>> ELSE <<Event("REMOVE", i)>>)

SetDefault ==
  \E i \in DOMAIN sinks \ {default} :
    default' = i /\ UNCHANGED <<sinks, next>> /\ Sends(<<Event("SERVER", 0)>>)

MuteSink ==
  \E i \in DOMAIN sinks :
    /\ sinks' = [sinks EXCEPT ![i].mute = ~@] /\ UNCHANGED <<default, next>>
    /\ Sends(<<Event("CHANGE", i)>>)

ServerStep == NewSink \/ RemoveSink \/ SetDefault \/ MuteSink
Next == RunnerStep \/ Dispatch \/ Action \/ ActionReturns \/ ServerStep
Spec == Init /\ [][Next]_vars

-----------------------------------------------------------------------------
Settled == runner = "idle" /\ m_events = <<>> /\ transit = <<>> /\ worker = "idle" /\ lock = "free"

(* Once everything is dispatched and processed, the module shows a sink    *)
(* that exists, as it is: the specified one while it is there, and without *)
(* a specification the default.  Two windows are left open: what happens   *)
(* before the subscription is missed, and a REMOVE that waits while NEW    *)
(* brings the specified sink back takes it away again.                     *)
SinkFollows ==
  Settled /\ ~missed =>
    /\ m_index \in DOMAIN sinks
    /\ m_volume = sinks[m_index].vol /\ m_muted = sinks[m_index].mute
    /\ spec_s_name = "" => m_index = default
    /\ Named(spec_s_name) # {} /\ ~misled => m_index \in Named(spec_s_name)

(* Events are processed, unless an action has kept the lock.               *)
EventsWait == m_events # <<>> /\ lock = "free"
EventsGone == m_events = <<>> \/ lock = "worker"

-----------------------------------------------------------------------------
(* What is proved of it.  Messages on their way, and events that have not  *)
(* been looked at: the first of the queue is kept until it is done with.   *)
Levels == MaxVolume \in Nat \ {0, 1} /\ Step \in Nat

Types == {"NEW", "REMOVE", "SERVER", "CHANGE"}
Message == [is : {"event"}, type : Types, index : Nat] \cup [is : {"sink", "done"}, index : Nat] \cup [is : {"volume"}, index : {0}]
             \cup [is : {"volume"}, index : Nat \ {0}, vol : 0 .. MaxVolume, mute : BOOLEAN]
Among(q, S) == \E k \in 1 .. Len(q) : q[k] \in S

InHand == runner \in {"sink", "sink known", "volume", "volume known"}
Rest == IF InHand THEN Tail(m_events) ELSE m_events

(* Who waits for a reply has one coming, and only one; a sink that a reply *)
(* names has not been removed before that was sent.                        *)
Replies(to) == {m \in Message : m.is = to}
Single(q, S) == \A j, k \in 1 .. Len(q) : q[j] \in S /\ q[k] \in S => j = k
Passes(a, b) == a.is = "event" /\ a.type = "REMOVE" /\ b = Reply("sink", a.index)
InOrder(q) == \A j, k \in 1 .. Len(q) : j < k => ~Passes(q[j], q[k])
Orderly ==
  /\ transit \in Seq(Message) /\ m_events \in Seq(Types) /\ (InHand => m_events # <<>>)
  /\ subscribed <=> runner # "subscribe"
  /\ Single(transit, Replies("sink")) /\ Single(transit, Replies("volume")) /\ InOrder(transit)
  /\ Among(transit, Replies("sink")) <=> runner = "sink"
  /\ Among(transit, Replies("volume")) <=> runner \in {"volume", "first"}

(* Sinks have a name of their own, and an index that is never used again.  *)
Known ==
  /\ next \in Nat /\ default \in DOMAIN sinks /\ m_index \in 1 .. next - 1
  /\ cv \in 0 .. MaxVolume /\ muted \in BOOLEAN
  /\ DOMAIN sinks \subseteq 1 .. next - 1 /\ \A i \in DOMAIN sinks : sinks[i] \in Sinks
  /\ \A i, j \in DOMAIN sinks : sinks[i].name = sinks[j].name => i = j
  /\ \A i \in Nat : Among(transit, {Reply("sink", i)}) => i \in 0 .. next - 1
  /\ \A i \in Nat : Among(transit, {Event("REMOVE", i)}) => i \in (1 .. next - 1) \ DOMAIN sinks

(* The sink that the module will take next, or has: it exists, is the      *)
(* default or the specified one, unless an event that will make the module *)
(* look again has not been looked at.                                      *)
Takes(i) ==
  IF runner = "sink" THEN Among(transit, {Reply("sink", i)}) \/ (Among(transit, {Reply("sink", 0)}) /\ i = m_index)
  ELSE i = m_index
Existing(i) == i \in DOMAIN sinks \/ Among(transit, {Event("REMOVE", i)}) \/ Among(Rest, {"REMOVE"})
Defaulted(i) ==
  spec_s_name = "" =>
    i = default \/ Among(transit, {Event("SERVER", 0)}) \/ Among(Rest, {"SERVER", "NEW", "REMOVE"})
Specific(i) ==
  ~misled /\ Named(spec_s_name) # {} =>
    i \in Named(spec_s_name) \/ Among(transit, {Event("NEW", j) : j \in Nat}) \/ Among(Rest, {"NEW"})
Taking == \A i \in 1 .. next - 1 : Takes(i) => Existing(i) /\ Defaulted(i) /\ Specific(i)

(* Its volume is known, or on its way, or will be asked for; and shown.    *)
Changing == Among(Rest, Types) \/ Among(transit, {Event("CHANGE", m_index)})
Read ==
  m_index \in DOMAIN sinks /\ ~Changing /\ runner \notin {"subscribe", "sink", "sink known"} =>
    IF runner \in {"volume", "first"} THEN Among(transit, {VolumeReply(m_index)})
    ELSE cv = sinks[m_index].vol /\ muted = sinks[m_index].mute
Showing ==
  m_index \in DOMAIN sinks /\ ~Changing /\ runner = "idle" => m_volume = cv /\ m_muted = muted

Inv == Orderly /\ Known /\ (~missed => Taking /\ Read /\ Showing)

-----------------------------------------------------------------------------
(* What is in a sequence to which one is appended, ...                     *)
LEMMA HasAppend ==
  ASSUME NEW E, NEW q \in Seq(E), NEW e \in E, NEW P
  PROVE  /\ Append(q, e) \in Seq(E)
         /\ (\E i \in 1 .. Len(Append(q, e)) : Append(q, e)[i] \in P)
              <=> (\E i \in 1 .. Len(q) : q[i] \in P) \/ e \in P
<1>1. /\ Append(q, e) \in Seq(E) /\ Len(q) \in Nat /\ Len(Append(q, e)) = Len(q) + 1
      /\ \A i \in 1 .. Len(q) : Append(q, e)[i] = q[i]
      /\ Append(q, e)[Len(q) + 1] = e
  BY AppendProperties
<1>2. \A i \in 1 .. Len(q) + 1 : i \in 1 .. Len(q) \/ i = Len(q) + 1
  BY <1>1
<1>3. 1 .. Len(q) \subseteq 1 .. Len(q) + 1 /\ Len(q) + 1 \in 1 .. Len(q) + 1
  BY <1>1
<1> QED
  BY <1>1, <1>2, <1>3, Zenon

(* ... from which the first is taken, ...                                  *)
LEMMA HasTail ==
  ASSUME NEW E, NEW q \in Seq(E), q # <<>>, NEW P
  PROVE  /\ Tail(q) \in Seq(E) /\ Head(q) \in E
         /\ (\E i \in 1 .. Len(q) : q[i] \in P)
              <=> Head(q) \in P \/ \E i \in 1 .. Len(Tail(q)) : Tail(q)[i] \in P
<1>1. /\ Tail(q) \in Seq(E) /\ Head(q) \in E /\ Head(q) = q[1] /\ Len(q) \in Nat \ {0}
      /\ Len(Tail(q)) = Len(q) - 1
      /\ \A i \in 1 .. Len(Tail(q)) : Tail(q)[i] = q[i + 1]
  BY HeadTailProperties, EmptySeq
<1>2. ASSUME NEW i \in 1 .. Len(q), i # 1
      PROVE  i - 1 \in 1 .. Len(Tail(q)) /\ q[i] = Tail(q)[i - 1]
  BY <1>1, <1>2
<1>3. 1 \in 1 .. Len(q) /\ \A i \in 1 .. Len(Tail(q)) : i + 1 \in 1 .. Len(q)
  BY <1>1
<1> QED
  BY <1>1, <1>2, <1>3

(* ... and in one after the other.                                         *)
LEMMA HasConcat ==
  ASSUME NEW E, NEW q \in Seq(E), NEW r \in Seq(E), NEW P
  PROVE  /\ q \o r \in Seq(E)
         /\ Among(q \o r, P) <=> Among(q, P) \/ Among(r, P)
<1>1. /\ q \o r \in Seq(E) /\ Len(q) \in Nat /\ Len(r) \in Nat /\ Len(q \o r) = Len(q) + Len(r)
      /\ \A i \in 1 .. Len(q \o r) : (q \o r)[i] = IF i <= Len(q) THEN q[i] ELSE r[i - Len(q)]
  BY ConcatProperties, LenProperties
<1>2. ASSUME NEW i \in 1 .. Len(q)
      PROVE  i \in 1 .. Len(q \o r) /\ (q \o r)[i] = q[i]
  BY <1>1
<1>3. ASSUME NEW i \in 1 .. Len(r)
      PROVE  i + Len(q) \in 1 .. Len(q \o r) /\ (q \o r)[i + Len(q)] = r[i]
  BY <1>1
<1>4. ASSUME NEW i \in 1 .. Len(q \o r)
      PROVE  \/ i \in 1 .. Len(q) /\ (q \o r)[i] = q[i]
             \/ i - Len(q) \in 1 .. Len(r) /\ (q \o r)[i] = r[i - Len(q)]
  BY <1>1
<1> QED
  <2>1. ASSUME NEW i \in 1 .. Len(q \o r), (q \o r)[i] \in P
        PROVE  (\E j \in 1 .. Len(q) : q[j] \in P) \/ (\E j \in 1 .. Len(r) : r[j] \in P)
    BY <1>4, <2>1, Zenon
  <2>2. ASSUME NEW i \in 1 .. Len(q), q[i] \in P
        PROVE  \E j \in 1 .. Len(q \o r) : (q \o r)[j] \in P
    BY <1>2, <2>2, Zenon
  <2>3. ASSUME NEW i \in 1 .. Len(r), r[i] \in P
        PROVE  \E j \in 1 .. Len(q \o r) : (q \o r)[j] \in P
    BY <1>3, <2>3, Zenon
  <2> QED
    BY <1>1, <2>1, <2>2, <2>3, Zenon DEF Among

(* Messages.                                                               *)
LEMMA Messages ==
  /\ \A type \in Types, i \in Nat : Event(type, i) \in Message
  /\ \A to \in {"sink", "done"}, i \in Nat : Reply(to, i) \in Message
  /\ Reply("volume", 0) \in Message
  /\ \A type, i : /\ Event(type, i).is = "event" /\ Event(type, i).type = type
                  /\ Event(type, i).index = i
  /\ \A to, i : Reply(to, i).is = to /\ Reply(to, i).index = i
  /\ \A m \in Replies("sink") : m.index \in Nat /\ m = Reply("sink", m.index)
  /\ \A m \in Replies("event") : m.type \in Types /\ m.index \in Nat /\ m = Event(m.type, m.index)
  /\ \A m \in Replies("volume") : m.index # 0 => m.vol \in 0 .. MaxVolume /\ m.mute \in BOOLEAN
<1>1. \A type \in Types, i \in Nat : Event(type, i) \in Message
  BY DEF Message, Event
<1>2. Reply("volume", 0) \in Message /\ \A to \in {"sink", "done"}, i \in Nat : Reply(to, i) \in Message
  BY DEF Message, Reply
<1>3. /\ \A type, i : Event(type, i).is = "event" /\ Event(type, i).type = type /\ Event(type, i).index = i
      /\ \A to, i : Reply(to, i).is = to /\ Reply(to, i).index = i
  BY DEF Event, Reply
<1>4. ASSUME NEW m \in Message
      PROVE  \/ m \in [is : {"event"}, type : Types, index : Nat]
             \/ m \in [is : {"sink", "done"}, index : Nat]
             \/ m \in [is : {"volume"}, index : {0}]
             \/ m \in [is : {"volume"}, index : Nat \ {0}, vol : 0 .. MaxVolume, mute : BOOLEAN]
  BY DEF Message
<1>5. ASSUME NEW m \in Replies("sink")
      PROVE  m.index \in Nat /\ m = Reply("sink", m.index)
  <2>1. m \in [is : {"sink", "done"}, index : Nat] /\ m.is = "sink"
    BY <1>4 DEF Replies
  <2> QED
    BY <2>1 DEF Reply
<1>6. ASSUME NEW m \in Replies("event")
      PROVE  m.type \in Types /\ m.index \in Nat /\ m = Event(m.type, m.index)
  <2>1. m \in [is : {"event"}, type : Types, index : Nat]
    BY <1>4 DEF Replies
  <2> QED
    BY <2>1 DEF Event
<1>7. ASSUME NEW m \in Replies("volume"), m.index # 0
      PROVE  m.vol \in 0 .. MaxVolume /\ m.mute \in BOOLEAN
  <2>1. m \in [is : {"volume"}, index : Nat \ {0}, vol : 0 .. MaxVolume, mute : BOOLEAN]
    BY <1>4, <1>7 DEF Replies
  <2> QED
    BY <2>1
<1> QED
  BY <1>1, <1>2, <1>3, <1>5, <1>6, <1>7

(* Events and replies differ in their kinds and in their sinks.             *)
LEMMA Different ==
  /\ \A to, i, j : Reply(to, i) = Reply(to, j) => i = j
  /\ \A type, i, j : Reply("sink", i) # Event(type, j)
<1>1. ASSUME NEW to, NEW i, NEW j, Reply(to, i) = Reply(to, j)
      PROVE  i = j
  <2>1. Reply(to, i).index = i /\ Reply(to, j).index = j
    BY Messages
  <2> QED
    BY <1>1, <2>1, Zenon
<1>2. ASSUME NEW type, NEW i, NEW j, Reply("sink", i) = Event(type, j)
      PROVE  FALSE
  <2>1. Reply("sink", i).is = "sink" /\ Event(type, j).is = "event"
    BY Messages
  <2> QED
    BY <1>2, <2>1
<1> QED
  BY <1>1, <1>2

(* Sinks are numbered from 1 on, the next one not yet.                      *)
LEMMA Indices ==
  ASSUME Known
  PROVE  /\ next \in Nat /\ m_index \in 1 .. next - 1 /\ m_index \in Nat \ {0}
         /\ default \in DOMAIN sinks /\ DOMAIN sinks \subseteq 1 .. next - 1
         /\ \A i \in DOMAIN sinks : i \in Nat \ {0}
         /\ \A i \in 1 .. next - 1 : i \in Nat /\ i # 0
<1>1. /\ next \in Nat /\ m_index \in 1 .. next - 1 /\ default \in DOMAIN sinks
      /\ DOMAIN sinks \subseteq 1 .. next - 1
  BY DEF Known
<1> QED
  BY <1>1

(* A reply about the volume says what the sink has.                         *)
LEMMA VolumeReplies ==
  ASSUME Known, NEW i \in Nat \ {0}
  PROVE  /\ VolumeReply(i) \in Message /\ VolumeReply(i) \in Replies("volume")
         /\ i \in DOMAIN sinks => /\ VolumeReply(i).index = i /\ VolumeReply(i).vol = sinks[i].vol
                                  /\ VolumeReply(i).mute = sinks[i].mute
<1>1. CASE i \in DOMAIN sinks
  <2>1. sinks[i].vol \in 0 .. MaxVolume /\ sinks[i].mute \in BOOLEAN
    BY <1>1 DEF Known, Sinks
  <2>2. VolumeReply(i) = [is |-> "volume", index |-> i, vol |-> sinks[i].vol, mute |-> sinks[i].mute]
    BY <1>1 DEF VolumeReply
  <2>3. VolumeReply(i) \in Message /\ VolumeReply(i).is = "volume"
    BY <2>1, <2>2 DEF Message
  <2> QED
    BY <2>2, <2>3 DEF Replies
<1>2. CASE i \notin DOMAIN sinks
  <2>1. VolumeReply(i) = Reply("volume", 0)
    BY <1>2 DEF VolumeReply
  <2> QED
    BY <1>2, <2>1, Messages DEF Replies
<1> QED
  BY <1>1, <1>2

(* One message is sent, ...                                                *)
LEMMA SentOne ==
  ASSUME NEW E, NEW q \in Seq(E), NEW e \in E
  PROVE  /\ Append(q, e) \in Seq(E)
         /\ \A S : Among(Append(q, e), S) <=> Among(q, S) \/ e \in S
         /\ \A S : Single(q, S) /\ ~(e \in S /\ Among(q, S)) => Single(Append(q, e), S)
         /\ InOrder(q) /\ (\A k \in 1 .. Len(q) : ~Passes(q[k], e)) => InOrder(Append(q, e))
<1>1. /\ Append(q, e) \in Seq(E) /\ Len(q) \in Nat /\ Len(Append(q, e)) = Len(q) + 1
      /\ \A i \in 1 .. Len(q) : Append(q, e)[i] = q[i]
      /\ Append(q, e)[Len(q) + 1] = e
  BY AppendProperties
<1>2. /\ \A i \in 1 .. Len(q) + 1 : i \in 1 .. Len(q) \/ i = Len(q) + 1
      /\ \A j, k \in 1 .. Len(q) + 1 : j < k => j \in 1 .. Len(q)
  BY <1>1
<1>3. ASSUME NEW S
      PROVE  Among(Append(q, e), S) <=> Among(q, S) \/ e \in S
  BY HasAppend DEF Among
<1>4. ASSUME NEW S, Single(q, S), ~(e \in S /\ Among(q, S))
      PROVE  Single(Append(q, e), S)
  BY <1>1, <1>2, <1>4 DEF Single, Among
<1>5. ASSUME InOrder(q), \A k \in 1 .. Len(q) : ~Passes(q[k], e)
      PROVE  InOrder(Append(q, e))
  <2> DEFINE r == Append(q, e)
  <2> SUFFICES ASSUME NEW j \in 1 .. Len(q) + 1, NEW k \in 1 .. Len(q) + 1, j < k
               PROVE  ~Passes(r[j], r[k])
    BY <1>1 DEF InOrder
  <2>1. j \in 1 .. Len(q) /\ r[j] = q[j]
    BY <1>1, <1>2
  <2>2. CASE k \in 1 .. Len(q)
    <3>1. r[k] = q[k]
      BY <1>1, <2>2
    <3> HIDE DEF r
    <3> QED
      BY <1>5, <2>1, <2>2, <3>1 DEF InOrder
  <2>3. CASE k = Len(q) + 1
    <3>1. r[k] = e
      BY <1>1, <2>3
    <3> HIDE DEF r
    <3> QED
      BY <1>5, <2>1, <3>1
  <2> QED
    BY <1>2, <2>2, <2>3
<1> QED
  BY <1>1, <1>3, <1>4, <1>5

(* ... the first one taken, ...                                            *)
LEMMA TakenOne ==
  ASSUME NEW E, NEW q \in Seq(E), q # <<>>
  PROVE  /\ Tail(q) \in Seq(E) /\ Head(q) \in E
         /\ \A S : Among(q, S) <=> Head(q) \in S \/ Among(Tail(q), S)
         /\ \A S : Single(q, S) => Single(Tail(q), S) /\ ~(Head(q) \in S /\ Among(Tail(q), S))
         /\ InOrder(q) => InOrder(Tail(q)) /\ \A k \in 1 .. Len(Tail(q)) : ~Passes(Head(q), Tail(q)[k])
<1>1. /\ Tail(q) \in Seq(E) /\ Head(q) \in E /\ Head(q) = q[1] /\ Len(q) \in Nat \ {0}
      /\ Len(Tail(q)) = Len(q) - 1
      /\ \A i \in 1 .. Len(Tail(q)) : Tail(q)[i] = q[i + 1]
  BY HeadTailProperties, EmptySeq
<1>2. /\ 1 \in 1 .. Len(q)
      /\ \A i \in 1 .. Len(Tail(q)) : i + 1 \in 1 .. Len(q) /\ i + 1 # 1 /\ 1 < i + 1
      /\ \A i, j \in 1 .. Len(Tail(q)) : (i + 1 = j + 1 => i = j) /\ (i < j => i + 1 < j + 1)
  BY <1>1
<1>3. ASSUME NEW S
      PROVE  Among(q, S) <=> Head(q) \in S \/ Among(Tail(q), S)
  BY HasTail DEF Among
<1>4. ASSUME NEW S, Single(q, S)
      PROVE  Single(Tail(q), S) /\ ~(Head(q) \in S /\ Among(Tail(q), S))
  <2>1. ASSUME NEW i \in 1 .. Len(Tail(q)), NEW j \in 1 .. Len(Tail(q)), Tail(q)[i] \in S, Tail(q)[j] \in S
        PROVE  i = j
    BY <1>1, <1>2, <1>4, <2>1 DEF Single
  <2>2. ASSUME NEW i \in 1 .. Len(Tail(q)), Tail(q)[i] \in S, Head(q) \in S
        PROVE  FALSE
    BY <1>1, <1>2, <1>4, <2>2 DEF Single
  <2> QED
    BY <2>1, <2>2 DEF Single, Among
<1>5. ASSUME InOrder(q)
      PROVE  InOrder(Tail(q)) /\ \A k \in 1 .. Len(Tail(q)) : ~Passes(Head(q), Tail(q)[k])
  <2>1. ASSUME NEW i \in 1 .. Len(Tail(q)), NEW j \in 1 .. Len(Tail(q)), i < j
        PROVE  ~Passes(Tail(q)[i], Tail(q)[j])
    BY <1>1, <1>2, <1>5, <2>1 DEF InOrder
  <2>2. ASSUME NEW j \in 1 .. Len(Tail(q))
        PROVE  ~Passes(Head(q), Tail(q)[j])
    BY <1>1, <1>2, <1>5 DEF InOrder
  <2> QED
    BY <2>1, <2>2 DEF InOrder
<1> QED
  BY <1>1, <1>3, <1>4, <1>5

(* ... or some that nobody waits for follow.                               *)
LEMMA SentMore ==
  ASSUME NEW q \in Seq(Message), NEW r \in Seq(Message),
         \A k \in 1 .. Len(r) : r[k].is \in {"event", "done"}
  PROVE  /\ q \o r \in Seq(Message)
         /\ \A S : Among(q \o r, S) <=> Among(q, S) \/ Among(r, S)
         /\ \A to \in {"sink", "volume"} : Single(q, Replies(to)) => Single(q \o r, Replies(to))
         /\ \A to \in {"sink", "volume"} : ~Among(r, Replies(to))
         /\ \A i : ~Among(r, {Reply("sink", i)})
         /\ InOrder(q) => InOrder(q \o r)
<1> DEFINE n == q \o r
<1>1. /\ n \in Seq(Message) /\ Len(q) \in Nat /\ Len(r) \in Nat /\ Len(n) = Len(q) + Len(r)
      /\ \A i \in 1 .. Len(n) : n[i] = IF i <= Len(q) THEN q[i] ELSE r[i - Len(q)]
  BY ConcatProperties, LenProperties
<1>2. ASSUME NEW i \in 1 .. Len(n)
      PROVE  \/ i \in 1 .. Len(q) /\ n[i] = q[i]
             \/ i > Len(q) /\ i - Len(q) \in 1 .. Len(r) /\ n[i] = r[i - Len(q)]
  <2> HIDE DEF n
  <2> QED
    BY <1>1
<1>3. ASSUME NEW S
      PROVE  Among(n, S) <=> Among(q, S) \/ Among(r, S)
  BY HasConcat
<1> HIDE DEF n
<1>4. ASSUME NEW to \in {"sink", "volume"}
      PROVE  \A k \in 1 .. Len(r) : r[k] \notin Replies(to)
  BY DEF Replies
<1>5. ASSUME NEW to \in {"sink", "volume"}, Single(q, Replies(to))
      PROVE  Single(n, Replies(to))
  BY <1>2, <1>4, <1>5, Zenon DEF Single
<1>6. ASSUME NEW to \in {"sink", "volume"}
      PROVE  ~Among(r, Replies(to))
  BY <1>4 DEF Among
<1>7. ASSUME NEW i
      PROVE  ~Among(r, {Reply("sink", i)})
  BY Messages DEF Among
<1>8. ASSUME InOrder(q)
      PROVE  InOrder(n)
  <2> SUFFICES ASSUME NEW j \in 1 .. Len(n), NEW k \in 1 .. Len(n), j < k, Passes(n[j], n[k])
               PROVE  FALSE
    BY DEF InOrder
  <2>1. n[k].is = "sink"
    BY Messages DEF Passes
  <2>2. k \in 1 .. Len(q) /\ n[k] = q[k]
    BY <1>2, <2>1
  <2>3. j \in 1 .. Len(q)
    BY <1>1, <2>2
  <2>4. n[j] = q[j]
    BY <1>1, <2>3
  <2> QED
    BY <1>8, <2>2, <2>3, <2>4 DEF InOrder
<1> QED
  BY <1>1, <1>3, <1>5, <1>6, <1>7, <1>8 DEF n

(* What is among few messages.                                             *)
LEMMA AmongFew ==
  /\ \A S : ~Among(<<>>, S)
  /\ \A a, S : Among(<<a>>, S) <=> a \in S
  /\ \A a, b, S : Among(<<a, b>>, S) <=> a \in S \/ b \in S
<1>1. \A S : ~Among(<<>>, S)
  BY DEF Among
<1>2. ASSUME NEW a, NEW S
      PROVE  Among(<<a>>, S) <=> a \in S
  <2>1. Len(<<a>>) = 1 /\ <<a>>[1] = a /\ 1 .. 1 = {1}
    OBVIOUS
  <2> QED
    BY <2>1 DEF Among
<1>3. ASSUME NEW a, NEW b, NEW S
      PROVE  Among(<<a, b>>, S) <=> a \in S \/ b \in S
  <2>1. Len(<<a, b>>) = 2 /\ <<a, b>>[1] = a /\ <<a, b>>[2] = b /\ 1 .. 2 = {1, 2}
    OBVIOUS
  <2> QED
    BY <2>1 DEF Among
<1> QED
  BY <1>1, <1>2, <1>3

(* At first nothing is known but the sink.                                 *)
LEMMA InitInv ==
  ASSUME Levels, Init
  PROVE  Inv
<1>1. transit = <<>> /\ m_events = <<>> /\ runner = "subscribe" /\ subscribed = FALSE /\ Rest = <<>>
  BY DEF Init, Rest, InHand
<1>2. \A S : ~Among(transit, S)
  BY <1>1, AmongFew
<1>3. DOMAIN sinks = {1, 2} /\ next = 3 /\ 1 .. next - 1 = {1, 2} /\ default \in {1, 2}
  BY DEF Init
<1>4. PICK n \in {<<"card", "usb">>, <<"card", "tv">>} : sinks = [i \in {1, 2} |-> [name |-> n[i], vol |-> 1, mute |-> FALSE]]
  BY Zenon DEF Init
<1>5. n[1] = "card" /\ n[2] \in {"usb", "tv"}
  OBVIOUS
<1>6. /\ \A i \in {1, 2} : sinks[i] = [name |-> n[i], vol |-> 1, mute |-> FALSE]
      /\ 1 \in 0 .. MaxVolume
  BY <1>4 DEF Levels
<1>7. \A i \in {1, 2} : sinks[i] \in Sinks /\ sinks[i].name = n[i]
  <2> SUFFICES ASSUME NEW i \in {1, 2}
               PROVE  sinks[i] \in Sinks /\ sinks[i].name = n[i]
    OBVIOUS
  <2>1. n[i] \in {"card", "usb", "tv"}
    BY <1>5
  <2>2. [name |-> n[i], vol |-> 1, mute |-> FALSE] \in Sinks
    BY <1>6, <2>1 DEF Sinks
  <2>3. sinks[i] = [name |-> n[i], vol |-> 1, mute |-> FALSE]
    BY <1>6
  <2>4. sinks[i].name = n[i]
    BY <2>3
  <2>5. sinks[i] \in Sinks
    BY <2>2, <2>3, Zenon
  <2> QED
    BY <2>4, <2>5
<1>8. \A i, j \in DOMAIN sinks : sinks[i].name = sinks[j].name => i = j
  BY <1>3, <1>5, <1>7
<1>9. Named(spec_s_name) \subseteq {1, 2} /\ (Named(spec_s_name) # {} => m_index \in Named(spec_s_name) \/ spec_s_name = "")
  <2>1. spec_s_name # "" /\ Named(spec_s_name) # {} => ByName(spec_s_name) \in Named(spec_s_name)
    BY DEF ByName
  <2>2. Named(spec_s_name) \subseteq {1, 2}
    BY <1>3 DEF Named
  <2>3. ByName(spec_s_name) \in {1, 2} => m_index = ByName(spec_s_name)
    BY DEF Init
  <2> QED
    BY <2>1, <2>2, <2>3
<1>10. m_index \in {1, 2} /\ (spec_s_name = "" => m_index = default)
  <2>1. spec_s_name = "" => ByName(spec_s_name) = 0
    BY DEF ByName
  <2>2. ByName(spec_s_name) \in {0, 1, 2}
    BY <1>3, <1>9 DEF ByName, Named
  <2>3. m_index = IF ByName(spec_s_name) # 0 THEN ByName(spec_s_name) ELSE default
    BY DEF Init
  <2> QED
    BY <1>3, <2>1, <2>2, <2>3
<1>11. Named("") = {}
  BY <1>3, <1>5, <1>7 DEF Named
<1>12. Known
  <2>1. cv \in 0 .. MaxVolume /\ next \in Nat
    <3>1. cv = 0 /\ MaxVolume \in Nat
      BY DEF Init, Levels
    <3> QED
      BY <1>3, <3>1
  <2>2. muted \in BOOLEAN
    BY DEF Init
  <2> QED
    BY <1>2, <1>3, <1>7, <1>8, <1>10, <2>1, <2>2 DEF Known
<1>13. Orderly
  <2>1. transit \in Seq(Message) /\ m_events \in Seq(Types) /\ ~InHand
    BY <1>1 DEF InHand
  <2>2. \A S : Single(transit, S)
    BY <1>1 DEF Single
  <2>3. InOrder(transit)
    BY <1>1 DEF InOrder
  <2> QED
    BY <1>1, <1>2, <2>1, <2>2, <2>3 DEF Orderly
<1>14. Taking /\ Read /\ Showing
  <2>1. \A i : Takes(i) => i = m_index
    BY <1>1 DEF Takes
  <2>2. Existing(m_index) /\ Defaulted(m_index) /\ Specific(m_index)
    BY <1>3, <1>9, <1>10, <1>11 DEF Existing, Defaulted, Specific
  <2> QED
    BY <1>1, <2>1, <2>2, Zenon DEF Taking, Read, Showing
<1> QED
  BY <1>12, <1>13, <1>14 DEF Inv

(* What is kept when nothing happens to the messages or the sinks that     *)
(* the invariant speaks of.                                                *)
LEMMA KnownKept ==
  ASSUME Known, UNCHANGED <<server, m_index>>, cv' \in 0 .. MaxVolume, muted' \in BOOLEAN,
         \A i \in Nat : Among(transit', {Reply("sink", i)}) => Among(transit, {Reply("sink", i)}) \/ i \in {0} \cup DOMAIN sinks,
         \A i \in Nat : Among(transit', {Event("REMOVE", i)}) => Among(transit, {Event("REMOVE", i)})
  PROVE  Known'
<1>1. sinks' = sinks /\ default' = default /\ next' = next /\ m_index' = m_index
  BY DEF server
<1>2. {0} \cup DOMAIN sinks \subseteq 0 .. next - 1 /\ next \in Nat
  BY DEF Known
<1>3. \A i \in Nat : Among(transit', {Reply("sink", i)}) => i \in 0 .. next - 1
  BY <1>2 DEF Known
<1>4. \A i \in Nat : Among(transit', {Event("REMOVE", i)}) => i \in (1 .. next - 1) \ DOMAIN sinks
  BY DEF Known
<1> QED
  BY <1>1, <1>3, <1>4 DEF Known

(* The volume of the sink is asked for, because it changed or at first: no *)
(* other event is put away with this one.                                  *)
LEMMA VolumeAsked ==
  ASSUME Levels, Inv, runner \in {"subscribe", "sink known", "idle", "volume known"},
         runner' \in {"volume", "first"}, subscribed', transit' = Append(transit, VolumeReply(m_index)),
         m_events' \in Seq(Types), runner' = "volume" => m_events' # <<>>,
         UNCHANGED <<spec_s_name, server, adapter, missed>>, misled' <=> misled,
         \A type \in {"REMOVE", "NEW"} : Among(Rest, {type}) => Among(Rest', {type}),
         spec_s_name = "" /\ Among(Rest, {"SERVER", "NEW", "REMOVE"}) => Among(Rest', {"SERVER", "NEW", "REMOVE"})
  PROVE  Inv'
<1> DEFINE v == VolumeReply(m_index)
<1>1. /\ sinks' = sinks /\ default' = default /\ next' = next /\ m_index' = m_index /\ cv' = cv /\ muted' = muted
      /\ spec_s_name' = spec_s_name 
  BY DEF server, adapter
<1>15. (missed' <=> missed) /\ (misled' <=> misled)
  OBVIOUS
<1>2. Orderly /\ Known /\ m_index \in Nat \ {0} /\ m_index \in 1 .. next - 1
  <2>1. Orderly /\ Known
    BY DEF Inv
  <2>2. m_index \in 1 .. next - 1 /\ m_index \in Nat \ {0}
    BY <2>1, Indices
  <2> QED
    BY <2>1, <2>2
<1>3. v \in Message /\ v \in Replies("volume") /\ v.is = "volume"
  BY <1>2, VolumeReplies DEF Replies
<1>4. v' = v
  BY <1>1 DEF VolumeReply
<1> HIDE DEF v
<1>5. transit \in Seq(Message) /\ transit' = Append(transit, v)
  BY <1>2 DEF Orderly, v
<1>6. /\ transit' \in Seq(Message)
      /\ \A S : Among(transit', S) <=> Among(transit, S) \/ v \in S
      /\ \A S : Single(transit, S) /\ ~(v \in S /\ Among(transit, S)) => Single(transit', S)
      /\ InOrder(transit) /\ (\A k \in 1 .. Len(transit) : ~Passes(transit[k], v)) => InOrder(transit')
  <2>1. /\ Append(transit, v) \in Seq(Message)
        /\ \A S : Among(Append(transit, v), S) <=> Among(transit, S) \/ v \in S
        /\ \A S : Single(transit, S) /\ ~(v \in S /\ Among(transit, S)) => Single(Append(transit, v), S)
        /\ InOrder(transit) /\ (\A k \in 1 .. Len(transit) : ~Passes(transit[k], v)) => InOrder(Append(transit, v))
    BY <1>3, <1>5, SentOne
  <2> QED
    BY <1>5, <2>1
<1>7. v \notin Replies("sink") /\ (\A i : v # Reply("sink", i)) /\ (\A type, i : v # Event(type, i))
  <2>1. v \notin Replies("sink")
    BY <1>3 DEF Replies
  <2>2. ASSUME NEW i, v = Reply("sink", i)
        PROVE  FALSE
    <3>1. Reply("sink", i).is = "sink"
      BY DEF Reply
    <3> QED
      BY <1>3, <2>2, <3>1
  <2>3. ASSUME NEW type, NEW i, v = Event(type, i)
        PROVE  FALSE
    <3>1. Event(type, i).is = "event"
      BY DEF Event
    <3> QED
      BY <1>3, <2>3, <3>1
  <2> QED
    BY <2>1, <2>2, <2>3
<1>8. \A a : ~Passes(a, v)
  BY <1>7 DEF Passes
<1>9. Orderly'
  <2>1. ~Among(transit, Replies("volume")) /\ ~Among(transit, Replies("sink"))
    BY <1>2 DEF Orderly
  <2>2. Single(transit', Replies("sink")) /\ Single(transit', Replies("volume")) /\ InOrder(transit')
    BY <1>2, <1>6, <1>7, <1>8, <2>1 DEF Orderly
  <2>3. Among(transit', Replies("volume")) /\ ~Among(transit', Replies("sink"))
    BY <1>3, <1>6, <1>7, <2>1
  <2>4. InHand' => m_events' # <<>>
    BY DEF InHand
  <2> QED
    BY <1>6, <2>2, <2>3, <2>4 DEF Orderly
<1>10. \A S : Among(transit, S) => Among(transit', S)
  BY <1>6
<1>11. \A i : Among(transit', {Reply("sink", i)}) => Among(transit, {Reply("sink", i)})
  BY <1>6, <1>7
<1>12. \A i : Among(transit', {Event("REMOVE", i)}) => Among(transit, {Event("REMOVE", i)})
  BY <1>6, <1>7
<1>13. Known'
  <2>1. cv' \in 0 .. MaxVolume /\ muted' \in BOOLEAN /\ UNCHANGED <<server, m_index>>
    BY <1>1, <1>2 DEF Known, server
  <2> QED
    BY <1>2, <1>11, <1>12, <2>1, KnownKept
<1>14. ASSUME ~missed
       PROVE  (Taking /\ Read /\ Showing)'
  <2>1. \A i : Takes(i)' => i = m_index
    BY <1>1 DEF Takes
  <2>2. Takes(m_index)
    BY DEF Takes
  <2>3. Existing(m_index) /\ Defaulted(m_index) /\ Specific(m_index)
    BY <1>2, <1>14, <2>2 DEF Inv, Taking
  <2>4. Existing(m_index)'
    BY <1>1, <1>10, <2>3 DEF Existing
  <2>5. Defaulted(m_index)'
    BY <1>1, <1>10, <2>3 DEF Defaulted
  <2>6. Specific(m_index)'
    <3>1. Named(spec_s_name)' = Named(spec_s_name)
      BY <1>1 DEF Named
    <3>2. Among(Rest, {"NEW"}) => Among(Rest', {"NEW"})
      OBVIOUS
    <3> QED
      BY <1>1, <1>15, <1>10, <2>3, <3>1, <3>2 DEF Specific
  <2>7. Taking'
    BY <1>1, <2>1, <2>4, <2>5, <2>6 DEF Taking
  <2>8. Among(transit', {v}')
    BY <1>4, <1>6
  <2>9. Read' /\ Showing'
    BY <2>8 DEF Read, Showing, v
  <2> QED
    BY <2>7, <2>9
<1> QED
  BY <1>15, <1>9, <1>13, <1>14 DEF Inv

(* The sink is asked for: with REMOVE, NEW, or SERVER if none is specified.*)
LEMMA SinkAsked ==
  ASSUME Levels, Inv, runner \in {"idle", "volume known"}, runner' = "sink", subscribed' = subscribed,
         NEW e \in Types, LooksUp(e), transit' = Append(transit, Reply("sink", Wanted(e))),
         m_events' \in Seq(Types), m_events' # <<>>,
         UNCHANGED <<spec_s_name, server, adapter, missed>>,
         misled' <=> (misled \/ Misleads(e)),
         \A S : Among(Rest, S) <=> e \in S \/ Among(Rest', S)
  PROVE  Inv'
<1> DEFINE w == Wanted(e)
           v == Reply("sink", w)
<1>1. /\ sinks' = sinks /\ default' = default /\ next' = next /\ m_index' = m_index /\ cv' = cv /\ muted' = muted
      /\ spec_s_name' = spec_s_name
  BY DEF server, adapter
<1>2. Orderly /\ Known /\ m_index \in 1 .. next - 1
  BY Indices DEF Inv
<1>3. Named(spec_s_name) \subseteq DOMAIN sinks /\ (spec_s_name = "" => Named(spec_s_name) = {})
  <2>1. \A i \in DOMAIN sinks : sinks[i].name # ""
    BY <1>2 DEF Known, Sinks
  <2> QED
    BY <2>1 DEF Named
<1>4. \/ e = "NEW" /\ spec_s_name # "" /\ w = ByName(spec_s_name)
      \/ (e = "REMOVE" \/ spec_s_name = "") /\ w = default
  <2>1. e \in {"NEW", "REMOVE", "SERVER"} /\ (e = "SERVER" => spec_s_name = "")
    BY DEF LooksUp
  <2>2. CASE e = "NEW" /\ spec_s_name # ""
    BY <2>2 DEF Wanted
  <2>3. CASE ~(e = "NEW" /\ spec_s_name # "")
    <3>1. e = "REMOVE" \/ (e \in {"NEW", "SERVER"} /\ spec_s_name = "")
      BY <2>1, <2>3
    <3>2. w = default
      BY <2>3, <3>1 DEF Wanted
    <3> QED
      BY <3>1, <3>2
  <2> QED
    BY <2>2, <2>3
<1>5. w \in {0} \cup DOMAIN sinks /\ w \in Nat
  <2>1. default \in DOMAIN sinks /\ 0 \in Nat /\ \A i \in DOMAIN sinks : i \in Nat
    BY <1>2, Indices
  <2>2. w \in {0, default} \cup Named(spec_s_name)
    BY <1>4 DEF ByName
  <2> QED
    BY <1>3, <2>1, <2>2
<1>6. transit \in Seq(Message) /\ transit' = Append(transit, v) /\ v \in Message /\ v.is = "sink" /\ v.index = w
  <2>1. transit \in Seq(Message)
    BY <1>2 DEF Orderly
  <2>2. v \in Message
    BY <1>5, Messages
  <2>3. v.is = "sink" /\ v.index = w
    BY DEF Reply
  <2> QED
    BY <2>1, <2>2, <2>3
<1>7. v \in Replies("sink") /\ v \notin Replies("volume") /\ (\A i : v = Reply("sink", i) => i = w) /\ (\A type, i : v # Event(type, i))
  <2>1. v \in Replies("sink") /\ v \notin Replies("volume")
    BY <1>6 DEF Replies
  <2>2. ASSUME NEW i, v = Reply("sink", i)
        PROVE  i = w
    BY <2>2, Different
  <2>3. ASSUME NEW type, NEW i, v = Event(type, i)
        PROVE  FALSE
    BY <2>3, Different
  <2> QED
    BY <2>1, <2>2, <2>3
<1> HIDE DEF v, w
<1>8. /\ transit' \in Seq(Message)
      /\ \A S : Among(transit', S) <=> Among(transit, S) \/ v \in S
      /\ \A S : Single(transit, S) /\ ~(v \in S /\ Among(transit, S)) => Single(transit', S)
      /\ InOrder(transit) /\ (\A k \in 1 .. Len(transit) : ~Passes(transit[k], v)) => InOrder(transit')
  <2>1. /\ Append(transit, v) \in Seq(Message)
        /\ \A S : Among(Append(transit, v), S) <=> Among(transit, S) \/ v \in S
        /\ \A S : Single(transit, S) /\ ~(v \in S /\ Among(transit, S)) => Single(Append(transit, v), S)
        /\ InOrder(transit) /\ (\A k \in 1 .. Len(transit) : ~Passes(transit[k], v)) => InOrder(Append(transit, v))
    BY <1>6, SentOne
  <2> QED
    BY <1>6, <2>1
<1>9. ~Among(transit, Replies("volume")) /\ ~Among(transit, Replies("sink"))
  BY <1>2 DEF Orderly
<1>10. ASSUME NEW k \in 1 .. Len(transit), Passes(transit[k], v)
       PROVE  FALSE
  <2>1. /\ transit[k].is = "event" /\ transit[k].type = "REMOVE" /\ v = Reply("sink", transit[k].index)
    BY <1>10 DEF Passes
  <2>2. transit[k] \in Message
    <3>1. transit \in [1 .. Len(transit) -> Message]
      BY <1>6, LenProperties
    <3> QED
      BY <3>1
  <2>3. transit[k].index \in Nat /\ transit[k] = Event("REMOVE", transit[k].index)
    BY <2>1, <2>2, Messages DEF Replies
  <2>4. Among(transit, {Event("REMOVE", transit[k].index)})
    BY <2>3 DEF Among
  <2>5. transit[k].index \in (1 .. next - 1) \ DOMAIN sinks
    BY <1>2, <2>3, <2>4 DEF Known
  <2>6. transit[k].index = w
    BY <1>7, <2>1
  <2>7. transit[k].index # 0
    <3>1. \A i \in 1 .. next - 1 : i # 0
      BY <1>2, Indices
    <3>2. transit[k].index \in 1 .. next - 1
      BY <2>5
    <3> QED
      BY <3>1, <3>2, Zenon
  <2> QED
    BY <1>5, <2>5, <2>6, <2>7, Zenon
<1>11. Orderly'
  <2>1. Single(transit', Replies("sink")) /\ Single(transit', Replies("volume")) /\ InOrder(transit')
    BY <1>2, <1>7, <1>8, <1>9, <1>10 DEF Orderly
  <2>2. Among(transit', Replies("sink")) /\ ~Among(transit', Replies("volume"))
    BY <1>7, <1>8, <1>9
  <2>3. subscribed' <=> runner' # "subscribe"
    BY <1>2 DEF Orderly
  <2> QED
    BY <1>8, <2>1, <2>2, <2>3 DEF Orderly
<1>12. Known'
  <2>1. cv' \in 0 .. MaxVolume /\ muted' \in BOOLEAN /\ UNCHANGED <<server, m_index>>
    BY <1>1, <1>2 DEF Known, server
  <2>2. \A i \in Nat : Among(transit', {Reply("sink", i)}) => Among(transit, {Reply("sink", i)}) \/ i \in {0} \cup DOMAIN sinks
    BY <1>5, <1>7, <1>8
  <2>3. \A i \in Nat : Among(transit', {Event("REMOVE", i)}) => Among(transit, {Event("REMOVE", i)})
    BY <1>7, <1>8
  <2> QED
    BY <1>2, <2>1, <2>2, <2>3, KnownKept
<1>13. \A S : Among(transit, S) => Among(transit', S)
  BY <1>8
<1>14. Named(spec_s_name)' = Named(spec_s_name)
  BY <1>1 DEF Named
<1>15. ASSUME ~missed, NEW i \in 1 .. next - 1, Takes(i)'
       PROVE  i = w \/ (w = 0 /\ i = m_index)
  <2>1. \A j \in Nat : Among(transit', {Reply("sink", j)}) => j = w
    <3> SUFFICES ASSUME NEW j \in Nat, Among(transit', {Reply("sink", j)})
                 PROVE  j = w
      OBVIOUS
    <3>1. Reply("sink", j) \in Replies("sink")
      BY Messages DEF Replies
    <3>2. ~Among(transit, {Reply("sink", j)})
      BY <1>9, <3>1 DEF Among
    <3>3. v = Reply("sink", j)
      BY <1>8, <3>2
    <3> QED
      BY <1>7, <3>3
  <2>2. i \in Nat /\ 0 \in Nat
    BY <1>2, Indices
  <2> QED
    BY <1>1, <1>15, <2>1, <2>2 DEF Takes
<1>16. ASSUME ~missed
       PROVE  Existing(m_index) /\ Specific(m_index)
  <2>1. Takes(m_index)
    BY DEF Takes
  <2> QED
    BY <1>2, <1>16, <2>1 DEF Inv, Taking
<1>17. ASSUME ~missed, NEW i \in 1 .. next - 1, Takes(i)'
       PROVE  Existing(i)' /\ Defaulted(i)' /\ Specific(i)'
  <2>1. CASE (e = "REMOVE" \/ spec_s_name = "") /\ w = default
    <3>1. default \in DOMAIN sinks /\ default # 0
      BY <1>2, Indices
    <3>2. i = default
      BY <1>15, <1>17, <2>1, <3>1
    <3>3. Existing(i)' /\ Defaulted(i)'
      BY <1>1, <3>1, <3>2 DEF Existing, Defaulted
    <3>4. Specific(i)'
      <4> SUFFICES ASSUME ~misled', Named(spec_s_name) # {}
                   PROVE  Specific(i)'
        BY <1>14 DEF Specific
      <4>1. e = "REMOVE" /\ ~misled /\ m_index \notin DOMAIN sinks
        BY <1>3, <2>1 DEF Misleads
      <4>2. m_index \notin Named(spec_s_name)
        BY <1>3, <4>1
      <4>3. Among(transit, {Event("NEW", j) : j \in Nat}) \/ Among(Rest, {"NEW"})
        BY <1>16, <1>17, <4>1, <4>2 DEF Specific
      <4>4. Among(transit', {Event("NEW", j) : j \in Nat}) \/ Among(Rest', {"NEW"})
        BY <1>13, <4>1, <4>3
      <4> QED
        BY <4>4 DEF Specific
    <3> QED
      BY <3>3, <3>4
  <2>2. CASE e = "NEW" /\ spec_s_name # "" /\ w = ByName(spec_s_name) /\ Named(spec_s_name) # {}
    <3>1. w \in Named(spec_s_name)
      BY <2>2 DEF ByName
    <3>2. w # 0 /\ w \in DOMAIN sinks
      <4>1. w \in DOMAIN sinks
        BY <1>3, <3>1
      <4> QED
        BY <1>2, <4>1, Indices
    <3>3. i = w
      BY <1>15, <1>17, <3>2
    <3> QED
      BY <1>1, <1>14, <2>2, <3>1, <3>2, <3>3 DEF Existing, Defaulted, Specific
  <2>3. CASE e = "NEW" /\ spec_s_name # "" /\ w = ByName(spec_s_name) /\ Named(spec_s_name) = {}
    <3>1. w = 0
      BY <2>3 DEF ByName
    <3>2. i = m_index
      <4>1. i # 0
        BY <1>2, Indices
      <4> QED
        BY <1>15, <1>17, <3>1, <4>1
    <3>3. Existing(i)'
      BY <1>1, <1>13, <1>16, <1>17, <2>3, <3>2 DEF Existing
    <3> QED
      BY <1>1, <1>14, <2>3, <3>3 DEF Defaulted, Specific
  <2> QED
    BY <1>4, <2>1, <2>2, <2>3
<1>18. ASSUME ~missed
       PROVE  (Taking /\ Read /\ Showing)'
  BY <1>1, <1>17, <1>18 DEF Taking, Read, Showing
<1>19. missed' <=> missed
  OBVIOUS
<1> QED
  BY <1>11, <1>12, <1>18, <1>19 DEF Inv

(* An event that was processed leaves the rest in the queue.                *)
LEMMA Processed ==
  ASSUME Levels, Inv, runner \in {"idle", "volume known"}, subscribed' = subscribed,
         NEW e \in Types, Process(e), m_events' \in Seq(Types), m_events' # <<>>,
         UNCHANGED <<spec_s_name, server, adapter, missed>>,
         misled' <=> (misled \/ Misleads(e)),
         \A S : Among(Rest, S) <=> e \in S \/ Among(Rest', S)
  PROVE  Inv'
<1>1. CASE LooksUp(e)
  <2>1. runner' = "sink" /\ transit' = Append(transit, Reply("sink", Wanted(e)))
    BY <1>1 DEF Process
  <2> QED
    BY <1>1, <2>1, SinkAsked
<1>2. CASE ~LooksUp(e)
  <2>1. runner' = "volume" /\ transit' = Append(transit, VolumeReply(m_index))
    BY <1>2 DEF Process
  <2>2. e \in {"CHANGE", "SERVER"} /\ (e = "SERVER" => spec_s_name # "")
    BY <1>2 DEF LooksUp, Types
  <2>3. misled' <=> misled
    BY <2>2 DEF Misleads
  <2>4. \A type \in {"REMOVE", "NEW"} : Among(Rest, {type}) => Among(Rest', {type})
    BY <2>2
  <2>5. spec_s_name = "" /\ Among(Rest, {"SERVER", "NEW", "REMOVE"}) => Among(Rest', {"SERVER", "NEW", "REMOVE"})
    BY <2>2
  <2>6. subscribed'
    BY DEF Inv, Orderly
  <2> QED
    BY <2>1, <2>3, <2>4, <2>5, <2>6, VolumeAsked
<1> QED
  BY <1>1, <1>2

(* Processing the first event keeps the invariant.                          *)
LEMMA HasEventKeeps ==
  ASSUME Levels, Inv, HasEvent
  PROVE  Inv'
<1>1. /\ runner = "idle" /\ m_events # <<>> /\ Process(Head(m_events)) /\ m_events' = m_events
      /\ (misled' <=> (misled \/ Misleads(Head(m_events)))) /\ subscribed' = subscribed
      /\ UNCHANGED <<spec_s_name, server, adapter, missed>>
  BY DEF HasEvent
<1>2. m_events \in Seq(Types)
  BY DEF Inv, Orderly
<1>3. Rest = m_events /\ Rest' = Tail(m_events)
  <2>1. runner' \in {"sink", "volume"}
    BY <1>1 DEF Process
  <2> QED
    BY <1>1, <2>1 DEF Rest, InHand
<1>4. Head(m_events) \in Types /\ \A S : Among(Rest, S) <=> Head(m_events) \in S \/ Among(Rest', S)
  BY <1>1, <1>2, <1>3, TakenOne
<1> QED
  BY <1>1, <1>2, <1>4, Processed

(* So does taking it off the queue.                                         *)
LEMMA PopKeeps ==
  ASSUME Levels, Inv, Pop
  PROVE  Inv'
<1> DEFINE p == Popped
<1>1. /\ runner = "volume known" /\ m_events' = p /\ subscribed' = subscribed
      /\ UNCHANGED <<spec_s_name, server, adapter, missed>>
  BY DEF Pop
<1>2. Rest = p /\ p \in Seq(Types)
  <2>1. InHand /\ m_events \in Seq(Types) /\ m_events # <<>>
    BY <1>1 DEF Inv, Orderly, InHand
  <2> QED
    BY <2>1, TakenOne DEF Popped, Rest
<1>3. CASE p # <<>>
  <2>1. Process(Head(p)) /\ (misled' <=> (misled \/ Misleads(Head(p))))
    BY <1>3 DEF Pop
  <2>2. Rest' = Tail(p)
    <3>1. runner' \in {"sink", "volume"}
      BY <2>1 DEF Process
    <3> QED
      BY <1>1, <3>1 DEF Rest, InHand
  <2> HIDE DEF p
  <2>3. Head(p) \in Types /\ \A S : Among(Rest, S) <=> Head(p) \in S \/ Among(Rest', S)
    BY <1>2, <1>3, <2>2, TakenOne
  <2> QED
    BY <1>1, <1>2, <1>3, <2>1, <2>3, Processed
<1>4. CASE p = <<>>
  <2>1. runner' = "update" /\ transit' = transit /\ (misled' <=> misled) /\ (missed' <=> missed)
    BY <1>4 DEF Pop
  <2>2. Rest' = Rest
    BY <1>1, <1>2, <2>1 DEF Rest, InHand
  <2>3. sinks' = sinks /\ default' = default /\ next' = next /\ m_index' = m_index /\ cv' = cv /\ muted' = muted
        /\ spec_s_name' = spec_s_name
    BY <1>1 DEF server, adapter
  <2> HIDE DEF p
  <2>4. Orderly'
    BY <1>1, <1>2, <2>1 DEF Inv, Orderly, InHand
  <2>5. Known'
    BY <2>1, <2>3 DEF Inv, Known
  <2>6. ASSUME ~missed
        PROVE  (Taking /\ Read /\ Showing)'
    <3>1. \A i : (Takes(i)' <=> Takes(i)) /\ (Existing(i)' <=> Existing(i)) /\ (Defaulted(i)' <=> Defaulted(i))
      BY <1>1, <2>1, <2>2, <2>3 DEF Takes, Existing, Defaulted
    <3>2. \A i : Specific(i)' <=> Specific(i)
      <4>1. Named(spec_s_name)' = Named(spec_s_name)
        BY <2>3 DEF Named
      <4> QED
        BY <2>1, <2>2, <4>1 DEF Specific
    <3>3. Taking'
      BY <2>3, <2>6, <3>1, <3>2 DEF Inv, Taking
    <3>4. Read' /\ Showing'
      BY <1>1, <2>1, <2>2, <2>3, <2>6 DEF Inv, Read, Showing, Changing
    <3> QED
      BY <3>3, <3>4
  <2> QED
    BY <2>1, <2>4, <2>5, <2>6 DEF Inv
<1> QED
  BY <1>3, <1>4

(* So does the update that follows.                                         *)
LEMMA UpdateKeeps ==
  ASSUME Levels, Inv, Update
  PROVE  Inv'
<1>1. /\ runner = "update" /\ runner' = "idle" /\ m_volume' = cv /\ m_muted' = muted
      /\ m_events' = m_events /\ transit' = transit /\ (misled' <=> misled) /\ (missed' <=> missed) /\ subscribed' = subscribed
      /\ spec_s_name' = spec_s_name /\ UNCHANGED <<server, adapter>>
  BY DEF Update
<1>2. sinks' = sinks /\ default' = default /\ next' = next /\ m_index' = m_index /\ cv' = cv /\ muted' = muted
  BY <1>1 DEF server, adapter
<1>3. Rest' = Rest
  BY <1>1 DEF Rest, InHand
<1>4. Orderly'
  BY <1>1 DEF Inv, Orderly, InHand
<1>5. Known'
  BY <1>1, <1>2 DEF Inv, Known
<1>6. ASSUME ~missed
      PROVE  (Taking /\ Read /\ Showing)'
  <2>1. \A i : (Takes(i)' <=> Takes(i)) /\ (Existing(i)' <=> Existing(i)) /\ (Defaulted(i)' <=> Defaulted(i))
    BY <1>1, <1>2, <1>3 DEF Takes, Existing, Defaulted
  <2>2. \A i : Specific(i)' <=> Specific(i)
    <3>1. Named(spec_s_name)' = Named(spec_s_name)
      BY <1>1, <1>2 DEF Named
    <3> QED
      BY <1>1, <1>3, <3>1 DEF Specific
  <2>3. Taking'
    BY <1>2, <1>6, <2>1, <2>2 DEF Inv, Taking
  <2>4. Read' /\ Showing'
    BY <1>1, <1>2, <1>3, <1>6 DEF Inv, Read, Showing, Changing
  <2> QED
    BY <2>3, <2>4
<1> QED
  BY <1>1, <1>4, <1>5, <1>6 DEF Inv

(* So does each step of the runner.                                         *)
LEMMA RunnerKeeps ==
  ASSUME Levels, Inv, RunnerStep
  PROVE  Inv'
<1>1. CASE Subscribe
  <2>1. /\ runner = "subscribe" /\ runner' = "first" /\ subscribed' /\ transit' = Append(transit, VolumeReply(m_index))
        /\ m_events' = m_events /\ UNCHANGED <<spec_s_name, server, adapter, missed>> /\ (misled' <=> misled)
    BY <1>1 DEF Subscribe
  <2>2. m_events \in Seq(Types)
    BY DEF Inv, Orderly
  <2>3. Rest' = Rest
    BY <2>1 DEF Rest, InHand
  <2> QED
    BY <2>1, <2>2, <2>3, VolumeAsked
<1>2. CASE UpdateVolume
  <2>1. /\ runner = "sink known" /\ runner' = "volume" /\ transit' = Append(transit, VolumeReply(m_index))
        /\ m_events' = m_events /\ subscribed' = subscribed /\ UNCHANGED <<spec_s_name, server, adapter, missed>> /\ (misled' <=> misled)
    BY <1>2 DEF UpdateVolume
  <2>2. m_events \in Seq(Types) /\ subscribed' /\ m_events # <<>>
    BY <2>1 DEF Inv, Orderly, InHand
  <2>3. Rest' = Rest
    BY <2>1 DEF Rest, InHand
  <2> QED
    BY <2>1, <2>2, <2>3, VolumeAsked
<1> QED
  BY <1>1, <1>2, HasEventKeeps, PopKeeps, UpdateKeeps DEF RunnerStep

(* The mainloop dispatches.  What it finds:                                *)
LEMMA Dispatched ==
  ASSUME Inv, transit # <<>>
  PROVE  /\ Tail(transit) \in Seq(Message) /\ Head(transit) \in Message
         /\ \A S : Among(transit, S) <=> Head(transit) \in S \/ Among(Tail(transit), S)
         /\ \A S : Single(transit, S) => Single(Tail(transit), S) /\ ~(Head(transit) \in S /\ Among(Tail(transit), S))
         /\ InOrder(Tail(transit)) /\ \A i : Among(Tail(transit), {Reply("sink", i)}) => ~Passes(Head(transit), Reply("sink", i))
<1>1. transit \in Seq(Message) /\ InOrder(transit)
  BY DEF Inv, Orderly
<1>2. /\ Tail(transit) \in Seq(Message) /\ Head(transit) \in Message
      /\ \A S : Among(transit, S) <=> Head(transit) \in S \/ Among(Tail(transit), S)
      /\ \A S : Single(transit, S) => Single(Tail(transit), S) /\ ~(Head(transit) \in S /\ Among(Tail(transit), S))
      /\ InOrder(Tail(transit)) /\ \A k \in 1 .. Len(Tail(transit)) : ~Passes(Head(transit), Tail(transit)[k])
  BY <1>1, TakenOne
<1>3. \A i : Among(Tail(transit), {Reply("sink", i)}) => ~Passes(Head(transit), Reply("sink", i))
  BY <1>2 DEF Among
<1> QED
  BY <1>2, <1>3

(* An event: it joins the queue, or is about another sink.                 *)
LEMMA EventKeeps ==
  ASSUME Levels, Inv, transit # <<>>, transit' = Tail(transit), Head(transit).is = "event", SubscribeCallback(Head(transit)),
         UNCHANGED <<spec_s_name, server, subscribed, module>>, missed' <=> missed, misled' <=> misled
  PROVE  Inv'
<1> DEFINE m == Head(transit)
<1>1. /\ sinks' = sinks /\ default' = default /\ next' = next /\ m_index' = m_index /\ cv' = cv /\ muted' = muted
      /\ spec_s_name' = spec_s_name /\ runner' = runner /\ m_volume' = m_volume /\ m_muted' = m_muted /\ subscribed' = subscribed
      /\ m_events' = IF m.type \in {"CHANGE", "REMOVE"} /\ m.index # m_index THEN m_events ELSE Append(m_events, m.type)
  BY DEF SubscribeCallback, server, adapter, module
<1>2. /\ transit' \in Seq(Message) /\ m \in Message
      /\ \A S : Among(transit, S) <=> m \in S \/ Among(transit', S)
      /\ \A S : Single(transit, S) => Single(transit', S)
      /\ InOrder(transit') /\ \A i : Among(transit', {Reply("sink", i)}) => ~Passes(m, Reply("sink", i))
  BY Dispatched
<1>3. m.is = "event"
  OBVIOUS
<1> HIDE DEF m
<1>4. m.type \in Types /\ m.index \in Nat /\ m = Event(m.type, m.index)
  BY <1>2, <1>3, Messages DEF Replies
<1>5. Orderly /\ Known /\ m_events \in Seq(Types)
  BY DEF Inv, Orderly
<1>6. /\ \A to \in {"sink", "volume"} : Among(transit', Replies(to)) <=> Among(transit, Replies(to))
      /\ \A i : Among(transit', {Reply("sink", i)}) <=> Among(transit, {Reply("sink", i)})
  <2>1. \A to \in {"sink", "volume"} : m \notin Replies(to)
    BY <1>3 DEF Replies
  <2>2. \A i : m # Reply("sink", i)
    BY <1>4, Different
  <2> QED
    BY <1>2, <2>1, <2>2
<1>7. /\ Append(m_events, m.type) \in Seq(Types) /\ Append(m_events, m.type) # <<>>
      /\ m_events # <<>> => Tail(Append(m_events, m.type)) = Append(Tail(m_events), m.type)
  BY <1>4, <1>5
<1>8. InHand' = InHand /\ (InHand => m_events # <<>>)
  BY <1>1, <1>5 DEF InHand, Orderly
<1>9. Rest \in Seq(Types)
  BY <1>5, <1>8, TakenOne DEF Rest
<1>10. /\ m_events' \in Seq(Types) /\ (InHand' => m_events' # <<>>)
       /\ \/ m.type \in {"CHANGE", "REMOVE"} /\ m.index # m_index /\ \A S : Among(Rest', S) <=> Among(Rest, S)
          \/ \A S : Among(Rest', S) <=> Among(Rest, S) \/ m.type \in S
  <2>1. CASE m.type \in {"CHANGE", "REMOVE"} /\ m.index # m_index
    <3>1. m_events' = m_events
      BY <1>1, <2>1
    <3>2. Rest' = Rest
      BY <1>8, <3>1 DEF Rest
    <3> QED
      BY <1>5, <1>8, <2>1, <3>1, <3>2
  <2>2. CASE ~(m.type \in {"CHANGE", "REMOVE"} /\ m.index # m_index)
    <3>1. m_events' = Append(m_events, m.type)
      BY <1>1, <2>2
    <3>2. Rest' = Append(Rest, m.type)
      BY <1>7, <1>8, <3>1 DEF Rest
    <3>3. \A S : Among(Append(Rest, m.type), S) <=> Among(Rest, S) \/ m.type \in S
      BY <1>4, <1>9, SentOne
    <3> QED
      BY <1>7, <3>1, <3>2, <3>3
  <2> QED
    BY <2>1, <2>2
<1>11. Orderly'
  <2>1. Single(transit', Replies("sink")) /\ Single(transit', Replies("volume"))
    BY <1>2, <1>5 DEF Orderly
  <2>2. (Among(transit', Replies("sink")) <=> runner' = "sink") /\ (Among(transit', Replies("volume")) <=> runner' \in {"volume", "first"})
    BY <1>1, <1>5, <1>6 DEF Orderly
  <2>3. subscribed' <=> runner' # "subscribe"
    BY <1>1, <1>5 DEF Orderly
  <2> QED
    BY <1>2, <1>10, <2>1, <2>2, <2>3 DEF Orderly
<1>12. Known'
  <2>1. UNCHANGED <<server, m_index>> /\ cv' \in 0 .. MaxVolume /\ muted' \in BOOLEAN
    BY <1>1, <1>5 DEF Known, server
  <2> QED
    BY <1>2, <1>5, <1>6, <2>1, KnownKept
<1>13. \A S : Among(Rest, S) => Among(Rest', S)
  BY <1>10
<1>14. \A i : Takes(i)' <=> Takes(i)
  BY <1>1, <1>6 DEF Takes
<1>15. Named(spec_s_name)' = Named(spec_s_name)
  BY <1>1 DEF Named
<1>16. ASSUME ~missed, NEW i \in 1 .. next - 1, Takes(i)
       PROVE  Existing(i)' /\ Defaulted(i)' /\ Specific(i)'
  <2>1. Existing(i) /\ Defaulted(i) /\ Specific(i)
    BY <1>16 DEF Inv, Taking
  <2>2. Existing(i)'
    <3>1. CASE m = Event("REMOVE", i)
      <4>1. m.type = "REMOVE" /\ m.index = i
        BY <3>1, Messages
      <4>2. CASE i = m_index
        BY <1>10, <4>1, <4>2 DEF Existing
      <4>3. CASE i # m_index
        <5>1. runner = "sink" /\ Among(transit, {Reply("sink", i)})
          BY <1>16, <4>3 DEF Takes
        <5>2. ~Passes(m, Reply("sink", i))
          BY <1>2, <1>6, <5>1
        <5> QED
          BY <1>3, <4>1, <5>2 DEF Passes
      <4> QED
        BY <4>2, <4>3
    <3>2. CASE m # Event("REMOVE", i)
      <4>1. Among(transit, {Event("REMOVE", i)}) => Among(transit', {Event("REMOVE", i)})
        BY <1>2, <3>2
      <4> QED
        BY <1>1, <1>13, <2>1, <4>1 DEF Existing
    <3> QED
      BY <3>1, <3>2
  <2>3. Defaulted(i)'
    <3>1. CASE m = Event("SERVER", 0)
      <4>1. m.type = "SERVER"
        BY <3>1, Messages
      <4>2. Among(Rest', {"SERVER", "NEW", "REMOVE"})
        BY <1>10, <4>1
      <4> QED
        BY <4>2 DEF Defaulted
    <3>2. CASE m # Event("SERVER", 0)
      <4>1. Among(transit, {Event("SERVER", 0)}) => Among(transit', {Event("SERVER", 0)})
        BY <1>2, <3>2
      <4> QED
        BY <1>1, <1>13, <2>1, <4>1 DEF Defaulted
    <3> QED
      BY <3>1, <3>2
  <2>4. Specific(i)'
    <3>1. CASE m \in {Event("NEW", j) : j \in Nat}
      <4>1. m.type = "NEW"
        BY <3>1, Messages
      <4>2. Among(Rest', {"NEW"})
        BY <1>10, <4>1
      <4> QED
        BY <4>2 DEF Specific
    <3>2. CASE m \notin {Event("NEW", j) : j \in Nat}
      <4>1. Among(transit, {Event("NEW", j) : j \in Nat}) => Among(transit', {Event("NEW", j) : j \in Nat})
        BY <1>2, <3>2
      <4> QED
        BY <1>1, <1>13, <1>15, <2>1, <4>1 DEF Specific
    <3> QED
      BY <3>1, <3>2
  <2> QED
    BY <2>2, <2>3, <2>4
<1>17. ASSUME ~Changing'
       PROVE  ~Changing
  <2>1. ~Among(Rest', Types) /\ ~Among(transit', {Event("CHANGE", m_index)})
    BY <1>1, <1>17 DEF Changing
  <2>2. m.index # m_index
    BY <1>4, <1>10, <2>1
  <2>3. m # Event("CHANGE", m_index)
    BY <2>2, Messages
  <2> QED
    BY <1>2, <1>13, <2>1, <2>3 DEF Changing
<1>18. ASSUME ~missed
       PROVE  (Taking /\ Read /\ Showing)'
  <2>1. Taking'
    BY <1>1, <1>14, <1>16, <1>18 DEF Taking
  <2>2. VolumeReply(m_index)' = VolumeReply(m_index) /\ VolumeReply(m_index) \in Replies("volume")
    BY <1>1, <1>5, Indices, VolumeReplies DEF VolumeReply
  <2>3. m # VolumeReply(m_index)
    BY <1>3, <2>2 DEF Replies
  <2>4. Among(transit, {VolumeReply(m_index)}) <=> Among(transit', {VolumeReply(m_index)})
    BY <1>2, <2>3
  <2>5. Read'
    BY <1>1, <1>17, <1>18, <2>2, <2>4 DEF Inv, Read
  <2>6. Showing'
    BY <1>1, <1>17, <1>18 DEF Inv, Showing
  <2> QED
    BY <2>1, <2>5, <2>6
<1> QED
  BY <1>11, <1>12, <1>18 DEF Inv

(* Nobody waits for what an action is told.                                *)
LEMMA Quiet ==
  ASSUME Inv, UNCHANGED <<spec_s_name, server, subscribed, m_events, m_index, cv, muted, module, runner>>,
         missed' <=> missed, misled' <=> misled,
         transit' \in Seq(Message), InOrder(transit'), \A S : Single(transit, S) => Single(transit', S),
         \A S : (\A m \in S : m.is # "done") => (Among(transit', S) <=> Among(transit, S))
  PROVE  Inv'
<1>1. /\ sinks' = sinks /\ default' = default /\ next' = next /\ m_index' = m_index /\ cv' = cv /\ muted' = muted
      /\ spec_s_name' = spec_s_name /\ runner' = runner /\ m_volume' = m_volume /\ m_muted' = m_muted /\ subscribed' = subscribed
      /\ m_events' = m_events
  BY DEF server, module
<1>2. Rest' = Rest /\ InHand' = InHand
  BY <1>1 DEF Rest, InHand
<1>3. /\ \A to \in {"sink", "volume"} : Among(transit', Replies(to)) <=> Among(transit, Replies(to))
      /\ \A i : Among(transit', {Reply("sink", i)}) <=> Among(transit, {Reply("sink", i)})
      /\ \A type, i : Among(transit', {Event(type, i)}) <=> Among(transit, {Event(type, i)})
      /\ Among(transit', {Event("NEW", j) : j \in Nat}) <=> Among(transit, {Event("NEW", j) : j \in Nat})
  <2>1. ASSUME NEW to \in {"sink", "volume"}
        PROVE  Among(transit', Replies(to)) <=> Among(transit, Replies(to))
    BY DEF Replies
  <2>2. ASSUME NEW i
        PROVE  Among(transit', {Reply("sink", i)}) <=> Among(transit, {Reply("sink", i)})
    <3>1. Reply("sink", i).is # "done"
      BY Messages
    <3> QED
      BY <3>1
  <2>3. ASSUME NEW type, NEW i
        PROVE  Among(transit', {Event(type, i)}) <=> Among(transit, {Event(type, i)})
    <3>1. Event(type, i).is # "done"
      BY Messages
    <3> QED
      BY <3>1
  <2>4. Among(transit', {Event("NEW", j) : j \in Nat}) <=> Among(transit, {Event("NEW", j) : j \in Nat})
    <3>1. \A m \in {Event("NEW", j) : j \in Nat} : m.is # "done"
      BY Messages
    <3> QED
      BY <3>1
  <2> QED
    BY <2>1, <2>2, <2>3, <2>4
<1>4. Orderly'
  <2>1. Orderly /\ Single(transit', Replies("sink")) /\ Single(transit', Replies("volume"))
    BY DEF Inv, Orderly
  <2> QED
    BY <1>1, <1>2, <1>3, <2>1 DEF Orderly
<1>5. Known
  BY DEF Inv
<1>6. Known'
  <2>1. UNCHANGED <<server, m_index>> /\ cv' \in 0 .. MaxVolume /\ muted' \in BOOLEAN
    BY <1>1, <1>5 DEF Known, server
  <2> QED
    BY <1>3, <1>5, <2>1, KnownKept
<1>7. ASSUME ~missed
      PROVE  (Taking /\ Read /\ Showing)'
  <2>1. \A i : (Takes(i)' <=> Takes(i)) /\ (Existing(i)' <=> Existing(i)) /\ (Defaulted(i)' <=> Defaulted(i))
    BY <1>1, <1>2, <1>3 DEF Takes, Existing, Defaulted
  <2>2. \A i : Specific(i)' <=> Specific(i)
    <3>1. Named(spec_s_name)' = Named(spec_s_name)
      BY <1>1 DEF Named
    <3> QED
      BY <1>1, <1>2, <1>3, <3>1 DEF Specific
  <2>3. Taking'
    BY <1>1, <1>7, <2>1, <2>2 DEF Inv, Taking
  <2>4. Changing' <=> Changing
    BY <1>1, <1>2, <1>3 DEF Changing
  <2>5. VolumeReply(m_index)' = VolumeReply(m_index) /\ VolumeReply(m_index) \in Replies("volume")
    BY <1>1, <1>5, Indices, VolumeReplies DEF VolumeReply
  <2>6. Among(transit', {VolumeReply(m_index)}) <=> Among(transit, {VolumeReply(m_index)})
    BY <2>5 DEF Replies
  <2>7. Read' /\ Showing'
    BY <1>1, <1>7, <2>4, <2>5, <2>6 DEF Inv, Read, Showing
  <2> QED
    BY <2>3, <2>7
<1> QED
  BY <1>4, <1>6, <1>7 DEF Inv

(* So does the end of an operation.                                         *)
LEMMA DoneKeeps ==
  ASSUME Inv, transit # <<>>, transit' = Tail(transit), Head(transit).is = "done", SimpleCallback(Head(transit)),
         UNCHANGED <<spec_s_name, server, subscribed, module>>, missed' <=> missed, misled' <=> misled
  PROVE  Inv'
<1>1. UNCHANGED <<spec_s_name, server, subscribed, m_events, m_index, cv, muted, module, runner>>
  BY DEF SimpleCallback
<1>2. /\ transit' \in Seq(Message) /\ InOrder(transit')
      /\ \A S : Single(transit, S) => Single(transit', S)
      /\ \A S : Among(transit, S) <=> Head(transit) \in S \/ Among(transit', S)
  BY Dispatched
<1>3. ASSUME NEW S, \A m \in S : m.is # "done"
      PROVE  Among(transit', S) <=> Among(transit, S)
  <2>1. Head(transit) \notin S
    BY <1>3
  <2> QED
    BY <1>2, <2>1
<1> QED
  BY <1>1, <1>2, <1>3, Quiet

(* The sink that was asked for.                                            *)
LEMMA SinkKeeps ==
  ASSUME Inv, transit # <<>>, transit' = Tail(transit), Head(transit).is = "sink", SinkInfoCallback(Head(transit)),
         UNCHANGED <<spec_s_name, server, subscribed, module>>, missed' <=> missed, misled' <=> misled
  PROVE  Inv'
<1> DEFINE m == Head(transit)
<1>1. /\ sinks' = sinks /\ default' = default /\ next' = next /\ cv' = cv /\ muted' = muted
      /\ spec_s_name' = spec_s_name /\ runner' = "sink known" /\ m_volume' = m_volume /\ m_muted' = m_muted /\ subscribed' = subscribed
      /\ m_events' = m_events /\ m_index' = IF m.index = 0 THEN m_index ELSE m.index
  BY DEF SinkInfoCallback, server, module
<1>2. /\ transit' \in Seq(Message) /\ m \in Message
      /\ \A S : Among(transit, S) <=> m \in S \/ Among(transit', S)
      /\ \A S : Single(transit, S) => Single(transit', S) /\ ~(m \in S /\ Among(transit', S))
      /\ InOrder(transit')
  BY Dispatched
<1>3. m.is = "sink"
  OBVIOUS
<1> HIDE DEF m
<1>4. Orderly /\ Known
  BY DEF Inv
<1>5. m \in Replies("sink") /\ m.index \in Nat /\ m = Reply("sink", m.index)
  <2>1. m \in Replies("sink")
    BY <1>2, <1>3 DEF Replies
  <2> QED
    BY <2>1, Messages
<1>6. runner = "sink" /\ ~Among(transit, Replies("volume"))
  <2>1. Among(transit, Replies("sink"))
    BY <1>2, <1>5
  <2>2. runner = "sink"
    BY <1>4, <2>1 DEF Orderly
  <2> QED
    BY <1>4, <2>2 DEF Orderly
<1>7. Rest' = Rest /\ (InHand' <=> InHand)
  <2>1. InHand' <=> InHand
    BY <1>1, <1>6 DEF InHand
  <2> QED
    BY <1>1, <2>1 DEF Rest
<1>8. Orderly'
  <2>1. Single(transit', Replies("sink")) /\ Single(transit', Replies("volume")) /\ ~Among(transit', Replies("sink"))
    BY <1>2, <1>4, <1>5 DEF Orderly
  <2>2. ~Among(transit', Replies("volume"))
    BY <1>2, <1>6
  <2>3. subscribed
    BY <1>4, <1>6 DEF Orderly
  <2>4. m_events' \in Seq(Types) /\ (InHand' => m_events' # <<>>)
    BY <1>1, <1>4, <1>7 DEF Orderly
  <2> QED
    BY <1>1, <1>2, <2>1, <2>2, <2>3, <2>4 DEF Orderly
<1>9. m_index' \in 1 .. next - 1
  <2>1. Among(transit, {Reply("sink", m.index)})
    BY <1>2, <1>5
  <2>2. m.index \in 0 .. next - 1
    BY <1>4, <1>5, <2>1 DEF Known
  <2>3. m_index \in 1 .. next - 1 /\ next \in Nat
    BY <1>4, Indices
  <2>4. CASE m.index = 0
    BY <1>1, <2>3, <2>4
  <2>5. CASE m.index # 0
    <3>1. m.index \in 1 .. next - 1
      BY <2>2, <2>3, <2>5
    <3> QED
      BY <1>1, <2>5, <3>1
  <2> QED
    BY <2>4, <2>5
<1>10. Known'
  <2>1. \A S : Among(transit', S) => Among(transit, S)
    BY <1>2
  <2> QED
    BY <1>1, <1>4, <1>9, <2>1 DEF Known
<1>11. ASSUME ~missed
       PROVE  (Taking /\ Read /\ Showing)'
  <2>1. Takes(m_index')
    <3>1. Among(transit, {Reply("sink", m.index)})
      BY <1>2, <1>5
    <3> QED
      BY <1>1, <1>6, <3>1 DEF Takes
  <2>2. Existing(m_index') /\ Defaulted(m_index') /\ Specific(m_index')
    BY <1>9, <1>11, <2>1 DEF Inv, Taking
  <2>3. \A type, i : Among(transit', {Event(type, i)}) <=> Among(transit, {Event(type, i)})
    BY <1>2, <1>5, Different
  <2>4. Among(transit', {Event("NEW", j) : j \in Nat}) <=> Among(transit, {Event("NEW", j) : j \in Nat})
    BY <1>2, <1>5, Different
  <2>5. ASSUME NEW i \in 1 .. next - 1, i = m_index'
        PROVE  Existing(i)' /\ Defaulted(i)' /\ Specific(i)'
    <3>1. Existing(i) /\ Defaulted(i) /\ Specific(i)
      BY <2>2, <2>5
    <3>2. Existing(i)'
      BY <1>1, <1>7, <2>3, <3>1 DEF Existing
    <3>3. Defaulted(i)'
      BY <1>1, <1>7, <2>3, <3>1 DEF Defaulted
    <3>4. Specific(i)'
      <4>1. Named(spec_s_name)' = Named(spec_s_name)
        BY <1>1 DEF Named
      <4> QED
        BY <1>1, <1>7, <2>4, <3>1, <4>1 DEF Specific
    <3> QED
      BY <3>2, <3>3, <3>4
  <2>6. \A i : Takes(i)' => i = m_index'
    BY <1>1 DEF Takes
  <2>7. Taking'
    BY <1>1, <2>5, <2>6 DEF Taking
  <2>8. Read' /\ Showing'
    BY <1>1 DEF Read, Showing
  <2> QED
    BY <2>7, <2>8
<1> QED
  BY <1>8, <1>10, <1>11 DEF Inv

(* The volume that was asked for.                                          *)
LEMMA VolumeKeeps ==
  ASSUME Inv, transit # <<>>, transit' = Tail(transit), Head(transit).is = "volume", GetSinkVolumeCallback(Head(transit)),
         UNCHANGED <<spec_s_name, server, subscribed, module>>, missed' <=> missed, misled' <=> misled
  PROVE  Inv'
<1> DEFINE m == Head(transit)
<1>1. /\ sinks' = sinks /\ default' = default /\ next' = next /\ m_index' = m_index
      /\ spec_s_name' = spec_s_name /\ m_volume' = m_volume /\ m_muted' = m_muted /\ subscribed' = subscribed
      /\ m_events' = m_events /\ runner' = IF runner = "first" THEN "update" ELSE "volume known"
  BY DEF GetSinkVolumeCallback, server, module
<1>2. /\ transit' \in Seq(Message) /\ m \in Message
      /\ \A S : Among(transit, S) <=> m \in S \/ Among(transit', S)
      /\ \A S : Single(transit, S) => Single(transit', S) /\ ~(m \in S /\ Among(transit', S))
      /\ InOrder(transit')
  BY Dispatched
<1>3. m.is = "volume" /\ IF m.index = 0 THEN UNCHANGED <<cv, muted>> ELSE cv' = m.vol /\ muted' = m.mute
  BY DEF GetSinkVolumeCallback
<1> HIDE DEF m
<1>4. Orderly /\ Known
  BY DEF Inv
<1>5. m \in Replies("volume") /\ m \notin Replies("sink") /\ (\A type, i : m # Event(type, i)) /\ (\A i : m # Reply("sink", i))
  <2>1. m \in Replies("volume") /\ m \notin Replies("sink")
    BY <1>2, <1>3 DEF Replies
  <2>2. ASSUME NEW type, NEW i, m = Event(type, i)
        PROVE  FALSE
    <3>1. Event(type, i).is = "event"
      BY Messages
    <3> QED
      BY <1>3, <2>2, <3>1
  <2>3. ASSUME NEW i, m = Reply("sink", i)
        PROVE  FALSE
    <3>1. Reply("sink", i).is = "sink"
      BY Messages
    <3> QED
      BY <1>3, <2>3, <3>1
  <2> QED
    BY <2>1, <2>2, <2>3
<1>6. runner \in {"volume", "first"} /\ ~Among(transit, Replies("sink"))
  <2>1. Among(transit, Replies("volume"))
    BY <1>2, <1>5
  <2>2. runner \in {"volume", "first"}
    BY <1>4, <2>1 DEF Orderly
  <2> QED
    BY <1>4, <2>2 DEF Orderly
<1>7. Rest' = Rest /\ (InHand' <=> InHand)
  <2>1. InHand' <=> InHand
    BY <1>1, <1>6 DEF InHand
  <2> QED
    BY <1>1, <2>1 DEF Rest
<1>8. Orderly'
  <2>1. Single(transit', Replies("sink")) /\ Single(transit', Replies("volume")) /\ ~Among(transit', Replies("volume"))
    BY <1>2, <1>4, <1>5 DEF Orderly
  <2>2. ~Among(transit', Replies("sink"))
    BY <1>2, <1>6
  <2>3. runner' \in {"update", "volume known"}
    BY <1>1
  <2>4. subscribed' <=> runner' # "subscribe"
    <3>1. subscribed
      BY <1>4, <1>6 DEF Orderly
    <3> QED
      BY <1>1, <2>3, <3>1
  <2>5. InHand' => m_events' # <<>>
    BY <1>1, <1>4, <1>7 DEF Orderly
  <2>6. m_events' \in Seq(Types)
    BY <1>1, <1>4 DEF Orderly
  <2> QED
    BY <1>2, <2>1, <2>2, <2>3, <2>4, <2>5, <2>6 DEF Orderly
<1>9. Known'
  <2>1. \A S : Among(transit', S) => Among(transit, S)
    BY <1>2
  <2>2. cv' \in 0 .. MaxVolume
    BY <1>3, <1>4, <1>5, Messages DEF Known
  <2>3. muted' \in BOOLEAN
    BY <1>3, <1>4, <1>5, Messages DEF Known
  <2>4. UNCHANGED <<server, m_index>>
    BY <1>1
  <2> QED
    BY <1>4, <2>1, <2>2, <2>3, <2>4, KnownKept
<1>10. \A type, i : Among(transit', {Event(type, i)}) <=> Among(transit, {Event(type, i)})
  BY <1>2, <1>5
<1>11. ASSUME ~missed
       PROVE  (Taking /\ Read /\ Showing)'
  <2>1. \A i : (Takes(i)' <=> Takes(i)) /\ (Existing(i)' <=> Existing(i)) /\ (Defaulted(i)' <=> Defaulted(i))
    BY <1>1, <1>6, <1>7, <1>10 DEF Takes, Existing, Defaulted
  <2>2. \A i : Specific(i)' <=> Specific(i)
    <3>1. Named(spec_s_name)' = Named(spec_s_name)
      BY <1>1 DEF Named
    <3>2. Among(transit', {Event("NEW", j) : j \in Nat}) <=> Among(transit, {Event("NEW", j) : j \in Nat})
      BY <1>2, <1>5
    <3> QED
      BY <1>1, <1>7, <3>1, <3>2 DEF Specific
  <2>3. Taking'
    BY <1>1, <1>11, <2>1, <2>2 DEF Inv, Taking
  <2>4. Changing' <=> Changing
    BY <1>1, <1>7, <1>10 DEF Changing
  <2>5. ASSUME m_index \in DOMAIN sinks, ~Changing
        PROVE  cv' = sinks[m_index].vol /\ muted' = sinks[m_index].mute
    <3> DEFINE v == VolumeReply(m_index)
    <3>1. Among(transit, {v})
      BY <1>6, <1>11, <2>5 DEF Inv, Read
    <3>2. v \in Replies("volume") /\ v.index = m_index /\ v.vol = sinks[m_index].vol /\ v.mute = sinks[m_index].mute /\ m_index # 0
      BY <1>4, <2>5, Indices, VolumeReplies
    <3> HIDE DEF v
    <3>3. m = v
      <4>1. ~Among(transit', {v})
        <5>1. ~Among(transit', Replies("volume"))
          BY <1>2, <1>4, <1>5 DEF Orderly
        <5> QED
          BY <3>2, <5>1 DEF Among
      <4> QED
        BY <1>2, <3>1, <4>1
    <3>4. cv' = v.vol /\ muted' = v.mute
      BY <1>3, <3>2, <3>3
    <3> QED
      BY <3>2, <3>4
  <2>6. Read' /\ Showing'
    <3>1. runner' \in {"update", "volume known"}
      BY <1>1
    <3> QED
      BY <1>1, <2>4, <2>5, <3>1 DEF Read, Showing
  <2> QED
    BY <2>3, <2>6
<1> QED
  BY <1>8, <1>9, <1>11 DEF Inv

(* So does each message that the mainloop  dispatches.                      *)
LEMMA DispatchKeeps ==
  ASSUME Levels, Inv, Dispatch
  PROVE  Inv'
<1>1. /\ transit # <<>> /\ transit' = Tail(transit)
      /\ UNCHANGED <<spec_s_name, server, subscribed, module>> /\ (missed' <=> missed) /\ (misled' <=> misled)
  BY DEF Dispatch
<1>2. \/ Head(transit).is = "event" /\ SubscribeCallback(Head(transit))
      \/ Head(transit).is = "sink" /\ SinkInfoCallback(Head(transit))
      \/ Head(transit).is = "volume" /\ GetSinkVolumeCallback(Head(transit))
      \/ Head(transit).is = "done" /\ SimpleCallback(Head(transit))
  BY DEF Dispatch
<1> QED
  BY <1>1, <1>2, EventKeeps, SinkKeeps, VolumeKeeps, DoneKeeps

(* What is sent without a request: M joins the messages of q in n.         *)
Grown(q, n, M) ==
  /\ n \in Seq(Message) /\ (InOrder(q) => InOrder(n))
  /\ \A to \in {"sink", "volume"} : Single(q, Replies(to)) => Single(n, Replies(to))
  /\ \A m \in M : m.is \in {"event", "done"} /\ Among(n, {m})
  /\ \A S : Among(q, S) => Among(n, S)
  /\ \A S : Among(n, S) => Among(q, S) \/ \E m \in M : m \in S

(* A queue to which nothing was added.                                      *)
LEMMA GrownNone ==
  ASSUME NEW q \in Seq(Message)
  PROVE  Grown(q, q, {})
  BY DEF Grown

(* A queue to which one message was added.                                  *)
LEMMA GrownOne ==
  ASSUME NEW q \in Seq(Message), NEW a \in Message, a.is \in {"event", "done"}
  PROVE  Grown(q, q \o <<a>>, {a})
<1> DEFINE r == <<a>>
           n == q \o r
<1>1. r \in Seq(Message) /\ (\A k \in 1 .. Len(r) : r[k].is \in {"event", "done"}) /\ \A S : Among(r, S) <=> a \in S
  BY AmongFew
<1> HIDE DEF r
<1>2. /\ q \o r \in Seq(Message)
      /\ \A S : Among(q \o r, S) <=> Among(q, S) \/ Among(r, S)
      /\ \A to \in {"sink", "volume"} : Single(q, Replies(to)) => Single(q \o r, Replies(to))
      /\ InOrder(q) => InOrder(q \o r)
  BY <1>1, SentMore
<1> HIDE DEF n
<1>3. \A S : Among(n, S) <=> Among(q, S) \/ a \in S
  BY <1>1, <1>2 DEF n
<1>4. n \in Seq(Message) /\ (InOrder(q) => InOrder(n)) /\ \A to \in {"sink", "volume"} : Single(q, Replies(to)) => Single(n, Replies(to))
  BY <1>2 DEF n
<1>5. Grown(q, n, {a})
  BY <1>3, <1>4 DEF Grown
<1> QED
  BY <1>5 DEF n, r

(* A queue to which two were added.                                         *)
LEMMA GrownTwo ==
  ASSUME NEW q \in Seq(Message), NEW a \in Message, NEW b \in Message,
         a.is \in {"event", "done"}, b.is \in {"event", "done"}
  PROVE  Grown(q, q \o <<a, b>>, {a, b})
<1> DEFINE r == <<a, b>>
           n == q \o r
<1>1. r \in Seq(Message) /\ (\A k \in 1 .. Len(r) : r[k].is \in {"event", "done"}) /\ \A S : Among(r, S) <=> a \in S \/ b \in S
  <2>1. r \in Seq(Message) /\ Len(r) = 2 /\ r[1] = a /\ r[2] = b
    OBVIOUS
  <2>2. \A k \in 1 .. 2 : k \in {1, 2}
    OBVIOUS
  <2>3. \A S : Among(r, S) <=> a \in S \/ b \in S
    BY AmongFew
  <2> QED
    BY <2>1, <2>2, <2>3
<1> HIDE DEF r
<1>2. /\ q \o r \in Seq(Message)
      /\ \A S : Among(q \o r, S) <=> Among(q, S) \/ Among(r, S)
      /\ \A to \in {"sink", "volume"} : Single(q, Replies(to)) => Single(q \o r, Replies(to))
      /\ InOrder(q) => InOrder(q \o r)
  BY <1>1, SentMore
<1> HIDE DEF n
<1>3. \A S : Among(n, S) <=> Among(q, S) \/ a \in S \/ b \in S
  BY <1>1, <1>2 DEF n
<1>4. n \in Seq(Message) /\ (InOrder(q) => InOrder(n)) /\ \A to \in {"sink", "volume"} : Single(q, Replies(to)) => Single(n, Replies(to))
  BY <1>2 DEF n
<1>5. Grown(q, n, {a, b})
  BY <1>3, <1>4 DEF Grown
<1> QED
  BY <1>5 DEF n, r

(* What was added in two steps was added.                                   *)
LEMMA GrownTwice ==
  ASSUME NEW q, NEW n, NEW p, NEW M, NEW N, Grown(q, n, M), Grown(n, p, N)
  PROVE  Grown(q, p, M \cup N)
<1>1. \A m \in M \cup N : m.is \in {"event", "done"} /\ Among(p, {m})
  BY DEF Grown
<1>2. \A S : Among(p, S) => Among(q, S) \/ \E m \in M \cup N : m \in S
  BY DEF Grown
<1> QED
  BY <1>1, <1>2 DEF Grown

(* Nobody waits for any of it, and no sink is asked for again.             *)
LEMMA GrownKeeps ==
  ASSUME Inv, NEW M, Grown(transit, transit', M), Known',
         UNCHANGED <<spec_s_name, subscribed, m_events, m_index, muted, module, runner>>, misled' <=> misled,
         next <= next', next' \in Nat, missed => missed',
         ~missed' => \A i \in 1 .. next - 1 :
                       Existing(i) /\ Defaulted(i) /\ Specific(i) => Existing(i)' /\ Defaulted(i)' /\ Specific(i)',
         ~missed' /\ m_index \in DOMAIN sinks' /\ Event("CHANGE", m_index) \notin M =>
           m_index \in DOMAIN sinks /\ sinks'[m_index] = sinks[m_index] /\ cv' \in {cv, sinks[m_index].vol}
  PROVE  Inv'
<1>1. /\ m_index' = m_index /\ muted' = muted /\ m_events' = m_events
      /\ spec_s_name' = spec_s_name /\ runner' = runner /\ m_volume' = m_volume /\ m_muted' = m_muted /\ subscribed' = subscribed
  BY DEF module
<1>2. Rest' = Rest /\ (InHand' <=> InHand)
  BY <1>1 DEF Rest, InHand
<1>3. /\ \A to \in {"sink", "volume"} : Among(transit', Replies(to)) <=> Among(transit, Replies(to))
      /\ \A m \in Message : m.is \in {"sink", "volume"} /\ Among(transit', {m}) => Among(transit, {m})
      /\ \A S : Among(transit, S) => Among(transit', S)
  <2>1. \A S : Among(transit, S) => Among(transit', S)
    BY DEF Grown
  <2>2. ASSUME NEW S, \A m \in S : m.is \in {"sink", "volume"}, Among(transit', S)
        PROVE  Among(transit, S)
    <3>1. ASSUME NEW m \in M, m \in S
          PROVE  FALSE
      <4>1. m.is \in {"event", "done"}
        BY DEF Grown
      <4> QED
        BY <2>2, <3>1, <4>1
    <3> QED
      BY <2>2, <3>1 DEF Grown
  <2>3. ASSUME NEW to \in {"sink", "volume"}
        PROVE  Among(transit', Replies(to)) <=> Among(transit, Replies(to))
    <3>1. \A m \in Replies(to) : m.is \in {"sink", "volume"}
      BY DEF Replies
    <3> QED
      BY <2>1, <2>2, <3>1
  <2>4. ASSUME NEW m \in Message, m.is \in {"sink", "volume"}, Among(transit', {m})
        PROVE  Among(transit, {m})
    <3>1. \A x \in {m} : x.is \in {"sink", "volume"}
      BY <2>4
    <3> QED
      BY <2>2, <2>4, <3>1
  <2> QED
    BY <2>1, <2>3, <2>4
<1>4. \A i \in Nat : Among(transit', {Reply("sink", i)}) <=> Among(transit, {Reply("sink", i)})
  <2> SUFFICES ASSUME NEW i \in Nat
               PROVE  Among(transit', {Reply("sink", i)}) <=> Among(transit, {Reply("sink", i)})
    OBVIOUS
  <2>1. Reply("sink", i) \in Message /\ Reply("sink", i).is = "sink"
    BY Messages
  <2> QED
    BY <1>3, <2>1
<1>5. Orderly /\ Known
  BY DEF Inv
<1>6. Orderly'
  <2>1. transit' \in Seq(Message) /\ InOrder(transit') /\ Single(transit', Replies("sink")) /\ Single(transit', Replies("volume"))
    BY <1>5 DEF Grown, Orderly
  <2>2. (Among(transit', Replies("sink")) <=> runner' = "sink") /\ (Among(transit', Replies("volume")) <=> runner' \in {"volume", "first"})
    BY <1>1, <1>3, <1>5 DEF Orderly
  <2>3. (subscribed' <=> runner' # "subscribe") /\ m_events' \in Seq(Types) /\ (InHand' => m_events' # <<>>)
    BY <1>1, <1>2, <1>5 DEF Orderly
  <2> QED
    BY <2>1, <2>2, <2>3 DEF Orderly
<1>7. ASSUME ~missed', NEW i \in 1 .. next' - 1, Takes(i)'
      PROVE  i \in 1 .. next - 1 /\ Takes(i)
  <2>1. i \in Nat /\ i # 0 /\ 0 \in Nat /\ next \in Nat
    BY <1>5 DEF Known
  <2>2. Takes(i)
    BY <1>1, <1>4, <1>7, <2>1 DEF Takes
  <2>3. i = m_index \/ Among(transit, {Reply("sink", i)})
    BY <2>2 DEF Takes
  <2>4. CASE i = m_index
    BY <1>5, <2>2, <2>4, Indices
  <2>5. CASE Among(transit, {Reply("sink", i)})
    <3>1. i \in 0 .. next - 1
      BY <1>5, <2>1, <2>5 DEF Known
    <3>2. i \in 1 .. next - 1
      BY <2>1, <3>1
    <3> QED
      BY <2>2, <3>2
  <2> QED
    BY <2>3, <2>4, <2>5
<1>8. ASSUME ~missed'
      PROVE  (Taking /\ Read /\ Showing)'
  <2>1. Taking /\ Read /\ Showing
    BY <1>8 DEF Inv
  <2>2. Taking'
    <3> SUFFICES ASSUME NEW i \in 1 .. next' - 1, Takes(i)'
                 PROVE  Existing(i)' /\ Defaulted(i)' /\ Specific(i)'
      BY DEF Taking
    <3>1. i \in 1 .. next - 1 /\ Takes(i)
      BY <1>7, <1>8
    <3>2. Existing(i) /\ Defaulted(i) /\ Specific(i)
      BY <2>1, <3>1 DEF Taking
    <3> QED
      BY <1>8, <3>1, <3>2
  <2>3. ASSUME ~Changing'
        PROVE  ~Changing /\ Event("CHANGE", m_index) \notin M
    <3>1. ~Among(transit', {Event("CHANGE", m_index)}) /\ ~Among(Rest, Types)
      BY <1>1, <1>2, <2>3 DEF Changing
    <3>2. ~Among(transit, {Event("CHANGE", m_index)})
      BY <1>3, <3>1
    <3>3. Event("CHANGE", m_index) \notin M
      BY <3>1 DEF Grown
    <3> QED
      BY <3>1, <3>2, <3>3 DEF Changing
  <2>4. ASSUME ~Changing', m_index \in DOMAIN sinks'
        PROVE  /\ ~Changing /\ m_index \in DOMAIN sinks /\ sinks'[m_index] = sinks[m_index]
               /\ cv' \in {cv, sinks[m_index].vol}
    BY <1>8, <2>3, <2>4
  <2>5. ASSUME ~Changing', m_index \in DOMAIN sinks', runner \in {"volume", "first"}
        PROVE  Among(transit', {VolumeReply(m_index)'})
    <3>1. Among(transit, {VolumeReply(m_index)})
      BY <2>1, <2>4, <2>5 DEF Read
    <3>2. VolumeReply(m_index)' = VolumeReply(m_index)
      BY <1>1, <2>4, <2>5 DEF VolumeReply
    <3> QED
      BY <1>3, <3>1, <3>2
  <2>6. ASSUME ~Changing', m_index \in DOMAIN sinks',
               runner \notin {"subscribe", "sink", "sink known", "volume", "first"}
        PROVE  cv' = sinks'[m_index].vol /\ muted' = sinks'[m_index].mute /\ cv' = cv
    <3>1. cv = sinks[m_index].vol /\ muted = sinks[m_index].mute
      BY <2>1, <2>4, <2>6 DEF Read
    <3> QED
      BY <1>1, <2>4, <2>6, <3>1
  <2>7. Read'
    BY <1>1, <2>5, <2>6 DEF Read
  <2>8. Showing'
    BY <1>1, <2>1, <2>4, <2>6 DEF Showing
  <2> QED
    BY <2>2, <2>7, <2>8
<1> QED
  BY <1>6, <1>8 DEF Inv

(* The server sends each event, unless nobody has subscribed.               *)
LEMMA Sending ==
  ASSUME Inv, NEW a \in Message, NEW b \in Message, a.is = "event", b.is = "event",
         NEW r \in {<<a>>, <<a, b>>}, Sends(r)
  PROVE  /\ \E M : /\ Grown(transit, transit', M) /\ M \subseteq {a, b} /\ (r = <<a>> => M \subseteq {a})
                   /\ ~missed' => a \in M /\ (r = <<a, b>> => b \in M)
         /\ UNCHANGED <<spec_s_name, subscribed, m_events, adapter, module, runner>>
         /\ (misled' <=> misled) /\ (missed => missed') /\ (missed' <=> missed \/ ~subscribed)
<1>1. /\ UNCHANGED <<spec_s_name, subscribed, m_events, adapter, module, runner>>
      /\ (misled' <=> misled) /\ (missed' <=> missed \/ ~subscribed)
      /\ transit' = IF subscribed THEN transit \o r ELSE transit
  BY DEF Sends
<1>2. transit \in Seq(Message)
  BY DEF Inv, Orderly
<1>3. \E M : /\ Grown(transit, transit', M) /\ M \subseteq {a, b} /\ (r = <<a>> => M \subseteq {a})
             /\ ~missed' => a \in M /\ (r = <<a, b>> => b \in M)
  <2>1. CASE ~subscribed
    <3>1. Grown(transit, transit', {}) /\ missed'
      BY <1>1, <1>2, <2>1, GrownNone
    <3> QED
      BY <3>1
  <2>2. CASE subscribed /\ r = <<a>>
    <3>1. Grown(transit, transit', {a})
      BY <1>1, <1>2, <2>2, GrownOne
    <3>2. <<a>> # <<a, b>>
      OBVIOUS
    <3> QED
      BY <2>2, <3>1, <3>2
  <2>3. CASE subscribed /\ r = <<a, b>>
    <3>1. Grown(transit, transit', {a, b})
      BY <1>1, <1>2, <2>3, GrownTwo
    <3>2. <<a>> # <<a, b>>
      OBVIOUS
    <3> QED
      BY <2>3, <3>1, <3>2
  <2> QED
    BY <2>1, <2>2, <2>3
<1> QED
  BY <1>1, <1>3

(* The next number is larger than those before.                             *)
LEMMA Further ==
  ASSUME NEW a \in Nat, NEW b \in {a, a + 1}
  PROVE  /\ b \in Nat /\ a <= b
         /\ \A i \in 1 .. a - 1 : i \in 1 .. b - 1
         /\ \A i \in 0 .. a - 1 : i \in 0 .. b - 1
  OBVIOUS

(* What is known of the sinks, after some events.                          *)
LEMMA KnownGrown ==
  ASSUME Known, NEW M, Grown(transit, transit', M), m_index' = m_index, cv' \in 0 .. MaxVolume, muted' = muted,
         next' \in {next, next + 1}, default' \in DOMAIN sinks', DOMAIN sinks' \subseteq 1 .. next' - 1,
         \A i \in DOMAIN sinks' : sinks'[i] \in Sinks,
         \A i, j \in DOMAIN sinks' : sinks'[i].name = sinks'[j].name => i = j,
         \A i \in 1 .. next - 1 : i \in DOMAIN sinks' => i \in DOMAIN sinks,
         \A i \in Nat : Event("REMOVE", i) \in M => i \in (1 .. next - 1) \ DOMAIN sinks'
  PROVE  Known'
<1>1. next \in Nat
  BY DEF Known
<1>2. next' \in Nat /\ \A i \in 1 .. next - 1 : i \in 1 .. next' - 1
  BY <1>1, Further
<1>3. \A i \in 0 .. next - 1 : i \in 0 .. next' - 1
  BY <1>1, Further
<1>4. m_index' \in 1 .. next' - 1
  BY <1>2 DEF Known
<1>5. ASSUME NEW i \in Nat, Among(transit', {Reply("sink", i)})
      PROVE  i \in 0 .. next' - 1
  <2>1. \A m \in M : m # Reply("sink", i)
    <3>1. Reply("sink", i).is = "sink" /\ \A m \in M : m.is \in {"event", "done"}
      BY Messages DEF Grown
    <3> QED
      BY <3>1
  <2>2. Among(transit, {Reply("sink", i)})
    BY <1>5, <2>1 DEF Grown
  <2>3. i \in 0 .. next - 1
    BY <2>2 DEF Known
  <2> QED
    BY <1>3, <2>3
<1>6. ASSUME NEW i \in Nat, Among(transit', {Event("REMOVE", i)})
      PROVE  i \in (1 .. next' - 1) \ DOMAIN sinks'
  <2>1. Among(transit, {Event("REMOVE", i)}) \/ Event("REMOVE", i) \in M
    BY <1>6 DEF Grown
  <2>2. i \in (1 .. next - 1) \ DOMAIN sinks'
    BY <2>1 DEF Known
  <2> QED
    BY <1>2, <2>2
<1>7. muted' \in BOOLEAN
  BY DEF Known
<1> QED
  BY <1>2, <1>4, <1>5, <1>6, <1>7 DEF Known

(* Another default sink keeps the invariant.                                *)
LEMMA SetDefaultKeeps ==
  ASSUME Inv, SetDefault
  PROVE  Inv'
<1>1. PICK i \in DOMAIN sinks \ {default} : default' = i /\ UNCHANGED <<sinks, next>> /\ Sends(<<Event("SERVER", 0)>>)
  BY DEF SetDefault
<1> DEFINE a == Event("SERVER", 0)
<1>2. a \in Message /\ a.is = "event" /\ \A type, j : a = Event(type, j) => type = "SERVER"
  <2>1. ASSUME NEW type, NEW j, a = Event(type, j)
        PROVE  type = "SERVER"
    <3>1. a.type = "SERVER" /\ Event(type, j).type = type
      BY Messages
    <3> QED
      BY <2>1, <3>1, Zenon
  <2> QED
    BY <2>1, Messages DEF Types
<1> HIDE DEF a
<1>3. /\ \E M : Grown(transit, transit', M) /\ M \subseteq {a} /\ (~missed' => a \in M)
      /\ UNCHANGED <<spec_s_name, subscribed, m_events, adapter, module, runner>>
      /\ (misled' <=> misled) /\ (missed => missed')
  <2>1. Sends(<<a>>)
    BY <1>1 DEF a
  <2> QED
    BY <1>2, <2>1, Sending
<1>4. PICK M : Grown(transit, transit', M) /\ M \subseteq {a} /\ (~missed' => a \in M)
  BY <1>3
<1>5. m_index' = m_index /\ muted' = muted /\ cv' = cv /\ sinks' = sinks /\ next' = next /\ spec_s_name' = spec_s_name /\ m_events' = m_events /\ runner' = runner
  BY <1>1, <1>3 DEF adapter
<1>6. Known
  BY DEF Inv
<1>7. Known'
  <2>1. cv' \in 0 .. MaxVolume /\ default' \in DOMAIN sinks'
    BY <1>1, <1>5, <1>6 DEF Known
  <2>2. \A j \in Nat : Event("REMOVE", j) \notin M
    BY <1>2, <1>4
  <2> QED
    BY <1>4, <1>5, <1>6, <2>1, <2>2, KnownGrown DEF Known
<1>8. Named(spec_s_name)' = Named(spec_s_name) /\ Rest' = Rest
  BY <1>5 DEF Named, Rest, InHand
<1>9. \A S : Among(transit, S) => Among(transit', S)
  BY <1>4 DEF Grown
<1>10. ASSUME ~missed', NEW j \in 1 .. next - 1, Existing(j) /\ Defaulted(j) /\ Specific(j)
       PROVE  Existing(j)' /\ Defaulted(j)' /\ Specific(j)'
  <2>1. Existing(j)'
    BY <1>5, <1>8, <1>9, <1>10 DEF Existing
  <2>2. Defaulted(j)'
    <3>1. Among(transit', {a})
      BY <1>4, <1>10 DEF Grown
    <3> QED
      BY <3>1 DEF Defaulted, a
  <2>3. Specific(j)'
    BY <1>3, <1>8, <1>9, <1>10 DEF Specific
  <2> QED
    BY <2>1, <2>2, <2>3
<1>11. next <= next' /\ next' \in Nat
  <2>1. next \in Nat
    BY <1>6 DEF Known
  <2> QED
    BY <1>5, <2>1
<1> QED
  BY <1>3, <1>4, <1>5, <1>7, <1>10, <1>11, GrownKeeps

(* So does muting a sink.                                                   *)
LEMMA MuteSinkKeeps ==
  ASSUME Inv, MuteSink
  PROVE  Inv'
<1>1. PICK i \in DOMAIN sinks : sinks' = [sinks EXCEPT ![i].mute = ~@] /\ UNCHANGED <<default, next>> /\ Sends(<<Event("CHANGE", i)>>)
  BY DEF MuteSink
<1> DEFINE a == Event("CHANGE", i)
<1>6. Known
  BY DEF Inv
<1>2. a \in Message /\ a.is = "event" /\ \A type, j : a = Event(type, j) => type = "CHANGE"
  <2>1. ASSUME NEW type, NEW j, a = Event(type, j)
        PROVE  type = "CHANGE"
    <3>1. a.type = "CHANGE" /\ Event(type, j).type = type
      BY Messages
    <3> QED
      BY <2>1, <3>1, Zenon
  <2>2. i \in Nat
    BY <1>6, Indices
  <2> QED
    BY <2>1, <2>2, Messages DEF Types
<1> HIDE DEF a
<1>3. /\ \E M : Grown(transit, transit', M) /\ M \subseteq {a} /\ (~missed' => a \in M)
      /\ UNCHANGED <<spec_s_name, subscribed, m_events, adapter, module, runner>>
      /\ (misled' <=> misled) /\ (missed => missed')
  <2>1. Sends(<<a>>)
    BY <1>1 DEF a
  <2> QED
    BY <1>2, <2>1, Sending
<1>4. PICK M : Grown(transit, transit', M) /\ M \subseteq {a} /\ (~missed' => a \in M)
  BY <1>3
<1>5. m_index' = m_index /\ muted' = muted /\ cv' = cv /\ default' = default /\ next' = next /\ spec_s_name' = spec_s_name /\ m_events' = m_events /\ runner' = runner
  BY <1>1, <1>3 DEF adapter
<1>12. /\ DOMAIN sinks' = DOMAIN sinks
       /\ \A j \in DOMAIN sinks : sinks'[j] \in Sinks /\ sinks'[j].name = sinks[j].name
       /\ \A j \in DOMAIN sinks : j # i => sinks'[j] = sinks[j]
  <2>1. \A j \in DOMAIN sinks : sinks[j] \in Sinks
    BY <1>6 DEF Known
  <2>2. DOMAIN sinks' = DOMAIN sinks /\ (\A j \in DOMAIN sinks : j # i => sinks'[j] = sinks[j]) /\ sinks'[i] = [sinks[i] EXCEPT !.mute = ~sinks[i].mute]
    BY <1>1
  <2>3. sinks[i] \in Sinks
    BY <2>1
  <2>4. sinks'[i] \in Sinks /\ sinks'[i].name = sinks[i].name
    BY <2>2, <2>3 DEF Sinks
  <2> QED
    BY <2>1, <2>2, <2>4
<1>7. Known'
  <2>1. cv' \in 0 .. MaxVolume /\ default' \in DOMAIN sinks' /\ DOMAIN sinks' \subseteq 1 .. next' - 1
    BY <1>5, <1>6, <1>12 DEF Known
  <2>2. \A j \in Nat : Event("REMOVE", j) \notin M
    BY <1>2, <1>4
  <2>3. \A j, k \in DOMAIN sinks' : sinks'[j].name = sinks'[k].name => j = k
    BY <1>6, <1>12 DEF Known
  <2> QED
    BY <1>4, <1>5, <1>6, <1>12, <2>1, <2>2, <2>3, KnownGrown
<1>8. Named(spec_s_name)' = Named(spec_s_name) /\ Rest' = Rest
  <2>1. Rest' = Rest
    BY <1>5 DEF Rest, InHand
  <2>2. Named(spec_s_name)' = Named(spec_s_name)
    BY <1>5, <1>12 DEF Named
  <2> QED
    BY <2>1, <2>2
<1>9. \A S : Among(transit, S) => Among(transit', S)
  BY <1>4 DEF Grown
<1>10. ASSUME ~missed', NEW j \in 1 .. next - 1, Existing(j) /\ Defaulted(j) /\ Specific(j)
       PROVE  Existing(j)' /\ Defaulted(j)' /\ Specific(j)'
  <2>1. Existing(j)'
    BY <1>8, <1>9, <1>10, <1>12 DEF Existing
  <2>2. Defaulted(j)'
    BY <1>5, <1>8, <1>9, <1>10 DEF Defaulted
  <2>3. Specific(j)'
    BY <1>3, <1>8, <1>9, <1>10 DEF Specific
  <2> QED
    BY <2>1, <2>2, <2>3
<1>11. next <= next' /\ next' \in Nat
  <2>1. next \in Nat
    BY <1>6 DEF Known
  <2> QED
    BY <1>5, <2>1
<1>13. ASSUME ~missed', m_index \in DOMAIN sinks', Event("CHANGE", m_index) \notin M
       PROVE  m_index \in DOMAIN sinks /\ sinks'[m_index] = sinks[m_index] /\ cv' \in {cv, sinks[m_index].vol}
  <2>1. m_index # i
    BY <1>4, <1>13 DEF a
  <2> QED
    BY <1>5, <1>12, <1>13, <2>1
<1> QED
  BY <1>3, <1>4, <1>5, <1>7, <1>10, <1>11, <1>13, GrownKeeps

(* So does a new sink.                                                      *)
LEMMA NewSinkKeeps ==
  ASSUME Levels, Inv, NewSink
  PROVE  Inv'
<1> DEFINE a == Event("NEW", next)
<1>1. next' = next + 1 /\ default' = default /\ Sends(<<a>>)
  BY DEF NewSink
<1>13. PICK n \in {"usb", "tv"} \ {sinks[i].name : i \in DOMAIN sinks} :
         sinks' = [i \in DOMAIN sinks \cup {next} |-> IF i = next THEN [name |-> n, vol |-> 2, mute |-> FALSE] ELSE sinks[i]]
  BY DEF NewSink
<1>6. Known
  BY DEF Inv
<1>2. a \in Message /\ a.is = "event" /\ (\A type, j : a = Event(type, j) => type = "NEW") /\ next \in Nat
  <2>1. ASSUME NEW type, NEW j, a = Event(type, j)
        PROVE  type = "NEW"
    <3>1. a.type = "NEW" /\ Event(type, j).type = type
      BY Messages
    <3> QED
      BY <2>1, <3>1, Zenon
  <2>2. next \in Nat
    BY <1>6, Indices
  <2> QED
    BY <2>1, <2>2, Messages DEF Types
<1>14. a \in {Event("NEW", j) : j \in Nat}
  BY <1>2
<1> HIDE DEF a
<1>3. /\ \E M : Grown(transit, transit', M) /\ M \subseteq {a} /\ (~missed' => a \in M)
      /\ UNCHANGED <<spec_s_name, subscribed, m_events, adapter, module, runner>>
      /\ (misled' <=> misled) /\ (missed => missed')
  BY <1>1, <1>2, Sending
<1>4. PICK M : Grown(transit, transit', M) /\ M \subseteq {a} /\ (~missed' => a \in M)
  BY <1>3
<1>5. m_index' = m_index /\ muted' = muted /\ cv' = cv /\ spec_s_name' = spec_s_name /\ m_events' = m_events /\ runner' = runner
  BY <1>1, <1>3 DEF adapter
<1>15. next \notin 1 .. next - 1 /\ m_index # next /\ next \notin DOMAIN sinks /\ next <= next' /\ next' \in Nat /\ next \in 1 .. next' - 1
       /\ \A i \in 1 .. next - 1 : i \in 1 .. next' - 1
  <2>1. next \notin 1 .. next - 1 /\ next <= next' /\ next' \in Nat
    BY <1>1, <1>2
  <2>2. m_index \in 1 .. next - 1 /\ DOMAIN sinks \subseteq 1 .. next - 1
    BY <1>6, Indices
  <2>3. next >= 1
    BY <1>2, <2>2
  <2>4. next \in 1 .. next' - 1 /\ \A i \in 1 .. next - 1 : i \in 1 .. next' - 1
    BY <1>1, <1>2, <2>3
  <2> QED
    BY <2>1, <2>2, <2>4
<1>12. /\ DOMAIN sinks' = DOMAIN sinks \cup {next}
       /\ \A j \in DOMAIN sinks : sinks'[j] = sinks[j]
       /\ sinks'[next] = [name |-> n, vol |-> 2, mute |-> FALSE]
  BY <1>13, <1>15
<1>16. sinks'[next] \in Sinks /\ sinks'[next].name = n /\ \A j \in DOMAIN sinks : sinks[j].name # n
  <2>1. n \in {"card", "usb", "tv"} /\ \A j \in DOMAIN sinks : sinks[j].name # n
    OBVIOUS
  <2>2. 2 \in 0 .. MaxVolume
    BY DEF Levels
  <2>3. [name |-> n, vol |-> 2, mute |-> FALSE] \in Sinks
    BY <2>1, <2>2 DEF Sinks
  <2> QED
    BY <1>12, <2>1, <2>3
<1>7. Known'
  <2>1. cv' \in 0 .. MaxVolume /\ default' \in DOMAIN sinks' /\ DOMAIN sinks' \subseteq 1 .. next' - 1
    <3>1. default \in DOMAIN sinks /\ DOMAIN sinks \subseteq 1 .. next - 1 /\ cv \in 0 .. MaxVolume
      BY <1>6 DEF Known
    <3> QED
      BY <1>1, <1>5, <1>12, <1>15, <3>1
  <2>2. \A j \in Nat : Event("REMOVE", j) \notin M
    BY <1>2, <1>4
  <2>3. \A j, k \in DOMAIN sinks' : sinks'[j].name = sinks'[k].name => j = k
    BY <1>6, <1>12, <1>16 DEF Known
  <2>4. \A j \in DOMAIN sinks' : sinks'[j] \in Sinks
    BY <1>6, <1>12, <1>16 DEF Known
  <2>5. \A j \in 1 .. next - 1 : j \in DOMAIN sinks' => j \in DOMAIN sinks
    BY <1>12, <1>15
  <2> QED
    BY <1>1, <1>4, <1>5, <1>6, <2>1, <2>2, <2>3, <2>4, <2>5, KnownGrown
<1>8. Rest' = Rest
  BY <1>5 DEF Rest, InHand
<1>9. \A S : Among(transit, S) => Among(transit', S)
  BY <1>4 DEF Grown
<1>10. ASSUME ~missed', NEW j \in 1 .. next - 1, Existing(j) /\ Defaulted(j) /\ Specific(j)
       PROVE  Existing(j)' /\ Defaulted(j)' /\ Specific(j)'
  <2>1. Existing(j)'
    BY <1>8, <1>9, <1>10, <1>12 DEF Existing
  <2>2. Defaulted(j)'
    BY <1>1, <1>5, <1>8, <1>9, <1>10 DEF Defaulted
  <2>3. Specific(j)'
    <3>1. Among(transit', {a})
      BY <1>4, <1>10 DEF Grown
    <3>2. Among(transit', {Event("NEW", k) : k \in Nat})
      BY <1>14, <3>1 DEF Among
    <3> QED
      BY <3>2 DEF Specific
  <2> QED
    BY <2>1, <2>2, <2>3
<1>17. ASSUME ~missed', m_index \in DOMAIN sinks', Event("CHANGE", m_index) \notin M
       PROVE  m_index \in DOMAIN sinks /\ sinks'[m_index] = sinks[m_index] /\ cv' \in {cv, sinks[m_index].vol}
  BY <1>5, <1>12, <1>15, <1>17
<1> QED
  BY <1>3, <1>4, <1>5, <1>7, <1>10, <1>15, <1>17, GrownKeeps

(* So does a sink that is removed, the default one included.                *)
LEMMA RemoveSinkKeeps ==
  ASSUME Inv, RemoveSink
  PROVE  Inv'
<1>1. PICK i \in DOMAIN sinks, d \in DOMAIN sinks :
        /\ i # d /\ sinks' = [j \in DOMAIN sinks \ {i} |-> sinks[j]]
        /\ default' = (IF i = default THEN d ELSE default) /\ next' = next
        /\ Sends(IF i = default THEN <<Event("SERVER", 0), Event("REMOVE", i)>> ELSE <<Event("REMOVE", i)>>)
  BY DEF RemoveSink
<1> DEFINE a == Event("SERVER", 0)
           b == Event("REMOVE", i)
<1>6. Known
  BY DEF Inv
<1>2. /\ a \in Message /\ a.is = "event" /\ b \in Message /\ b.is = "event" /\ i \in Nat
      /\ \A type, j : a = Event(type, j) => type = "SERVER"
      /\ \A type, j : b = Event(type, j) => type = "REMOVE" /\ i = j
  <2>1. ASSUME NEW type, NEW j, a = Event(type, j)
        PROVE  type = "SERVER"
    <3>1. a.type = "SERVER" /\ Event(type, j).type = type
      BY Messages
    <3> QED
      BY <2>1, <3>1, Zenon
  <2>2. ASSUME NEW type, NEW j, b = Event(type, j)
        PROVE  type = "REMOVE" /\ i = j
    <3>1. b.type = "REMOVE" /\ Event(type, j).type = type /\ b.index = i /\ Event(type, j).index = j
      BY Messages
    <3> QED
      BY <2>2, <3>1, Zenon
  <2>3. i \in Nat
    BY <1>6, Indices
  <2> QED
    BY <2>1, <2>2, <2>3, Messages DEF Types
<1> HIDE DEF a, b
<1>3. /\ \E M : /\ Grown(transit, transit', M) /\ M \subseteq {a, b}
                /\ ~missed' => b \in M /\ (i = default => a \in M)
      /\ UNCHANGED <<spec_s_name, subscribed, m_events, adapter, module, runner>>
      /\ (misled' <=> misled) /\ (missed => missed')
  <2>1. CASE i = default
    <3>1. Sends(<<a, b>>)
      BY <1>1, <2>1 DEF a, b
    <3> DEFINE r == <<a, b>>
    <3>2. r \in {<<a>>, <<a, b>>} /\ Sends(r)
      BY <3>1
    <3>3. /\ \E M : Grown(transit, transit', M) /\ M \subseteq {a, b} /\ (~missed' => a \in M /\ b \in M)
          /\ UNCHANGED <<spec_s_name, subscribed, m_events, adapter, module, runner>>
          /\ (misled' <=> misled) /\ (missed => missed')
      BY <1>2, <3>2, Sending
    <3> QED
      BY <3>3
  <2>2. CASE i # default
    <3>1. Sends(<<b>>)
      BY <1>1, <2>2 DEF b
    <3>2. /\ \E M : Grown(transit, transit', M) /\ M \subseteq {b} /\ (~missed' => b \in M)
          /\ UNCHANGED <<spec_s_name, subscribed, m_events, adapter, module, runner>>
          /\ (misled' <=> misled) /\ (missed => missed')
      BY <1>2, <3>1, Sending
    <3> QED
      BY <2>2, <3>2
  <2> QED
    BY <2>1, <2>2
<1>4. PICK M : /\ Grown(transit, transit', M) /\ M \subseteq {a, b}
               /\ ~missed' => b \in M /\ (i = default => a \in M)
  BY <1>3
<1>5. m_index' = m_index /\ muted' = muted /\ cv' = cv /\ next' = next /\ spec_s_name' = spec_s_name /\ m_events' = m_events /\ runner' = runner
  BY <1>1, <1>3 DEF adapter
<1>12. DOMAIN sinks' = DOMAIN sinks \ {i} /\ \A j \in DOMAIN sinks' : sinks'[j] = sinks[j]
  BY <1>1
<1>7. Known'
  <2>1. default' \in DOMAIN sinks' /\ cv' \in 0 .. MaxVolume
    BY <1>1, <1>5, <1>6, <1>12 DEF Known
  <2>2. DOMAIN sinks' \subseteq 1 .. next' - 1
    BY <1>5, <1>6, <1>12 DEF Known
  <2>3. \A j \in Nat : Event("REMOVE", j) \in M => j \in (1 .. next - 1) \ DOMAIN sinks'
    <3>1. i \in 1 .. next - 1
      BY <1>6, Indices
    <3> QED
      BY <1>2, <1>4, <1>12, <3>1
  <2>4. \A j, k \in DOMAIN sinks' : sinks'[j].name = sinks'[k].name => j = k
    BY <1>6, <1>12 DEF Known
  <2>5. \A j \in DOMAIN sinks' : sinks'[j] \in Sinks
    BY <1>6, <1>12 DEF Known
  <2>6. next' \in {next, next + 1} /\ \A j \in 1 .. next - 1 : j \in DOMAIN sinks' => j \in DOMAIN sinks
    BY <1>5, <1>12
  <2> QED
    BY <1>4, <1>5, <1>6, <2>1, <2>2, <2>3, <2>4, <2>5, <2>6, KnownGrown
<1>8. Rest' = Rest
  BY <1>5 DEF Rest, InHand
<1>9. \A S : Among(transit, S) => Among(transit', S)
  BY <1>4 DEF Grown
<1>10. ASSUME ~missed', NEW j \in 1 .. next - 1, Existing(j) /\ Defaulted(j) /\ Specific(j)
       PROVE  Existing(j)' /\ Defaulted(j)' /\ Specific(j)'
  <2>1. Existing(j)'
    <3>1. Among(transit', {Event("REMOVE", i)})
      BY <1>4, <1>10 DEF Grown, b
    <3>2. CASE j = i
      BY <3>1, <3>2 DEF Existing
    <3>3. CASE j # i
      BY <1>8, <1>9, <1>10, <1>12, <3>3 DEF Existing
    <3> QED
      BY <3>2, <3>3
  <2>2. Defaulted(j)'
    <3>1. CASE i = default
      <4>1. Among(transit', {Event("SERVER", 0)})
        BY <1>4, <1>10, <3>1 DEF Grown, a
      <4> QED
        BY <4>1 DEF Defaulted
    <3>2. CASE i # default
      <4>1. default' = default
        BY <1>1, <3>2
      <4> QED
        BY <1>5, <1>8, <1>9, <1>10, <4>1 DEF Defaulted
    <3> QED
      BY <3>1, <3>2
  <2>3. Specific(j)'
    <3>1. Named(spec_s_name)' = Named(spec_s_name) \ {i}
      BY <1>5, <1>12 DEF Named
    <3>2. \A k, l \in Named(spec_s_name) : k = l
      BY <1>6 DEF Named, Known
    <3>3. Named(spec_s_name)' # {} => Named(spec_s_name)' = Named(spec_s_name)
      BY <3>1, <3>2
    <3> QED
      BY <1>3, <1>8, <1>9, <1>10, <3>3 DEF Specific
  <2> QED
    BY <2>1, <2>2, <2>3
<1>11. next <= next' /\ next' \in Nat
  <2>1. next \in Nat
    BY <1>6 DEF Known
  <2> QED
    BY <1>5, <2>1
<1>13. ASSUME ~missed', m_index \in DOMAIN sinks', Event("CHANGE", m_index) \notin M
       PROVE  m_index \in DOMAIN sinks /\ sinks'[m_index] = sinks[m_index] /\ cv' \in {cv, sinks[m_index].vol}
  BY <1>5, <1>12, <1>13
<1> QED
  BY <1>3, <1>4, <1>5, <1>7, <1>10, <1>11, <1>13, GrownKeeps

(* A request changes the sink that is shown, if it is still there.         *)
LEMMA AskKeeps ==
  ASSUME Inv, subscribed, NEW s, Ask(s), cv' \in 0 .. MaxVolume,
         m_index \in DOMAIN sinks => s \in Sinks /\ s.name = sinks[m_index].name,
         m_index \in DOMAIN sinks /\ s = sinks[m_index] => cv' \in {cv, sinks[m_index].vol},
         UNCHANGED <<spec_s_name, default, next, subscribed, m_events, m_index, muted, module, runner>>,
         missed' <=> missed, misled' <=> misled
  PROVE  Inv'
<1> DEFINE i == m_index
           a == Event("CHANGE", i)
           b == Reply("done", IF i \in DOMAIN sinks THEN i ELSE 0)
           changes == i \in DOMAIN sinks /\ sinks[i] # s
<1>1. /\ sinks' = IF i \in DOMAIN sinks THEN [sinks EXCEPT ![i] = s] ELSE sinks
      /\ transit' = transit \o (IF changes THEN <<a>> ELSE <<>>) \o <<b>>
  BY DEF Ask, SetSink
<1>2. Known /\ transit \in Seq(Message)
  BY DEF Inv, Orderly
<1>3. i \in Nat /\ next \in Nat
  BY <1>2, Indices
<1>4. /\ a \in Message /\ a.is = "event" /\ b \in Message /\ b.is = "done" /\ (\A type, j : b # Event(type, j))
      /\ \A type, j : a = Event(type, j) => type = "CHANGE"
  <2>1. ASSUME NEW type, NEW j, a = Event(type, j)
        PROVE  type = "CHANGE"
    <3>1. a.type = "CHANGE" /\ Event(type, j).type = type
      BY Messages
    <3> QED
      BY <2>1, <3>1, Zenon
  <2>2. b \in Message /\ b.is = "done"
    <3>1. (IF i \in DOMAIN sinks THEN i ELSE 0) \in Nat
      BY <1>3
    <3> QED
      BY <3>1, Messages
  <2>3. a \in Message /\ a.is = "event"
    BY <1>3, Messages DEF Types
  <2>4. ASSUME NEW type, NEW j, b = Event(type, j)
        PROVE  FALSE
    <3>1. Event(type, j).is = "event"
      BY Messages
    <3> QED
      BY <2>2, <2>4, <3>1
  <2> QED
    BY <2>1, <2>2, <2>3, <2>4
<1> HIDE DEF a, b, changes
<1>5. \E M : Grown(transit, transit', M) /\ M \subseteq {a, b} /\ (changes => a \in M)
  <2>1. CASE changes
    <3> DEFINE q == transit \o <<a>>
    <3>1. Grown(transit, q, {a})
      BY <1>2, <1>4, GrownOne
    <3>2. q \in Seq(Message) /\ transit' = q \o <<b>>
      BY <1>1, <1>2, <1>4, <2>1
    <3> HIDE DEF q
    <3>3. Grown(q, transit', {b})
      BY <1>4, <3>2, GrownOne
    <3> DEFINE A == {a}
               B == {b}
    <3>4. Grown(transit, q, A) /\ Grown(q, transit', B)
      BY <3>1, <3>3
    <3>5. A \cup B \subseteq {a, b} /\ a \in A \cup B
      OBVIOUS
    <3> HIDE DEF A, B
    <3>6. Grown(transit, transit', A \cup B)
      BY <3>4, GrownTwice
    <3> QED
      BY <3>5, <3>6
  <2>2. CASE ~changes
    <3>1. transit' = transit \o <<b>>
      BY <1>1, <1>2, <2>2
    <3>2. Grown(transit, transit', {b})
      BY <1>2, <1>4, <3>1, GrownOne
    <3> QED
      BY <2>2, <3>2
  <2> QED
    BY <2>1, <2>2
<1>6. PICK M : Grown(transit, transit', M) /\ M \subseteq {a, b} /\ (changes => a \in M)
  BY <1>5
<1>7. /\ DOMAIN sinks' = DOMAIN sinks
      /\ \A j \in DOMAIN sinks : sinks'[j] = IF j = i THEN s ELSE sinks[j]
  BY <1>1
<1>8. \A j \in DOMAIN sinks : sinks'[j] \in Sinks /\ sinks'[j].name = sinks[j].name
  BY <1>2, <1>7 DEF Known
<1>9. Known'
  <2>1. default' \in DOMAIN sinks' /\ DOMAIN sinks' \subseteq 1 .. next' - 1 /\ next' \in {next, next + 1} /\ m_index' = m_index /\ muted' = muted
    BY <1>2, <1>7 DEF Known
  <2>2. \A j \in Nat : Event("REMOVE", j) \notin M
    BY <1>4, <1>6
  <2>3. \A j, k \in DOMAIN sinks' : sinks'[j].name = sinks'[k].name => j = k
    BY <1>2, <1>7, <1>8 DEF Known
  <2> QED
    BY <1>2, <1>6, <1>7, <1>8, <2>1, <2>2, <2>3, KnownGrown
<1>10. Named(spec_s_name)' = Named(spec_s_name) /\ Rest' = Rest
  <2>1. Rest' = Rest
    BY DEF Rest, InHand
  <2>2. Named(spec_s_name)' = Named(spec_s_name)
    BY <1>7, <1>8 DEF Named
  <2> QED
    BY <2>1, <2>2
<1>11. \A S : Among(transit, S) => Among(transit', S)
  BY <1>6 DEF Grown
<1>12. ASSUME NEW j \in 1 .. next - 1, Existing(j) /\ Defaulted(j) /\ Specific(j)
       PROVE  Existing(j)' /\ Defaulted(j)' /\ Specific(j)'
  <2>1. Existing(j)'
    BY <1>7, <1>10, <1>11, <1>12 DEF Existing
  <2>2. Defaulted(j)'
    BY <1>10, <1>11, <1>12 DEF Defaulted
  <2>3. Specific(j)'
    BY <1>10, <1>11, <1>12 DEF Specific
  <2> QED
    BY <2>1, <2>2, <2>3
<1>13. ASSUME m_index \in DOMAIN sinks', Event("CHANGE", m_index) \notin M
       PROVE  m_index \in DOMAIN sinks /\ sinks'[m_index] = sinks[m_index] /\ cv' \in {cv, sinks[m_index].vol}
  <2>1. m_index \in DOMAIN sinks /\ ~changes
    BY <1>6, <1>7, <1>13 DEF a
  <2>2. s = sinks[m_index]
    BY <2>1 DEF changes
  <2> QED
    BY <1>7, <2>1, <2>2
<1>14. next <= next' /\ next' \in Nat
  BY <1>3
<1>15. UNCHANGED <<spec_s_name, subscribed, m_events, m_index, muted, module, runner>>
  OBVIOUS
<1>16. missed => missed'
  OBVIOUS
<1> QED
  BY <1>6, <1>9, <1>12, <1>13, <1>14, <1>15, <1>16, GrownKeeps

(* So does an action of the module.                                         *)
LEMMA ActionKeeps ==
  ASSUME Levels, Inv, Action
  PROVE  Inv'
<1>1. /\ runner \notin {"subscribe", "first"}
      /\ UNCHANGED <<spec_s_name, default, next, subscribed, m_events, m_index, muted, module, runner>>
      /\ (missed' <=> missed) /\ (misled' <=> misled)
  BY DEF Action
<1>2. Known /\ transit \in Seq(Message) /\ InOrder(transit) /\ subscribed
  BY <1>1 DEF Inv, Orderly
<1>3. cv \in 0 .. MaxVolume /\ muted \in BOOLEAN /\ MaxVolume \in Nat /\ Step \in Nat
  BY <1>2 DEF Known, Levels
<1>4. Raised \in 0 .. MaxVolume /\ Lowered \in 0 .. MaxVolume
  <2>1. cv \in 0 .. MaxVolume /\ MaxVolume \in Nat /\ Step \in Nat
    BY <1>3
  <2> QED
    BY <2>1 DEF Raised, Lowered
<1>5. m_index \in DOMAIN sinks => Ours = sinks[m_index] /\ sinks[m_index] \in Sinks
  BY <1>2 DEF Ours, Known
<1>6. CASE lock # "free"
  <2>1. UNCHANGED <<sinks, transit, cv>>
    BY <1>6 DEF Action
  <2>2. transit' \in Seq(Message) /\ InOrder(transit') /\ UNCHANGED server /\ cv' = cv /\ transit' = transit
    BY <1>1, <1>2, <2>1 DEF server
  <2>3. UNCHANGED <<spec_s_name, server, subscribed, m_events, m_index, cv, muted, module, runner>>
    BY <1>1, <2>2
  <2> QED
    BY <1>1, <2>2, <2>3, Quiet
<1>7. ASSUME NEW v \in {Raised, Lowered}, cv' = v, Ask([Ours EXCEPT !.vol = v])
      PROVE  Inv'
  <2> DEFINE s == [Ours EXCEPT !.vol = v]
  <2>1. v \in 0 .. MaxVolume
    BY <1>4, <1>7
  <2>2. m_index \in DOMAIN sinks => s \in Sinks /\ s.name = sinks[m_index].name /\ s.vol = v
    BY <1>5, <2>1 DEF Sinks
  <2>3. Ask(s)
    BY <1>7
  <2> HIDE DEF s
  <2>4. m_index \in DOMAIN sinks /\ s = sinks[m_index] => cv' \in {cv, sinks[m_index].vol}
    BY <1>7, <2>2
  <2>5. cv' \in 0 .. MaxVolume
    BY <1>7, <2>1
  <2> QED
    BY <1>1, <1>2, <2>2, <2>3, <2>4, <2>5, AskKeeps
<1>8. ASSUME Ask([Ours EXCEPT !.mute = ~muted]), cv' = cv
      PROVE  Inv'
  <2> DEFINE s == [Ours EXCEPT !.mute = ~muted]
  <2>1. m_index \in DOMAIN sinks => s \in Sinks /\ s.name = sinks[m_index].name
    BY <1>3, <1>5 DEF Sinks
  <2>2. Ask(s)
    BY <1>8
  <2> HIDE DEF s
  <2>3. cv' \in 0 .. MaxVolume /\ cv' \in {cv, sinks[m_index].vol}
    BY <1>3, <1>8
  <2> QED
    BY <1>1, <1>2, <2>1, <2>2, <2>3, AskKeeps
<1> QED
  BY <1>6, <1>7, <1>8 DEF Action

(* So does its return.                                                      *)
LEMMA ActionReturnsKeeps ==
  ASSUME Inv, ActionReturns
  PROVE  Inv'
<1>1. /\ UNCHANGED <<spec_s_name, server, transit, subscribed, m_events, adapter, module, runner>>
      /\ (missed' <=> missed) /\ (misled' <=> misled)
  BY DEF ActionReturns
<1>2. UNCHANGED <<spec_s_name, server, subscribed, m_events, m_index, cv, muted, module, runner>> /\ transit' = transit
  BY <1>1 DEF adapter
<1>3. transit \in Seq(Message) /\ InOrder(transit)
  BY DEF Inv, Orderly
<1> QED
  BY <1>1, <1>2, <1>3, Quiet

(* Each step keeps the invariant.                                           *)
LEMMA InvKept ==
  ASSUME Levels, Inv, [Next]_vars
  PROVE  Inv'
<1>1. CASE UNCHANGED vars
  <2>1. UNCHANGED <<spec_s_name, server, subscribed, m_events, m_index, cv, muted, module, runner>> /\ transit' = transit
        /\ (missed' <=> missed) /\ (misled' <=> misled)
    BY <1>1 DEF vars, server, module
  <2>2. transit \in Seq(Message) /\ InOrder(transit)
    BY DEF Inv, Orderly
  <2> QED
    BY <2>1, <2>2, Quiet
<1> QED
  BY <1>1, RunnerKeeps, DispatchKeeps, ActionKeeps, ActionReturnsKeeps, NewSinkKeeps, RemoveSinkKeeps,
     SetDefaultKeeps, MuteSinkKeeps DEF Next, ServerStep

(* At rest, the invariant says that the sink is followed.                   *)
LEMMA InvFollows ==
  ASSUME Inv
  PROVE  SinkFollows
<1> SUFFICES ASSUME Settled, ~missed
             PROVE  /\ m_index \in DOMAIN sinks
                    /\ m_volume = sinks[m_index].vol /\ m_muted = sinks[m_index].mute
                    /\ spec_s_name = "" => m_index = default
                    /\ Named(spec_s_name) # {} /\ ~misled => m_index \in Named(spec_s_name)
  BY DEF SinkFollows
<1>1. runner = "idle" /\ Rest = <<>> /\ transit = <<>>
  BY DEF Settled, Rest, InHand
<1>2. (\A S : ~Among(transit, S)) /\ (\A S : ~Among(Rest, S)) /\ ~Changing
  BY <1>1, AmongFew DEF Changing
<1>3. Takes(m_index) /\ m_index \in 1 .. next - 1
  BY <1>1, Indices DEF Inv, Takes
<1>4. Existing(m_index) /\ Defaulted(m_index) /\ Specific(m_index)
  BY <1>3 DEF Inv, Taking
<1>5. m_index \in DOMAIN sinks
  BY <1>2, <1>4 DEF Existing
<1>6. m_volume = cv /\ m_muted = muted
  BY <1>1, <1>2, <1>5 DEF Inv, Showing
<1>7. cv = sinks[m_index].vol /\ muted = sinks[m_index].mute
  BY <1>1, <1>2, <1>5 DEF Inv, Read
<1> QED
  BY <1>2, <1>4, <1>5, <1>6, <1>7 DEF Defaulted, Specific

(* At rest the module shows the volume of the sink that it should control, *)
(* for any sinks, volumes and changes.                                     *)
THEOREM SinkAlwaysFollows ==
  ASSUME Levels
  PROVE  Spec => []SinkFollows
<1>1. Init => Inv
  BY InitInv
<1>2. Inv /\ [Next]_vars => Inv'
  BY InvKept
<1>3. Inv => SinkFollows
  BY InvFollows
<1> QED
  BY <1>1, <1>2, <1>3, PTL DEF Spec
=============================================================================
