-------------------------------- MODULE Ipc --------------------------------
(***************************************************************************)
(* The ipc channel from end to end: polybar-msg (ipc.cpp) writes to the    *)
(* fifo of a running polybar or removes it, components/ipc.cpp reads and   *)
(* reopens it, and the ipc modules (modules/ipc.cpp) run the hooks of a    *)
(* message and show their last line, or what an action sends them.         *)
(*                                                                         *)
(* The main thread reads and runs the hooks; actions and the command to    *)
(* quit it only puts into the event queue (controller.cpp), whose worker   *)
(* takes them.  Of the queue this module has what the channel puts there.  *)
(*                                                                         *)
(* A text is a sequence of pieces; a prefix (hook:, cmd:, action:) is one. *)
(* The kernel keeps what is in a fifo while somebody has it open.          *)
(***************************************************************************)
EXTENDS Integers, Sequences, FiniteSetsExt, TLC

CONSTANTS Clients, Requests,  \* polybar-msg and what it is asked to send
          Modules,  \* the running ipc modules, in order: [name, hooks, initial]
          Buf,      \* BUFSIZ
          Starts    \* bound on starts under one pid

VARIABLES
  pc,       \* polybar: "mkfifo", "open", "loop", "hooks", "tail", "reopen",
            \* "close", "unlink", "failed", "gone"
  exists,   \* the fifo has a name
  reader,   \* polybar has it open
  fifo, hup,  \* what is in it; a writer has closed it
  todo,     \* <<module, hook>>: still to run for the message
  m_output,
  queue, m_inputdata,  \* the events, "input" or "quit"; the one input stored
  worker,   \* [step, sends]: see Worker
  client, request,
  sent, got, crowded,  \* history of this start: written, read; written beside
                       \* another message, or longer than the buffer holds
  asked, ran,          \* the last hook asked for, what ran for it
  beside,              \* modules that were sent something since their last
                       \* hook was started
  starts               \* bound

events == <<queue, m_inputdata, worker>>
vars == <<pc, exists, reader, fifo, hup, todo, m_output, events, client, request,
          sent, got, crowded, asked, ran, beside, starts>>
channel == <<exists, reader, fifo, hup>>
history == <<sent, got, crowded, asked, ran, beside>>

Alive == pc \notin {"failed", "gone"}
Serving == pc \in {"loop", "hooks", "tail", "reopen"}

(* Digits of a hook's number; its name in the module, and what polybar-msg *)
(* makes of "hook <module> <number>", with or without the module/.         *)
Digits(n) == IF n < 10 THEN <<ToString(n)>> ELSE <<ToString(n \div 10), ToString(n % 10)>>
HookName(m, i) == <<"module/">> \o Modules[m].name \o Digits(i)
Payload(r) ==
  IF r.type = "hook:"
  THEN (IF Head(r.name) = "module/" THEN <<>> ELSE <<"module/">>) \o r.name \o Digits(r.index)
  ELSE r.name
Written(r) == <<r.type>> \o Payload(r) \o r.eol

(* The worker: events other than "quit" are refused until it is ready; it  *)
(* has <<module, text>> to send, the first of which it may be writing; it  *)
(* has left, which ends the program.                                       *)
Worker(step, sends) == [step |-> step, sends |-> sends]
Half == <<"?">>  \* a text that two threads write at once

TypeOK ==
  /\ pc \in {"mkfifo", "open", "loop", "hooks", "tail", "reopen", "close", "unlink", "failed", "gone"}
  /\ {exists, reader, hup, crowded} \subseteq BOOLEAN /\ DOMAIN m_output = DOMAIN Modules
  /\ client \in [Clients -> {"glob", "open", "write", "done"}] /\ request \in [Clients -> Requests]
  /\ (pc \in {"hooks", "tail"}) = (todo # <<>>) /\ beside \subseteq DOMAIN Modules
  /\ worker.step \in {"starting", "ready", "writing", "left"} /\ Range(queue) \subseteq {"input", "quit"}

Init ==
  /\ pc = "mkfifo" /\ exists \in BOOLEAN /\ reader = FALSE /\ fifo = <<>> /\ hup = FALSE
  /\ todo = <<>> /\ m_output = [m \in DOMAIN Modules |-> <<>>]
  /\ queue = <<>> /\ m_inputdata = <<>> /\ worker = Worker("starting", <<>>) /\ beside = {}
  /\ client = [c \in Clients |-> "glob"] /\ request \in [Clients -> Requests]
  /\ sent = <<>> /\ got = <<>> /\ crowded = FALSE /\ asked = <<>> /\ ran = <<>> /\ starts = 1

-----------------------------------------------------------------------------
(* A process begins; ipc::ipc(): a fifo left by another one of this pid is *)
(* removed.                                                                *)
MakeFifo ==
  /\ pc = "mkfifo" /\ pc' = "open" /\ exists' = TRUE /\ fifo' = <<>>
  /\ queue' = <<>> /\ m_inputdata' = <<>> /\ worker' = Worker("starting", <<>>)
  /\ UNCHANGED <<reader, hup, todo, m_output, client, request, history, starts>>

(* The modules are built, and their initial hooks run, after the channel.  *)
Initial(m) == IF Modules[m].initial = 0 THEN <<>> ELSE HookName(m, Modules[m].initial)
Open ==
  /\ pc = "open" /\ reader' = exists /\ hup' = FALSE
  /\ pc' = IF exists THEN "loop" ELSE "failed"
  /\ m_output' = [m \in DOMAIN Modules |-> Initial(m)]
  /\ sent' = <<>> /\ got' = <<>> /\ crowded' = FALSE
  /\ UNCHANGED <<exists, fifo, todo, events, client, request, asked, ran, beside, starts>>

(* trim(payload, '\n'), at both ends.                                      *)
Trim(text) ==
  LET solid == {i \in DOMAIN text : text[i] # "\n"}
  IN IF solid = {} THEN <<>> ELSE SubSeq(text, Min(solid), Max(solid))

(* on_message() of each module in turn: the hooks of that name.            *)
HooksOf(m, text) ==
  SelectSeq([i \in 1 .. Modules[m].hooks |-> <<m, i>>], LAMBDA h : HookName(h[1], h[2]) = text)
Matching(text) ==
  LET upto[m \in 0 .. Len(Modules)] == IF m = 0 THEN <<>> ELSE upto[m - 1] \o HooksOf(m, text)
  IN upto[Len(Modules)]

(* on(ipc::action), on(ipc::command) of the controller.  An action is not  *)
(* stored while another input is; its event may be refused all the same.   *)
HandleAction(text) ==
  IF text = <<>> \/ m_inputdata # <<>> THEN UNCHANGED events
  ELSE /\ m_inputdata' = text /\ UNCHANGED worker
       /\ queue' = IF worker.step = "starting" THEN queue ELSE Append(queue, "input")
HandleCommand(text) ==
  IF text \notin {<<"quit">>, <<"restart">>} THEN UNCHANGED events
  ELSE queue' = Append(queue, "quit") /\ UNCHANGED <<m_inputdata, worker>>

(* receive_message(), up to the handler of the signal: one read; a full    *)
(* buffer has no end, so that the text goes on with what lies behind it.   *)
Read ==
  /\ pc = "loop" /\ (fifo # <<>> \/ hup)
  /\ LET n == IF Len(fifo) < Buf THEN Len(fifo) ELSE Buf IN
       \E behind \in {<<>>} \cup IF n = Buf THEN {<<"?">>} ELSE {} :
         LET text == Trim(SubSeq(fifo, 1, n) \o behind)
             rest == IF text = <<>> THEN <<>> ELSE Tail(text)
             type == IF text = <<>> THEN "" ELSE Head(text)
         IN /\ fifo' = SubSeq(fifo, n + 1, Len(fifo))
            /\ got' = IF n = 0 THEN got ELSE Append(got, text)
            /\ todo' = IF type = "hook:" THEN Matching(rest) ELSE <<>>
            /\ IF type = "hook:" THEN asked' = rest /\ ran' = <<>> ELSE UNCHANGED <<asked, ran>>
            /\ pc' = IF todo' = <<>> THEN "reopen" ELSE "hooks"
            /\ CASE type = "action:" -> HandleAction(rest)
                 [] type = "cmd:"    -> HandleCommand(rest)
                 [] OTHER            -> UNCHANGED events
  /\ UNCHANGED <<exists, reader, hup, m_output, client, request, sent, crowded, beside, starts>>

(* A hook: the output is cleared, the command runs; tail() returns with    *)
(* its end, and until then the main thread does nothing else.              *)
RunHook ==
  /\ pc = "hooks" /\ ran' = Append(ran, Head(todo))
  /\ m_output' = [m_output EXCEPT ![Head(todo)[1]] = <<>>]
  /\ beside' = IF worker.step = "writing" /\ Head(worker.sends)[1] = Head(todo)[1] THEN beside
               ELSE beside \ {Head(todo)[1]}
  /\ \/ pc' = "tail" /\ UNCHANGED todo
     \/ todo' = Tail(todo) /\ pc' = IF todo' = <<>> THEN "reopen" ELSE "hooks"
  /\ UNCHANGED <<channel, events, client, request, sent, got, crowded, asked, starts>>

HookEnds ==
  /\ pc = "tail" /\ todo' = Tail(todo) /\ pc' = IF todo' = <<>> THEN "reopen" ELSE "hooks"
  /\ m_output' = [m_output EXCEPT ![Head(todo)[1]] = HookName(Head(todo)[1], Head(todo)[2])]
  /\ UNCHANGED <<channel, events, client, request, history, starts>>

(* The new descriptor is open before the old one is closed.                *)
Reopen ==
  /\ pc = "reopen" /\ hup' = FALSE
  /\ pc' = IF exists THEN "loop" ELSE "failed"
  /\ reader' = exists
  /\ UNCHANGED <<exists, fifo, todo, m_output, events, client, request, history, starts>>

-----------------------------------------------------------------------------
(* process_eventqueue(), beside all that: an event of the queue ...        *)
Ready ==
  /\ Serving /\ worker.step = "starting" /\ worker' = Worker("ready", <<>>)
  /\ UNCHANGED <<pc, channel, todo, m_output, queue, m_inputdata, client, request, history, starts>>

(* forward_action(): the modules that are named, and the data for them.    *)
Addressed(m, text) ==
  LET name == Modules[m].name \o <<"send">>
  IN Len(text) >= Len(name) /\ SubSeq(text, 1, Len(name)) = name
SendsOf(text) ==
  LET named == SelectSeq([m \in DOMAIN Modules |-> m], LAMBDA m : Addressed(m, text))
  IN [i \in DOMAIN named |->
        <<named[i], SubSeq(text, Len(Modules[named[i]].name) + 2, Len(text))>>]
TakeEvent ==
  /\ Serving /\ worker = Worker("ready", <<>>) /\ queue # <<>> /\ queue' = Tail(queue)
  /\ IF Head(queue) = "quit" THEN worker' = Worker("left", <<>>) /\ UNCHANGED m_inputdata
     ELSE worker' = Worker("ready", SendsOf(m_inputdata)) /\ m_inputdata' = <<>>
  /\ UNCHANGED <<pc, channel, todo, m_output, client, request, history, starts>>

(* ... and action_send() of each module.  Nothing guards m_output: what    *)
(* the main thread writes to it meanwhile may be there afterwards, or some *)
(* of both.                                                                *)
SendBegins ==
  /\ Serving /\ worker.step = "ready" /\ worker.sends # <<>>
  /\ LET m == Head(worker.sends)[1] IN
       m_output' = [m_output EXCEPT ![m] = Half] /\ beside' = beside \cup {m}
  /\ worker' = Worker("writing", worker.sends)
  /\ UNCHANGED <<pc, channel, todo, queue, m_inputdata, client, request, sent, got, crowded, asked, ran, starts>>

SendEnds ==
  /\ Serving /\ worker.step = "writing" /\ worker' = Worker("ready", Tail(worker.sends))
  /\ LET m == Head(worker.sends)[1]  text == Head(worker.sends)[2] IN
       \E t \in {text} \cup IF m_output[m] = Half THEN {} ELSE {Half, m_output[m]} :
         m_output' = [m_output EXCEPT ![m] = t]
  /\ UNCHANGED <<pc, channel, todo, queue, m_inputdata, client, request, history, starts>>

(* The main thread leaves its loop when the worker has left.               *)
Leave ==
  /\ pc = "loop" /\ worker.step = "left" /\ pc' = "close"
  /\ UNCHANGED <<channel, todo, m_output, events, client, request, history, starts>>

-----------------------------------------------------------------------------
(* ~ipc(), before exit or the exec() of a restart; and the end that        *)
(* removes nothing.                                                        *)
Close ==
  /\ pc = "close" /\ pc' = "unlink" /\ reader' = FALSE /\ fifo' = <<>>
  /\ UNCHANGED <<exists, hup, todo, m_output, events, client, request, history, starts>>
Unlink ==
  /\ pc = "unlink" /\ exists' = FALSE
  /\ \/ pc' = "gone" /\ UNCHANGED starts
     \/ starts < Starts /\ starts' = starts + 1 /\ pc' = "mkfifo"
  /\ UNCHANGED <<reader, fifo, hup, todo, m_output, events, client, request, history>>
Killed ==
  /\ Alive /\ pc' = "gone" /\ reader' = FALSE /\ fifo' = <<>> /\ todo' = <<>>
  /\ UNCHANGED <<exists, hup, m_output, events, client, request, history, starts>>
StartAgain ==
  /\ ~Alive /\ starts < Starts /\ starts' = starts + 1 /\ pc' = "mkfifo"
  /\ UNCHANGED <<channel, todo, m_output, events, client, request, history>>

-----------------------------------------------------------------------------
(* polybar-msg: a fifo without a process is removed, and one that nobody   *)
(* has open.                                                               *)
Glob(c) ==
  /\ client[c] = "glob"
  /\ client' = [client EXCEPT ![c] = IF exists /\ Alive THEN "open" ELSE "done"]
  /\ exists' = (exists /\ Alive)
  /\ UNCHANGED <<pc, reader, fifo, hup, todo, m_output, events, request, history, starts>>

OpenChannel(c) ==
  /\ client[c] = "open"
  /\ client' = [client EXCEPT ![c] = IF exists /\ reader THEN "write" ELSE "done"]
  /\ exists' = (exists /\ reader)
  /\ UNCHANGED <<pc, reader, fifo, hup, todo, m_output, events, request, history, starts>>

Write(c) ==
  /\ client[c] = "write" /\ client' = [client EXCEPT ![c] = "done"]
  /\ IF reader
     THEN LET text == Written(request[c]) IN
            /\ fifo' = fifo \o text /\ hup' = TRUE /\ sent' = Append(sent, Trim(text))
            /\ crowded' = (crowded \/ fifo # <<>> \/ Len(text) >= Buf)
     ELSE UNCHANGED <<fifo, hup, sent, crowded>>
  /\ UNCHANGED <<pc, exists, reader, todo, m_output, events, request, got, asked, ran, beside, starts>>

PolybarStep == MakeFifo \/ Open \/ Read \/ RunHook \/ Reopen \/ Leave \/ Close \/ Unlink
WorkerStep == Ready \/ TakeEvent \/ SendBegins \/ SendEnds
Next ==
  \/ PolybarStep \/ WorkerStep \/ HookEnds \/ Killed \/ StartAgain
  \/ \E c \in Clients : Glob(c) \/ OpenChannel(c) \/ Write(c)
Spec == Init /\ [][Next]_vars

-----------------------------------------------------------------------------
(* A polybar that has opened its channel keeps it: the fifo has its name   *)
(* and a reader, whatever polybar-msg does.                                *)
ChannelKept == pc \in {"loop", "hooks", "tail", "reopen"} => exists /\ reader

(* Messages that were not written beside one another, and that the buffer  *)
(* holds with its end, are read as they were written, each once, in order. *)
DeliveredAsSent ==
  ~crowded /\ pc \in {"loop", "hooks", "tail", "reopen"} =>
    sent = IF fifo = <<>> THEN got ELSE Append(got, Trim(fifo))

(* A hook runs for its message, it alone unless another one has the same   *)
(* name, and a module shows its last line, or nothing, whatever else the   *)
(* worker does; unless it sends the module something beside the hook.      *)
Hooks(text) ==
  {h \in (DOMAIN Modules) \X (1 .. 20) : h[2] <= Modules[h[1]].hooks /\ HookName(h[1], h[2]) = text}
HooksRun ==
  pc = "reopen" /\ asked # <<>> /\ got # <<>> /\ got[Len(got)] = <<"hook:">> \o asked =>
    /\ Range(ran) = Hooks(asked) /\ Cardinality(Hooks(asked)) = Len(ran)
    /\ \A h \in Range(ran) : h[1] \in beside \/ m_output[h[1]] \in {<<>>, HookName(h[1], h[2])}

Waiting == fifo # <<>> /\ pc = "loop"
Served == fifo = <<>> \/ pc \in {"tail", "close", "failed", "gone"}

-----------------------------------------------------------------------------
(* What is proved of it.  What polybar-msg is asked to send is a text.     *)
Messages ==
  /\ Buf \in Nat
  /\ \A r \in Requests :
       Written(r) \in Seq(Range(Written(r))) /\ Written(r) # <<>>

(* What has been written and not been read, if it is as it should be.      *)
InTransit ==
  \/ fifo = <<>> /\ sent = got
  \/ \E c \in Clients : /\ fifo = Written(request[c]) /\ Len(fifo) < Buf
                       /\ sent = Append(got, Trim(fifo))

Inv ==
  /\ exists \in BOOLEAN /\ reader \in BOOLEAN /\ crowded \in BOOLEAN
  /\ request \in [Clients -> Requests]
  /\ pc \in {"mkfifo", "open", "unlink", "failed", "gone"} => ~reader
  /\ pc = "open" => fifo = <<>>
  /\ Serving => exists /\ reader
  /\ ~crowded /\ Serving => InTransit
=============================================================================
