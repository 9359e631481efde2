-------------------------- MODULE ControllerProofs --------------------------
(***************************************************************************)
(* Proofs about Controller, for every scenario and any swallow limit: its  *)
(* types, that its outcome was asked for, and that an input, a change and  *)
(* a forced update are never forgotten.  The argument is about who may     *)
(* have asked for what is on its way to the flags (Heard), about how far   *)
(* the decision has come (Decided), and about which event will find what   *)
(* waits (Accepted, Announced).                                            *)
(***************************************************************************)
EXTENDS Controller, SequenceTheorems, TLAPS

(* An event in one of the queues; a frame on the stack of a thread.        *)
In(q, e) == \E n \in DOMAIN q : q[n] = e
Queued(e) == \E t \in Threads : In(m_queue[t], e)
OnStack(t, f) == In(handlers[t], f)

(* What is on its way to a reload, or to a look at the connection, was     *)
(* asked for.                                                              *)
Heard ==
  /\ conf \/ "config" \in fdset => "reload" \in asked
  /\ disconnected => "error" \in asked
  /\ fifo = "quit" => "quit" \in asked
  /\ fifo = "restart" => "reload" \in asked
  /\ "randr" \in xcb => "reload" \in asked
  /\ Queued("reload") \/ evt = "reload" => "reload" \in asked
  /\ g_reload => "reload" \in asked
  /\ \A t \in Threads, f \in Frames :
       OnStack(t, f) /\ f.sig = "SIGUSR1" => "reload" \in asked

(* As long as nothing but a reload was asked for, a QUIT that run() has    *)
(* enqueued comes too late to decide anything, and the thread that is      *)
(* about to set g_reload is one that run() waits for.                      *)
OnlyReload == "quit" \notin asked /\ "error" \notin asked

Decided ==
  /\ g_reload => g_terminate
  /\ \A t \in Threads, f \in Frames : OnStack(t, f) =>
       /\ f.step = "reload" => g_terminate
       /\ OnlyReload => /\ t \in {"main", "worker"}
                        /\ f.sig = "SIGUSR1" \/ (f.step = "check" /\ g_terminate)
  /\ OnlyReload /\ (Queued("quit") \/ evt = "quit") => g_terminate
  /\ OnlyReload /\ g_terminate =>
       \/ g_reload
       \/ \E t \in {"main", "worker"}, f \in Frames : OnStack(t, f) /\ f.step = "reload"
  /\ OnlyReload /\ mpc \in {"quit", "join", "returned"} =>
       g_terminate \/ handlers["main"] # <<>>
  /\ wpc = "exited" => handlers["worker"] = <<>>
  /\ Returned => wpc = "exited" /\ handlers["main"] = <<>>

(* Inputs that come after ui::ready are accepted.                          *)
Accepted ==
  ~EarlyInput =>
    /\ m_process_events \/ (/\ fifo \notin Inputs /\ xcb \cap Inputs = {}
                            /\ \A t \in {"main", "taskqueue"} : typing[t].step = "idle")
    /\ m_inputdata # NoInput =>
         \/ Queued("input")
         \/ \E t \in {"main", "taskqueue"} : typing[t].step = "enqueue"
         \/ wpc \in {"got", "input"} /\ evt = "input"
         \/ wpc = "clear"
         \/ g_terminate

(* What the worker has in hand while a change or a forced update waits.    *)
Announced ==
  /\ wpc = "start" => evt = "forced"
  /\ wpc = "announce" => evt \in {"update", "forced"}
  /\ version > shown =>
       \/ announcing \/ ~m_process_events \/ "change" \in replaced
       \/ Queued("update") \/ Queued("forced")
       \/ wpc \in {"announce", "swallow", "update"}
       \/ wpc = "got" /\ evt # "input"
       \/ g_terminate \/ \E t \in Threads : handlers[t] # <<>>
  /\ forced =>
       \/ "forced" \in replaced \/ Queued("forced")
       \/ wpc \in {"got", "swallow", "update"} /\ evt = "forced"
       \/ g_terminate \/ \E t \in Threads : handlers[t] # <<>>

Inv == TypeOK /\ Heard /\ Decided /\ Accepted /\ Announced

-----------------------------------------------------------------------------
(* What the assumption says of stimuli and inputs.                         *)
LEMMA StimulusTypes ==
  ASSUME NEW s \in Stimuli
  PROVE  /\ s.type = "signal" => s.arg \in {"SIGTERM", "SIGUSR1"}
         /\ s.type = "ipc" => s.arg \in {"quit", "restart", "hook"} \cup Inputs
         /\ s.type = "x" => s.arg \in {"background", "randr"} \cup Inputs
         /\ s.type = "doubleclick" => s.arg \in Inputs
BY DEF Stimuli

(* The words of the pipe and of the event loop are no inputs.              *)
LEMMA InputNames ==
  /\ NoInput \notin Inputs /\ EmptyFifo \notin Inputs
  /\ "quit" \notin Inputs /\ "restart" \notin Inputs /\ "hook" \notin Inputs
  /\ "background" \notin Inputs /\ "randr" \notin Inputs
BY ControllerAssumption DEF NotInputs

(* m_swallow_limit is a number.                                            *)
LEMMA Limit == m_swallow_limit \in Nat
BY ControllerAssumption

(* Actions and commands are the inputs.                                    *)
LEMMA CommandsAreInputs == Actions \subseteq Inputs /\ Commands \subseteq Inputs
BY DEF Inputs

-----------------------------------------------------------------------------
(* Members of sequences.                                                   *)
LEMMA AppendMember ==
  ASSUME NEW S, NEW q \in Seq(S), NEW x \in S
  PROVE  /\ Append(q, x) \in Seq(S) /\ Append(q, x) # <<>>
         /\ \A e : In(Append(q, x), e) <=> In(q, e) \/ e = x
<1> DEFINE r == Append(q, x)
<1>1. /\ r \in Seq(S) /\ Len(r) = Len(q) + 1 /\ r[Len(q) + 1] = x
      /\ \A i \in 1 .. Len(q) : r[i] = q[i]
  BY AppendProperties
<1>2. DOMAIN r = 1 .. Len(q) + 1 /\ DOMAIN q = 1 .. Len(q) /\ Len(q) \in Nat
  BY <1>1
<1>3. r # <<>>
  BY <1>1
<1>4. ASSUME NEW e PROVE In(r, e) <=> In(q, e) \/ e = x
  <2>1. ASSUME In(r, e) PROVE In(q, e) \/ e = x
    <3>1. PICK n \in 1 .. Len(q) + 1 : r[n] = e
      BY <2>1, <1>2 DEF In
    <3>2. CASE n = Len(q) + 1
      BY <3>1, <3>2, <1>1
    <3>3. CASE n \in 1 .. Len(q)
      BY <3>1, <3>3, <1>1, <1>2 DEF In
    <3> QED
      BY <3>1, <3>2, <3>3, <1>2
  <2>2. ASSUME In(q, e) PROVE In(r, e)
    <3>1. PICK n \in 1 .. Len(q) : q[n] = e
      BY <2>2, <1>2 DEF In
    <3> QED
      BY <3>1, <1>1, <1>2 DEF In
  <2>3. ASSUME e = x PROVE In(r, e)
    BY <2>3, <1>1, <1>2 DEF In
  <2> QED
    BY <2>1, <2>2, <2>3
<1> QED
  BY <1>1, <1>3, <1>4

(* Head and Tail share the members out.                                    *)
LEMMA TailMember ==
  ASSUME NEW S, NEW q \in Seq(S), q # <<>>
  PROVE  /\ Tail(q) \in Seq(S) /\ Head(q) \in S /\ In(q, Head(q))
         /\ \A e : In(q, e) <=> In(Tail(q), e) \/ e = Head(q)
<1> DEFINE r == Tail(q)
<1>1. /\ Head(q) \in S /\ r \in Seq(S) /\ Len(r) = Len(q) - 1
      /\ \A i \in 1 .. Len(r) : r[i] = q[i + 1]
  BY HeadTailProperties
<1>2. DOMAIN r = 1 .. Len(q) - 1 /\ DOMAIN q = 1 .. Len(q) /\ Len(q) \in Nat \ {0}
  BY <1>1, EmptySeq
<1>3. Head(q) = q[1] /\ 1 \in DOMAIN q
  BY <1>2
<1>4. ASSUME NEW e PROVE In(q, e) <=> In(r, e) \/ e = Head(q)
  <2>1. ASSUME In(q, e) PROVE In(r, e) \/ e = Head(q)
    <3>1. PICK n \in 1 .. Len(q) : q[n] = e
      BY <2>1, <1>2 DEF In
    <3>2. CASE n = 1
      BY <3>1, <3>2, <1>3
    <3>3. CASE n # 1
      <4>1. n - 1 \in 1 .. Len(q) - 1 /\ (n - 1) + 1 = n
        BY <3>3, <1>2
      <4>2. r[n - 1] = e
        BY <4>1, <3>1, <1>1
      <4> QED
        BY <4>1, <4>2, <1>2 DEF In
    <3> QED
      BY <3>2, <3>3
  <2>2. ASSUME In(r, e) PROVE In(q, e)
    <3>1. PICK n \in 1 .. Len(q) - 1 : r[n] = e
      BY <2>2, <1>2 DEF In
    <3>2. n + 1 \in 1 .. Len(q) /\ q[n + 1] = e
      BY <3>1, <1>1, <1>2
    <3> QED
      BY <3>2, <1>2 DEF In
  <2>3. ASSUME e = Head(q) PROVE In(q, e)
    BY <2>3, <1>3 DEF In
  <2> QED
    BY <2>1, <2>2, <2>3
<1> QED
  BY <1>1, <1>3, <1>4 DEF In

(* So do the last element and what is before it.                           *)
LEMMA FrontMember ==
  ASSUME NEW S, NEW q \in Seq(S), q # <<>>
  PROVE  LET r == SubSeq(q, 1, Len(q) - 1) IN
         /\ r \in Seq(S) /\ q[Len(q)] \in S /\ In(q, q[Len(q)])
         /\ \A e : In(q, e) <=> In(r, e) \/ e = q[Len(q)]
<1> DEFINE r == SubSeq(q, 1, Len(q) - 1)
<1>1. Len(q) \in Nat \ {0} /\ DOMAIN q = 1 .. Len(q)
  BY EmptySeq
<1>2. \A i \in 1 .. Len(q) - 1 : q[i] \in S
  BY <1>1, ElementOfSeq
<1>3. r \in Seq(S) /\ Len(r) = Len(q) - 1 /\ \A i \in 1 .. Len(q) - 1 : r[i] = q[i]
  BY <1>1, <1>2, SubSeqProperties
<1>4. DOMAIN r = 1 .. Len(q) - 1
  BY <1>3
<1>5. q[Len(q)] \in S /\ In(q, q[Len(q)])
  BY <1>1, ElementOfSeq DEF In
<1>6. ASSUME NEW e PROVE In(q, e) <=> In(r, e) \/ e = q[Len(q)]
  <2>1. ASSUME In(q, e), e # q[Len(q)] PROVE In(r, e)
    <3>1. PICK n \in 1 .. Len(q) : q[n] = e
      BY <2>1, <1>1 DEF In
    <3>2. n \in 1 .. Len(q) - 1
      BY <3>1, <2>1, <1>1
    <3> QED
      BY <3>1, <3>2, <1>3, <1>4 DEF In
  <2>2. ASSUME In(r, e) PROVE In(q, e)
    <3>1. PICK n \in 1 .. Len(q) - 1 : r[n] = e
      BY <2>2, <1>4 DEF In
    <3> QED
      BY <3>1, <1>1, <1>3 DEF In
  <2> QED
    BY <2>1, <2>2, <1>5
<1> QED
  BY <1>3, <1>5, <1>6

-----------------------------------------------------------------------------
(* What each operator does to the queues and to the stacks.                *)
LEMMA EnqueueEffect ==
  ASSUME TypeOK, NEW t \in Threads, NEW e \in Events, Enqueue(t, e)
  PROVE  /\ m_queue' \in [Threads -> Seq(Events)] /\ forced' \in BOOLEAN
         /\ forced' <=> forced \/ (e = "forced" /\ Accepts(e))
         /\ \A f : Queued(f)' <=> Queued(f) \/ (Accepts(e) /\ f = e)
<1>1. m_queue \in [Threads -> Seq(Events)] /\ forced \in BOOLEAN
  BY DEF TypeOK
<1>2. forced' \in BOOLEAN /\ (forced' <=> forced \/ (e = "forced" /\ Accepts(e)))
  BY <1>1 DEF Enqueue
<1>3. CASE ~Accepts(e)
  <2>1. m_queue' = m_queue
    BY <1>3 DEF Enqueue
  <2> QED
    BY <2>1, <1>1, <1>2, <1>3 DEF Queued
<1>4. CASE Accepts(e)
  <2>1. m_queue' = [m_queue EXCEPT ![t] = Append(m_queue[t], e)]
    BY <1>4 DEF Enqueue, Produce
  <2>2. m_queue[t] \in Seq(Events)
    BY <1>1
  <2>3. /\ Append(m_queue[t], e) \in Seq(Events)
        /\ \A f : In(Append(m_queue[t], e), f) <=> In(m_queue[t], f) \/ f = e
    BY <2>2, AppendMember
  <2>4. /\ m_queue' \in [Threads -> Seq(Events)] /\ m_queue'[t] = Append(m_queue[t], e)
        /\ \A u \in Threads : u # t => m_queue'[u] = m_queue[u]
    BY <2>1, <2>3, <1>1
  <2>5. ASSUME NEW f PROVE Queued(f)' <=> Queued(f) \/ f = e
    BY <2>3, <2>4 DEF Queued
  <2> QED
    BY <2>4, <2>5, <1>2, <1>4
<1> QED
  BY <1>3, <1>4

(* The worker takes an event that was queued; the others stay.             *)
LEMMA TakeEffect ==
  ASSUME TypeOK, NEW t \in Threads, Take(t)
  PROVE  /\ m_queue' \in [Threads -> Seq(Events)] /\ evt' \in Events /\ Queued(evt')
         /\ \A f : Queued(f)' => Queued(f)
         /\ \A f : Queued(f) => Queued(f)' \/ f = evt'
<1>1. m_queue \in [Threads -> Seq(Events)] /\ m_queue[t] # <<>>
  BY DEF TypeOK, Take
<1>2. evt' = Head(m_queue[t]) /\ m_queue' = [m_queue EXCEPT ![t] = Tail(m_queue[t])]
  BY DEF Take
<1>3. m_queue[t] \in Seq(Events)
  BY <1>1
<1>4. /\ Tail(m_queue[t]) \in Seq(Events) /\ Head(m_queue[t]) \in Events
      /\ In(m_queue[t], Head(m_queue[t]))
      /\ \A f : In(m_queue[t], f) <=> In(Tail(m_queue[t]), f) \/ f = Head(m_queue[t])
  BY <1>1, <1>3, TailMember
<1>5. /\ m_queue' \in [Threads -> Seq(Events)] /\ m_queue'[t] = Tail(m_queue[t])
      /\ \A u \in Threads : u # t => m_queue'[u] = m_queue[u]
  BY <1>1, <1>2, <1>4
<1>6. ASSUME NEW f, Queued(f)' PROVE Queued(f)
  BY <1>6, <1>4, <1>5 DEF Queued
<1>7. ASSUME NEW f, Queued(f) PROVE Queued(f)' \/ f = evt'
  BY <1>7, <1>2, <1>4, <1>5 DEF Queued
<1>8. Queued(evt') /\ evt' \in Events
  BY <1>2, <1>4 DEF Queued
<1> QED
  BY <1>5, <1>6, <1>7, <1>8

(* A signal puts a frame on one stack.                                     *)
LEMMA RaiseEffect ==
  ASSUME TypeOK, NEW t \in Threads, NEW s \in Signals, Raise(t, s)
  PROVE  /\ handlers' \in [Threads -> Seq(Frames)] /\ handlers'[t] # <<>>
         /\ \A u \in Threads : u # t => handlers'[u] = handlers[u]
         /\ \A u \in Threads : \A f :
              OnStack(u, f)' <=> \/ OnStack(u, f)
                                 \/ u = t /\ f = [sig |-> s, step |-> "check"]
<1> DEFINE new == [sig |-> s, step |-> "check"]
<1>1. handlers \in [Threads -> Seq(Frames)]
  BY DEF TypeOK
<1>2. new \in Frames
  BY DEF Frames
<1>3. handlers' = [handlers EXCEPT ![t] = Append(handlers[t], new)]
  BY DEF Raise
<1>4. handlers[t] \in Seq(Frames)
  BY <1>1
<1>5. /\ Append(handlers[t], new) \in Seq(Frames) /\ Append(handlers[t], new) # <<>>
      /\ \A f : In(Append(handlers[t], new), f) <=> In(handlers[t], f) \/ f = new
  BY <1>2, <1>4, AppendMember
<1> HIDE DEF new
<1>6. /\ handlers' \in [Threads -> Seq(Frames)] /\ handlers'[t] = Append(handlers[t], new)
      /\ \A u \in Threads : u # t => handlers'[u] = handlers[u]
  BY <1>1, <1>3, <1>5
<1>7. ASSUME NEW u \in Threads, NEW f
      PROVE  OnStack(u, f)' <=> OnStack(u, f) \/ (u = t /\ f = new)
  BY <1>5, <1>6 DEF OnStack
<1> QED
  BY <1>5, <1>6, <1>7 DEF new

(* A handler runs on top of the others of its thread.                      *)
LEMMA TopFrame ==
  ASSUME TypeOK, NEW t \in Threads, handlers[t] # <<>>
  PROVE  Top(t) \in Frames /\ OnStack(t, Top(t))
<1>1. handlers[t] \in Seq(Frames)
  BY DEF TypeOK
<1> QED
  BY <1>1, FrontMember DEF Top, OnStack

(* A handler that returns leaves the frames under it.                      *)
LEMMA ReturnEffect ==
  ASSUME TypeOK, NEW t \in Threads, handlers[t] # <<>>, Return(t)
  PROVE  /\ handlers' \in [Threads -> Seq(Frames)]
         /\ \A u \in Threads : u # t => handlers'[u] = handlers[u]
         /\ \A u \in Threads : \A f : OnStack(u, f)' => OnStack(u, f)
         /\ \A u \in Threads : \A f : OnStack(u, f) => OnStack(u, f)' \/ (u = t /\ f = Top(t))
<1> DEFINE r == SubSeq(handlers[t], 1, Len(handlers[t]) - 1)
<1>1. handlers \in [Threads -> Seq(Frames)] /\ handlers[t] \in Seq(Frames)
  BY DEF TypeOK
<1>2. /\ r \in Seq(Frames)
      /\ \A f : In(handlers[t], f) <=> In(r, f) \/ f = Top(t)
  BY <1>1, FrontMember DEF Top
<1>3. handlers' = [handlers EXCEPT ![t] = r]
  BY DEF Return
<1> HIDE DEF r
<1>4. /\ handlers' \in [Threads -> Seq(Frames)] /\ handlers'[t] = r
      /\ \A u \in Threads : u # t => handlers'[u] = handlers[u]
  BY <1>1, <1>2, <1>3
<1>5. ASSUME NEW u \in Threads, NEW f
      PROVE  /\ OnStack(u, f)' => OnStack(u, f)
             /\ OnStack(u, f) => OnStack(u, f)' \/ (u = t /\ f = Top(t))
  BY <1>2, <1>4 DEF OnStack
<1> QED
  BY <1>4, <1>5

(* A frame that goes on changes its step.                                  *)
LEMMA AdvanceEffect ==
  ASSUME TypeOK, NEW t \in Threads, handlers[t] # <<>>,
         NEW step \in {"check", "terminate", "reload"}, Advance(t, step)
  PROVE  LET new == [sig |-> Top(t).sig, step |-> step] IN
         /\ handlers' \in [Threads -> Seq(Frames)] /\ handlers'[t] # <<>>
         /\ \A u \in Threads : u # t => handlers'[u] = handlers[u]
         /\ new \in Frames /\ In(handlers'[t], new)
         /\ \A u \in Threads : \A f : OnStack(u, f)' => OnStack(u, f) \/ (u = t /\ f = new)
         /\ \A u \in Threads : \A f : OnStack(u, f) => OnStack(u, f)' \/ (u = t /\ f = Top(t))
<1> DEFINE q == handlers[t]
           new == [sig |-> Top(t).sig, step |-> step]
           r == [q EXCEPT ![Len(q)] = new]
<1>1. handlers \in [Threads -> Seq(Frames)] /\ q \in Seq(Frames) /\ q # <<>>
  BY DEF TypeOK
<1>2. Len(q) \in Nat \ {0} /\ DOMAIN q = 1 .. Len(q) /\ Top(t) = q[Len(q)]
  BY <1>1, EmptySeq DEF Top
<1>3. Top(t) \in Frames
  BY <1>1, <1>2, ElementOfSeq
<1>4. new \in Frames /\ [Top(t) EXCEPT !.step = step] = new
  BY <1>3 DEF Frames
<1>5. handlers' = [handlers EXCEPT ![t] = r]
  <2>1. handlers' = [handlers EXCEPT ![t] =
                       [q EXCEPT ![Len(q)] = [q[Len(q)] EXCEPT !.step = step]]]
    BY DEF Advance
  <2> QED
    BY <2>1, <1>2, <1>4
<1>6. r \in Seq(Frames) /\ Len(r) = Len(q) /\ DOMAIN r = 1 .. Len(q)
      /\ r[Len(q)] = new /\ \A i \in 1 .. Len(q) - 1 : r[i] = q[i]
  <2>1. /\ r \in Seq(Frames) /\ Len(r) = Len(q)
        /\ \A i \in 1 .. Len(q) : r[i] = IF i = Len(q) THEN new ELSE q[i]
    BY <1>1, <1>2, <1>4, ExceptSeq
  <2>2. r[Len(q)] = new /\ \A i \in 1 .. Len(q) - 1 : r[i] = q[i]
    BY <2>1, <1>2
  <2>3. DOMAIN r = 1 .. Len(q)
    BY <1>2
  <2> QED
    BY <2>1, <2>2, <2>3
<1>7. \A f : In(r, f) => In(q, f) \/ f = new
  <2> SUFFICES ASSUME NEW f, In(r, f), f # new PROVE In(q, f)
    OBVIOUS
  <2>1. PICK n \in 1 .. Len(q) : r[n] = f
    BY <1>6 DEF In
  <2>2. n \in 1 .. Len(q) - 1
    BY <2>1, <1>2, <1>6
  <2> QED
    BY <2>1, <2>2, <1>2, <1>6 DEF In
<1>8. \A f : In(q, f) => In(r, f) \/ f = Top(t)
  <2> SUFFICES ASSUME NEW f, In(q, f), f # Top(t) PROVE In(r, f)
    OBVIOUS
  <2>1. PICK n \in 1 .. Len(q) : q[n] = f
    BY <1>2 DEF In
  <2>2. n \in 1 .. Len(q) - 1
    BY <2>1, <1>2
  <2> QED
    BY <2>1, <2>2, <1>2, <1>6 DEF In
<1>9. In(r, new) /\ r # <<>>
  <2>1. Len(q) \in DOMAIN r /\ r[Len(q)] = new
    BY <1>2, <1>6
  <2>2. r # <<>>
    BY <1>2, <1>6
  <2> QED
    BY <2>1, <2>2 DEF In
<1> HIDE DEF q, r, new
<1>10. /\ handlers' \in [Threads -> Seq(Frames)] /\ handlers'[t] = r
       /\ \A u \in Threads : u # t => handlers'[u] = handlers[u]
  BY <1>1, <1>5, <1>6
<1>11. ASSUME NEW u \in Threads, NEW f
       PROVE  /\ OnStack(u, f)' => OnStack(u, f) \/ (u = t /\ f = new)
              /\ OnStack(u, f) => OnStack(u, f)' \/ (u = t /\ f = Top(t))
  BY <1>10, <1>7, <1>8 DEF OnStack, q
<1>12. new \in Frames /\ In(handlers'[t], new)
  BY <1>4, <1>9, <1>10
<1> QED
  BY <1>9, <1>10, <1>11, <1>12 DEF new

(* Queues and stacks that stay keep their members.                         *)
LEMMA Unchanged ==
  /\ UNCHANGED m_queue => \A f : Queued(f)' <=> Queued(f)
  /\ UNCHANGED handlers => \A t \in Threads : \A f : OnStack(t, f)' <=> OnStack(t, f)
BY DEF Queued, OnStack

(* No handler runs on an empty stack.                                      *)
LEMMA EmptyStack ==
  ASSUME NEW t \in Threads, handlers[t] = <<>>
  PROVE  \A f : ~OnStack(t, f)
BY DEF OnStack, In

-----------------------------------------------------------------------------
(* Types.                                                                  *)
LEMMA TypeStep ==
  ASSUME TypeOK, Next
  PROVE  TypeOK'
<1> USE DEF TypeOK, MainPC, WorkerPC, Typing, Idle, Threads, Events, Signals,
        flags, fds, input, screen, worker, main
<1>1. ASSUME NEW s \in todo, Signal(s) PROVE TypeOK'
  BY <1>1, RaiseEffect, StimulusTypes DEF Signal, Happens, Asks
<1>2. ASSUME NEW s \in todo, NoModules(s) PROVE TypeOK'
  BY <1>2, RaiseEffect DEF NoModules, Happens, Asks
<1>3. ASSUME NEW s \in todo, DescriptorReady(s) PROVE TypeOK'
  <2>1. /\ fifo' \in {EmptyFifo, "quit", "restart", "hook"} \cup Inputs
        /\ xcb' \subseteq {"background", "randr"} \cup Inputs
    BY <1>3, StimulusTypes DEF DescriptorReady
  <2>2. conf' \in BOOLEAN /\ disconnected' \in BOOLEAN
    BY <1>3 DEF DescriptorReady
  <2>3. asked' \subseteq {"quit", "reload", "error"} /\ todo' \subseteq Stimuli
    BY <1>3 DEF DescriptorReady, Happens, Asks
  <2>4. UNCHANGED <<flags, main, m_queue, m_process_events, input, worker, screen>>
    BY <1>3 DEF DescriptorReady
  <2> QED
    BY <2>1, <2>2, <2>3, <2>4
<1>4. ASSUME NEW s \in todo, DoubleClick(s) PROVE TypeOK'
  BY <1>4, StimulusTypes DEF DoubleClick, Happens, Begin
<1>5. ASSUME NEW s \in todo, Change(s) PROVE TypeOK'
  BY <1>5 DEF Change, Happens
<1>6. CASE Announce
  <2>1. m_queue' \in [Threads -> Seq(Events)] /\ forced' \in BOOLEAN
    BY <1>6, EnqueueEffect DEF Announce
  <2>2. announcing' = FALSE
    BY <1>6 DEF Announce
  <2>3. UNCHANGED <<todo, fds, flags, main, m_process_events, input, worker, version,
                    shown, replaced, asked>>
    BY <1>6 DEF Announce
  <2>4. UNCHANGED <<flags, fds, main, input, worker>>
    BY <2>3
  <2>5. announcing' \in BOOLEAN /\ m_process_events' \in BOOLEAN
    BY <2>2, <2>3
  <2>6. /\ todo' \subseteq Stimuli /\ replaced' \subseteq {"change", "forced"}
        /\ version' \in Nat /\ shown' \in 0 .. version'
        /\ asked' \subseteq {"quit", "reload", "error"}
    BY <2>3
  <2>7. /\ conf' \in BOOLEAN /\ disconnected' \in BOOLEAN /\ g_terminate' \in BOOLEAN
        /\ g_reload' \in BOOLEAN /\ pipe' \in BOOLEAN
    BY <2>4
  <2> QED
    BY <2>1, <2>4, <2>5, <2>6, <2>7
<1>7. ASSUME NEW t \in {"main", "taskqueue"}, InputCheck(t),
             UNCHANGED <<todo, fds, flags, main, m_process_events, worker, version,
                         shown, announcing, replaced, asked>>
      PROVE TypeOK'
  <2>1. /\ typing[t] \in Typing /\ [typing[t] EXCEPT !.step = "set"] \in Typing
        /\ Idle \in Typing
    <3>1. typing[t] \in Typing
      <4> HIDE DEF Typing
      <4> QED
        BY DEF TypeOK
    <3> QED
      BY <3>1
  <2>2. typing' = [typing EXCEPT ![t] = IF m_inputdata = NoInput
                                       THEN [typing[t] EXCEPT !.step = "set"] ELSE Idle]
    BY <1>7 DEF InputCheck
  <2>3. typing' \in [{"main", "taskqueue"} -> Typing]
    <3> HIDE DEF Typing, Idle
    <3> QED
      BY <2>1, <2>2
  <2> QED
    BY <1>7, <2>3 DEF InputCheck
<1>8. ASSUME NEW t \in {"main", "taskqueue"}, InputSet(t),
             UNCHANGED <<todo, fds, flags, main, m_process_events, worker, version,
                         shown, announcing, replaced, asked>>
      PROVE TypeOK'
  <2>1. /\ typing' \in [{"main", "taskqueue"} -> Typing]
        /\ m_inputdata' \in Inputs \cup {NoInput}
    BY <1>8 DEF InputSet
  <2> QED
    BY <1>8, <2>1 DEF InputSet
<1>9. ASSUME NEW t \in {"main", "taskqueue"}, InputEnqueue(t),
             UNCHANGED <<todo, fds, flags, main, m_process_events, worker, version,
                         shown, announcing, replaced, asked>>
      PROVE TypeOK'
  BY <1>9, EnqueueEffect DEF InputEnqueue
<1>10. ASSUME NEW t \in Threads, HandlerStep(t) PROVE TypeOK'
  <2>1. /\ UNCHANGED <<todo, fds, main, m_queue, m_process_events, input, worker,
                       screen, asked>>
    BY <1>10 DEF HandlerStep
  <2>2. CASE Top(t).step = "check"
    <3>1. /\ UNCHANGED <<g_terminate, g_reload, pipe>>
          /\ Return(t) \/ Advance(t, "terminate")
      BY <1>10, <2>2 DEF HandlerStep
    <3>2. handlers' \in [Threads -> Seq(Frames)]
      BY <1>10, <3>1, AdvanceEffect, ReturnEffect DEF HandlerStep
    <3> QED
      BY <2>1, <3>1, <3>2
  <2>3. CASE Top(t).step = "terminate"
    <3>1. g_terminate' = TRUE /\ UNCHANGED <<g_reload, pipe>> /\ Advance(t, "reload")
      BY <1>10, <2>3 DEF HandlerStep
    <3>2. handlers' \in [Threads -> Seq(Frames)]
      BY <1>10, <3>1, AdvanceEffect DEF HandlerStep
    <3> QED
      BY <2>1, <3>1, <3>2
  <2>4. CASE Top(t).step = "reload"
    <3>1. /\ g_reload' = Decision(Top(t).sig) /\ pipe' = TRUE /\ Return(t)
          /\ UNCHANGED g_terminate
      BY <1>10, <2>4 DEF HandlerStep
    <3>2. handlers' \in [Threads -> Seq(Frames)]
      BY <1>10, <3>1, ReturnEffect DEF HandlerStep
    <3>3. g_reload' \in BOOLEAN
      BY <3>1 DEF Decision
    <3> QED
      BY <2>1, <3>1, <3>2, <3>3
  <2> QED
    BY <1>10, <2>2, <2>3, <2>4, TopFrame DEF HandlerStep, Frames
<1>11. CASE Loop
  BY <1>11 DEF Loop, MainAt, MainOnly
<1>12. CASE Select
  BY <1>12 DEF Select, Readable, MainAt, MainOnly
<1>13. CASE Selected
  BY <1>13 DEF Selected, MainAt, MainOnly
<1>14. CASE DrainPipe
  BY <1>14 DEF DrainPipe, MainAt, MainOnly
<1>15. CASE ReadConfig
  <2>1. conf' \in BOOLEAN /\ g_terminate' \in BOOLEAN /\ g_reload' \in BOOLEAN
    BY <1>15 DEF ReadConfig
  <2> QED
    BY <1>15, <2>1 DEF ReadConfig, MainAt, MainOnly
<1>16. CASE ReadX
  <2>1. m_queue' \in [Threads -> Seq(Events)] /\ forced' \in BOOLEAN
    BY <1>16, EnqueueEffect DEF ReadX
  <2>2. handlers' \in [Threads -> Seq(Frames)]
    BY <1>16, RaiseEffect DEF ReadX
  <2>3. typing' \in [{"main", "taskqueue"} -> Typing]
    <3>1. CASE UNCHANGED typing
      BY <3>1
    <3>2. CASE \E e \in Inputs : Begin("main", e)
      <4>1. PICK e \in Inputs :
              typing' = [typing EXCEPT !["main"] = [step |-> "check", data |-> e]]
        BY <3>2 DEF Begin
      <4>2. [step |-> "check", data |-> e] \in Typing
        OBVIOUS
      <4> HIDE DEF Typing
      <4> QED
        BY <4>1, <4>2
    <3> QED
      BY <1>16, <3>1, <3>2 DEF ReadX
  <2>4. xcb' \subseteq {"background", "randr"} \cup Inputs /\ mpc' \in MainPC
    BY <1>16 DEF ReadX
  <2> QED
    BY <1>16, <2>1, <2>2, <2>3, <2>4 DEF ReadX, MainOnly
<1>17. CASE ReadIpc
  <2>1. ASSUME fifo \in Inputs, Begin("main", fifo)
        PROVE  typing' \in [{"main", "taskqueue"} -> Typing]
    <3>1. [step |-> "check", data |-> fifo] \in Typing
      BY <2>1
    <3> HIDE DEF Typing
    <3> QED
      BY <2>1, <3>1 DEF Begin
  <2>2. ASSUME Command(fifo)
        PROVE  /\ m_queue' \in [Threads -> Seq(Events)] /\ forced' \in BOOLEAN
               /\ UNCHANGED <<typing, version>>
    <3>1. QuitEvent(fifo = "restart") \in Events
      BY DEF QuitEvent
    <3> QED
      BY <2>2, <3>1, EnqueueEffect DEF Command
  <2>3. ASSUME Hook
        PROVE  /\ m_queue' \in [Threads -> Seq(Events)] /\ forced' \in BOOLEAN
               /\ typing' = typing /\ version' \in Nat /\ version' >= version
    BY <2>3, EnqueueEffect DEF Hook
  <2>4. /\ m_queue' \in [Threads -> Seq(Events)] /\ forced' \in BOOLEAN
        /\ typing' \in [{"main", "taskqueue"} -> Typing]
        /\ version' \in Nat /\ version' >= version
    BY <1>17, <2>1, <2>2, <2>3 DEF ReadIpc
  <2>5. fifo' = fifo \/ fifo' = EmptyFifo
    BY <1>17 DEF ReadIpc
  <2>6. /\ mpc' = "loop"
        /\ UNCHANGED <<todo, m_process_events, worker, shown, announcing, replaced,
                       xcb, conf, disconnected, flags, fdset, m_inputdata, handled,
                       asked>>
    BY <1>17 DEF ReadIpc
  <2>7. handlers' = handlers
    BY <1>17 DEF ReadIpc, MainAt, MainOnly
  <2>8. shown' \in 0 .. version'
    BY <2>4, <2>6
  <2> HIDE DEF Typing, Frames
  <2> QED
    BY <2>4, <2>5, <2>6, <2>7, <2>8
<1>18. CASE EnqueueQuit
  BY <1>18, EnqueueEffect DEF EnqueueQuit, QuitEvent, MainAt, MainOnly
<1>19. CASE Join
  BY <1>19 DEF Join, MainAt, MainOnly
<1>20. CASE Ready
  BY <1>20 DEF Ready, WorkerAt, WorkerOnly
<1>21. CASE WorkerAnnounce
  BY <1>21, EnqueueEffect DEF WorkerAnnounce, WorkerAt, WorkerOnly
<1>22. CASE WorkerLoop
  BY <1>22 DEF WorkerLoop, WorkerAt, WorkerOnly, Quiet
<1>23. CASE WaitDequeue
  BY <1>23, TakeEffect DEF WaitDequeue, WorkerAt, WorkerOnly
<1>24. CASE GotEvent
  <2>1. handlers' \in [Threads -> Seq(Frames)] /\ wpc' \in WorkerPC
    BY <1>24, RaiseEffect DEF GotEvent, Process
  <2>2. swallowed' \in 0 .. m_swallow_limit
    BY <1>24, Limit DEF GotEvent
  <2>3. UNCHANGED <<WorkerOnly, Quiet, m_inputdata, handled, evt, cmd>>
    BY <1>24 DEF GotEvent
  <2> HIDE DEF Typing, Frames
  <2> QED
    BY <2>1, <2>2, <2>3 DEF WorkerOnly, Quiet
<1>25. CASE Swallow
  <2>1. m_queue' \in [Threads -> Seq(Events)] /\ evt' \in Events
    BY <1>25, TakeEffect DEF Swallow
  <2>2. handlers' \in [Threads -> Seq(Frames)] /\ wpc' \in WorkerPC
    BY <1>25, RaiseEffect DEF Swallow, Process, WorkerAt
  <2>3. swallowed' \in 0 .. m_swallow_limit
    BY <1>25, Limit DEF Swallow
  <2>4. replaced' \subseteq {"change", "forced"}
    BY <1>25 DEF Swallow, Replace
  <2>5. UNCHANGED <<WorkerOnly, m_process_events, forced, version, shown,
                    m_inputdata, handled, cmd>>
    BY <1>25 DEF Swallow
  <2> HIDE DEF Typing, Frames
  <2> QED
    BY <2>1, <2>2, <2>3, <2>4, <2>5 DEF WorkerOnly
<1>26. CASE SwallowEnd
  BY <1>26 DEF SwallowEnd, WorkerAt, WorkerOnly, Quiet
<1>27. CASE ProcessUpdate
  <2>1. forced' \in BOOLEAN /\ replaced' \subseteq {"change", "forced"}
    BY <1>27 DEF ProcessUpdate
  <2> QED
    BY <1>27, <2>1 DEF ProcessUpdate, WorkerOnly
<1>28. CASE MoveInput
  BY <1>28 DEF MoveInput, WorkerAt, WorkerOnly, Quiet
<1>29. CASE ClearInput
  BY <1>29 DEF ClearInput, WorkerAt, WorkerOnly, Quiet
<1>30. CASE Dispatch
  BY <1>30, CommandsAreInputs DEF Dispatch, WorkerAt, WorkerOnly
<1> QED
  BY <1>1, <1>2, <1>3, <1>4, <1>5, <1>6, <1>7, <1>8, <1>9, <1>10, <1>11, <1>12,
     <1>13, <1>14, <1>15, <1>16, <1>17, <1>18, <1>19, <1>20, <1>21, <1>22,
     <1>23, <1>24, <1>25, <1>26, <1>27, <1>28, <1>29, <1>30
     DEF Next, Stimulus, InputStep, MainStep, WorkerStep

(* What was asked for.                                                     *)
LEMMA HeardStep ==
  ASSUME TypeOK, Heard, Next
  PROVE  Heard'
<1> USE DEF Heard, Threads, Events, Signals, flags, fds, input, screen, worker,
        main
<1>1. ASSUME NEW s \in todo, Signal(s) PROVE Heard'
  <2>1. s.arg \in {"SIGTERM", "SIGUSR1"}
    BY <1>1, StimulusTypes DEF TypeOK, Signal
  <2> QED
    BY <1>1, <2>1, Unchanged, RaiseEffect DEF Signal, Asks
<1>2. ASSUME NEW s \in todo, NoModules(s) PROVE Heard'
  BY <1>2, Unchanged, RaiseEffect DEF NoModules, Happens, Asks
<1>3. ASSUME NEW s \in todo, DescriptorReady(s) PROVE Heard'
  BY <1>3, Unchanged DEF DescriptorReady, Happens, Asks
<1>4. ASSUME NEW s \in todo, DoubleClick(s) PROVE Heard'
  BY <1>4, Unchanged DEF DoubleClick, Happens, Begin
<1>5. ASSUME NEW s \in todo, Change(s) PROVE Heard'
  BY <1>5, Unchanged DEF Change, Happens
<1>6. CASE Announce
  BY <1>6, Unchanged, EnqueueEffect DEF Announce
<1>7. ASSUME NEW t \in {"main", "taskqueue"}, InputCheck(t),
             UNCHANGED <<todo, fds, flags, main, m_process_events, worker, version,
                         shown, announcing, replaced, asked>>
      PROVE Heard'
  BY <1>7, Unchanged DEF InputCheck
<1>8. ASSUME NEW t \in {"main", "taskqueue"}, InputSet(t),
             UNCHANGED <<todo, fds, flags, main, m_process_events, worker, version,
                         shown, announcing, replaced, asked>>
      PROVE Heard'
  BY <1>8, Unchanged DEF InputSet
<1>9. ASSUME NEW t \in {"main", "taskqueue"}, InputEnqueue(t),
             UNCHANGED <<todo, fds, flags, main, m_process_events, worker, version,
                         shown, announcing, replaced, asked>>
      PROVE Heard'
  BY <1>9, Unchanged, EnqueueEffect DEF InputEnqueue
<1>10. ASSUME NEW t \in Threads, HandlerStep(t) PROVE Heard'
  <2>1. /\ UNCHANGED <<todo, fds, main, m_queue, m_process_events, input, worker,
                       screen, asked>>
        /\ Top(t) \in Frames /\ OnStack(t, Top(t))
    BY <1>10, TopFrame DEF HandlerStep
  <2>2. \A u \in Threads, f \in Frames :
           OnStack(u, f)' /\ f.sig = "SIGUSR1" => "reload" \in asked
    <3>1. CASE Return(t)
      BY <1>10, <3>1, ReturnEffect DEF HandlerStep
    <3>2. CASE \E step \in {"terminate", "reload"} : Advance(t, step)
      <4>1. PICK step \in {"terminate", "reload"} : Advance(t, step)
        BY <3>2
      <4>2. ASSUME NEW u \in Threads, NEW f \in Frames, OnStack(u, f)', f.sig = "SIGUSR1"
            PROVE  OnStack(u, f) \/ (u = t /\ Top(t).sig = "SIGUSR1")
        BY <1>10, <4>1, <4>2, AdvanceEffect DEF HandlerStep
      <4> QED
        BY <4>2, <2>1
    <3> QED
      BY <1>10, <2>1, <3>1, <3>2 DEF HandlerStep, Frames
  <2>3. g_reload' => "reload" \in asked
    BY <1>10, <2>1 DEF HandlerStep, Decision, Frames
  <2> QED
    BY <2>1, <2>2, <2>3, Unchanged
<1>11. CASE Loop
  BY <1>11, Unchanged DEF Loop, MainAt, MainOnly
<1>12. CASE Select
  BY <1>12, Unchanged DEF Select, Readable, MainAt, MainOnly
<1>13. CASE Selected
  BY <1>13, Unchanged DEF Selected, MainAt, MainOnly
<1>14. CASE DrainPipe
  BY <1>14, Unchanged DEF DrainPipe, MainAt, MainOnly
<1>15. CASE ReadConfig
  BY <1>15, Unchanged DEF ReadConfig, MainAt, MainOnly
<1>16. CASE ReadX
  BY <1>16, Unchanged, EnqueueEffect, RaiseEffect, InputNames
     DEF ReadX, Begin, MainAt, MainOnly
<1>17. CASE ReadIpc
  <2>1. /\ UNCHANGED <<evt, conf, fdset, disconnected, xcb, flags, asked>>
        /\ fifo' \in {fifo, EmptyFifo}
    BY <1>17 DEF ReadIpc, Command, Hook, QuitEvent, MainOnly
  <2>2. \A f : Queued(f)' => Queued(f) \/ f = "update" \/ f = "quit"
                               \/ (fifo = "restart" /\ f = "reload")
    <3>1. CASE UNCHANGED m_queue
      BY <3>1, Unchanged
    <3>2. CASE \E e \in {"update", "quit"} : Enqueue("main", e)
      BY <3>2, EnqueueEffect
    <3>3. CASE fifo = "restart" /\ Enqueue("main", "reload")
      BY <3>3, EnqueueEffect
    <3> QED
      BY <1>17, <3>1, <3>2, <3>3 DEF ReadIpc, Command, Hook, QuitEvent
  <2> QED
    BY <2>1, <2>2, Unchanged DEF EmptyFifo
<1>18. CASE EnqueueQuit
  BY <1>18, Unchanged, EnqueueEffect
     DEF EnqueueQuit, QuitEvent, MainAt, MainOnly
<1>19. CASE Join
  BY <1>19, Unchanged DEF Join, MainAt, MainOnly
<1>20. CASE Ready
  BY <1>20, Unchanged DEF Ready, WorkerAt, WorkerOnly
<1>21. CASE WorkerAnnounce
  <2>1. evt \in Events
    BY DEF TypeOK
  <2> QED
    BY <1>21, <2>1, Unchanged, EnqueueEffect DEF WorkerAnnounce, WorkerOnly
<1>22. CASE WorkerLoop
  BY <1>22, Unchanged DEF WorkerLoop, WorkerAt, WorkerOnly, Quiet
<1>23. CASE WaitDequeue
  BY <1>23, Unchanged, TakeEffect DEF WaitDequeue, WorkerAt, WorkerOnly
<1>24. CASE GotEvent
  BY <1>24, Unchanged, RaiseEffect
     DEF GotEvent, Process, WorkerAt, WorkerOnly, Quiet
<1>25. CASE Swallow
  BY <1>25, Unchanged, RaiseEffect, TakeEffect
     DEF Swallow, Process, Replace, WorkerAt, WorkerOnly
<1>26. CASE SwallowEnd
  BY <1>26, Unchanged DEF SwallowEnd, WorkerAt, WorkerOnly, Quiet
<1>27. CASE ProcessUpdate
  BY <1>27, Unchanged DEF ProcessUpdate, WorkerAt, WorkerOnly
<1>28. CASE MoveInput
  BY <1>28, Unchanged DEF MoveInput, WorkerAt, WorkerOnly, Quiet
<1>29. CASE ClearInput
  BY <1>29, Unchanged DEF ClearInput, WorkerAt, WorkerOnly, Quiet
<1>30. CASE Dispatch
  BY <1>30, Unchanged DEF Dispatch, WorkerAt, WorkerOnly
<1> QED
  BY <1>1, <1>2, <1>3, <1>4, <1>5, <1>6, <1>7, <1>8, <1>9, <1>10, <1>11, <1>12,
     <1>13, <1>14, <1>15, <1>16, <1>17, <1>18, <1>19, <1>20, <1>21, <1>22,
     <1>23, <1>24, <1>25, <1>26, <1>27, <1>28, <1>29, <1>30
     DEF Next, Stimulus, InputStep, MainStep, WorkerStep

(* The decision.                                                           *)
LEMMA DecidedStep ==
  ASSUME TypeOK, Heard, Decided, Next
  PROVE  Decided'
<1> USE DEF Decided, OnlyReload, Returned, Threads, Events, Signals, flags,
        fds, input, screen, worker, main
<1>1. ASSUME NEW s \in todo, Signal(s) PROVE Decided'
  <2>1. /\ s.arg = "SIGTERM" \/ s.arg = "SIGUSR1"
        /\ Returned => mpc = "returned"
    BY <1>1, StimulusTypes DEF TypeOK, Signal
  <2>2. /\ mpc # "returned" /\ Raise("main", s.arg)
        /\ mpc' = (IF mpc = "select" THEN "quit" ELSE mpc)
        /\ asked' = asked \cup {IF s.arg = "SIGUSR1" THEN "reload" ELSE "quit"}
        /\ UNCHANGED <<g_terminate, g_reload, m_queue, evt, wpc>>
    BY <1>1 DEF Signal, Happens, Asks
  <2> QED
    BY <2>1, <2>2, Unchanged, RaiseEffect
<1>2. ASSUME NEW s \in todo, NoModules(s) PROVE Decided'
  BY <1>2, Unchanged, RaiseEffect DEF NoModules, Happens, Asks
<1>3. ASSUME NEW s \in todo, DescriptorReady(s) PROVE Decided'
  BY <1>3, Unchanged DEF DescriptorReady, Happens, Asks
<1>4. ASSUME NEW s \in todo, DoubleClick(s) PROVE Decided'
  BY <1>4, Unchanged DEF DoubleClick, Happens, Begin
<1>5. ASSUME NEW s \in todo, Change(s) PROVE Decided'
  BY <1>5, Unchanged DEF Change, Happens
<1>6. CASE Announce
  BY <1>6, Unchanged, EnqueueEffect DEF Announce
<1>7. ASSUME NEW t \in {"main", "taskqueue"}, InputCheck(t),
             UNCHANGED <<todo, fds, flags, main, m_process_events, worker, version,
                         shown, announcing, replaced, asked>>
      PROVE Decided'
  BY <1>7, Unchanged DEF InputCheck
<1>8. ASSUME NEW t \in {"main", "taskqueue"}, InputSet(t),
             UNCHANGED <<todo, fds, flags, main, m_process_events, worker, version,
                         shown, announcing, replaced, asked>>
      PROVE Decided'
  BY <1>8, Unchanged DEF InputSet
<1>9. ASSUME NEW t \in {"main", "taskqueue"}, InputEnqueue(t),
             UNCHANGED <<todo, fds, flags, main, m_process_events, worker, version,
                         shown, announcing, replaced, asked>>
      PROVE Decided'
  BY <1>9, Unchanged, EnqueueEffect DEF InputEnqueue
<1>10. ASSUME NEW t \in Threads, HandlerStep(t) PROVE Decided'
  <2>1. /\ UNCHANGED <<mpc, wpc, evt, m_queue, asked>> /\ handlers[t] # <<>>
        /\ Top(t) \in Frames /\ OnStack(t, Top(t))
        /\ Top(t).step \in {"check", "terminate", "reload"}
    BY <1>10, TopFrame DEF HandlerStep, Frames
  <2>2. CASE Top(t).step = "check" /\ (g_reload \/ g_terminate)
    <3>1. Return(t) /\ UNCHANGED <<g_terminate, g_reload>>
      BY <1>10, <2>2 DEF HandlerStep
    <3> QED
      BY <2>1, <2>2, <3>1, Unchanged, ReturnEffect
  <2>3. CASE Top(t).step = "check" /\ ~g_reload /\ ~g_terminate
    <3>1. Advance(t, "terminate") /\ UNCHANGED <<g_terminate, g_reload>>
      BY <1>10, <2>3 DEF HandlerStep
    <3> QED
      BY <2>1, <2>3, <3>1, Unchanged, AdvanceEffect
  <2>4. CASE Top(t).step = "terminate"
    <3>1. Advance(t, "reload") /\ g_terminate' = TRUE /\ UNCHANGED g_reload
      BY <1>10, <2>4 DEF HandlerStep
    <3> DEFINE new == [sig |-> Top(t).sig, step |-> "reload"]
    <3>2. /\ new \in Frames /\ In(handlers'[t], new) /\ handlers'[t] # <<>>
          /\ \A u \in Threads : u # t => handlers'[u] = handlers[u]
          /\ \A u \in Threads : \A f : OnStack(u, f)' => OnStack(u, f) \/ (u = t /\ f = new)
      BY <2>1, <3>1, AdvanceEffect
    <3>3. \E f \in Frames : OnStack(t, f)' /\ f.step = "reload"
      BY <3>2 DEF OnStack
    <3>4. OnlyReload => t \in {"main", "worker"} /\ new.sig = "SIGUSR1"
      BY <2>1, <2>4
    <3>5. new.step = "reload"
      OBVIOUS
    <3> HIDE DEF new
    <3> QED
      BY <2>1, <3>1, <3>2, <3>3, <3>4, <3>5, Unchanged
  <2>5. CASE Top(t).step = "reload"
    <3>1. Return(t) /\ UNCHANGED g_terminate /\ g_reload' = (Top(t).sig = "SIGUSR1")
      BY <1>10, <2>5 DEF HandlerStep, Decision
    <3> QED
      BY <2>1, <2>5, <3>1, Unchanged, ReturnEffect
  <2> QED
    BY <2>1, <2>2, <2>3, <2>4, <2>5
<1>11. CASE Loop
  BY <1>11, Unchanged DEF Loop, MainAt, MainOnly
<1>12. CASE Select
  BY <1>12, Unchanged DEF Select, Readable, MainAt, MainOnly
<1>13. CASE Selected
  BY <1>13, Unchanged DEF Selected, MainAt, MainOnly, Heard
<1>14. CASE DrainPipe
  BY <1>14, Unchanged DEF DrainPipe, MainAt, MainOnly
<1>15. CASE ReadConfig
  BY <1>15, Unchanged DEF ReadConfig, MainAt, MainOnly
<1>16. CASE ReadX
  BY <1>16, Unchanged, EnqueueEffect, RaiseEffect, InputNames
     DEF ReadX, Begin, MainAt, MainOnly
<1>17. CASE ReadIpc
  <2>1. /\ UNCHANGED <<evt, wpc, g_reload, g_terminate, handlers, asked>>
        /\ mpc' = "loop" /\ (fifo = "quit" => "quit" \in asked)
    BY <1>17 DEF ReadIpc, Command, Hook, QuitEvent, MainOnly, Heard
  <2>2. \A f : Queued(f)' => Queued(f) \/ f = "update" \/ f = "reload"
                               \/ (fifo = "quit" /\ f = "quit")
    <3>1. CASE UNCHANGED m_queue
      BY <3>1, Unchanged
    <3>2. CASE \E e \in {"update", "reload"} : Enqueue("main", e)
      BY <3>2, EnqueueEffect
    <3>3. CASE fifo = "quit" /\ Enqueue("main", "quit")
      BY <3>3, EnqueueEffect
    <3> QED
      BY <1>17, <3>1, <3>2, <3>3 DEF ReadIpc, Command, Hook, QuitEvent
  <2> QED
    BY <2>1, <2>2, Unchanged
<1>18. CASE EnqueueQuit
  BY <1>18, Unchanged, EnqueueEffect
     DEF EnqueueQuit, QuitEvent, MainAt, MainOnly
<1>19. CASE Join
  BY <1>19, Unchanged DEF Join, MainAt, MainOnly
<1>20. CASE Ready
  BY <1>20, Unchanged DEF Ready, WorkerAt, WorkerOnly
<1>21. CASE WorkerAnnounce
  <2>1. evt \in Events
    BY DEF TypeOK
  <2> QED
    BY <1>21, <2>1, Unchanged, EnqueueEffect DEF WorkerAnnounce, WorkerAt, WorkerOnly
<1>22. CASE WorkerLoop
  BY <1>22, Unchanged DEF WorkerLoop, WorkerAt, WorkerOnly, Quiet
<1>23. CASE WaitDequeue
  BY <1>23, Unchanged, TakeEffect DEF WaitDequeue, WorkerAt, WorkerOnly
<1>24. CASE GotEvent
  BY <1>24, Unchanged, RaiseEffect
     DEF GotEvent, Process, WorkerAt, WorkerOnly, Quiet
<1>25. CASE Swallow
  BY <1>25, Unchanged, RaiseEffect, TakeEffect
     DEF Swallow, Process, Replace, WorkerAt, WorkerOnly
<1>26. CASE SwallowEnd
  BY <1>26, Unchanged DEF SwallowEnd, WorkerAt, WorkerOnly, Quiet
<1>27. CASE ProcessUpdate
  BY <1>27, Unchanged DEF ProcessUpdate, WorkerAt, WorkerOnly
<1>28. CASE MoveInput
  BY <1>28, Unchanged DEF MoveInput, WorkerAt, WorkerOnly, Quiet
<1>29. CASE ClearInput
  BY <1>29, Unchanged DEF ClearInput, WorkerAt, WorkerOnly, Quiet
<1>30. CASE Dispatch
  BY <1>30, Unchanged DEF Dispatch, WorkerAt, WorkerOnly
<1> QED
  BY <1>1, <1>2, <1>3, <1>4, <1>5, <1>6, <1>7, <1>8, <1>9, <1>10, <1>11, <1>12,
     <1>13, <1>14, <1>15, <1>16, <1>17, <1>18, <1>19, <1>20, <1>21, <1>22,
     <1>23, <1>24, <1>25, <1>26, <1>27, <1>28, <1>29, <1>30
     DEF Next, Stimulus, InputStep, MainStep, WorkerStep

(* Inputs and their events.                                                *)
LEMMA AcceptedStep ==
  ASSUME TypeOK, Accepted, Next
  PROVE  Accepted'
<1> USE DEF Accepted, Threads, Events, Signals, flags, fds, input, screen,
        worker, main
<1>1. ASSUME NEW s \in todo, Signal(s) PROVE Accepted'
  BY <1>1, Unchanged, RaiseEffect, StimulusTypes DEF Signal, Happens, Asks
<1>2. ASSUME NEW s \in todo, NoModules(s) PROVE Accepted'
  BY <1>2, Unchanged, RaiseEffect DEF NoModules, Happens, Asks
<1>3. ASSUME NEW s \in todo, DescriptorReady(s) PROVE Accepted'
  BY <1>3, Unchanged, StimulusTypes DEF DescriptorReady, Happens, Asks
<1>4. ASSUME NEW s \in todo, DoubleClick(s) PROVE Accepted'
  <2>1. /\ ~EarlyInput => m_process_events
        /\ UNCHANGED <<m_process_events, m_inputdata, m_queue, wpc, evt, g_terminate>>
        /\ typing["taskqueue"].step # "enqueue"
    BY <1>4, StimulusTypes DEF TypeOK, DoubleClick, Happens, Idle
  <2>2. typing'["main"] = typing["main"]
    BY <1>4 DEF TypeOK, DoubleClick, Begin
  <2> QED
    BY <2>1, <2>2, Unchanged
<1>5. ASSUME NEW s \in todo, Change(s) PROVE Accepted'
  BY <1>5, Unchanged DEF Change, Happens
<1>6. CASE Announce
  BY <1>6, Unchanged, EnqueueEffect DEF Announce
<1>7. ASSUME NEW t \in {"main", "taskqueue"}, InputCheck(t),
             UNCHANGED <<todo, fds, flags, main, m_process_events, worker, version,
                         shown, announcing, replaced, asked>>
      PROVE Accepted'
  BY <1>7, Unchanged DEF InputCheck
<1>8. ASSUME NEW t \in {"main", "taskqueue"}, InputSet(t),
             UNCHANGED <<todo, fds, flags, main, m_process_events, worker, version,
                         shown, announcing, replaced, asked>>
      PROVE Accepted'
  <2>1. typing \in [{"main", "taskqueue"} -> Typing] /\ typing[t] \in Typing
    BY DEF TypeOK
  <2>2. [typing[t] EXCEPT !.step = "enqueue"].step = "enqueue"
    BY <2>1 DEF Typing
  <2>3. typing'[t].step = "enqueue" /\ typing[t].step = "set"
    BY <1>8, <2>1, <2>2 DEF InputSet
  <2>4. ~EarlyInput => m_process_events
    BY <2>3
  <2> QED
    BY <1>8, <2>3, <2>4
<1>9. ASSUME NEW t \in {"main", "taskqueue"}, InputEnqueue(t),
             UNCHANGED <<todo, fds, flags, main, m_process_events, worker, version,
                         shown, announcing, replaced, asked>>
      PROVE Accepted'
  <2>1. ~EarlyInput => Accepts("input") /\ m_process_events
    BY <1>9 DEF InputEnqueue, Accepts
  <2>2. Queued("input")' <=> Queued("input") \/ Accepts("input")
    BY <1>9, EnqueueEffect DEF InputEnqueue
  <2> QED
    BY <1>9, <2>1, <2>2
<1>10. ASSUME NEW t \in Threads, HandlerStep(t) PROVE Accepted'
  <2>1. /\ UNCHANGED <<fifo, xcb, m_process_events, m_inputdata, typing, m_queue,
                       wpc, evt>>
        /\ g_terminate => g_terminate'
    BY <1>10, TopFrame DEF HandlerStep, Frames
  <2> QED
    BY <2>1, Unchanged
<1>11. CASE Loop
  BY <1>11, Unchanged DEF Loop, MainAt, MainOnly
<1>12. CASE Select
  BY <1>12, Unchanged DEF Select, Readable, MainAt, MainOnly
<1>13. CASE Selected
  BY <1>13, Unchanged DEF Selected, MainAt, MainOnly
<1>14. CASE DrainPipe
  BY <1>14, Unchanged DEF DrainPipe, MainAt, MainOnly
<1>15. CASE ReadConfig
  BY <1>15, Unchanged DEF ReadConfig, MainAt, MainOnly
<1>16. CASE ReadX
  <2>1. /\ UNCHANGED <<fifo, m_process_events, m_inputdata, wpc, evt, g_terminate>>
        /\ xcb' \subseteq xcb
    BY <1>16 DEF ReadX, MainOnly
  <2>2. \A f : Queued(f) => Queued(f)'
    <3>1. CASE UNCHANGED m_queue
      BY <3>1, Unchanged
    <3>2. CASE Enqueue("main", "forced")
      BY <3>2, EnqueueEffect
    <3> QED
      BY <1>16, <3>1, <3>2 DEF ReadX
  <2>3. \/ UNCHANGED typing
        \/ \E e \in xcb \cap Inputs : Begin("main", e) /\ typing["main"] = Idle
    BY <1>16 DEF ReadX, MainAt
  <2>4. /\ typing'["taskqueue"] = typing["taskqueue"]
        /\ typing["main"].step = "enqueue" => typing'["main"].step = "enqueue"
    BY <2>3 DEF TypeOK, Begin, Idle
  <2>5. m_process_events \/ EarlyInput \/ UNCHANGED typing
    BY <2>3
  <2> QED
    BY <2>1, <2>2, <2>4, <2>5
<1>17. CASE ReadIpc
  <2>1. /\ UNCHANGED <<xcb, m_process_events, m_inputdata, wpc, evt, g_terminate>>
        /\ fifo' \in {fifo, EmptyFifo}
    BY <1>17 DEF ReadIpc, Command, Hook, QuitEvent
  <2>2. \A f : Queued(f) => Queued(f)'
    <3>1. CASE UNCHANGED m_queue
      BY <3>1, Unchanged
    <3>2. CASE \E e \in {"update", "reload", "quit"} : Enqueue("main", e)
      BY <3>2, EnqueueEffect
    <3> QED
      BY <1>17, <3>1, <3>2 DEF ReadIpc, Command, Hook, QuitEvent
  <2>3. \/ UNCHANGED typing
        \/ fifo \in Inputs /\ Begin("main", fifo) /\ typing["main"] = Idle
    BY <1>17 DEF ReadIpc, Command, Hook, QuitEvent, MainAt
  <2>4. /\ typing'["taskqueue"] = typing["taskqueue"]
        /\ typing["main"].step = "enqueue" => typing'["main"].step = "enqueue"
    BY <2>3 DEF TypeOK, Begin, Idle
  <2>5. m_process_events \/ EarlyInput \/ UNCHANGED typing
    BY <2>3
  <2> QED
    BY <2>1, <2>2, <2>4, <2>5, InputNames
<1>18. CASE EnqueueQuit
  BY <1>18, Unchanged, EnqueueEffect
     DEF EnqueueQuit, QuitEvent, MainAt, MainOnly
<1>19. CASE Join
  BY <1>19, Unchanged DEF Join, MainAt, MainOnly
<1>20. CASE Ready
  BY <1>20, Unchanged DEF Ready, WorkerAt, WorkerOnly
<1>21. CASE WorkerAnnounce
  <2>1. evt \in Events
    BY DEF TypeOK
  <2> QED
    BY <1>21, <2>1, Unchanged, EnqueueEffect DEF WorkerAnnounce, WorkerAt, WorkerOnly
<1>22. CASE WorkerLoop
  BY <1>22, Unchanged DEF WorkerLoop, WorkerAt, WorkerOnly, Quiet
<1>23. CASE WaitDequeue
  BY <1>23, Unchanged, TakeEffect DEF WaitDequeue, WorkerAt, WorkerOnly
<1>24. CASE GotEvent
  BY <1>24, Unchanged, RaiseEffect
     DEF GotEvent, Process, WorkerAt, WorkerOnly, Quiet
<1>25. CASE Swallow
  BY <1>25, Unchanged, RaiseEffect, TakeEffect
     DEF Swallow, Process, Replace, WorkerAt, WorkerOnly
<1>26. CASE SwallowEnd
  BY <1>26, Unchanged DEF SwallowEnd, WorkerAt, WorkerOnly, Quiet
<1>27. CASE ProcessUpdate
  BY <1>27, Unchanged DEF ProcessUpdate, WorkerAt, WorkerOnly
<1>28. CASE MoveInput
  BY <1>28, Unchanged DEF MoveInput, WorkerAt, WorkerOnly, Quiet
<1>29. CASE ClearInput
  BY <1>29, Unchanged DEF ClearInput, WorkerAt, WorkerOnly, Quiet
<1>30. CASE Dispatch
  BY <1>30, Unchanged DEF Dispatch, WorkerAt, WorkerOnly
<1> QED
  BY <1>1, <1>2, <1>3, <1>4, <1>5, <1>6, <1>7, <1>8, <1>9, <1>10, <1>11, <1>12,
     <1>13, <1>14, <1>15, <1>16, <1>17, <1>18, <1>19, <1>20, <1>21, <1>22,
     <1>23, <1>24, <1>25, <1>26, <1>27, <1>28, <1>29, <1>30
     DEF Next, Stimulus, InputStep, MainStep, WorkerStep

(* Changes and forced updates.                                             *)
LEMMA AnnouncedStep ==
  ASSUME TypeOK, Decided, Announced, Next
  PROVE  Announced'
<1> USE DEF Announced, Threads, Events, Signals, flags, fds, input, screen,
        worker, main
<1>1. ASSUME NEW s \in todo, Signal(s) PROVE Announced'
  <2>1. s.arg \in Signals
    BY <1>1, StimulusTypes DEF TypeOK, Signal
  <2> QED
    BY <1>1, <2>1, Unchanged, RaiseEffect DEF Signal, Happens, Asks
<1>2. ASSUME NEW s \in todo, NoModules(s) PROVE Announced'
  BY <1>2, Unchanged, RaiseEffect DEF NoModules, Happens, Asks
<1>3. ASSUME NEW s \in todo, DescriptorReady(s) PROVE Announced'
  BY <1>3, Unchanged, StimulusTypes DEF DescriptorReady, Happens, Asks
<1>4. ASSUME NEW s \in todo, DoubleClick(s) PROVE Announced'
  BY <1>4, Unchanged, StimulusTypes DEF DoubleClick, Happens, Begin
<1>5. ASSUME NEW s \in todo, Change(s) PROVE Announced'
  BY <1>5, Unchanged DEF Change, Happens
<1>6. CASE Announce
  <2>1. UNCHANGED <<version, shown, m_process_events, replaced, wpc, evt, handlers,
                    g_terminate>>
    BY <1>6 DEF Announce
  <2>2. /\ \A f : Queued(f) => Queued(f)'
        /\ m_process_events => Queued("update")'
        /\ forced' => forced
    BY <1>6, EnqueueEffect DEF Announce, Accepts
  <2> QED
    BY <2>1, <2>2
<1>7. ASSUME NEW t \in {"main", "taskqueue"}, InputCheck(t),
             UNCHANGED <<todo, fds, flags, main, m_process_events, worker, version,
                         shown, announcing, replaced, asked>>
      PROVE Announced'
  BY <1>7, Unchanged DEF InputCheck
<1>8. ASSUME NEW t \in {"main", "taskqueue"}, InputSet(t),
             UNCHANGED <<todo, fds, flags, main, m_process_events, worker, version,
                         shown, announcing, replaced, asked>>
      PROVE Announced'
  BY <1>8, Unchanged DEF InputSet
<1>9. ASSUME NEW t \in {"main", "taskqueue"}, InputEnqueue(t),
             UNCHANGED <<todo, fds, flags, main, m_process_events, worker, version,
                         shown, announcing, replaced, asked>>
      PROVE Announced'
  BY <1>9, Unchanged, EnqueueEffect DEF InputEnqueue
<1>10. ASSUME NEW t \in Threads, HandlerStep(t) PROVE Announced'
  <2>1. /\ UNCHANGED <<version, shown, forced, announcing, replaced, m_process_events,
                       m_queue, wpc, evt>>
        /\ handlers[t] # <<>> /\ Top(t) \in Frames /\ OnStack(t, Top(t))
    BY <1>10, TopFrame DEF HandlerStep
  <2>2. g_terminate' \/ \E u \in Threads : handlers'[u] # <<>>
    <3>1. CASE Top(t).step = "check" /\ (g_reload \/ g_terminate)
      BY <1>10, <3>1 DEF HandlerStep, Decided
    <3>2. CASE Top(t).step = "check" /\ ~(g_reload \/ g_terminate)
      <4>1. Advance(t, "terminate")
        BY <1>10, <3>2 DEF HandlerStep
      <4> QED
        BY <2>1, <4>1, AdvanceEffect
    <3>3. CASE Top(t).step = "terminate"
      BY <1>10, <3>3 DEF HandlerStep
    <3>4. CASE Top(t).step = "reload"
      BY <1>10, <2>1, <3>4 DEF HandlerStep, Decided
    <3> QED
      BY <2>1, <3>1, <3>2, <3>3, <3>4 DEF Frames
  <2> QED
    BY <2>1, <2>2, Unchanged
<1>11. CASE Loop
  BY <1>11, Unchanged DEF Loop, MainAt, MainOnly
<1>12. CASE Select
  BY <1>12, Unchanged DEF Select, Readable, MainAt, MainOnly
<1>13. CASE Selected
  BY <1>13, Unchanged DEF Selected, MainAt, MainOnly
<1>14. CASE DrainPipe
  BY <1>14, Unchanged DEF DrainPipe, MainAt, MainOnly
<1>15. CASE ReadConfig
  BY <1>15, Unchanged DEF ReadConfig, MainAt, MainOnly
<1>16. CASE ReadX
  BY <1>16, Unchanged, EnqueueEffect, RaiseEffect
     DEF ReadX, Begin, MainAt, MainOnly
<1>17. CASE ReadIpc
  <2>1. UNCHANGED <<shown, announcing, m_process_events, replaced, wpc, evt,
                    handlers, g_terminate>>
    BY <1>17 DEF ReadIpc, Command, Hook, QuitEvent
  <2>2. (\A f : Queued(f) => Queued(f)') /\ (forced' => forced)
    <3>1. CASE UNCHANGED <<m_queue, forced>>
      BY <3>1, Unchanged
    <3>2. CASE \E e \in {"update", "reload", "quit"} : Enqueue("main", e)
      BY <3>2, EnqueueEffect
    <3> QED
      BY <1>17, <3>1, <3>2 DEF ReadIpc, Command, Hook, QuitEvent
  <2>3. version' = version \/ Enqueue("main", "update")
    BY <1>17 DEF ReadIpc, Command, Hook, QuitEvent
  <2>4. version' = version \/ ~m_process_events \/ Queued("update")'
    BY <2>3, EnqueueEffect DEF Accepts
  <2> QED
    BY <2>1, <2>2, <2>4
<1>18. CASE EnqueueQuit
  BY <1>18, Unchanged, EnqueueEffect
     DEF EnqueueQuit, QuitEvent, MainAt, MainOnly
<1>19. CASE Join
  BY <1>19, Unchanged DEF Join, MainAt, MainOnly
<1>20. CASE Ready
  BY <1>20, Unchanged DEF Ready, WorkerAt, WorkerOnly
<1>21. CASE WorkerAnnounce
  <2>1. evt \in Events
    BY DEF TypeOK
  <2>2. /\ UNCHANGED <<version, shown, announcing, m_process_events, replaced,
                       evt, handlers, g_terminate>>
        /\ wpc = "announce" /\ wpc' = "loop" /\ Enqueue("worker", evt)
    BY <1>21 DEF WorkerAnnounce, WorkerAt, WorkerOnly
  <2>3. /\ \A f : Queued(f) => Queued(f)'
        /\ m_process_events => Queued(evt)'
        /\ forced' => forced \/ (evt = "forced" /\ Queued("forced")')
    BY <2>1, <2>2, EnqueueEffect DEF Accepts
  <2>4. evt \in {"update", "forced"}
    BY <2>2
  <2> QED
    BY <2>2, <2>3, <2>4
<1>22. CASE WorkerLoop
  BY <1>22, Unchanged DEF WorkerLoop, WorkerAt, WorkerOnly, Quiet
<1>23. CASE WaitDequeue
  BY <1>23, Unchanged, TakeEffect DEF WaitDequeue, WorkerAt, WorkerOnly
<1>24. CASE GotEvent
  BY <1>24, Unchanged, RaiseEffect
     DEF GotEvent, Process, WorkerAt, WorkerOnly, Quiet
<1>25. CASE Swallow
  BY <1>25, Unchanged, RaiseEffect, TakeEffect
     DEF Swallow, Process, Replace, WorkerAt, WorkerOnly
<1>26. CASE SwallowEnd
  BY <1>26, Unchanged DEF SwallowEnd, WorkerAt, WorkerOnly, Quiet
<1>27. CASE ProcessUpdate
  <2>1. version \in Nat /\ UNCHANGED version /\ shown' = version
    BY <1>27 DEF TypeOK, ProcessUpdate
  <2>2. /\ wpc = "update" /\ wpc' = "loop" /\ forced' = (forced /\ evt # "forced")
        /\ UNCHANGED <<m_queue, evt, handlers, g_terminate>>
        /\ evt # "forced" => replaced' = replaced \ {"change"}
    BY <1>27 DEF ProcessUpdate, WorkerAt, WorkerOnly
  <2>3. ~(version' > shown')
    BY <2>1
  <2>4. ASSUME forced' PROVE forced /\ evt # "forced"
    BY <2>2, <2>4
  <2> QED
    BY <2>2, <2>3, <2>4, Unchanged
<1>28. CASE MoveInput
  BY <1>28, Unchanged DEF MoveInput, WorkerAt, WorkerOnly, Quiet
<1>29. CASE ClearInput
  BY <1>29, Unchanged DEF ClearInput, WorkerAt, WorkerOnly, Quiet
<1>30. CASE Dispatch
  BY <1>30, Unchanged DEF Dispatch, WorkerAt, WorkerOnly
<1> QED
  BY <1>1, <1>2, <1>3, <1>4, <1>5, <1>6, <1>7, <1>8, <1>9, <1>10, <1>11, <1>12,
     <1>13, <1>14, <1>15, <1>16, <1>17, <1>18, <1>19, <1>20, <1>21, <1>22,
     <1>23, <1>24, <1>25, <1>26, <1>27, <1>28, <1>29, <1>30
     DEF Next, Stimulus, InputStep, MainStep, WorkerStep

-----------------------------------------------------------------------------
(* The invariant holds at the start, when nothing is queued.               *)
LEMMA InitialInv == Init => Inv
<1> SUFFICES ASSUME Init PROVE Inv
  OBVIOUS
<1> USE DEF Init, Streams
<1>1. \A S : <<>> \in Seq(S)
  OBVIOUS
<1>2. ASSUME NEW t \in Threads, NEW e PROVE ~In(m_queue[t], e) /\ ~In(handlers[t], e)
  BY DEF In
<1>3. TypeOK
  <2>1. /\ m_queue \in [Threads -> Seq(Events)]
        /\ handlers \in [Threads -> Seq(Frames)]
    BY <1>1
  <2>2. todo \subseteq Stimuli
    BY ControllerAssumption
  <2>3. typing \in [{"main", "taskqueue"} -> Typing]
    BY DEF Idle, Typing
  <2>4. /\ swallowed \in 0 .. m_swallow_limit /\ version \in Nat
        /\ shown \in 0 .. version
    BY Limit
  <2> QED
    BY <2>1, <2>2, <2>3, <2>4 DEF TypeOK, Events, MainPC, WorkerPC
<1>4. Heard
  BY <1>2 DEF Heard, Queued, OnStack, EmptyFifo
<1>5. Decided
  BY <1>2 DEF Decided, Queued, OnStack, Returned, OnlyReload
<1>6. Accepted
  BY InputNames DEF Accepted, Idle
<1>7. Announced
  BY DEF Announced
<1> QED
  BY <1>3, <1>4, <1>5, <1>6, <1>7 DEF Inv

(* Every step keeps the invariant.                                         *)
LEMMA InvStep ==
  ASSUME Inv, [Next]_vars
  PROVE  Inv'
<1>1. CASE Next
  BY <1>1, TypeStep, HeardStep, DecidedStep, AcceptedStep, AnnouncedStep DEF Inv
<1>2. CASE UNCHANGED vars
  <2> USE <1>2 DEF vars, Inv
  <2>1. TypeOK'
    BY DEF TypeOK
  <2>2. Heard'
    BY Unchanged DEF Heard
  <2>3. Decided'
    BY DEF Decided, OnlyReload, Returned, Queued, OnStack, In
  <2>4. Accepted' /\ Announced'
    BY Unchanged DEF Accepted, Announced
  <2> QED
    BY <2>1, <2>2, <2>3, <2>4
<1> QED
  BY <1>1, <1>2

(* The invariant holds in every behaviour.                                 *)
LEMMA Invariance == Spec => []Inv
<1>1. Init => Inv
  BY InitialInv
<1>2. Inv /\ [Next]_vars => Inv'
  BY InvStep
<1> QED
  BY <1>1, <1>2, PTL DEF Spec

-----------------------------------------------------------------------------
(* Every variable keeps its type, whatever happens around the controller.  *)
THEOREM TypeCorrect == Spec => []TypeOK
<1>1. Inv => TypeOK
  BY DEF Inv
<1> QED
  BY <1>1, Invariance, PTL

(* polybar re-executes itself only if somebody asked for a reload, and     *)
(* exits only if somebody asked for that or something went wrong: no       *)
(* order of signals, commands, config changes and the QUIT of run()        *)
(* decides otherwise.                                                      *)
THEOREM OutcomeCorrect == Spec => []OutcomeJustified
<1>1. Inv => OutcomeJustified
  <2> SUFFICES ASSUME Inv PROVE OutcomeJustified
    OBVIOUS
  <2>1. g_reload => "reload" \in asked
    BY DEF Inv, Heard
  <2>2. ASSUME Returned, ~g_reload PROVE asked \cap {"quit", "error"} # {}
    <3>1. /\ wpc = "exited" /\ handlers["main"] = <<>> /\ handlers["worker"] = <<>>
          /\ mpc = "returned"
      BY <2>2 DEF Inv, Decided, Returned
    <3>2. OnlyReload => g_terminate
      BY <3>1 DEF Inv, Decided
    <3>3. \A t \in {"main", "worker"}, f \in Frames : ~OnStack(t, f)
      BY <3>1, EmptyStack DEF Threads
    <3>4. ~OnlyReload
      BY <2>2, <3>2, <3>3 DEF Inv, Decided
    <3> QED
      BY <3>4 DEF OnlyReload
  <2> QED
    BY <2>1, <2>2 DEF OutcomeJustified
<1> QED
  BY <1>1, Invariance, PTL

(* A waiting input always has an INPUT event that will find it, or is      *)
(* about to get one, if no input comes before ui::ready: the unprotected   *)
(* m_inputdata cannot block all later inputs.                              *)
THEOREM InputCorrect == Spec => [](~EarlyInput => InputHasEvent)
<1>1. Inv => (~EarlyInput => InputHasEvent)
  BY DEF Inv, Accepted, InputHasEvent, Queued, In
<1> QED
  BY <1>1, Invariance, PTL

(* A change that is not on the screen is on its way there, unless an input *)
(* took the place of the update that announced it.                         *)
THEOREM ChangeCorrect == Spec => []ChangeHasEvent
<1>1. Inv => ChangeHasEvent
  BY DEF Inv, Announced, ChangeHasEvent, Queued, In
<1> QED
  BY <1>1, Invariance, PTL

(* A forced redraw that was asked for is on its way, unless the worker     *)
(* swallowed it.                                                           *)
THEOREM ForcedCorrect == Spec => []ForcedHasEvent
<1>1. Inv => ForcedHasEvent
  BY DEF Inv, Announced, ForcedHasEvent, Queued, In
<1> QED
  BY <1>1, Invariance, PTL
=============================================================================
