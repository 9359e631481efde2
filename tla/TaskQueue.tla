----------------------------- MODULE TaskQueue -----------------------------
(***************************************************************************)
(* taskqueue (src/components/taskqueue.cpp): a worker thread that runs     *)
(* deferred callbacks, and the one thread that uses it.  The bar's event   *)
(* handlers all run on the main thread, and so does the destructor, so     *)
(* there is a single client.                                               *)
(*                                                                         *)
(* A task is a number, given out in the order of insertion.  m_deferred is *)
(* the set of numbers in the vector: its order is the numeric order, since *)
(* tasks are only ever appended.  Time is relative: left[t] is what        *)
(* remains until task->now + task->wait.                                   *)
(*                                                                         *)
(* An operator whose name has a suffix, like Notify_Nobody, is a bug that  *)
(* Notify could have: it is no part of the specification, and shows that   *)
(* the properties notice it.                                               *)
(***************************************************************************)
EXTENDS Naturals, FiniteSets

CONSTANTS
  Ids,        \* task names ("window-dim", "buttonpress-left", ...)
  Requests,   \* the arguments defer() is called with
  MaxOps      \* bound: calls the client makes on one queue

ASSUME TaskQueueAssumption ==
  /\ MaxOps \in Nat
  /\ Ids # {} /\ Requests # {}
  /\ Requests \subseteq [id : Ids, wait : Nat, offset : Nat, count : Nat]

Tasks == 1 .. MaxOps

VARIABLES
  m_deferred,  \* tasks in the vector
  id, wait, left, count,  \* the fields of each task
  cbs,         \* callbacks tick() has collected and not yet run
  m_active,    \* cleared by the destructor
  m_lock,      \* who holds the mutex across steps: "free" or "client"
  wpc, timer,  \* worker: program counter, and timeout of wait_for
  cpc, req,    \* client: program counter, and arguments of its call
  made, ops,   \* tasks created, client calls made
  total, called  \* history: calls asked for, calls received

queue == <<m_deferred, id, wait, left, count, cbs, total, called, made>>
vars == <<m_deferred, id, wait, left, count, cbs, m_active, m_lock, wpc,
          timer, cpc, req, made, ops, total, called>>

WorkerPC == {"check", "lock", "wait", "wait_for", "woken", "tick", "run",
             "exited"}
ClientPC == {"idle", "exist", "existing", "purge", "purging", "add",
             "adding", "notify", "stop", "join", "gone"}

(* What the client is doing: the request it carries, and what it does once *)
(* exist() or purge() has answered.                                        *)
Uses == {"unique", "unless_exists", "purge_if_exists"}

TaskTypes ==
  /\ m_deferred \subseteq Tasks /\ cbs \subseteq Tasks
  /\ id \in [Tasks -> Ids] /\ wait \in [Tasks -> Nat]
  /\ left \in [Tasks -> Nat] /\ count \in [Tasks -> Nat]
  /\ total \in [Tasks -> Nat] /\ called \in [Tasks -> Nat]

ThreadTypes ==
  /\ m_active \in BOOLEAN /\ m_lock \in {"free", "client"}
  /\ wpc \in WorkerPC /\ timer \in Nat
  /\ cpc \in ClientPC /\ req \in [use : Uses, r : Requests]
  /\ made \in 0 .. MaxOps /\ ops \in 0 .. MaxOps /\ made <= ops

TypeOK == TaskTypes /\ ThreadTypes

Init ==
  /\ m_deferred = {} /\ cbs = {}
  /\ id = [t \in Tasks |-> CHOOSE i \in Ids : TRUE]
  /\ wait = [t \in Tasks |-> 0] /\ left = [t \in Tasks |-> 0]
  /\ count = [t \in Tasks |-> 0] /\ total = [t \in Tasks |-> 0]
  /\ called = [t \in Tasks |-> 0]
  /\ m_active = TRUE /\ m_lock = "free"
  /\ wpc = "check" /\ timer = 0
  /\ cpc = "idle"
  /\ req = [use |-> "unique", r |-> CHOOSE r \in Requests : TRUE]
  /\ made = 0 /\ ops = 0

-----------------------------------------------------------------------------
(* The client.  A call is a sequence of critical sections; the lock is     *)
(* visible between taking it and leaving it, which is what makes try_lock  *)
(* in tick() fail.                                                         *)

Use(u, r) ==
  /\ cpc = "idle" /\ m_active /\ ops < MaxOps
  /\ ops' = ops + 1
  /\ req' = [use |-> u, r |-> r]
  /\ cpc' = IF u = "unique" THEN "purge" ELSE "exist"
  /\ UNCHANGED <<queue, m_active, m_lock, wpc, timer>>

Lock(from, to) ==
  /\ cpc = from /\ m_lock = "free"
  /\ m_lock' = "client" /\ cpc' = to
  /\ UNCHANGED <<queue, m_active, wpc, timer, req, ops>>

exist(i) == \E t \in m_deferred : id[t] = i

(* exist(): the caller then defers if there is no such task (check_double) *)
(* or purges if there is one (the enter handler).                          *)
ExistLocked ==
  /\ cpc = "existing"
  /\ cpc' = CASE exist(req.r.id) /\ req.use = "purge_if_exists" -> "purge"
              [] ~exist(req.r.id) /\ req.use = "unless_exists" -> "add"
              [] OTHER -> "idle"
  /\ m_lock' = "free"
  /\ UNCHANGED <<queue, m_active, wpc, timer, req, ops>>

PurgeLocked_NoErase ==
  /\ cpc = "purging"
  /\ cpc' = IF req.use = "unique" THEN "add" ELSE "idle"
  /\ m_lock' = "free"
  /\ UNCHANGED <<queue, m_active, wpc, timer, req, ops>>

PurgeLocked ==
  /\ cpc = "purging"
  /\ m_deferred' = {t \in m_deferred : id[t] # req.r.id}
  /\ cpc' = IF req.use = "unique" THEN "add" ELSE "idle"
  /\ m_lock' = "free"
  /\ UNCHANGED <<id, wait, total, left, count, cbs, called, made, m_active, wpc,
                 timer, req, ops>>

AddLocked ==
  LET t == made + 1 IN
  /\ cpc = "adding"
  /\ made' = t
  /\ m_deferred' = m_deferred \cup {t}
  /\ id' = [id EXCEPT ![t] = req.r.id]
  /\ wait' = [wait EXCEPT ![t] = req.r.wait]
  /\ left' = [left EXCEPT ![t] = req.r.wait + req.r.offset]
  /\ count' = [count EXCEPT ![t] = req.r.count]
  /\ total' = [total EXCEPT ![t] = req.r.count]
  /\ m_lock' = "free" /\ cpc' = "notify"
  /\ UNCHANGED <<cbs, called, m_active, wpc, timer, req, ops>>

Waiting == wpc \in {"wait", "wait_for"}

Notify_Nobody ==
  /\ cpc = "notify" /\ cpc' = "idle"
  /\ UNCHANGED <<queue, m_active, m_lock, wpc, timer, req, ops>>

(* m_hold.notify_one(), after the mutex has been released.                 *)
Notify ==
  /\ cpc = "notify" /\ cpc' = "idle"
  /\ wpc' = IF Waiting THEN "woken" ELSE wpc
  /\ UNCHANGED <<queue, m_active, m_lock, timer, req, ops>>

(* ~taskqueue(): the flag and notify_all() without the mutex, then join(). *)
DestroyFlag ==
  /\ cpc = "idle" /\ m_active
  /\ m_active' = FALSE /\ cpc' = "stop"
  /\ UNCHANGED <<queue, m_lock, wpc, timer, req, ops>>

DestroyNotify ==
  /\ cpc = "stop" /\ cpc' = "join"
  /\ wpc' = IF Waiting THEN "woken" ELSE wpc
  /\ UNCHANGED <<queue, m_active, m_lock, timer, req, ops>>

DestroyJoin ==
  /\ cpc = "join" /\ wpc = "exited" /\ cpc' = "gone"
  /\ UNCHANGED <<queue, m_active, m_lock, wpc, timer, req, ops>>

LockForCall ==
  \/ Lock("exist", "existing")
  \/ Lock("purge", "purging")
  \/ Lock("add", "adding")

ClientStep ==
  \/ LockForCall \/ ExistLocked \/ PurgeLocked \/ AddLocked \/ Notify
  \/ DestroyNotify \/ DestroyJoin

-----------------------------------------------------------------------------
(* The worker.  It keeps the mutex only inside one step.                   *)

worker == <<m_active, m_lock, cpc, req, ops>>

CheckActive_Forever ==
  /\ wpc = "check" /\ wpc' = "lock"
  /\ UNCHANGED <<queue, timer, worker>>

(* while (m_active) *)
CheckActive ==
  /\ wpc = "check"
  /\ wpc' = IF m_active THEN "lock" ELSE "exited"
  /\ UNCHANGED <<queue, timer, worker>>

Earliest_Front(t) == \A u \in m_deferred : t <= u
Earliest(t) == \A u \in m_deferred : left[t] <= left[u]

(* Wait for work, for the earliest deadline, or go on at once.             *)
Hold ==
  /\ wpc = "lock" /\ m_lock = "free"
  /\ \/ m_deferred = {} /\ wpc' = "wait" /\ UNCHANGED timer
     \/ \E t \in m_deferred :
          /\ Earliest(t)
          /\ timer' = left[t]
          /\ wpc' = IF left[t] > 0 THEN "wait_for" ELSE "tick"
  /\ UNCHANGED <<queue, worker>>

(* wait_for() times out, or either wait returns for no reason.             *)
Timeout ==
  /\ wpc = "wait_for" /\ timer = 0
  /\ wpc' = "woken"
  /\ UNCHANGED <<queue, timer, worker>>

SpuriousWakeup ==
  /\ Waiting /\ wpc' = "woken"
  /\ UNCHANGED <<queue, timer, worker>>

Resume ==
  /\ wpc = "woken" /\ m_lock = "free"
  /\ wpc' = IF m_deferred = {} THEN "check" ELSE "tick"
  /\ UNCHANGED <<queue, timer, worker>>

Due == {t \in m_deferred : left[t] = 0}

(* The due tasks that have calls left, and those that have none.           *)
Collected_AllDue == Due
Collected == {t \in Due : count[t] > 0}
Finished == {t \in Due : count[t] = 0}

CountLeft_NoDecrement(t) == count[t]
CountLeft(t) == IF t \in Collected THEN count[t] - 1 ELSE count[t]

(* tick(): give up if the client is in a critical section; otherwise       *)
(* collect the due tasks, restarting their wait, and erase the finished.   *)
TickBusy ==
  /\ wpc = "tick" /\ m_lock # "free"
  /\ wpc' = "check"
  /\ UNCHANGED <<queue, timer, worker>>

TickCollect ==
  /\ wpc = "tick" /\ m_lock = "free"
  /\ cbs' = Collected
  /\ m_deferred' = m_deferred \ Finished
  /\ count' = [t \in Tasks |-> CountLeft(t)]
  /\ left' = [t \in Tasks |-> IF t \in Collected THEN wait[t] ELSE left[t]]
  /\ wpc' = "run"
  /\ UNCHANGED <<id, wait, total, called, made, timer, worker>>

(* The callbacks run without the mutex, newest task first.                 *)
RunCallback ==
  /\ wpc = "run"
  /\ \E t \in cbs :
       /\ \A u \in cbs : u <= t
       /\ called' = [called EXCEPT ![t] = @ + 1]
       /\ cbs' = cbs \ {t}
  /\ UNCHANGED <<m_deferred, id, wait, total, left, count, made, wpc, timer,
                 worker>>

RunDone ==
  /\ wpc = "run" /\ cbs = {}
  /\ wpc' = "check"
  /\ UNCHANGED <<queue, timer, worker>>

WorkerStep ==
  \/ CheckActive \/ Hold \/ Timeout \/ Resume
  \/ TickBusy \/ TickCollect \/ RunCallback \/ RunDone

-----------------------------------------------------------------------------
Less(n) == IF n > 0 THEN n - 1 ELSE 0

(* One unit of the clock; late threads stay late.                          *)
TimePasses ==
  /\ timer > 0 \/ \E t \in m_deferred : left[t] > 0
  /\ timer' = Less(timer)
  /\ left' = [t \in Tasks |-> IF t \in m_deferred THEN Less(left[t]) ELSE left[t]]
  /\ UNCHANGED <<m_deferred, id, wait, total, count, cbs, called, made, m_active,
                 m_lock, wpc, cpc, req, ops>>

Next ==
  \/ \E u \in Uses, r \in Requests : Use(u, r)
  \/ DestroyFlag
  \/ ClientStep
  \/ WorkerStep
  \/ SpuriousWakeup
  \/ TimePasses

Spec == Init /\ [][Next]_vars

(* Threads that can run do run, and the clock ticks.  Nobody is promised a *)
(* spurious wakeup, another call or the destructor.                        *)
FairSpec ==
  Spec /\ WF_vars(WorkerStep) /\ WF_vars(ClientStep) /\ WF_vars(TimePasses)

-----------------------------------------------------------------------------
InFlight(t) == IF t \in cbs THEN 1 ELSE 0

(* Calls received, calls collected and calls left never exceed the count   *)
(* the task was deferred with: no interleaving of defer, purge and tick    *)
(* runs a callback once too often.                                         *)
CallsWithinCount ==
  \A t \in Tasks : called[t] + InFlight(t) + count[t] <= total[t]

(* A parked worker never sleeps past a deadline: unless the client is      *)
(* about to notify it, it waits without timeout only when there is nothing *)
(* to do, and its timeout ends no later than the earliest task.            *)
NoOversleep ==
  cpc # "notify" =>
    /\ wpc = "wait" => m_deferred = {}
    /\ wpc = "wait_for" => \A t \in m_deferred : timer <= left[t]

(* At most one task of a name is in the queue, although exist() and        *)
(* defer(), and the two halves of defer_unique(), are separate critical    *)
(* sections.                                                               *)
UniqueNames ==
  \A t, u \in m_deferred : id[t] = id[u] => t = u

(* The queue implements the contract its users see: whatever the threads   *)
(* do, each task goes from pending to gone once, is called only while it   *)
(* is owed a call, and at most once after it was purged.                   *)
Status == [t \in Tasks |-> IF t > made THEN "new"
                           ELSE IF t \in m_deferred THEN "pending"
                           ELSE "gone"]

Owed == [t \in Tasks |-> InFlight(t) +
                         (IF t \in m_deferred THEN count[t] ELSE 0)]

DT == INSTANCE DeferredTasks WITH status <- Status, owed <- Owed

Contract == DT!Contract

(* Every deferred task is called again and again until its count is used   *)
(* up, unless it is purged or the queue is destroyed.                      *)
EventuallyCalled ==
  \A t \in Tasks :
    (t \in m_deferred /\ count[t] > 0)
      ~> (called[t] = total[t] \/ t \notin m_deferred \/ ~m_active)

(* A queue destroyed with tasks in it is joined: the worker has a timeout. *)
JoinsWhenPending ==
  (cpc = "join" /\ m_deferred # {}) ~> (cpc = "gone")

(* Every destroyed queue is joined, as "print ... and exit" needs: the bar *)
(* that -w/--print-wmname builds is destroyed right away.                  *)
JoinsAlways == (cpc = "join") ~> (cpc = "gone")
=============================================================================
