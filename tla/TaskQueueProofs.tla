-------------------------- MODULE TaskQueueProofs --------------------------
(***************************************************************************)
(* Proofs about TaskQueue for every number of calls, every set of names    *)
(* and every set of requests: types, the invariants of the runs, and that  *)
(* the queue implements the contract of DeferredTasks.                     *)
(***************************************************************************)
EXTENDS TaskQueue, TLAPS

(* The client is inside a call that has not created its task yet, and such *)
(* a call still has room for it.                                           *)
Calling == cpc \in {"exist", "existing", "purge", "purging", "add", "adding"}
Room == Calling => made < ops

Typed == TypeOK /\ Room

(* The steps that do not touch a task.                                     *)
ControlStep ==
  \/ \E u \in Uses, r \in Requests : Use(u, r)
  \/ LockForCall \/ ExistLocked \/ Notify
  \/ DestroyFlag \/ DestroyNotify \/ DestroyJoin
  \/ CheckActive \/ Hold \/ Timeout \/ SpuriousWakeup \/ Resume
  \/ TickBusy \/ RunDone

TaskStep ==
  PurgeLocked \/ AddLocked \/ TickCollect \/ RunCallback \/ TimePasses

(* A step leaves the tasks alone or is one of those that do not.            *)
LEMMA Split == [Next]_vars => ControlStep \/ TaskStep \/ UNCHANGED vars
  BY DEF Next, ClientStep, WorkerStep, ControlStep, TaskStep

(* The former leave the queue as it is.                                     *)
LEMMA ControlKeepsTasks == ControlStep => UNCHANGED queue
  BY DEF ControlStep, Use, LockForCall, Lock, ExistLocked, Notify,
         DestroyFlag, DestroyNotify, DestroyJoin, CheckActive, Hold, Timeout,
         SpuriousWakeup, Resume, TickBusy, RunDone

-----------------------------------------------------------------------------
(* Types at the start.                                                      *)
LEMMA TypedInit == Init => Typed
<1> USE TaskQueueAssumption
<1> SUFFICES ASSUME Init PROVE TaskTypes /\ ThreadTypes /\ Room
  BY DEF Typed, TypeOK
<1>1. TaskTypes
  BY DEF Init, TaskTypes
<1>2. ThreadTypes
  BY DEF Init, ThreadTypes, WorkerPC, ClientPC, Uses
<1>3. Room
  BY DEF Init, Room, Calling
<1> QED
  BY <1>1, <1>2, <1>3

(* Types after a step that leaves tasks alone.                              *)
LEMMA TypedControl == Typed /\ ControlStep => Typed'
<1> USE TaskQueueAssumption DEF worker, queue
<1> SUFFICES ASSUME TaskTypes, ThreadTypes, Room, ControlStep
             PROVE  TaskTypes' /\ ThreadTypes' /\ Room'
  BY DEF Typed, TypeOK
<1>1. TaskTypes'
  BY ControlKeepsTasks DEF TaskTypes
<1>2. ThreadTypes' /\ Room'
  <2> USE DEF ThreadTypes, Room, Calling, WorkerPC, ClientPC
  <2>1. ASSUME NEW u \in Uses, NEW r \in Requests, Use(u, r)
        PROVE  ThreadTypes' /\ Room'
    <3>1. req' \in [use : Uses, r : Requests] /\ cpc' \in {"purge", "exist"}
      BY <2>1 DEF Use
    <3>2. ops' = ops + 1 /\ ops < MaxOps
      BY <2>1 DEF Use
    <3>3. UNCHANGED <<queue, m_active, m_lock, wpc, timer>>
      BY <2>1 DEF Use
    <3> QED
      BY <3>1, <3>2, <3>3
  <2>2. CASE LockForCall
    BY <2>2 DEF LockForCall, Lock
  <2>3. CASE ExistLocked
    BY <2>3 DEF ExistLocked
  <2>4. CASE Notify \/ DestroyFlag \/ DestroyNotify \/ DestroyJoin
    BY <2>4 DEF Notify, DestroyFlag, DestroyNotify, DestroyJoin
  <2>5. CASE CheckActive \/ Timeout \/ SpuriousWakeup \/ Resume
    BY <2>5 DEF CheckActive, Timeout, SpuriousWakeup, Resume
  <2>6. CASE TickBusy \/ RunDone
    BY <2>6 DEF TickBusy, RunDone
  <2>7. CASE Hold
    <3>1. timer' \in Nat /\ wpc' \in {"wait", "wait_for", "tick"}
      BY <2>7 DEF Hold, TaskTypes
    <3> QED
      BY <2>7, <3>1 DEF Hold
  <2> QED
    BY <2>1, <2>2, <2>3, <2>4, <2>5, <2>6, <2>7 DEF ControlStep
<1> QED
  BY <1>1, <1>2

(* Types after a step that does not.                                        *)
LEMMA TypedTask == Typed /\ TaskStep => Typed'
<1> USE TaskQueueAssumption DEF worker, queue
<1> SUFFICES ASSUME TaskTypes, ThreadTypes, Room, TaskStep
             PROVE  TaskTypes' /\ ThreadTypes' /\ Room'
  BY DEF Typed, TypeOK
<1>1. CASE PurgeLocked
  BY <1>1 DEF PurgeLocked, TaskTypes, ThreadTypes, ClientPC, Room, Calling
<1>2. CASE AddLocked
  <2>1. req.r \in [id : Ids, wait : Nat, offset : Nat, count : Nat]
    BY DEF ThreadTypes
  <2>2. made + 1 \in Tasks /\ made + 1 <= ops
    BY <1>2 DEF AddLocked, ThreadTypes, Room, Calling, Tasks
  <2>3. TaskTypes'
    <3> USE <1>2, <2>1, <2>2 DEF TaskTypes, AddLocked
    <3>1. m_deferred' \subseteq Tasks /\ cbs' \subseteq Tasks
      OBVIOUS
    <3>2. id' \in [Tasks -> Ids] /\ wait' \in [Tasks -> Nat]
      OBVIOUS
    <3>3. left' \in [Tasks -> Nat] /\ count' \in [Tasks -> Nat]
      OBVIOUS
    <3>4. total' \in [Tasks -> Nat] /\ called' \in [Tasks -> Nat]
      OBVIOUS
    <3> QED
      BY <3>1, <3>2, <3>3, <3>4
  <2>4. ThreadTypes' /\ Room'
    BY <1>2, <2>2 DEF AddLocked, ThreadTypes, ClientPC, Room, Calling
  <2> QED
    BY <2>3, <2>4
<1>3. CASE TickCollect
  <2>1. cbs' \subseteq Tasks /\ m_deferred' \subseteq Tasks
    BY <1>3 DEF TickCollect, Collected, Due, TaskTypes
  <2>2. count' \in [Tasks -> Nat]
    BY <1>3 DEF TickCollect, Collected, CountLeft, TaskTypes
  <2>3. left' \in [Tasks -> Nat]
    BY <1>3 DEF TickCollect, TaskTypes
  <2>4. ThreadTypes' /\ Room'
    BY <1>3 DEF TickCollect, ThreadTypes, WorkerPC, Room, Calling
  <2> QED
    BY <1>3, <2>1, <2>2, <2>3, <2>4 DEF TickCollect, TaskTypes
<1>4. CASE RunCallback
  <2>1. PICK t \in Tasks : /\ called' = [called EXCEPT ![t] = @ + 1]
                           /\ cbs' = cbs \ {t}
    BY <1>4 DEF RunCallback, TaskTypes
  <2>2. called' \in [Tasks -> Nat] /\ cbs' \subseteq Tasks
    BY <2>1 DEF TaskTypes
  <2> QED
    BY <1>4, <2>2 DEF RunCallback, TaskTypes, ThreadTypes, Room, Calling
<1>5. CASE TimePasses
  <2>1. timer' \in Nat
    BY <1>5 DEF TimePasses, Less, ThreadTypes
  <2>2. left' \in [Tasks -> Nat]
    BY <1>5 DEF TimePasses, Less, TaskTypes
  <2> QED
    BY <1>5, <2>1, <2>2
       DEF TimePasses, TaskTypes, ThreadTypes, Room, Calling
<1> QED
  BY <1>1, <1>2, <1>3, <1>4, <1>5 DEF TaskStep

(* Types after any step.                                                    *)
LEMMA TypedStep == Typed /\ [Next]_vars => Typed'
<1>1. Typed /\ UNCHANGED vars => Typed'
  BY DEF vars, Typed, TypeOK, TaskTypes, ThreadTypes, Room, Calling
<1> QED
  BY <1>1, Split, TypedControl, TypedTask

(* So the strengthened types always hold.                                   *)
LEMMA AlwaysTyped == Spec => []Typed
  BY TypedInit, TypedStep, PTL DEF Spec

(* Every variable keeps its type, whatever the constants are: in           *)
(* particular no count runs below zero and no task number past the bound.  *)
THEOREM TypeCorrect == Spec => []TypeOK
<1>1. Typed => TypeOK
  BY DEF Typed
<1> QED
  BY <1>1, AlwaysTyped, PTL
-----------------------------------------------------------------------------
(* What ties the program counters to the data: callbacks are collected     *)
(* only while they run, and tasks are created in order.                    *)
Shape ==
  /\ wpc # "run" => cbs = {}
  /\ m_deferred \subseteq 1 .. made
  /\ cbs \subseteq 1 .. made
  /\ \A t \in Tasks : t > made => called[t] = 0

Counted == Shape /\ CallsWithinCount

(* Nothing was called at the start.                                         *)
LEMMA CountedInit == Init => Counted
  BY TaskQueueAssumption
     DEF Init, Counted, Shape, CallsWithinCount, InFlight, Tasks

(* Counts after a step that leaves tasks alone.                             *)
LEMMA CountedControl == Typed /\ Counted /\ ControlStep => Counted'
<1> SUFFICES ASSUME Typed, Counted, ControlStep PROVE Counted'
  OBVIOUS
<1>1. UNCHANGED queue
  BY ControlKeepsTasks
<1>2. wpc = "run" /\ cbs # {} => wpc' = wpc
  BY DEF ControlStep, Use, LockForCall, Lock, ExistLocked, Notify,
         DestroyFlag, DestroyNotify, DestroyJoin, CheckActive, Hold, Timeout,
         SpuriousWakeup, Resume, TickBusy, RunDone, Waiting, worker
<1> QED
  BY <1>1, <1>2 DEF queue, Counted, Shape, CallsWithinCount, InFlight

(* Counts after a step that does not.                                       *)
LEMMA CountedTask == Typed /\ Counted /\ TaskStep => Counted'
<1> USE TaskQueueAssumption DEF Typed, TypeOK, worker
<1> SUFFICES ASSUME Typed, Counted, TaskStep PROVE Counted'
  OBVIOUS
<1>1. CASE PurgeLocked
  <2>1. /\ m_deferred' \subseteq m_deferred
        /\ UNCHANGED <<cbs, count, called, total, made, wpc>>
    BY <1>1 DEF PurgeLocked
  <2> QED
    BY <2>1 DEF Counted, Shape, CallsWithinCount, InFlight
<1>2. CASE AddLocked
  <2>1. made + 1 \in Tasks /\ made \in Nat
    BY <1>2 DEF AddLocked, ThreadTypes, Room, Calling, Tasks
  <2>2. req.r.count \in Nat
    BY DEF ThreadTypes
  <2>3. Shape'
    <3>1. /\ made' = made + 1 /\ m_deferred' = m_deferred \cup {made + 1}
          /\ UNCHANGED <<cbs, called, wpc>>
      BY <1>2 DEF AddLocked
    <3> QED
      BY <2>1, <3>1 DEF Counted, Shape, Tasks
  <2>4. ASSUME NEW t \in Tasks
        PROVE  called'[t] + InFlight(t)' + count'[t] <= total'[t]
    <3>1. CASE t = made + 1
      <4>1. called'[t] = 0 /\ t \notin cbs'
        BY <1>2, <2>1, <3>1 DEF AddLocked, Counted, Shape, Tasks
      <4>2. count'[t] = req.r.count /\ total'[t] = req.r.count
        BY <1>2, <3>1 DEF AddLocked, TaskTypes
      <4> QED
        BY <2>2, <4>1, <4>2 DEF InFlight
    <3>2. CASE t # made + 1
      <4>1. count'[t] = count[t] /\ total'[t] = total[t]
        BY <1>2, <3>2 DEF AddLocked, TaskTypes
      <4>2. called'[t] = called[t] /\ cbs' = cbs
        BY <1>2 DEF AddLocked
      <4> QED
        BY <4>1, <4>2 DEF Counted, CallsWithinCount, InFlight
    <3> QED
      BY <3>1, <3>2
  <2> QED
    BY <2>3, <2>4 DEF Counted, CallsWithinCount
<1>3. CASE TickCollect
  <2>1. cbs = {} /\ cbs' \subseteq m_deferred /\ UNCHANGED <<called, total, made>>
    BY <1>3 DEF TickCollect, Collected, Due, Counted, Shape
  <2>2. Shape'
    BY <1>3, <2>1 DEF TickCollect, Counted, Shape
  <2>3. ASSUME NEW t \in Tasks
        PROVE  InFlight(t)' + count'[t] = count[t]
    <3>1. CASE t \in cbs'
      <4>1. count[t] > 0 /\ count'[t] = count[t] - 1
        BY <1>3, <3>1 DEF TickCollect, Collected, CountLeft
      <4> QED
        BY <3>1, <4>1 DEF InFlight, TaskTypes
    <3>2. CASE t \notin cbs'
      BY <1>3, <3>2 DEF TickCollect, Collected, CountLeft, InFlight, TaskTypes
    <3> QED
      BY <3>1, <3>2
  <2>4. \A t \in Tasks : InFlight(t) = 0
    BY <2>1 DEF InFlight
  <2>5. \A t \in Tasks : called'[t] + InFlight(t)' + count'[t] <= total'[t]
    <3> SUFFICES ASSUME NEW t \in Tasks
                 PROVE  called'[t] + InFlight(t)' + count'[t] <= total'[t]
      OBVIOUS
    <3>1. InFlight(t)' \in Nat /\ count'[t] \in Nat
      BY <1>3 DEF InFlight, TickCollect, Collected, CountLeft, TaskTypes
    <3> QED
      BY <2>1, <2>3, <2>4, <3>1 DEF Counted, CallsWithinCount, TaskTypes
  <2> QED
    BY <2>2, <2>5 DEF Counted, CallsWithinCount
<1>4. CASE RunCallback
  <2>1. PICK c \in cbs : /\ called' = [called EXCEPT ![c] = @ + 1]
                         /\ cbs' = cbs \ {c}
    BY <1>4 DEF RunCallback
  <2>2. UNCHANGED <<m_deferred, count, total, made, wpc>> /\ wpc = "run"
    BY <1>4 DEF RunCallback
  <2>3. Shape'
    BY <2>1, <2>2 DEF Counted, Shape, TaskTypes, ThreadTypes
  <2>4. \A t \in Tasks : called'[t] + InFlight(t)' = called[t] + InFlight(t)
    BY <2>1 DEF InFlight, TaskTypes
  <2>5. \A t \in Tasks : called'[t] + InFlight(t)' + count'[t] <= total'[t]
    BY <2>2, <2>4 DEF Counted, CallsWithinCount
  <2> QED
    BY <2>3, <2>5 DEF Counted, CallsWithinCount
<1>5. CASE TimePasses
  BY <1>5 DEF TimePasses, Counted, Shape, CallsWithinCount, InFlight
<1> QED
  BY <1>1, <1>2, <1>3, <1>4, <1>5 DEF TaskStep

(* Counts after any step.                                                   *)
LEMMA CountedStep == Typed /\ Counted /\ [Next]_vars => Counted'
<1>1. Counted /\ UNCHANGED vars => Counted'
  BY DEF vars, Counted, Shape, CallsWithinCount, InFlight
<1> QED
  BY <1>1, Split, CountedControl, CountedTask

(* So the counts are always right.                                          *)
LEMMA AlwaysCounted == Spec => []Counted
  BY CountedInit, CountedStep, AlwaysTyped, PTL DEF Spec

(* No interleaving of defer, purge and tick runs a callback once too       *)
(* often, for any number of tasks, calls and names.                        *)
THEOREM NoExtraCalls == Spec => []CallsWithinCount
<1>1. Counted => CallsWithinCount
  BY DEF Counted
<1> QED
  BY <1>1, AlwaysCounted, PTL
-----------------------------------------------------------------------------
(* A parked worker and its deadline.                                       *)
LEMMA SleepInit == Init => NoOversleep
  BY DEF Init, NoOversleep

(* Sleep after a step that leaves tasks alone.                              *)
LEMMA SleepControl == Typed /\ NoOversleep /\ ControlStep => NoOversleep'
<1> SUFFICES ASSUME Typed, NoOversleep, ControlStep PROVE NoOversleep'
  OBVIOUS
<1>1. UNCHANGED <<m_deferred, left>>
  BY ControlKeepsTasks DEF queue
<1>2. CASE Hold
  <2>1. CASE wpc' = "wait"
    BY <1>1, <1>2, <2>1 DEF Hold, NoOversleep
  <2>2. CASE wpc' = "wait_for"
    BY <1>1, <1>2, <2>2 DEF Hold, Earliest, NoOversleep
  <2>3. CASE wpc' \notin {"wait", "wait_for"}
    BY <2>3 DEF NoOversleep
  <2> QED
    BY <2>1, <2>2, <2>3
<1>3. CASE Notify
  BY <1>3 DEF Notify, Waiting, NoOversleep
<1>4. CASE /\ ~Hold /\ ~Notify
  <2>1. wpc' \in {"wait", "wait_for"} =>
          /\ UNCHANGED <<wpc, timer>>
          /\ cpc # "notify" \/ UNCHANGED cpc
    BY <1>4
       DEF ControlStep, Use, LockForCall, Lock, ExistLocked, DestroyFlag,
           DestroyNotify, DestroyJoin, CheckActive, Timeout, SpuriousWakeup,
           Resume, TickBusy, RunDone, Waiting, worker
  <2> QED
    BY <1>1, <2>1 DEF NoOversleep
<1> QED
  BY <1>2, <1>3, <1>4

(* Sleep after a step that does not.                                        *)
LEMMA SleepTask == Typed /\ NoOversleep /\ TaskStep => NoOversleep'
<1> SUFFICES ASSUME Typed, NoOversleep, TaskStep PROVE NoOversleep'
  OBVIOUS
<1>1. CASE PurgeLocked
  BY <1>1 DEF PurgeLocked, NoOversleep
<1>2. CASE AddLocked
  BY <1>2 DEF AddLocked, NoOversleep
<1>3. CASE TickCollect \/ RunCallback
  BY <1>3 DEF TickCollect, RunCallback, NoOversleep
<1>4. CASE TimePasses
  <2>1. timer \in Nat /\ m_deferred \subseteq Tasks /\ left \in [Tasks -> Nat]
    BY DEF Typed, TypeOK, TaskTypes, ThreadTypes
  <2>2. \A t \in m_deferred : timer <= left[t] => timer' <= left'[t]
    BY <1>4, <2>1 DEF TimePasses, Less
  <2>3. UNCHANGED <<m_deferred, wpc, cpc>>
    BY <1>4 DEF TimePasses
  <2> QED
    BY <2>2, <2>3 DEF NoOversleep
<1> QED
  BY <1>1, <1>2, <1>3, <1>4 DEF TaskStep

(* The worker never sleeps past the deadline of a task, whenever the tasks *)
(* are deferred and purged and whatever the waits are.                     *)
THEOREM WorkerNeverOversleeps == Spec => []NoOversleep
<1>1. Typed /\ NoOversleep /\ [Next]_vars => NoOversleep'
  <2>1. NoOversleep /\ UNCHANGED vars => NoOversleep'
    BY DEF vars, NoOversleep
  <2> QED
    BY <2>1, Split, SleepControl, SleepTask
<1> QED
  BY <1>1, SleepInit, AlwaysTyped, PTL DEF Spec
-----------------------------------------------------------------------------
(* The names: nobody adds a task between the answer of exist() or purge()  *)
(* and the emplace_back that relies on it.                                 *)
Answered ==
  /\ cpc \in {"add", "adding"} => ~exist(req.r.id)
  /\ m_deferred \subseteq 1 .. made

(* A name is never in the queue twice, for any requests: the separate      *)
(* critical sections of exist, purge and defer are enough for one client.  *)
THEOREM NamesStayUnique == Spec => []UniqueNames
<1> DEFINE Inv == Answered /\ UniqueNames
<1>1. Init => Inv
  BY DEF Init, Answered, UniqueNames
<1>2. Typed /\ Inv /\ ControlStep => Inv'
  <2> SUFFICES ASSUME Typed, Inv, ControlStep PROVE Inv'
    OBVIOUS
  <2>1. UNCHANGED <<m_deferred, id, made>>
    BY ControlKeepsTasks DEF queue
  <2>2. cpc' \in {"add", "adding"} => ~exist(req'.r.id)
    <3>1. CASE ExistLocked
      BY <3>1 DEF ExistLocked
    <3>2. CASE ~ExistLocked
      BY <3>2
         DEF Answered, ControlStep, Use, LockForCall, Lock, Notify,
             DestroyFlag, DestroyNotify, DestroyJoin, CheckActive, Hold,
             Timeout, SpuriousWakeup, Resume, TickBusy, RunDone, worker
    <3> QED
      BY <3>1, <3>2
  <2> QED
    BY <2>1, <2>2 DEF Answered, UniqueNames, exist
<1>3. Typed /\ Inv /\ TaskStep => Inv'
  <2> SUFFICES ASSUME Typed, Inv, TaskStep PROVE Inv'
    OBVIOUS
  <2>1. CASE PurgeLocked
    BY <2>1 DEF PurgeLocked, Answered, UniqueNames, exist
  <2>2. CASE AddLocked
    <3>1. made + 1 \in Tasks /\ made \in Nat
      BY <2>2, TaskQueueAssumption
         DEF AddLocked, Typed, TypeOK, ThreadTypes, Room, Calling, Tasks
    <3>2. /\ m_deferred' = m_deferred \cup {made + 1} /\ made' = made + 1
          /\ cpc' = "notify"
      BY <2>2 DEF AddLocked
    <3>3. id'[made + 1] = req.r.id
      BY <2>2, <3>1 DEF AddLocked, Typed, TypeOK, TaskTypes
    <3>4. \A t \in m_deferred : id'[t] = id[t] /\ id[t] # req.r.id
      <4>1. \A t \in m_deferred : t # made + 1 /\ t \in Tasks
        BY <3>1 DEF Answered, Typed, TypeOK, TaskTypes
      <4>2. ~exist(req.r.id)
        BY <2>2 DEF AddLocked, Answered
      <4> QED
        BY <2>2, <4>1, <4>2
           DEF AddLocked, exist, Typed, TypeOK, TaskTypes
    <3>5. UniqueNames'
      BY <3>2, <3>3, <3>4 DEF UniqueNames
    <3>6. m_deferred' \subseteq 1 .. made'
      BY <3>1, <3>2 DEF Answered
    <3> QED
      BY <3>2, <3>5, <3>6 DEF Answered
  <2>3. CASE TickCollect \/ RunCallback \/ TimePasses
    <3>1. /\ m_deferred' \subseteq m_deferred
          /\ UNCHANGED <<id, req, cpc, made>>
      BY <2>3 DEF TickCollect, RunCallback, TimePasses, worker
    <3> QED
      BY <3>1 DEF Answered, UniqueNames, exist
  <2> QED
    BY <2>1, <2>2, <2>3 DEF TaskStep
<1>4. Typed /\ Inv /\ [Next]_vars => Inv'
  <2>1. Inv /\ UNCHANGED vars => Inv'
    BY DEF vars, Answered, UniqueNames, exist
  <2> QED
    BY <2>1, <1>2, <1>3, Split
<1>5. Inv => UniqueNames
  OBVIOUS
<1> QED
  BY <1>1, <1>4, <1>5, AlwaysTyped, PTL DEF Spec

-----------------------------------------------------------------------------
(* The queue starts as the contract does.                                   *)
LEMMA ContractStart == Init => DT!ContractInit
<1> SUFFICES ASSUME Init PROVE DT!ContractInit
  OBVIOUS
<1>1. Status = [t \in Tasks |-> "new"]
  BY TaskQueueAssumption DEF Init, Status, Tasks
<1>2. Owed = [t \in Tasks |-> 0]
  BY DEF Init, Owed, InFlight
<1>3. called = [t \in Tasks |-> 0]
  BY DEF Init
<1> QED
  BY <1>1, <1>2, <1>3 DEF DT!ContractInit

(* What is owed is a number.                                                *)
LEMMA OwedIsNat == Typed => Owed \in [Tasks -> Nat]
  BY DEF Typed, TypeOK, TaskTypes, Owed, InFlight

(* A step of the queue is a step of the contract or none.                  *)
LEMMA ContractStep ==
  Typed /\ Typed' /\ Counted /\ [Next]_vars => [DT!ContractNext]_(DT!contractVars)
<1> SUFFICES ASSUME Typed, Typed', Counted, [Next]_vars
             PROVE  DT!ContractNext \/ UNCHANGED <<Status, Owed, called>>
  BY DEF DT!contractVars
<1> USE DEF Typed, TypeOK
<1>1. CASE UNCHANGED queue
  BY <1>1 DEF queue, Status, Owed, InFlight
<1>2. CASE PurgeLocked
  <2> DEFINE S == m_deferred \ m_deferred'
  <2>1. m_deferred' \subseteq m_deferred /\ UNCHANGED <<cbs, count, called, made>>
    BY <1>2 DEF PurgeLocked
  <2>2. S \subseteq Tasks /\ \A t \in S : Status[t] = "pending"
    BY DEF TaskTypes, ThreadTypes, Status, Counted, Shape
  <2>3. Status' = [t \in Tasks |-> IF t \in S THEN "gone" ELSE Status[t]]
    BY <2>1 DEF TaskTypes, ThreadTypes, Status, Counted, Shape
  <2>4. Owed' \in [Tasks -> Nat]
    BY OwedIsNat DEF TaskTypes, Owed, InFlight
  <2>5. \A t \in S : Owed'[t] <= Owed[t] /\ Owed'[t] <= 1
    BY <2>1, <2>2 DEF Owed, InFlight, TaskTypes
  <2>6. \A t \in Tasks \ S : Owed'[t] = Owed[t]
    BY <2>1 DEF Owed, InFlight
  <2>7. DT!Withdraw(S)
    BY <2>1, <2>2, <2>3, <2>4, <2>5, <2>6 DEF DT!Withdraw
  <2> QED
    BY <2>2, <2>7 DEF DT!ContractNext
<1>3. CASE AddLocked
  <2> DEFINE n == made + 1
  <2>1. n \in Tasks /\ made \in Nat
    BY <1>3, TaskQueueAssumption DEF AddLocked, ThreadTypes, Room, Calling, Tasks
  <2>2. /\ m_deferred' = m_deferred \cup {n} /\ made' = n
        /\ UNCHANGED <<cbs, called>>
    BY <1>3 DEF AddLocked
  <2>3. Status[n] = "new"
    BY <2>1 DEF Status
  <2>4. Status' = [Status EXCEPT ![n] = "pending"]
    <3>1. \A t \in Tasks : t > n <=> t > made /\ t # n
      BY <2>1 DEF Tasks
    <3> QED
      BY <2>1, <2>2, <3>1 DEF Status
  <2>5. Owed' \in [Tasks -> Nat]
    BY OwedIsNat DEF TaskTypes, Owed, InFlight
  <2>6. \A t \in Tasks \ {n} : count'[t] = count[t]
    BY <1>3 DEF AddLocked, TaskTypes
  <2>7. \A t \in Tasks \ {n} : Owed'[t] = Owed[t]
    BY <2>2, <2>6 DEF Owed, InFlight
  <2>8. DT!Admit(n)
    BY <2>2, <2>3, <2>4, <2>5, <2>7 DEF DT!Admit
  <2> QED
    BY <2>1, <2>8 DEF DT!ContractNext
<1>4. CASE TickCollect
  <2> DEFINE S == m_deferred \ m_deferred'
  <2>1. /\ S \subseteq m_deferred /\ m_deferred' \subseteq m_deferred
        /\ \A t \in S : count[t] = 0
        /\ cbs = {} /\ cbs' \subseteq m_deferred'
        /\ UNCHANGED <<called, made>>
    BY <1>4
       DEF TickCollect, Collected, Finished, Due, Counted, Shape, TaskTypes
  <2>2. S \subseteq Tasks /\ \A t \in S : Status[t] = "pending"
    BY <2>1 DEF TaskTypes, ThreadTypes, Status, Counted, Shape
  <2>3. Status' = [t \in Tasks |-> IF t \in S THEN "gone" ELSE Status[t]]
    BY <2>1 DEF TaskTypes, ThreadTypes, Status, Counted, Shape
  <2>4. Owed' \in [Tasks -> Nat]
    BY OwedIsNat DEF TaskTypes, Owed, InFlight
  <2>5. \A t \in S : Owed'[t] = 0 /\ Owed[t] \in Nat
    BY <2>1, <2>2, OwedIsNat DEF Owed, InFlight
  <2>6. \A t \in Tasks \ S : Owed'[t] = Owed[t]
    <3> SUFFICES ASSUME NEW t \in Tasks \ S PROVE Owed'[t] = Owed[t]
      OBVIOUS
    <3>1. CASE t \in cbs'
      <4>1. count'[t] = count[t] - 1 /\ count[t] > 0 /\ t \in m_deferred'
        BY <1>4, <2>1, <3>1 DEF TickCollect, Collected, CountLeft
      <4> QED
        BY <2>1, <3>1, <4>1 DEF Owed, InFlight, TaskTypes
    <3>2. CASE t \notin cbs'
      <4>1. count'[t] = count[t]
        BY <1>4, <3>2 DEF TickCollect, Collected, CountLeft
      <4> QED
        BY <2>1, <3>2, <4>1 DEF Owed, InFlight
    <3> QED
      BY <3>1, <3>2
  <2>7. DT!Withdraw(S)
    BY <2>1, <2>2, <2>3, <2>4, <2>5, <2>6 DEF DT!Withdraw
  <2> QED
    BY <2>2, <2>7 DEF DT!ContractNext
<1>5. CASE RunCallback
  <2>1. PICK c \in cbs : /\ called' = [called EXCEPT ![c] = @ + 1]
                         /\ cbs' = cbs \ {c}
    BY <1>5 DEF RunCallback
  <2>2. UNCHANGED <<m_deferred, count, made>>
    BY <1>5 DEF RunCallback
  <2>3. c \in Tasks /\ UNCHANGED Status
    BY <2>2 DEF Status, TaskTypes
  <2>4. Owed[c] > 0
    BY <2>3 DEF Owed, InFlight, TaskTypes
  <2>5. Owed' = [Owed EXCEPT ![c] = @ - 1]
    <3>1. Owed'[c] = Owed[c] - 1
      BY <2>1, <2>2, <2>3 DEF Owed, InFlight, TaskTypes
    <3>2. \A t \in Tasks \ {c} : Owed'[t] = Owed[t]
      BY <2>1, <2>2 DEF Owed, InFlight
    <3> QED
      BY <3>1, <3>2 DEF Owed
  <2>6. DT!Call(c)
    BY <2>1, <2>3, <2>4, <2>5 DEF DT!Call
  <2> QED
    BY <2>3, <2>6 DEF DT!ContractNext
<1>6. CASE TimePasses
  BY <1>6 DEF TimePasses, Status, Owed, InFlight
<1> QED
  BY <1>1, <1>2, <1>3, <1>4, <1>5, <1>6, Split, ControlKeepsTasks
     DEF TaskStep, vars, queue

(* The task queue implements its contract: threads, lock and clock are an  *)
(* implementation detail to those who defer and purge tasks.               *)
THEOREM ImplementsContract == Spec => Contract
  BY ContractStart, ContractStep, AlwaysTyped, AlwaysCounted, PTL
     DEF Spec, Contract, DT!Contract
=============================================================================
