---------------------------- MODULE ModuleProofs ----------------------------
(***************************************************************************)
(* Proofs about Module, for any kinds of module and any number of changes: *)
(* its types, that stop() has the module for itself while teardown() runs, *)
(* that at most one refresh follows it, and that a change which is not     *)
(* drawn yet has an update on its way.  The argument is about who holds    *)
(* the two locks (Owned), how often a thread can stop the module           *)
(* (Stopped), where a runner is in its round (Rounds), and what a broadcast*)
(* leaves behind for the worker (Announced).                               *)
(***************************************************************************)
EXTENDS Module, TLAPS

(* Between StopLock and StopRelease a thread holds both locks; while the   *)
(* worker builds it holds m_buildlock; and what a runner that is not static*)
(* reads and writes in update() and poll() it does under m_updatelock,     *)
(* which it also keeps when it waits for its next poll().                  *)
HasIt == {"teardown", "release"}

Owned ==
  /\ \A t \in Stoppers : stopper[t] \in HasIt <=> m_buildlock = t
  /\ m_updatelock = "main" <=> stopper["main"] \in HasIt
  /\ stopper["runner"] \in HasIt => m_updatelock = "runner"
  /\ wpc = "build" <=> m_buildlock = "worker"
  /\ rpc \in {"update", "poll"} /\ kind # "static" => m_updatelock = "runner"
  /\ rpc \in {"idle", "asleep"} /\ again => m_updatelock = "runner"
  /\ kind = "static" => m_updatelock # "runner" /\ rpc # "halting"
  /\ stopper["runner"] # "out" => rpc = "halting"
  /\ stopper["main"] # "out" => mpc = "stopping"

(* Each of the two threads can tear the module down once.                  *)
SpentMain ==
  /\ mpc \in {"stopping", "join", "done"}
  /\ stopper["main"] \in {"release", "out"}

SpentRunner ==
  /\ rpc \in {"halting", "exited"}
  /\ stopper["runner"] \in {"release", "out"}

Once(spent) == IF spent THEN 1 ELSE 0

Stopped ==
  /\ torn <= Once(SpentMain) + Once(SpentRunner)
  /\ torn > 0 => ~m_enabled
  /\ \A t \in Stoppers : stopper[t] \in {"lock"} \cup HasIt => ~m_enabled

(* Only an inotify module polls again, and never in its first round; once a*)
(* refresh has come too late the runner is on its way out.                 *)
Rounds ==
  /\ again => kind = "inotify" /\ ~first
  /\ rpc = "poll" => kind = "inotify" /\ ~first
  /\ rpc \in {"update", "set", "emit"} => ~again
  /\ late > 0 =>
       /\ late = 1 /\ torn > 0
       /\ rpc \notin {"acquire", "poll", "update"}
       /\ rpc \in {"idle", "asleep"} => ~again

(* As long as no thread is about to set it, m_changed is set whenever the  *)
(* cache is old.                                                           *)
Announcing == rpc = "set" \/ mpc = "set"

Announced ==
  /\ m_changed \/ m_cache = data \/ lost \/ Announcing
  /\ wpc = "clear" => m_cache = data \/ lost \/ Announcing
  /\ ChangeOnItsWay

Inv == TypeOK /\ Owned /\ Stopped /\ Rounds /\ Announced

-----------------------------------------------------------------------------
(* Who holds the locks.                                                    *)
LEMMA OwnedStep ==
  ASSUME TypeOK, Owned, Rounds, Next
  PROVE  Owned'
<1> USE ModuleAssumption DEF TypeOK, Owned, HasIt, Stoppers, Rounds, AllKinds,
        content, cache, locks, runner, worker, history, RunnerOnly, StopOnly,
        WorkerOnly, MainOnly
<1>1. CASE Change
  BY <1>1 DEF Change
<1>2. CASE Quit
  BY <1>2 DEF Quit
<1>3. CASE Acquire
  BY <1>3 DEF Acquire
<1>4. CASE Poll
  BY <1>4 DEF Poll
<1>5. CASE Refresh
  BY <1>5 DEF Refresh, Release, KeepsLock, Late
<1>6. CASE Fail
  BY <1>6 DEF Fail, Release, Late
<1>7. CASE RunnerSet
  BY <1>7 DEF RunnerSet, SetChanged
<1>8. CASE RunnerEmit
  BY <1>8 DEF RunnerEmit, EmitChange
<1>9. CASE Idle
  BY <1>9 DEF Idle
<1>10. CASE Awake
  BY <1>10 DEF Awake
<1>11. CASE Return
  BY <1>11 DEF Return
<1>12. CASE Loop
  BY <1>12 DEF Loop
<1>13. CASE Halted
  BY <1>13 DEF Halted
<1>14. CASE TakeUpdate
  BY <1>14 DEF TakeUpdate
<1>15. CASE Skip
  BY <1>15 DEF Skip
<1>16. CASE Contents
  BY <1>16 DEF Contents
<1>17. CASE Build
  BY <1>17 DEF Build
<1>18. CASE Clear
  BY <1>18 DEF Clear
<1>19. CASE Gone
  BY <1>19 DEF Gone
<1>20. CASE HandleX
  BY <1>20 DEF HandleX
<1>21. CASE HandlerSet
  BY <1>21 DEF HandlerSet, SetChanged
<1>22. CASE HandlerEmit
  BY <1>22 DEF HandlerEmit, EmitChange
<1>23. CASE BeginStop
  BY <1>23 DEF BeginStop
<1>24. CASE Destroy
  BY <1>24 DEF Destroy
<1>25. CASE Join
  BY <1>25 DEF Join
<1>26. ASSUME NEW t \in Stoppers, StopCheck(t) PROVE Owned'
  BY <1>26 DEF StopCheck, Proceed
<1>27. ASSUME NEW t \in Stoppers, StopDisable(t) PROVE Owned'
  BY <1>27 DEF StopDisable, Proceed
<1>28. ASSUME NEW t \in Stoppers, StopLock(t) PROVE Owned'
  BY <1>28 DEF StopLock, Proceed
<1>29. ASSUME NEW t \in Stoppers, StopTeardown(t) PROVE Owned'
  BY <1>29 DEF StopTeardown, Proceed
<1>30. ASSUME NEW t \in Stoppers, StopRelease(t) PROVE Owned'
  BY <1>30 DEF StopRelease, Proceed
<1> QED
  BY <1>1, <1>2, <1>3, <1>4, <1>5, <1>6, <1>7, <1>8, <1>9, <1>10, <1>11, <1>12,
     <1>13, <1>14, <1>15, <1>16, <1>17, <1>18, <1>19, <1>20, <1>21, <1>22,
     <1>23, <1>24, <1>25, <1>26, <1>27, <1>28, <1>29, <1>30
     DEF Next, RunnerStep, WorkerStep, MainStep, StopStep

(* teardown() runs at most once per thread, and only when disabled.        *)
LEMMA StoppedStep ==
  ASSUME TypeOK, Owned, Stopped, Next
  PROVE  Stopped'
<1> USE ModuleAssumption DEF TypeOK, Owned, Stopped, HasIt, Stoppers,
        SpentMain, SpentRunner, Once, content, cache, locks, runner, worker,
        history, RunnerOnly, StopOnly, WorkerOnly, MainOnly
<1>1. CASE Change
  BY <1>1 DEF Change
<1>2. CASE Quit
  BY <1>2 DEF Quit
<1>3. CASE Acquire
  BY <1>3 DEF Acquire
<1>4. CASE Poll
  BY <1>4 DEF Poll
<1>5. CASE Refresh
  BY <1>5 DEF Refresh, Release, KeepsLock, Late
<1>6. CASE Fail
  BY <1>6 DEF Fail, Release, Late
<1>7. CASE RunnerSet
  BY <1>7 DEF RunnerSet, SetChanged
<1>8. CASE RunnerEmit
  BY <1>8 DEF RunnerEmit, EmitChange
<1>9. CASE Idle
  BY <1>9 DEF Idle
<1>10. CASE Awake
  BY <1>10 DEF Awake
<1>11. CASE Return
  BY <1>11 DEF Return
<1>12. CASE Loop
  BY <1>12 DEF Loop
<1>13. CASE Halted
  BY <1>13 DEF Halted
<1>14. CASE TakeUpdate
  BY <1>14 DEF TakeUpdate
<1>15. CASE Skip
  BY <1>15 DEF Skip
<1>16. CASE Contents
  BY <1>16 DEF Contents
<1>17. CASE Build
  BY <1>17 DEF Build
<1>18. CASE Clear
  BY <1>18 DEF Clear
<1>19. CASE Gone
  BY <1>19 DEF Gone
<1>20. CASE HandleX
  BY <1>20 DEF HandleX
<1>21. CASE HandlerSet
  BY <1>21 DEF HandlerSet, SetChanged
<1>22. CASE HandlerEmit
  BY <1>22 DEF HandlerEmit, EmitChange
<1>23. CASE BeginStop
  BY <1>23 DEF BeginStop
<1>24. CASE Destroy
  BY <1>24 DEF Destroy
<1>25. CASE Join
  BY <1>25 DEF Join
<1>26. ASSUME NEW t \in Stoppers, StopCheck(t) PROVE Stopped'
  BY <1>26 DEF StopCheck, Proceed
<1>27. ASSUME NEW t \in Stoppers, StopDisable(t) PROVE Stopped'
  BY <1>27 DEF StopDisable, Proceed
<1>28. ASSUME NEW t \in Stoppers, StopLock(t) PROVE Stopped'
  BY <1>28 DEF StopLock, Proceed
<1>29. ASSUME NEW t \in Stoppers, StopTeardown(t) PROVE Stopped'
  BY <1>29 DEF StopTeardown, Proceed
<1>30. ASSUME NEW t \in Stoppers, StopRelease(t) PROVE Stopped'
  BY <1>30 DEF StopRelease, Proceed
<1> QED
  BY <1>1, <1>2, <1>3, <1>4, <1>5, <1>6, <1>7, <1>8, <1>9, <1>10, <1>11, <1>12,
     <1>13, <1>14, <1>15, <1>16, <1>17, <1>18, <1>19, <1>20, <1>21, <1>22,
     <1>23, <1>24, <1>25, <1>26, <1>27, <1>28, <1>29, <1>30
     DEF Next, RunnerStep, WorkerStep, MainStep, StopStep

(* Where the runner is in its round.                                       *)
LEMMA RoundsStep ==
  ASSUME TypeOK, Owned, Stopped, Rounds, Next
  PROVE  Rounds'
<1> USE ModuleAssumption DEF TypeOK, Rounds, Stopped, HasIt, Stoppers,
        AllKinds, content, cache, locks, runner, worker, history, RunnerOnly,
        StopOnly, WorkerOnly, MainOnly
<1>1. CASE Change
  BY <1>1 DEF Change
<1>2. CASE Quit
  BY <1>2 DEF Quit
<1>3. CASE Acquire
  BY <1>3 DEF Acquire
<1>4. CASE Poll
  BY <1>4 DEF Poll
<1>5. CASE Refresh
  BY <1>5 DEF Refresh, Release, KeepsLock, Late
<1>6. CASE Fail
  BY <1>6 DEF Fail, Release, Late
<1>7. CASE RunnerSet
  BY <1>7 DEF RunnerSet, SetChanged
<1>8. CASE RunnerEmit
  BY <1>8 DEF RunnerEmit, EmitChange
<1>9. CASE Idle
  BY <1>9 DEF Idle
<1>10. CASE Awake
  BY <1>10 DEF Awake
<1>11. CASE Return
  BY <1>11 DEF Return
<1>12. CASE Loop
  BY <1>12 DEF Loop
<1>13. CASE Halted
  BY <1>13 DEF Halted
<1>14. CASE TakeUpdate
  BY <1>14 DEF TakeUpdate
<1>15. CASE Skip
  BY <1>15 DEF Skip
<1>16. CASE Contents
  BY <1>16 DEF Contents
<1>17. CASE Build
  BY <1>17 DEF Build
<1>18. CASE Clear
  BY <1>18 DEF Clear
<1>19. CASE Gone
  BY <1>19 DEF Gone
<1>20. CASE HandleX
  BY <1>20 DEF HandleX
<1>21. CASE HandlerSet
  BY <1>21 DEF HandlerSet, SetChanged
<1>22. CASE HandlerEmit
  BY <1>22 DEF HandlerEmit, EmitChange
<1>23. CASE BeginStop
  BY <1>23 DEF BeginStop
<1>24. CASE Destroy
  BY <1>24 DEF Destroy
<1>25. CASE Join
  BY <1>25 DEF Join
<1>26. ASSUME NEW t \in Stoppers, StopCheck(t) PROVE Rounds'
  BY <1>26 DEF StopCheck, Proceed
<1>27. ASSUME NEW t \in Stoppers, StopDisable(t) PROVE Rounds'
  BY <1>27 DEF StopDisable, Proceed
<1>28. ASSUME NEW t \in Stoppers, StopLock(t) PROVE Rounds'
  BY <1>28 DEF StopLock, Proceed
<1>29. ASSUME NEW t \in Stoppers, StopTeardown(t) PROVE Rounds'
  BY <1>29 DEF StopTeardown, Proceed
<1>30. ASSUME NEW t \in Stoppers, StopRelease(t) PROVE Rounds'
  BY <1>30 DEF StopRelease, Proceed
<1> QED
  BY <1>1, <1>2, <1>3, <1>4, <1>5, <1>6, <1>7, <1>8, <1>9, <1>10, <1>11, <1>12,
     <1>13, <1>14, <1>15, <1>16, <1>17, <1>18, <1>19, <1>20, <1>21, <1>22,
     <1>23, <1>24, <1>25, <1>26, <1>27, <1>28, <1>29, <1>30
     DEF Next, RunnerStep, WorkerStep, MainStep, StopStep

(* What a broadcast leaves behind.                                         *)
LEMMA AnnouncedStep ==
  ASSUME TypeOK, Stopped, Announced, Next
  PROVE  Announced'
<1> USE ModuleAssumption DEF TypeOK, Announced, Announcing, ChangeOnItsWay,
        Stoppers, content, cache, locks, runner, worker, history, RunnerOnly,
        StopOnly, WorkerOnly, MainOnly
<1>1. CASE Change
  BY <1>1 DEF Change
<1>2. CASE Quit
  BY <1>2 DEF Quit
<1>3. CASE Acquire
  BY <1>3 DEF Acquire
<1>4. CASE Poll
  BY <1>4 DEF Poll
<1>5. CASE Refresh
  BY <1>5 DEF Refresh, Release, KeepsLock, Late
<1>6. CASE Fail
  BY <1>6 DEF Fail, Release, Late
<1>7. CASE RunnerSet
  BY <1>7 DEF RunnerSet, SetChanged
<1>8. CASE RunnerEmit
  BY <1>8 DEF RunnerEmit, EmitChange
<1>9. CASE Idle
  BY <1>9 DEF Idle
<1>10. CASE Awake
  BY <1>10 DEF Awake
<1>11. CASE Return
  BY <1>11 DEF Return
<1>12. CASE Loop
  BY <1>12 DEF Loop
<1>13. CASE Halted
  BY <1>13 DEF Halted
<1>14. CASE TakeUpdate
  BY <1>14 DEF TakeUpdate
<1>15. CASE Skip
  BY <1>15 DEF Skip
<1>16. CASE Contents
  BY <1>16 DEF Contents
<1>17. CASE Build
  BY <1>17 DEF Build
<1>18. CASE Clear
  BY <1>18 DEF Clear
<1>19. CASE Gone
  BY <1>19 DEF Gone
<1>20. CASE HandleX
  BY <1>20 DEF HandleX
<1>21. CASE HandlerSet
  BY <1>21 DEF HandlerSet, SetChanged
<1>22. CASE HandlerEmit
  BY <1>22 DEF HandlerEmit, EmitChange
<1>23. CASE BeginStop
  BY <1>23 DEF BeginStop
<1>24. CASE Destroy
  BY <1>24 DEF Destroy
<1>25. CASE Join
  BY <1>25 DEF Join
<1>26. ASSUME NEW t \in Stoppers, StopCheck(t) PROVE Announced'
  BY <1>26 DEF StopCheck, Proceed
<1>27. ASSUME NEW t \in Stoppers, StopDisable(t) PROVE Announced'
  BY <1>27 DEF StopDisable, Proceed
<1>28. ASSUME NEW t \in Stoppers, StopLock(t) PROVE Announced'
  BY <1>28 DEF StopLock, Proceed
<1>29. ASSUME NEW t \in Stoppers, StopTeardown(t) PROVE Announced'
  BY <1>29 DEF StopTeardown, Proceed
<1>30. ASSUME NEW t \in Stoppers, StopRelease(t) PROVE Announced'
  BY <1>30 DEF StopRelease, Proceed
<1> QED
  BY <1>1, <1>2, <1>3, <1>4, <1>5, <1>6, <1>7, <1>8, <1>9, <1>10, <1>11, <1>12,
     <1>13, <1>14, <1>15, <1>16, <1>17, <1>18, <1>19, <1>20, <1>21, <1>22,
     <1>23, <1>24, <1>25, <1>26, <1>27, <1>28, <1>29, <1>30
     DEF Next, RunnerStep, WorkerStep, MainStep, StopStep

(* The types; how often teardown() has run is bounded by StoppedStep.      *)
LEMMA TypeStep ==
  ASSUME TypeOK, Owned, Rounds, Stopped', Next
  PROVE  TypeOK'
<1> USE ModuleAssumption DEF TypeOK, Stopped, Once, Owned, Stoppers, AllKinds,
        RunnerPC, WorkerPC, MainPC, StopPC, content, cache, locks, runner,
        worker, history, RunnerOnly, StopOnly, WorkerOnly, MainOnly
<1>1. CASE Change
  BY <1>1 DEF Change
<1>2. CASE Quit
  BY <1>2 DEF Quit
<1>3. CASE Acquire
  BY <1>3 DEF Acquire
<1>4. CASE Poll
  <2>1. /\ source' \in 0 .. MaxChanges /\ data' \in 0 .. source'
        /\ m_cache' \in 0 .. data' /\ shown' \in 0 .. m_cache'
        /\ torn' \in 0 .. 2 /\ late' \in Nat
    BY <1>4 DEF Poll
  <2>2. /\ m_enabled' \in BOOLEAN /\ m_changed' \in BOOLEAN
        /\ first' \in BOOLEAN /\ again' \in BOOLEAN /\ queued' \in BOOLEAN
        /\ raised' \in BOOLEAN /\ lost' \in BOOLEAN
    BY <1>4 DEF Poll
  <2>3. /\ kind' \in Kinds /\ m_updatelock' \in Stoppers \cup {"free"}
        /\ m_buildlock' \in Stoppers \cup {"worker", "free"}
        /\ rpc' \in RunnerPC /\ wpc' \in WorkerPC /\ mpc' \in MainPC
    BY <1>4 DEF Poll
  <2>4. stopper' \in [Stoppers -> StopPC]
    BY <1>4 DEF Poll
  <2> QED
    BY <2>1, <2>2, <2>3, <2>4
<1>5. CASE Refresh
  BY <1>5 DEF Refresh, Release, KeepsLock, Late
<1>6. CASE Fail
  BY <1>6 DEF Fail, Release, Late
<1>7. CASE RunnerSet
  BY <1>7 DEF RunnerSet, SetChanged
<1>8. CASE RunnerEmit
  <2>1. /\ source' \in 0 .. MaxChanges /\ data' \in 0 .. source'
        /\ m_cache' \in 0 .. data' /\ shown' \in 0 .. m_cache'
        /\ torn' \in 0 .. 2 /\ late' \in Nat
    BY <1>8 DEF RunnerEmit, EmitChange
  <2>2. /\ m_enabled' \in BOOLEAN /\ m_changed' \in BOOLEAN
        /\ first' \in BOOLEAN /\ again' \in BOOLEAN /\ queued' \in BOOLEAN
        /\ raised' \in BOOLEAN /\ lost' \in BOOLEAN
    BY <1>8 DEF RunnerEmit, EmitChange
  <2>3. /\ kind' \in Kinds /\ m_updatelock' \in Stoppers \cup {"free"}
        /\ m_buildlock' \in Stoppers \cup {"worker", "free"}
        /\ rpc' \in RunnerPC /\ wpc' \in WorkerPC /\ mpc' \in MainPC
    BY <1>8 DEF RunnerEmit, EmitChange
  <2>4. stopper' \in [Stoppers -> StopPC]
    BY <1>8 DEF RunnerEmit, EmitChange
  <2> QED
    BY <2>1, <2>2, <2>3, <2>4
<1>9. CASE Idle
  BY <1>9 DEF Idle
<1>10. CASE Awake
  BY <1>10 DEF Awake
<1>11. CASE Return
  BY <1>11 DEF Return
<1>12. CASE Loop
  BY <1>12 DEF Loop
<1>13. CASE Halted
  BY <1>13 DEF Halted
<1>14. CASE TakeUpdate
  <2>1. /\ source' \in 0 .. MaxChanges /\ data' \in 0 .. source'
        /\ m_cache' \in 0 .. data' /\ shown' \in 0 .. m_cache'
        /\ torn' \in 0 .. 2 /\ late' \in Nat
    BY <1>14 DEF TakeUpdate
  <2>2. /\ m_enabled' \in BOOLEAN /\ m_changed' \in BOOLEAN
        /\ first' \in BOOLEAN /\ again' \in BOOLEAN /\ queued' \in BOOLEAN
        /\ raised' \in BOOLEAN /\ lost' \in BOOLEAN
    BY <1>14 DEF TakeUpdate
  <2>3. /\ kind' \in Kinds /\ m_updatelock' \in Stoppers \cup {"free"}
        /\ m_buildlock' \in Stoppers \cup {"worker", "free"}
        /\ rpc' \in RunnerPC /\ wpc' \in WorkerPC /\ mpc' \in MainPC
    BY <1>14 DEF TakeUpdate
  <2>4. stopper' \in [Stoppers -> StopPC]
    BY <1>14 DEF TakeUpdate
  <2> QED
    BY <2>1, <2>2, <2>3, <2>4
<1>15. CASE Skip
  BY <1>15 DEF Skip
<1>16. CASE Contents
  BY <1>16 DEF Contents
<1>17. CASE Build
  <2>1. /\ source' \in 0 .. MaxChanges /\ data' \in 0 .. source'
        /\ m_cache' \in 0 .. data' /\ shown' \in 0 .. m_cache'
        /\ torn' \in 0 .. 2 /\ late' \in Nat
    BY <1>17 DEF Build
  <2>2. /\ m_enabled' \in BOOLEAN /\ m_changed' \in BOOLEAN
        /\ first' \in BOOLEAN /\ again' \in BOOLEAN /\ queued' \in BOOLEAN
        /\ raised' \in BOOLEAN /\ lost' \in BOOLEAN
    BY <1>17 DEF Build
  <2>3. /\ kind' \in Kinds /\ m_updatelock' \in Stoppers \cup {"free"}
        /\ m_buildlock' \in Stoppers \cup {"worker", "free"}
        /\ rpc' \in RunnerPC /\ wpc' \in WorkerPC /\ mpc' \in MainPC
    BY <1>17 DEF Build
  <2>4. stopper' \in [Stoppers -> StopPC]
    BY <1>17 DEF Build
  <2> QED
    BY <2>1, <2>2, <2>3, <2>4
<1>18. CASE Clear
  <2>1. /\ source' \in 0 .. MaxChanges /\ data' \in 0 .. source'
        /\ m_cache' \in 0 .. data' /\ shown' \in 0 .. m_cache'
        /\ torn' \in 0 .. 2 /\ late' \in Nat
    BY <1>18 DEF Clear
  <2>2. /\ m_enabled' \in BOOLEAN /\ m_changed' \in BOOLEAN
        /\ first' \in BOOLEAN /\ again' \in BOOLEAN /\ queued' \in BOOLEAN
        /\ raised' \in BOOLEAN /\ lost' \in BOOLEAN
    BY <1>18 DEF Clear
  <2>3. /\ kind' \in Kinds /\ m_updatelock' \in Stoppers \cup {"free"}
        /\ m_buildlock' \in Stoppers \cup {"worker", "free"}
        /\ rpc' \in RunnerPC /\ wpc' \in WorkerPC /\ mpc' \in MainPC
    BY <1>18 DEF Clear
  <2>4. stopper' \in [Stoppers -> StopPC]
    BY <1>18 DEF Clear
  <2> QED
    BY <2>1, <2>2, <2>3, <2>4
<1>19. CASE Gone
  <2>1. /\ source' \in 0 .. MaxChanges /\ data' \in 0 .. source'
        /\ m_cache' \in 0 .. data' /\ shown' \in 0 .. m_cache'
        /\ torn' \in 0 .. 2 /\ late' \in Nat
    BY <1>19 DEF Gone
  <2>2. /\ m_enabled' \in BOOLEAN /\ m_changed' \in BOOLEAN
        /\ first' \in BOOLEAN /\ again' \in BOOLEAN /\ queued' \in BOOLEAN
        /\ raised' \in BOOLEAN /\ lost' \in BOOLEAN
    BY <1>19 DEF Gone
  <2>3. /\ kind' \in Kinds /\ m_updatelock' \in Stoppers \cup {"free"}
        /\ m_buildlock' \in Stoppers \cup {"worker", "free"}
        /\ rpc' \in RunnerPC /\ wpc' \in WorkerPC /\ mpc' \in MainPC
    BY <1>19 DEF Gone
  <2>4. stopper' \in [Stoppers -> StopPC]
    BY <1>19 DEF Gone
  <2> QED
    BY <2>1, <2>2, <2>3, <2>4
<1>20. CASE HandleX
  BY <1>20 DEF HandleX
<1>21. CASE HandlerSet
  BY <1>21 DEF HandlerSet, SetChanged
<1>22. CASE HandlerEmit
  BY <1>22 DEF HandlerEmit, EmitChange
<1>23. CASE BeginStop
  BY <1>23 DEF BeginStop
<1>24. CASE Destroy
  BY <1>24 DEF Destroy
<1>25. CASE Join
  BY <1>25 DEF Join
<1>26. ASSUME NEW t \in Stoppers, StopCheck(t) PROVE TypeOK'
  BY <1>26 DEF StopCheck, Proceed
<1>27. ASSUME NEW t \in Stoppers, StopDisable(t) PROVE TypeOK'
  <2>1. /\ source' \in 0 .. MaxChanges /\ data' \in 0 .. source'
        /\ m_cache' \in 0 .. data' /\ shown' \in 0 .. m_cache'
        /\ torn' \in 0 .. 2 /\ late' \in Nat
    BY <1>27 DEF StopDisable, Proceed
  <2>2. /\ m_enabled' \in BOOLEAN /\ m_changed' \in BOOLEAN
        /\ first' \in BOOLEAN /\ again' \in BOOLEAN /\ queued' \in BOOLEAN
        /\ raised' \in BOOLEAN /\ lost' \in BOOLEAN
    BY <1>27 DEF StopDisable, Proceed
  <2>3. /\ kind' \in Kinds /\ m_updatelock' \in Stoppers \cup {"free"}
        /\ m_buildlock' \in Stoppers \cup {"worker", "free"}
        /\ rpc' \in RunnerPC /\ wpc' \in WorkerPC /\ mpc' \in MainPC
    BY <1>27 DEF StopDisable, Proceed
  <2>4. stopper' \in [Stoppers -> StopPC]
    BY <1>27 DEF StopDisable, Proceed
  <2> QED
    BY <2>1, <2>2, <2>3, <2>4
<1>28. ASSUME NEW t \in Stoppers, StopLock(t) PROVE TypeOK'
  <2>1. /\ source' \in 0 .. MaxChanges /\ data' \in 0 .. source'
        /\ m_cache' \in 0 .. data' /\ shown' \in 0 .. m_cache'
        /\ torn' \in 0 .. 2 /\ late' \in Nat
    BY <1>28 DEF StopLock, Proceed
  <2>2. /\ m_enabled' \in BOOLEAN /\ m_changed' \in BOOLEAN
        /\ first' \in BOOLEAN /\ again' \in BOOLEAN /\ queued' \in BOOLEAN
        /\ raised' \in BOOLEAN /\ lost' \in BOOLEAN
    BY <1>28 DEF StopLock, Proceed
  <2>3. /\ kind' \in Kinds /\ m_updatelock' \in Stoppers \cup {"free"}
        /\ m_buildlock' \in Stoppers \cup {"worker", "free"}
        /\ rpc' \in RunnerPC /\ wpc' \in WorkerPC /\ mpc' \in MainPC
    BY <1>28 DEF StopLock, Proceed
  <2>4. stopper' \in [Stoppers -> StopPC]
    BY <1>28 DEF StopLock, Proceed
  <2> QED
    BY <2>1, <2>2, <2>3, <2>4
<1>29. ASSUME NEW t \in Stoppers, StopTeardown(t) PROVE TypeOK'
  BY <1>29 DEF StopTeardown, Proceed
<1>30. ASSUME NEW t \in Stoppers, StopRelease(t) PROVE TypeOK'
  BY <1>30 DEF StopRelease, Proceed
<1> QED
  BY <1>1, <1>2, <1>3, <1>4, <1>5, <1>6, <1>7, <1>8, <1>9, <1>10, <1>11, <1>12,
     <1>13, <1>14, <1>15, <1>16, <1>17, <1>18, <1>19, <1>20, <1>21, <1>22,
     <1>23, <1>24, <1>25, <1>26, <1>27, <1>28, <1>29, <1>30
     DEF Next, RunnerStep, WorkerStep, MainStep, StopStep

(* A step that changes nothing.                                            *)
LEMMA Stutter ==
  ASSUME Inv, UNCHANGED vars
  PROVE  Inv'
<1> USE DEF vars
<1>1. TypeOK'
  BY DEF Inv, TypeOK
<1>2. Owned'
  BY DEF Inv, Owned
<1>3. Stopped'
  BY DEF Inv, Stopped, SpentMain, SpentRunner, Once
<1>4. Rounds' /\ Announced'
  BY DEF Inv, Rounds, Announced, Announcing, ChangeOnItsWay
<1> QED
  BY <1>1, <1>2, <1>3, <1>4 DEF Inv

-----------------------------------------------------------------------------
(* Every reachable state satisfies the invariant.                          *)
THEOREM Inductive == Spec => []Inv
<1>1. Init => Inv
  <2> SUFFICES ASSUME Init PROVE Inv
    OBVIOUS
  <2> USE ModuleAssumption DEF Init, HasIt, Stoppers
  <2>1. TypeOK
    <3>1. /\ kind \in Kinds /\ source \in 0 .. MaxChanges /\ data \in 0 .. source
          /\ m_cache \in 0 .. data /\ shown \in 0 .. m_cache
          /\ torn \in 0 .. 2 /\ late \in Nat
      OBVIOUS
    <3>2. /\ m_enabled \in BOOLEAN /\ m_changed \in BOOLEAN
          /\ first \in BOOLEAN /\ again \in BOOLEAN /\ queued \in BOOLEAN
          /\ raised \in BOOLEAN /\ lost \in BOOLEAN
      OBVIOUS
    <3>3. /\ m_updatelock \in Stoppers \cup {"free"}
          /\ m_buildlock \in Stoppers \cup {"worker", "free"}
          /\ rpc \in RunnerPC /\ wpc \in WorkerPC /\ mpc \in MainPC
          /\ stopper \in [Stoppers -> StopPC]
      BY DEF RunnerPC, WorkerPC, MainPC, StopPC
    <3> QED
      BY <3>1, <3>2, <3>3 DEF TypeOK
  <2>2. Owned
    BY DEF Owned
  <2>3. Stopped
    BY DEF Stopped, SpentMain, SpentRunner, Once
  <2>4. Rounds /\ Announced
    BY DEF Rounds, Announced, Announcing, ChangeOnItsWay
  <2> QED
    BY <2>1, <2>2, <2>3, <2>4 DEF Inv
<1>2. Inv /\ [Next]_vars => Inv'
  <2> SUFFICES ASSUME Inv, [Next]_vars PROVE Inv'
    OBVIOUS
  <2>1. CASE Next
    BY <2>1, OwnedStep, StoppedStep, RoundsStep, AnnouncedStep, TypeStep DEF Inv
  <2>2. CASE UNCHANGED vars
    BY <2>2, Stutter
  <2> QED
    BY <2>1, <2>2
<1> QED
  BY <1>1, <1>2, PTL DEF Spec

(* What is shown is never newer than the cache, the cache never newer than  *)
(* the data and the data never newer than the world, whatever threads write*)
(* them; and teardown() runs at most twice.                                *)
THEOREM TypeCorrect == Spec => []TypeOK
<1> Inv => TypeOK
  BY DEF Inv
<1> QED
  BY Inductive, PTL

(* No thread refreshes or builds while another is in teardown(), although  *)
(* runner and main thread may both be in stop().                           *)
THEOREM TeardownCorrect == Spec => []QuietTeardown
<1>1. Inv => QuietTeardown
  BY DEF Inv, TypeOK, Owned, QuietTeardown, Updating, HasIt, Stoppers
<1> QED
  BY <1>1, Inductive, PTL

(* teardown() is followed by at most one refresh, however often the world  *)
(* changes and whoever tears the module down.                              *)
THEOREM LateCorrect == Spec => []LateRefreshes
<1>1. Inv => LateRefreshes
  BY DEF Inv, TypeOK, Rounds, LateRefreshes
<1> QED
  BY <1>1, Inductive, PTL

(* Data that is newer than what is shown is on its way to the bar, however *)
(* broadcasts of two threads interleave with the worker's contents(), or   *)
(* its broadcast was overwritten by the reset of m_changed.                *)
THEOREM ChangeCorrect == Spec => []ChangeOnItsWay
<1>1. Inv => ChangeOnItsWay
  BY DEF Inv, Announced
<1> QED
  BY <1>1, Inductive, PTL
=============================================================================
