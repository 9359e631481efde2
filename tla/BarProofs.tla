----------------------------- MODULE BarProofs -----------------------------
(***************************************************************************)
(* Proofs about Bar, for every layout, every set of presses and any number *)
(* of events.  Two threads draw and three read what is drawn; the argument *)
(* is about who holds m_mutex (Owned) and what each step of parse() leaves *)
(* behind (AreasInv, ShownInv), and about where an accepted click may be   *)
(* (Balance).                                                              *)
(***************************************************************************)
EXTENDS Bar, FiniteSetTheorems, WellFoundedInduction, TLAPS

Threads == {"main", "worker"}
Steps == {"no", "lock", "decide", "reset", "fill", "end"}
Holding == {"decide", "reset", "fill", "end"}
Drawing == {"reset", "fill", "end"}
ClickPC == {"press", "exist", "purge", "add", "now"}
MainHolding == ClickPC \cup {"motion"}

(* What parse() of a thread may look like.                                 *)
Parsings == [step : Steps, data : Versions, force : BOOLEAN]

Typed ==
  /\ version \in Versions /\ pending \in {"none", "update", "forced"}
  /\ m_mutex \in {"free", "main", "worker"}
  /\ m_lastinput \in Versions /\ m_visible \in BOOLEAN /\ drawn \in Versions
  /\ blocks \in {<<>>} \cup {Layout[v] : v \in Versions}
  /\ m_dblclicks \in BOOLEAN
  /\ parsing \in [Threads -> Parsings]
  /\ mpc \in {"idle", "show", "motion"} \cup ClickPC
  /\ m_buttonpress_btn \in Buttons
  /\ m_buttonpress_pos \in {p.pos : p \in Presses}
  /\ m_doubleclick \in BOOLEAN
  /\ tasks \in [Timed -> {"none", "waiting", "spent"}]
  /\ running \subseteq Timed /\ action \in Nat
  /\ events \in 0 .. MaxEvents /\ clicks \in 0 .. events
  /\ delivered \in Nat /\ acted \in Nat /\ others \in Int
  /\ dropped \in BOOLEAN /\ failed \in BOOLEAN

(* Where the main thread is in a click says which button it is about.      *)
Clicking ==
  /\ mpc \in {"exist", "purge"} => m_buttonpress_btn \in Timed
  /\ mpc = "add" => m_buttonpress_btn \in Timed \cup Doubles

(* A thread that draws, or handles a click, holds m_mutex.                 *)
Owned ==
  /\ \A t \in Threads : parsing[t].step \in Holding => m_mutex = t
  /\ mpc \in MainHolding => m_mutex = "main" /\ parsing["main"].step = "no"
  /\ m_mutex = "main" => mpc \in MainHolding \/ parsing["main"].step \in Holding
  /\ m_mutex = "worker" => parsing["worker"].step \in Holding
  /\ parsing["main"].step # "no" => mpc = "idle" /\ parsing["main"].force
  /\ \A t \in Threads : parsing[t].step = "no" => parsing[t] = NotParsing

(* The areas are those of the window, except while they are replaced.      *)
Replacing == \E t \in Threads : parsing[t].step \in {"fill", "end"}

AreasInv ==
  /\ ~Replacing => blocks = Layout[drawn]
  /\ \A t \in Threads :
       parsing[t].step = "end" => blocks = Layout[parsing[t].data]

(* The window is m_lastinput, except while it is redrawn.                  *)
Redrawing ==
  \/ mpc = "show" \/ parsing["main"].step # "no"
  \/ parsing["worker"].step \in Drawing

ShownInv ==
  /\ m_visible /\ ~Redrawing => drawn = m_lastinput \/ dropped
  /\ \A t \in Threads :
       parsing[t].step \in Drawing => m_lastinput = parsing[t].data

-----------------------------------------------------------------------------
(* The button whose delayed clicks a button's press belongs to.            *)
LEMMA TaskOfTimed ==
  \A b \in Timed \cup Doubles : TaskOf(b) \in Timed
<1> SUFFICES ASSUME NEW b \in Timed \cup Doubles PROVE TaskOf(b) \in Timed
  OBVIOUS
<1>1. \E t \in Timed : b \in {t, Double[t]}
  BY DEF Timed, Doubles, Double
<1> QED
  BY <1>1 DEF TaskOf

(* Among finitely many ids there is a highest one.                         *)
LEMMA HighestExists ==
  ASSUME NEW n \in Nat, NEW S \in SUBSET (1 .. n), S # {}
  PROVE  \E m \in S : \A k \in S : k <= m
<1> DEFINE Above(k) == {j \in S : j > k}
           T == {Above(k) : k \in S}
<1>1. IsFiniteSet(S)
  <2>1. 1 \in Int /\ n \in Int
    OBVIOUS
  <2>2. IsFiniteSet(1 .. n)
    BY <2>1, FS_Interval
  <2> QED
    BY <2>2, FS_Subset
<1>2. IsWellFoundedOn(StrictSubsetOrdering(S), SUBSET S)
  BY <1>1, FS_StrictSubsetOrderingWellFounded, FS_FiniteSubsetsOfFinite
<1>3. T \subseteq SUBSET S /\ T # {}
  OBVIOUS
<1>4. PICK x \in T : \A y \in T : <<y, x>> \notin StrictSubsetOrdering(S)
  <2> HIDE DEF T
  <2> QED
    BY <1>2, <1>3, WFMin
<1>5. PICK m \in S : x = Above(m)
  BY <1>4
<1>6. ASSUME NEW k \in S, k > m PROVE FALSE
  <2>1. \A j \in S : j > k => j > m
    BY <1>6
  <2>2. ~(k > k)
    OBVIOUS
  <2>3. Above(k) \subseteq Above(m) /\ k \in Above(m) /\ k \notin Above(k)
    BY <1>6, <2>1, <2>2
  <2>4. <<Above(k), Above(m)>> \in StrictSubsetOrdering(S)
    BY <2>3, <1>4, <1>5 DEF StrictSubsetOrdering
  <2> QED
    BY <1>4, <1>5, <2>4
<1> QED
  BY <1>6

(* has_action() returns an id or NO_ACTION.                                *)
LEMMA HasActionType ==
  ASSUME Typed, BarAssumption
  PROVE  HasAction \in Nat
<1>1. PICK n \in Nat : DOMAIN blocks = 1 .. n
  <2>1. CASE blocks = <<>>
    BY <2>1
  <2>2. CASE blocks \in {Layout[v] : v \in Versions}
    BY <2>2 DEF BarAssumption
  <2> QED
    BY <2>1, <2>2 DEF Typed
<1> DEFINE S == {k \in DOMAIN blocks : Hit(k)}
<1>2. CASE S = {}
  BY <1>2 DEF HasAction, NoAction
<1>3. CASE S # {}
  <2>1. S \in SUBSET (1 .. n)
    BY <1>1
  <2>2. \E m \in S : \A k \in S : k <= m
    <3> HIDE DEF S
    <3> QED
      BY <1>3, <2>1, HighestExists
  <2>3. \E m \in DOMAIN blocks :
          Hit(m) /\ \A k \in DOMAIN blocks : Hit(k) => k <= m
    BY <2>2
  <2>4. HasAction \in DOMAIN blocks
    BY <2>3 DEF HasAction
  <2> QED
    BY <1>1, <2>4
<1> QED
  BY <1>2, <1>3

-----------------------------------------------------------------------------
(* Type correctness of each group of actions.                              *)
LEMMA TypedInit ==
  ASSUME BarAssumption, Init
  PROVE  Typed /\ Clicking
<1>1. /\ events \in 0 .. MaxEvents /\ clicks \in 0 .. events
      /\ delivered \in Nat /\ acted \in Nat /\ others \in Int
  BY DEF BarAssumption, Init
<1>2. parsing \in [Threads -> Parsings]
  BY DEF BarAssumption, Init, Threads, Parsings, Steps, NotParsing, Versions
<1> QED
  BY <1>1, <1>2 DEF BarAssumption, Init, Typed, Clicking, ClickPC, NoAction, Buttons, Timed, Versions

(* A thread that goes on within parse(), or leaves it, is somewhere in it.  *)
LEMMA ParsingTyped ==
  ASSUME BarAssumption, parsing \in [Threads -> Parsings], NEW t \in Threads,
         (\E s \in Steps : Step(t, s)) \/ Leave(t)
  PROVE  parsing' \in [Threads -> Parsings]
<1>1. ASSUME NEW s \in Steps, Step(t, s)
      PROVE  parsing' \in [Threads -> Parsings]
  <2>1. parsing[t] \in Parsings
    OBVIOUS
  <2>2. [parsing[t] EXCEPT !.step = s] \in Parsings
    BY <2>1 DEF Parsings
  <2>3. parsing' = [parsing EXCEPT ![t] = [parsing[t] EXCEPT !.step = s]]
    BY <1>1 DEF Step
  <2> QED
    BY <2>2, <2>3
<1>2. CASE Leave(t)
  <2>1. NotParsing \in Parsings
    BY BarAssumption DEF NotParsing, Parsings, Steps, Versions
  <2> QED
    BY <1>2, <2>1 DEF Leave
<1> QED
  BY <1>1, <1>2

(* A step of parse() keeps the types.                                      *)
LEMMA TypedParse ==
  ASSUME BarAssumption, Typed, Clicking,
         NEW t \in {"main", "worker"}, Parse(t)
  PROVE  Typed' /\ Clicking'
<1>0. ASSUME (\E s \in Steps : Step(t, s)) \/ Leave(t)
      PROVE  parsing' \in [Threads -> Parsings]
  BY <1>0, ParsingTyped DEF Typed, Threads
<1> USE BarAssumption DEF Typed, Clicking, Threads, ParseOnly, area, click, queue, counts
<1>1. CASE TryLock(t)
  <2>1. parsing' \in [Threads -> Parsings]
    BY <1>0, <1>1 DEF TryLock, Steps
  <2>2. m_mutex' \in {"free", "main", "worker"} /\ dropped' \in BOOLEAN
    BY <1>1 DEF TryLock
  <2> QED
    BY <1>1, <2>1, <2>2 DEF TryLock
<1>2. CASE Decide(t)
  <2>1. parsing' \in [Threads -> Parsings]
    BY <1>0, <1>2 DEF Decide, Steps
  <2>2. m_mutex' \in {"free", "main", "worker"} /\ m_lastinput' \in Versions
    BY <1>2 DEF Decide, Parsings
  <2>3. UNCHANGED <<version, m_visible, drawn, blocks, m_dblclicks, mpc,
                    pending, dropped, click, queue, events, clicks, counts,
                    failed>>
    BY <1>2 DEF Decide
  <2> QED
    BY <2>1, <2>2, <2>3
<1>3. CASE Reset(t)
  <2>1. parsing' \in [Threads -> Parsings]
    BY <1>0, <1>3 DEF Reset, Steps
  <2>2. /\ blocks' = <<>>
        /\ UNCHANGED <<ParseOnly, pending, m_mutex, m_lastinput, drawn, m_dblclicks,
                       mpc, dropped>>
    BY <1>3 DEF Reset
  <2> QED
    BY <2>1, <2>2
<1>4. CASE Fill(t)
  <2>1. parsing' \in [Threads -> Parsings]
    BY <1>0, <1>4 DEF Fill, Steps
  <2>2. /\ blocks' \in {Layout[v] : v \in Versions}
        /\ UNCHANGED <<ParseOnly, pending, m_mutex, m_lastinput, drawn, m_dblclicks,
                       mpc, dropped>>
    BY <1>4 DEF Fill, Parsings
  <2> QED
    BY <2>1, <2>2
<1>5. CASE End(t)
  <2>1. parsing' \in [Threads -> Parsings]
    BY <1>0, <1>5 DEF End, Steps
  <2>2. drawn' \in Versions /\ m_dblclicks' \in BOOLEAN
    BY <1>5 DEF End, HasDouble, Parsings
  <2>3. m_mutex' \in {"free", "main", "worker"} /\ dropped' \in BOOLEAN
    BY <1>5 DEF End
  <2> QED
    BY <1>5, <2>1, <2>2, <2>3 DEF End
<1> QED
  BY <1>1, <1>2, <1>3, <1>4, <1>5 DEF Parse

(* So do the steps of the main thread,                                     *)
LEMMA TypedMain ==
  ASSUME BarAssumption, Typed, Clicking, Hide \/ Show \/ Motion \/ MainStep
  PROVE  Typed' /\ Clicking'
<1> USE BarAssumption DEF Typed, Clicking, Threads, Parsings, Steps, MainOnly,
        PressOnly, MainAt, Handles, NotParsing, ClickPC, area, click, queue,
        counts, history
<1>1. CASE Hide
  <2>1. events' \in 0 .. MaxEvents /\ clicks' \in 0 .. events'
    BY <1>1 DEF Hide
  <2> QED
    BY <1>1, <2>1 DEF Hide
<1>2. CASE Show
  BY <1>2 DEF Show
<1>3. CASE Motion
  BY <1>3 DEF Motion
<1>4. CASE Redraw
  BY <1>4 DEF Redraw
<1>5. CASE Dispatch
  BY <1>5 DEF Dispatch
<1>6. CASE CheckDouble
  <2>1. /\ mpc' \in {"add", "purge", "idle"} /\ m_doubleclick' \in BOOLEAN
        /\ m_mutex' \in {"free", "main", "worker"} /\ m_buttonpress_btn \in Timed
    BY <1>6 DEF CheckDouble
  <2>2. UNCHANGED <<PressOnly, m_buttonpress_btn, tasks, counts>>
    BY <1>6 DEF CheckDouble
  <2> QED
    BY <2>1, <2>2
<1>7. CASE Purge
  <2>1. Double[m_buttonpress_btn] \in Doubles
    BY <1>7 DEF Purge, Doubles
  <2> QED
    BY <1>7, <2>1 DEF Purge, Buttons, Waiting
<1>8. CASE Add
  <2>1. TaskOf(m_buttonpress_btn) \in Timed
    BY <1>8, TaskOfTimed DEF Add
  <2> QED
    BY <1>8, <2>1 DEF Add
<1>9. CASE DeliverNow
  BY <1>9 DEF DeliverNow, Act
<1> QED
  BY <1>1, <1>2, <1>3, <1>4, <1>5, <1>6, <1>7, <1>8, <1>9 DEF MainStep

(* a button press,                                                         *)
LEMMA TypedPress ==
  ASSUME BarAssumption, Typed, Clicking, NEW p \in Presses, Press(p)
  PROVE  Typed' /\ Clicking'
<1> USE BarAssumption DEF Typed, Clicking, Press, MainOnly, MainAt, Handles,
        ClickPC, Buttons, area, queue
<1>1. events' \in 0 .. MaxEvents /\ clicks' \in 0 .. events'
  OBVIOUS
<1>2. /\ m_buttonpress_btn' \in Buttons
      /\ m_buttonpress_pos' \in {q.pos : q \in Presses}
  OBVIOUS
<1>3. others' \in Int
  BY DEF Queued, Waiting, Running
<1> QED
  BY <1>1, <1>2, <1>3

(* the steps of the task queue thread,                                     *)
LEMMA TypedQueue ==
  ASSUME BarAssumption, Typed, Clicking, QueueStep
  PROVE  Typed' /\ Clicking'
<1> USE BarAssumption DEF Typed, Clicking, Threads, QueueOnly, NoAction, area,
        click, counts
<1>1. CASE Get
  BY <1>1 DEF Get
<1>2. ASSUME NEW b \in Timed, Collect(b) PROVE Typed' /\ Clicking'
  BY <1>2 DEF Collect
<1>3. ASSUME NEW b \in Timed, Forget(b) PROVE Typed' /\ Clicking'
  BY <1>3 DEF Forget
<1>4. ASSUME NEW b \in Timed, Find(b) PROVE Typed' /\ Clicking'
  BY <1>4, HasActionType DEF Find, Act
<1> QED
  BY <1>1, <1>2, <1>3, <1>4 DEF QueueStep

(* and therefore every step.                                               *)
LEMMA TypedNext ==
  ASSUME BarAssumption, Typed, Clicking, [Next]_vars
  PROVE  Typed' /\ Clicking'
<1>1. CASE Change
  <2>1. events' \in 0 .. MaxEvents /\ clicks' \in 0 .. events'
    BY <1>1 DEF Change, BarAssumption, Typed
  <2> QED
    BY <1>1, <2>1 DEF Change, Typed, Clicking, area, click, queue, counts
<1>2. CASE ProcessUpdate
  <2>1. parsing' \in [Threads -> Parsings]
    BY <1>2 DEF ProcessUpdate, Typed, Threads, Parsings, Steps
  <2>2. pending' \in {"none", "update", "forced"}
    BY <1>2 DEF ProcessUpdate
  <2>3. UNCHANGED <<ParseOnly, m_mutex, m_lastinput, drawn, area, mpc, dropped>>
    BY <1>2 DEF ProcessUpdate
  <2>4. Clicking'
    BY <2>3 DEF Clicking, ParseOnly, click
  <2> QED
    BY <2>1, <2>2, <2>3, <2>4 DEF Typed, ParseOnly, area, click, queue, counts
<1>3. CASE UNCHANGED vars
  BY <1>3 DEF vars, Typed, Clicking
<1> QED
  BY <1>1, <1>2, <1>3, TypedParse, TypedMain, TypedPress, TypedQueue DEF Next

-----------------------------------------------------------------------------
(* What a step of parse() does to the two threads.                         *)
LEMMA StepEffect ==
  ASSUME Typed, NEW t \in Threads, NEW s, Step(t, s)
  PROVE  /\ parsing'[t].step = s
         /\ parsing'[t].data = parsing[t].data
         /\ parsing'[t].force = parsing[t].force
         /\ \A u \in Threads \ {t} : parsing'[u] = parsing[u]
BY DEF Typed, Parsings, Step

(* What leaving parse() does to the two threads.                           *)
LEMMA LeaveEffect ==
  ASSUME Typed, NEW t \in Threads, Leave(t)
  PROVE  /\ parsing'[t] = NotParsing
         /\ \A u \in Threads \ {t} : parsing'[u] = parsing[u]
BY DEF Typed, Leave

(* The one fact about NotParsing that the proofs need.                     *)
LEMMA NotParsingStep == NotParsing.step = "no"
BY DEF NotParsing

(* A thread that draws, or is in a click, holds m_mutex; so only one does. *)
LEMMA OwnedParse ==
  ASSUME Typed, Owned, NEW t \in Threads, Parse(t)
  PROVE  Owned'
<1> USE NotParsingStep DEF Owned, Threads, Holding, ParseOnly, MainHolding,
        ClickPC
<1>1. CASE TryLock(t)
  <2>1. CASE m_mutex = "free"
    BY <1>1, <2>1, StepEffect DEF TryLock
  <2>2. CASE m_mutex # "free"
    BY <1>1, <2>2, LeaveEffect DEF TryLock
  <2> QED
    BY <2>1, <2>2
<1>2. CASE Decide(t)
  <2>1. CASE Ignored(t)
    BY <1>2, <2>1, LeaveEffect DEF Decide
  <2>2. CASE ~Ignored(t)
    BY <1>2, <2>2, StepEffect DEF Decide
  <2> QED
    BY <2>1, <2>2
<1>3. CASE Reset(t)
  BY <1>3, StepEffect DEF Reset
<1>4. CASE Fill(t)
  BY <1>4, StepEffect DEF Fill
<1>5. CASE End(t)
  BY <1>5, LeaveEffect DEF End
<1> QED
  BY <1>1, <1>2, <1>3, <1>4, <1>5 DEF Parse

(* Redraw and ProcessUpdate start a parse().                               *)
LEMMA StartEffect ==
  ASSUME Typed, Redraw \/ ProcessUpdate
  PROVE  \E t \in Threads :
           /\ t = "main" <=> Redraw
           /\ parsing[t] = NotParsing
           /\ parsing'[t].step = "lock"
           /\ t = "main" => parsing'[t].force
           /\ \A u \in Threads \ {t} : parsing'[u] = parsing[u]
<1>1. CASE Redraw
  BY <1>1 DEF Typed, Redraw, MainAt, Threads
<1>2. CASE ProcessUpdate /\ ~Redraw
  BY <1>2 DEF Typed, ProcessUpdate, Threads
<1> QED
  BY <1>1, <1>2

(* Every step keeps m_mutex with the thread in its critical part.          *)
LEMMA OwnedNext ==
  ASSUME Typed, Owned, [Next]_vars
  PROVE  Owned'
<1> USE NotParsingStep DEF Threads, Holding, MainHolding, ClickPC
<1>1. CASE Change
  BY <1>1 DEF Change, Owned
<1>2. CASE ProcessUpdate /\ ~Redraw
  <2>1. UNCHANGED <<m_mutex, mpc>>
    BY <1>2 DEF ProcessUpdate
  <2> QED
    BY <1>2, <2>1, StartEffect DEF Owned
<1>3. ASSUME NEW t \in Threads, Parse(t) PROVE Owned'
  BY <1>3, OwnedParse
<1>4. CASE Hide \/ Show \/ Motion
  BY <1>4 DEF Hide, Show, Motion, MainAt, Owned
<1>5. ASSUME NEW p \in Presses, Press(p) PROVE Owned'
  BY <1>5 DEF Press, MainAt, Owned
<1>6. CASE Redraw
  <2>1. UNCHANGED m_mutex /\ mpc = "show" /\ mpc' = "idle"
    BY <1>6 DEF Redraw, MainAt
  <2> QED
    BY <1>6, <2>1, StartEffect DEF Owned
<1>7. CASE Dispatch
  BY <1>7 DEF Dispatch, MainAt, PressOnly, Owned
<1>8. CASE CheckDouble
  BY <1>8 DEF CheckDouble, MainAt, PressOnly, Owned
<1>9. CASE Purge \/ Add \/ DeliverNow
  BY <1>9 DEF Purge, Add, DeliverNow, MainAt, PressOnly, Owned
<1>10. CASE QueueStep
  BY <1>10 DEF QueueStep, Get, Collect, Forget, Find, QueueOnly, Owned
<1>11. CASE UNCHANGED vars
  BY <1>11 DEF vars, Owned
<1> QED
  BY <1>1, <1>2, <1>3, <1>4, <1>5, <1>6, <1>7, <1>8, <1>9, <1>10, <1>11
  DEF Next, MainStep

(* Two threads are never both between taking and giving back m_mutex.      *)
LEMMA OneDraws ==
  ASSUME Owned, NEW t \in Threads, NEW u \in Threads,
         parsing[t].step \in Holding, parsing[u].step \in Holding
  PROVE  t = u
BY DEF Owned

-----------------------------------------------------------------------------
(* The areas: other actions than parse() leave alone what they depend on.  *)
LEMMA AreasUntouched ==
  ASSUME Typed, Owned, AreasInv, Redraw \/ ProcessUpdate,
         UNCHANGED <<blocks, drawn>>
  PROVE  AreasInv'
<1>1. PICK t \in Threads :
        /\ parsing[t] = NotParsing
        /\ parsing'[t].step = "lock"
        /\ \A u \in Threads \ {t} : parsing'[u] = parsing[u]
  BY StartEffect
<1>2. \A u \in Threads : parsing'[u].step \in {"fill", "end"} =>
        parsing'[u] = parsing[u]
  BY <1>1
<1>3. \A u \in Threads : parsing[u].step \in {"fill", "end"} =>
        parsing'[u] = parsing[u]
  BY <1>1, NotParsingStep
<1> QED
  BY <1>2, <1>3 DEF AreasInv, Replacing

(* parse() replaces them under m_mutex, and draws what it filled in.       *)
LEMMA AreasParse ==
  ASSUME Typed, Owned, AreasInv, NEW t \in Threads, Parse(t)
  PROVE  AreasInv'
<1> USE NotParsingStep DEF AreasInv, Replacing, Threads, Holding
<1>1. CASE TryLock(t)
  <2>1. UNCHANGED <<blocks, drawn>>
    BY <1>1 DEF TryLock, area
  <2>2. parsing'[t].step \in {"decide", "no"}
    BY <1>1, StepEffect, LeaveEffect DEF TryLock
  <2>3. \A u \in Threads \ {t} : parsing'[u] = parsing[u]
    BY <1>1, StepEffect, LeaveEffect DEF TryLock
  <2>4. parsing[t].step = "lock"
    BY <1>1 DEF TryLock
  <2> QED
    BY <2>1, <2>2, <2>3, <2>4
<1>2. CASE Decide(t)
  <2>1. UNCHANGED <<blocks, drawn>>
    BY <1>2 DEF Decide, area
  <2>2. parsing'[t].step \in {"reset", "no"}
    BY <1>2, StepEffect, LeaveEffect DEF Decide
  <2>3. \A u \in Threads \ {t} : parsing'[u] = parsing[u]
    BY <1>2, StepEffect, LeaveEffect DEF Decide
  <2>4. parsing[t].step = "decide"
    BY <1>2 DEF Decide
  <2> QED
    BY <2>1, <2>2, <2>3, <2>4
<1>3. CASE Reset(t)
  <2>1. \A u \in Threads : parsing'[u].step # "end"
    BY <1>3, StepEffect, OneDraws DEF Reset
  <2> QED
    BY <1>3, <2>1, StepEffect DEF Reset
<1>4. CASE Fill(t)
  <2>1. \A u \in Threads \ {t} : parsing'[u].step # "end"
    BY <1>4, StepEffect, OneDraws DEF Fill
  <2>2. parsing'[t].step = "end" /\ blocks' = Layout[parsing'[t].data]
    BY <1>4, StepEffect DEF Fill
  <2> QED
    BY <2>1, <2>2
<1>5. CASE End(t)
  <2>1. \A u \in Threads : parsing'[u].step # "end"
    BY <1>5, LeaveEffect, OneDraws DEF End
  <2> QED
    BY <1>5, <2>1, LeaveEffect DEF End
<1> QED
  BY <1>1, <1>2, <1>3, <1>4, <1>5 DEF Parse

(* Every step keeps the areas those of the window.                         *)
LEMMA AreasNext ==
  ASSUME Typed, Owned, AreasInv, [Next]_vars
  PROVE  AreasInv'
<1>1. CASE Redraw \/ ProcessUpdate
  BY <1>1, AreasUntouched DEF Redraw, ProcessUpdate, MainOnly, area
<1>2. ASSUME NEW t \in Threads, Parse(t) PROVE AreasInv'
  BY <1>2, AreasParse
<1>3. CASE UNCHANGED <<parsing, blocks, drawn>>
  BY <1>3 DEF AreasInv, Replacing
<1>4. CASE Change \/ Hide \/ Show \/ Motion \/ UNCHANGED vars
  BY <1>3, <1>4 DEF Change, Hide, Show, Motion, MainOnly, area, vars
<1>5. ASSUME NEW p \in Presses, Press(p) PROVE AreasInv'
  BY <1>3, <1>5 DEF Press, MainOnly, area
<1>6. CASE Dispatch \/ CheckDouble \/ Purge \/ Add \/ DeliverNow
  BY <1>3, <1>6 DEF Dispatch, CheckDouble, Purge, Add, DeliverNow, PressOnly,
     MainOnly, area
<1>7. CASE QueueStep
  BY <1>3, <1>7 DEF QueueStep, Get, Collect, Forget, Find, QueueOnly, area
<1> QED
  BY <1>1, <1>2, <1>4, <1>5, <1>6, <1>7 DEF Next, MainStep, Threads

-----------------------------------------------------------------------------
(* What is in the window.  Only Decide and End change what ShownInv        *)
(* compares, and End puts into the window what Decide took as m_lastinput. *)
LEMMA ShownParse ==
  ASSUME Typed, Owned, ShownInv, NEW t \in Threads, Parse(t)
  PROVE  ShownInv'
<1> USE NotParsingStep DEF ShownInv, Redrawing, Threads, Holding, Drawing,
        ParseOnly
<1>1. CASE TryLock(t)
  <2>1. UNCHANGED <<m_visible, m_lastinput, drawn, mpc>>
    BY <1>1 DEF TryLock
  <2>2. \A u \in Threads \ {t} : parsing'[u] = parsing[u]
    BY <1>1, StepEffect, LeaveEffect DEF TryLock
  <2>3. parsing'[t].step \notin Drawing /\ parsing[t].step \notin Drawing
    BY <1>1, StepEffect, LeaveEffect DEF TryLock
  <2>4. CASE t = "main"
    <3>1. parsing["main"].step # "no"
      BY <1>1, <2>4 DEF TryLock
    <3>2. dropped' \/ parsing'["main"].step # "no"
      BY <1>1, <2>4, StepEffect DEF TryLock
    <3> QED
      BY <2>1, <2>2, <2>3, <3>1, <3>2
  <2>5. CASE t = "worker"
    <3>1. dropped' = dropped
      BY <1>1, <2>5 DEF TryLock, Typed
    <3> QED
      BY <2>1, <2>2, <2>3, <2>5, <3>1
  <2> QED
    BY <2>4, <2>5
<1>2. CASE Decide(t)
  <2>1. UNCHANGED <<m_visible, drawn, mpc, dropped>>
    BY <1>2 DEF Decide
  <2>2. /\ parsing[t].step = "decide" /\ m_lastinput' = parsing[t].data
        /\ \A u \in Threads \ {t} : parsing[u].step \notin Holding
    BY <1>2, OneDraws DEF Decide
  <2>3. CASE Ignored(t)
    <3>1. t = "worker"
      BY <1>2, <2>3 DEF Ignored, Owned, Decide
    <3>2. ~m_visible \/ m_lastinput' = m_lastinput
      BY <2>2, <2>3 DEF Ignored
    <3>3. parsing'["worker"].step = "no" /\ parsing'["main"] = parsing["main"]
      BY <1>2, <2>3, <3>1, LeaveEffect DEF Decide
    <3> QED
      BY <2>1, <2>2, <3>1, <3>2, <3>3
  <2>4. CASE ~Ignored(t)
    BY <1>2, <2>1, <2>2, <2>4, StepEffect DEF Decide
  <2> QED
    BY <2>3, <2>4
<1>3. CASE Reset(t)
  BY <1>3, StepEffect DEF Reset
<1>4. CASE Fill(t)
  BY <1>4, StepEffect DEF Fill
<1>5. CASE End(t)
  <2>1. drawn' = m_lastinput /\ m_lastinput' = m_lastinput
    BY <1>5 DEF End
  <2>2. \A u \in Threads : parsing'[u].step \notin Drawing
    BY <1>5, LeaveEffect, OneDraws DEF End
  <2> QED
    BY <2>1, <2>2
<1> QED
  BY <1>1, <1>2, <1>3, <1>4, <1>5 DEF Parse

(* Every step keeps the window that of m_lastinput.                        *)
LEMMA ShownNext ==
  ASSUME Typed, Owned, ShownInv, [Next]_vars
  PROVE  ShownInv'
<1> USE DEF ShownInv, Redrawing, Threads, Drawing, MainAt
<1>1. CASE Redraw \/ ProcessUpdate
  <2>1. PICK t \in Threads :
          /\ t = "main" <=> Redraw
          /\ parsing[t] = NotParsing
          /\ parsing'[t].step = "lock"
          /\ \A u \in Threads \ {t} : parsing'[u] = parsing[u]
    BY <1>1, StartEffect
  <2>2. UNCHANGED <<m_visible, m_lastinput, drawn, dropped>>
    BY <1>1 DEF Redraw, ProcessUpdate, MainOnly, ParseOnly, history
  <2>3. ~Redraw => mpc' = mpc
    BY <1>1 DEF ProcessUpdate
  <2> QED
    BY <2>1, <2>2, <2>3, NotParsingStep
<1>2. ASSUME NEW t \in Threads, Parse(t) PROVE ShownInv'
  BY <1>2, ShownParse
<1>3. CASE /\ UNCHANGED <<parsing, m_lastinput, drawn, dropped>>
           /\ m_visible' => m_visible \/ mpc' = "show"
           /\ mpc = "show" => mpc' = "show"
  BY <1>3
<1>4. CASE Change \/ Hide \/ Show \/ Motion \/ UNCHANGED vars
  BY <1>3, <1>4 DEF Change, Hide, Show, Motion, MainOnly, area, vars
<1>5. ASSUME NEW p \in Presses, Press(p) PROVE ShownInv'
  BY <1>3, <1>5 DEF Press, MainOnly, area
<1>6. CASE Dispatch \/ CheckDouble \/ Purge \/ Add \/ DeliverNow
  BY <1>3, <1>6 DEF Dispatch, CheckDouble, Purge, Add, DeliverNow, PressOnly,
     MainOnly, area
<1>7. CASE QueueStep
  BY <1>3, <1>7 DEF QueueStep, Get, Collect, Forget, Find, QueueOnly, area
<1> QED
  BY <1>1, <1>2, <1>4, <1>5, <1>6, <1>7 DEF Next, MainStep, Threads

-----------------------------------------------------------------------------
(* An accepted click is delivered, or is in one place at most: with the    *)
(* main thread, in a waiting task or in a running one.  Those of the       *)
(* clicks before the last one were counted when it came, so that what runs *)
(* its action is its own call or one of them.                              *)
AtHand == IF mpc \in ClickPC THEN 1 ELSE 0

Balance ==
  /\ delivered + Queued + AtHand + Running <= clicks
  /\ acted + Queued + AtHand + Running <= 1 + others
  /\ others \in 0 .. 4
  /\ \A a, b \in running : a = b

(* The summands are numbers, before a step                                 *)
LEMMA CountsType ==
  ASSUME Typed
  PROVE  /\ Queued \in 0 .. 3 /\ AtHand \in {0, 1} /\ Running \in {0, 1}
         /\ delivered \in Nat /\ clicks \in Nat /\ acted \in Nat /\ others \in Int
BY DEF Queued, Waiting, AtHand, Running, Typed

(* and after it.                                                           *)
LEMMA CountsTypeAfter ==
  ASSUME Typed'
  PROVE  /\ Queued' \in 0 .. 3 /\ AtHand' \in {0, 1} /\ Running' \in {0, 1}
         /\ delivered' \in Nat /\ clicks' \in Nat /\ acted' \in Nat /\ others' \in Int
BY DEF Queued, Waiting, AtHand, Running, Typed

(* The arithmetic of Balances: the sum does not grow when what a step adds *)
(* it takes away elsewhere.                                                *)
LEMMA Sums ==
  ASSUME NEW c \in Int, NEW dq \in Int, NEW dh \in Int,
         NEW q \in Int, NEW h \in Int, NEW d \in Int, NEW r \in Int,
         d + q + h + r <= c,
         NEW qq \in Int, NEW hh \in Int, NEW dd \in Int, NEW rr \in Int,
         NEW run \in Int, qq <= q + dq, hh = h + dh, dd = d + run,
         run + rr + dq + dh <= r
  PROVE  dd + qq + hh + rr <= c
OBVIOUS

(* A step balances when what it adds it takes away elsewhere; run is the   *)
(* number of actions it runs.                                              *)
LEMMA Balances ==
  ASSUME Typed, Typed', Balance,
         NEW dq \in Int, Queued' <= Queued + dq,
         NEW dh \in Int, AtHand' = AtHand + dh,
         NEW run \in Int, delivered' = delivered + run, acted' = acted + run,
         run + Running' + dq + dh <= Running,
         clicks' = clicks, others' = others, \A a, b \in running' : a = b
  PROVE  Balance'
<1>1. /\ Queued \in Int /\ AtHand \in Int /\ Running \in Int
      /\ delivered \in Int /\ clicks \in Int /\ acted \in Int /\ 1 + others \in Int
  BY CountsType
<1>2. /\ Queued' \in Int /\ AtHand' \in Int /\ Running' \in Int
      /\ delivered' \in Int /\ acted' \in Int
  BY CountsTypeAfter
<1>3. /\ delivered + Queued + AtHand + Running <= clicks
      /\ acted + Queued + AtHand + Running <= 1 + others
  BY DEF Balance
<1>4. delivered' + Queued' + AtHand' + Running' <= clicks
  BY <1>1, <1>2, <1>3, Sums
<1>6. others' \in 0 .. 4
  BY DEF Balance
<1>5. acted' + Queued' + AtHand' + Running' <= 1 + others
  BY <1>1, <1>2, <1>3, Sums
<1> QED
  BY <1>4, <1>5, <1>6 DEF Balance

(* Running an action, or finding none.                                     *)
LEMMA ActEffect ==
  ASSUME Typed, Act
  PROVE  /\ \E run \in {0, 1} : delivered' = delivered + run /\ acted' = acted + run
         /\ others' = others
<1>1. delivered \in Nat /\ acted \in Nat
  BY DEF Typed
<1>2. \/ delivered' = delivered + 1 /\ acted' = acted + 1 /\ others' = others
      \/ delivered' = delivered /\ acted' = acted /\ others' = others
  BY DEF Act, counts
<1>3. delivered + 0 = delivered /\ acted + 0 = acted
  BY <1>1
<1> QED
  BY <1>2, <1>3

(* What a change of one task does to their number.                         *)
LEMMA QueuedEffect ==
  ASSUME Typed, NEW b \in Timed, NEW s \in {"none", "waiting", "spent"},
         tasks' = [tasks EXCEPT ![b] = s]
  PROVE  /\ Queued' <= Queued + 1
         /\ s # "waiting" => Queued' <= Queued + 0
         /\ s # "waiting" /\ tasks[b] = "waiting" => Queued' <= Queued + (-1)
         /\ s # "waiting" => Queued' <= Queued - Waiting(b)
         /\ Waiting(b) <= Queued
BY DEF Typed, Timed, Queued, Waiting

(* Without a change of a task their number stays the same.                 *)
LEMMA QueuedSame ==
  ASSUME Typed, UNCHANGED tasks
  PROVE  Queued' <= Queued + 0
BY DEF Typed, Timed, Queued, Waiting

(* A click moves through the main thread,                                  *)
LEMMA BalanceMain ==
  ASSUME Typed, Typed', Clicking, Balance,
         Dispatch \/ CheckDouble \/ Purge \/ Add \/ DeliverNow
  PROVE  Balance'
<1> USE DEF PressOnly, MainAt, counts
<1>1. UNCHANGED <<running, action, clicks>>
  BY DEF Dispatch, CheckDouble, Purge, Add, DeliverNow
<1>2. Running' = Running /\ \A a, b \in running' : a = b
  BY <1>1 DEF Running, Balance
<1>3. CASE Dispatch \/ CheckDouble
  <2>1. UNCHANGED tasks /\ UNCHANGED <<delivered, acted, others>>
    BY <1>3 DEF Dispatch, CheckDouble
  <2>2. AtHand' = AtHand + 0 \/ AtHand' = AtHand + (-1)
    BY <1>3 DEF Dispatch, CheckDouble, AtHand, ClickPC
  <2>3. delivered' = delivered + 0 /\ acted' = acted + 0
    BY <2>1, CountsType
  <2>4. Queued' <= Queued + 0
    BY <2>1, QueuedSame
  <2> QED
    BY <1>1, <1>2, <2>1, <2>2, <2>3, <2>4, Balances, CountsType
<1>4. CASE Purge
  <2>1. /\ AtHand' = AtHand /\ UNCHANGED <<delivered, acted>>
        /\ others' = others - Waiting(m_buttonpress_btn) /\ AtHand = 1
    BY <1>4 DEF Purge, AtHand, ClickPC
  <2>2. Queued' <= Queued - Waiting(m_buttonpress_btn) /\ Waiting(m_buttonpress_btn) <= Queued
    <3>1. /\ tasks' = [tasks EXCEPT ![m_buttonpress_btn] = "none"]
          /\ m_buttonpress_btn \in Timed
      BY <1>4 DEF Purge, Clicking
    <3> QED
      BY <3>1, QueuedEffect
  <2>3. Waiting(m_buttonpress_btn) \in {0, 1}
    BY DEF Waiting
  <2>4. Queued' \in 0 .. 3
    BY CountsTypeAfter
  <2>5. others' \in 0 .. 4
    BY <2>1, <2>2, <2>3, CountsType DEF Balance
  <2> QED
    BY <1>1, <1>2, <2>1, <2>2, <2>3, <2>4, <2>5, CountsType DEF Balance
<1>5. CASE Add
  <2>1. AtHand' = AtHand + (-1) /\ UNCHANGED <<delivered, acted, others>>
    BY <1>5 DEF Add, AtHand, ClickPC
  <2>2. Queued' <= Queued + 1
    BY <1>5, QueuedEffect, TaskOfTimed DEF Add, Clicking
  <2>3. delivered' = delivered + 0 /\ acted' = acted + 0
    BY <2>1, CountsType
  <2> QED
    BY <1>1, <1>2, <2>1, <2>2, <2>3, Balances, CountsType
<1>6. CASE DeliverNow
  <2>1. AtHand' = AtHand + (-1)
    BY <1>6 DEF DeliverNow, AtHand, ClickPC
  <2>2. Queued' <= Queued + 0
    BY <1>6, QueuedSame DEF DeliverNow
  <2>3. /\ others' = others
        /\ \E run \in {0, 1} : delivered' = delivered + run /\ acted' = acted + run
    BY <1>6, ActEffect DEF DeliverNow
  <2> QED
    BY <1>1, <1>2, <2>1, <2>2, <2>3, Balances, CountsType
<1> QED
  BY <1>3, <1>4, <1>5, <1>6

(* through the task queue and the callback,                                *)
LEMMA BalanceQueue ==
  ASSUME Typed, Typed', Balance, QueueStep
  PROVE  Balance'
<1> USE DEF QueueOnly, counts
<1>1. AtHand' = AtHand + 0 /\ clicks' = clicks
  BY CountsType DEF QueueStep, Get, Collect, Forget, Find, AtHand
<1>0. UNCHANGED <<delivered, acted>> => delivered' = delivered + 0 /\ acted' = acted + 0
  BY CountsType
<1>2. CASE Get
  <2>1. /\ Running' = Running /\ UNCHANGED <<delivered, acted, others>>
        /\ \A a, b \in running' : a = b
    BY <1>2 DEF Get, Running, Balance
  <2>2. Queued' <= Queued + 0
    BY <1>2, QueuedSame DEF Get
  <2> QED
    BY <1>0, <1>1, <2>1, <2>2, Balances, CountsType
<1>3. ASSUME NEW b \in Timed, Collect(b) PROVE Balance'
  <2>1. /\ Running = 0 /\ Running' = 1 /\ UNCHANGED <<delivered, acted, others>>
        /\ \A a, c \in running' : a = c
    BY <1>3 DEF Collect, Running
  <2>2. Queued' <= Queued + (-1)
    <3>1. /\ tasks' = [tasks EXCEPT ![b] = "spent"]
          /\ tasks[b] = "waiting"
      BY <1>3 DEF Collect
    <3> QED
      BY <3>1, QueuedEffect
  <2> QED
    BY <1>0, <1>1, <2>1, <2>2, Balances, CountsType
<1>4. ASSUME NEW b \in Timed, Forget(b) PROVE Balance'
  <2>1. /\ Running' = Running /\ UNCHANGED <<delivered, acted, others>>
        /\ \A a, c \in running' : a = c
    BY <1>4 DEF Forget, Running, Balance
  <2>2. Queued' <= Queued + 0
    <3>1. tasks' = [tasks EXCEPT ![b] = "none"]
      BY <1>4 DEF Forget
    <3> QED
      BY <3>1, QueuedEffect
  <2> QED
    BY <1>0, <1>1, <2>1, <2>2, Balances, CountsType
<1>5. ASSUME NEW b \in Timed, Find(b) PROVE Balance'
  <2>1. Running = 1 /\ Running' = 0 /\ \A a, c \in running' : a = c
    BY <1>5 DEF Find, Running, Balance
  <2>2. /\ others' = others
        /\ \E run \in {0, 1} : delivered' = delivered + run /\ acted' = acted + run
    BY <1>5, ActEffect DEF Find
  <2>3. Queued' <= Queued + 0
    BY <1>5, QueuedSame DEF Find
  <2> QED
    BY <1>1, <2>1, <2>2, <2>3, Balances, CountsType
<1> QED
  BY <1>2, <1>3, <1>4, <1>5 DEF QueueStep

(* and is counted once when it is accepted, with those it came after.      *)
LEMMA BalanceNext ==
  ASSUME Typed, Typed', Clicking, Balance, [Next]_vars
  PROVE  Balance'
<1>1. ASSUME NEW p \in Presses, Press(p) PROVE Balance'
  <2>1. /\ AtHand = 0 /\ AtHand' = 1 /\ clicks' = clicks + 1
        /\ UNCHANGED <<tasks, running, action, delivered>>
        /\ acted' = 0 /\ others' = Queued + Running
    BY <1>1 DEF Press, MainAt, AtHand, ClickPC, queue
  <2>2. Queued' = Queued /\ Running' = Running
    BY <2>1 DEF Queued, Waiting, Running
  <2> QED
    BY <2>1, <2>2, CountsType DEF Balance
<1>2. CASE /\ UNCHANGED <<delivered, acted, others, tasks, running, action, clicks>>
           /\ AtHand' = AtHand
  <2>1. /\ Queued' <= Queued + 0 /\ Running' = Running
        /\ \A a, b \in running' : a = b
    BY <1>2, QueuedSame DEF Running, Balance
  <2>2. AtHand' = AtHand + 0 /\ delivered' = delivered + 0 /\ acted' = acted + 0
    BY <1>2, CountsType
  <2> QED
    BY <1>2, <2>1, <2>2, Balances, CountsType
<1>3. CASE Change \/ ProcessUpdate \/ Hide \/ UNCHANGED vars
  BY <1>2, <1>3 DEF Change, ProcessUpdate, Hide, ParseOnly, queue, counts, vars, AtHand
<1>4. CASE Show \/ Motion \/ Redraw
  BY <1>2, <1>4 DEF Show, Motion, Redraw, MainAt, queue, history, counts, AtHand,
     ClickPC
<1>5. ASSUME NEW t \in Threads, Parse(t) PROVE Balance'
  BY <1>2, <1>5 DEF Parse, TryLock, Decide, Reset, Fill, End, ParseOnly, queue,
     counts, AtHand
<1> QED
  BY <1>1, <1>3, <1>4, <1>5, BalanceMain, BalanceQueue
  DEF Next, MainStep, Threads

-----------------------------------------------------------------------------
(* The inductive invariant: its parts use those before them.               *)
Inv == Typed /\ Clicking /\ Owned /\ AreasInv /\ ShownInv /\ Balance

(* It holds initially and every step of the specification keeps it.        *)
THEOREM Inductive == Spec => []Inv
<1>1. Init => Inv
  <2> SUFFICES ASSUME Init PROVE Inv
    OBVIOUS
  <2>1. Typed /\ Clicking
    BY TypedInit, BarAssumption
  <2>2. Owned /\ AreasInv /\ ShownInv
    BY BarAssumption DEF Init, Owned, AreasInv, ShownInv, Replacing, Redrawing,
       NotParsing, Threads, Holding, Drawing, MainHolding, ClickPC
  <2>3. Balance
    BY DEF Init, Balance, Queued, Waiting, AtHand, Running, ClickPC, Timed
  <2> QED
    BY <2>1, <2>2, <2>3 DEF Inv
<1>2. Inv /\ [Next]_vars => Inv'
  BY TypedNext, OwnedNext, AreasNext, ShownNext, BalanceNext, BarAssumption
  DEF Inv
<1> QED
  BY <1>1, <1>2, PTL DEF Spec

(* Type correctness; the bounds of the counters need Balance: there are no *)
(* more actions than clicks, and of no more than one task for each button. *)
THEOREM TypeCorrect == Spec => []TypeOK
<1>1. Inv => TypeOK
  <2> SUFFICES ASSUME Inv PROVE TypeOK
    OBVIOUS
  <2>1. delivered \in 0 .. MaxEvents /\ acted \in 0 .. 5 /\ others \in 0 .. 4
    <3>1. /\ events \in 0 .. MaxEvents /\ clicks \in 0 .. events /\ others \in 0 .. 4
          /\ delivered + Queued + AtHand + Running <= clicks
          /\ acted + Queued + AtHand + Running <= 1 + others
      BY DEF Inv, Typed, Balance
    <3>2. Queued \in Nat /\ AtHand \in Nat /\ Running \in Nat /\ delivered \in Nat /\ acted \in Nat
      BY CountsType DEF Inv
    <3> QED
      BY <3>1, <3>2, BarAssumption DEF BarAssumption
  <2> QED
    BY <2>1 DEF Inv, Typed, TypeOK, Threads, Parsings, Steps, ClickPC
<1> QED
  BY <1>1, Inductive, PTL

(* Whenever nobody holds m_mutex the areas that parse() filled in belong   *)
(* to the text in the window, for any layouts and any number of events.    *)
THEOREM AreasCorrect == Spec => []AreasMatchWindow
<1>1. Inv => AreasMatchWindow
  BY DEF Inv, AreasMatchWindow, AreasInv, Owned, Replacing, Threads, Holding
<1> QED
  BY <1>1, Inductive, PTL

(* A visible bar shows m_lastinput, unless the redraw of show() was given  *)
(* up: parse() never takes for drawn what is not in the window.            *)
THEOREM WindowCorrect == Spec => []WindowShowsLastInput
<1>1. Inv => WindowShowsLastInput
  BY NotParsingStep DEF Inv, WindowShowsLastInput, ShownInv, Owned, Redrawing,
     Threads, Holding, Drawing
<1> QED
  BY <1>1, Inductive, PTL

(* The action of a click runs once, and once more only for each click that *)
(* was still delayed when it came, and there are no more actions than      *)
(* clicks, whichever buttons are clicked and however the queue's thread    *)
(* interleaves with check_double().                                        *)
THEOREM ClicksCorrect == Spec => []ClicksNotMultiplied
<1>1. Inv => ClicksNotMultiplied
  BY CountsType DEF Inv, Balance, ClicksNotMultiplied
<1> QED
  BY <1>1, Inductive, PTL
=============================================================================
