------------------------------ MODULE Battery ------------------------------
(***************************************************************************)
(* The battery module (modules/battery.cpp).  Files of sysfs do not tell   *)
(* of their changes: the module watches who reads them (IN_ACCESS), and    *)
(* reads one itself once in a while so that it wakes up.  While it handles *)
(* an event its watches are off, or its own reads would be the next one.   *)
(*                                                                         *)
(* The battery (external) has a charge of 0 .. Full; adapter: it is        *)
(* plugged.  The runner reads one file after the other.                    *)
(***************************************************************************)
EXTENDS Integers, FiniteSets

CONSTANTS Configs,  \* [fullat, lowat, interval, low]
          Full,     \* charge_full
          MaxOps    \* bound on what happens to the battery

SKIP_N_UNCHANGED == 3

VARIABLES
  conf,
  charge, adapter,
  runner,    \* "attach", "wait", "state", "adapter", "percentage", "idle", "sleep"
  first,     \* on_event(nullptr), before the loop
  watching, events,  \* files with watches; who has read a watched file
  due,       \* poll-interval is over since m_lastpoll
  read,      \* what on_event() has read so far
  m_state, m_percentage, m_unchanged, shown,
  calm, quiet, cause, ops  \* history: no change since on_event() began to
                           \* read; events without a broadcast; who woke it

vars == <<conf, charge, adapter, runner, first, watching, events, due, read, m_state,
          m_percentage, m_unchanged, shown, calm, quiet, cause, ops>>
battery == <<charge, adapter>>
Nothing == [charge |-> 0, online |-> FALSE]
values == <<m_state, m_percentage, m_unchanged>>

(* percentage(charge_now, 0, charge_full), rounded.                        *)
Percentage(now) == (200 * now + Full) \div (2 * Full)
FullAt == IF conf.fullat > 100 THEN 100 ELSE conf.fullat
LowAt == IF conf.lowat < 0 THEN 0 ELSE conf.lowat

(* current_state(), of a percentage and the adapter.                       *)
State(percentage, online) ==
  IF percentage >= FullAt THEN "FULL"
  ELSE IF online THEN "CHARGING"
  ELSE IF percentage <= LowAt THEN "LOW" ELSE "DISCHARGING"

ClampPercentage(percentage, state) ==
  IF state = "FULL" /\ percentage >= FullAt THEN 100 ELSE percentage

(* get_format(); format-low is optional.                                   *)
Format(state) ==
  CASE state = "FULL" -> "full"
    [] state = "LOW" -> IF conf.low THEN "low" ELSE "discharging"
    [] state = "DISCHARGING" -> "discharging"
    [] OTHER -> "charging"

(* The seconds until the battery is full or empty, of unsigned numbers;    *)
(* rate and volt in units that divide.                                     *)
Remaining(rate, volt, now, max, online) ==
  LET cap == IF online THEN max - now ELSE now
      remaining == cap \div volt
      current_rate == rate \div volt
  IN IF rate = 0 \/ volt = 0 \/ cap = 0 THEN 0
     ELSE IF remaining = 0 \/ current_rate = 0 THEN 0 ELSE (3600 * remaining) \div current_rate

States == {"FULL", "LOW", "DISCHARGING", "CHARGING"}
TypeOK ==
  /\ conf \in Configs /\ charge \in 0 .. Full /\ adapter \in BOOLEAN
  /\ runner \in {"attach", "wait", "state", "adapter", "percentage", "idle", "sleep"}
  /\ {first, watching, due, calm} \subseteq BOOLEAN /\ events \subseteq {"own", "other"}
  /\ m_state \in States /\ m_percentage \in 0 .. 100 /\ m_unchanged \in 0 .. SKIP_N_UNCHANGED

(* The constructor reads the state once; the runner warms up.              *)
Init ==
  /\ conf \in Configs /\ charge \in 0 .. Full /\ adapter \in BOOLEAN
  /\ runner = "state" /\ first = TRUE /\ watching = FALSE /\ events = {} /\ due = FALSE
  /\ read = Nothing
  /\ m_percentage = Percentage(charge) /\ m_state = State(m_percentage, adapter)
  /\ m_unchanged = SKIP_N_UNCHANGED /\ shown = [format |-> "none", percentage |-> 0]
  /\ calm = TRUE /\ quiet = 0 /\ cause = {} /\ ops = 0

-----------------------------------------------------------------------------
(* A read of a watched file is an event for the watch.                     *)
Touch(who) == events' = IF watching THEN events \cup {who} ELSE events

Attach ==
  /\ runner = "attach" /\ runner' = "wait" /\ watching' = TRUE /\ events' = {}
  /\ UNCHANGED <<conf, battery, first, due, read, values, shown, calm, quiet, cause, ops>>

(* poll(): an event of either file ends all watches; else idle().          *)
Wait ==
  /\ runner = "wait"
  /\ IF events # {} THEN runner' = "state" /\ watching' = FALSE /\ events' = {} /\ cause' = events
     ELSE runner' = "idle" /\ UNCHANGED <<watching, events, cause>>
  /\ UNCHANGED <<conf, battery, first, due, read, values, shown, calm, quiet, ops>>

(* on_event(): current_state() reads the charge, then the adapter if it is *)
(* not full; current_percentage() reads the charge again.                  *)
ReadCharge ==
  /\ runner = "state" /\ Touch("own") /\ calm' = TRUE
  /\ read' = [read EXCEPT !.charge = Percentage(charge)]
  /\ runner' = IF read'.charge >= FullAt THEN "percentage" ELSE "adapter"
  /\ UNCHANGED <<conf, battery, first, watching, due, values, shown, quiet, cause, ops>>

ReadAdapter ==
  /\ runner = "adapter" /\ runner' = "percentage" /\ Touch("own")
  /\ read' = [read EXCEPT !.online = adapter]
  /\ UNCHANGED <<conf, battery, first, watching, due, values, shown, calm, quiet, cause, ops>>

Broadcast ==
  shown' = [format |-> Format(m_state'), percentage |-> ClampPercentage(m_percentage', m_state')]

(* Events without a change are skipped, three in a row.                    *)
Skips(state, percentage) ==
  ~first /\ state = m_state /\ percentage = m_percentage /\ m_unchanged # 0

OnEvent ==
  /\ runner = "percentage" /\ Touch("own") /\ due' = FALSE
  /\ LET state == State(read.charge, read.online)
         percentage == Percentage(charge)
     IN IF Skips(state, percentage)
        THEN /\ m_unchanged' = m_unchanged - 1 /\ quiet' = quiet + 1
             /\ UNCHANGED <<m_state, m_percentage, shown>>
        ELSE /\ m_unchanged' = SKIP_N_UNCHANGED /\ quiet' = 0
             /\ m_state' = state /\ m_percentage' = percentage /\ Broadcast
  /\ first' = FALSE /\ runner' = IF first THEN "attach" ELSE "idle"
  /\ read' = Nothing /\ cause' = {}
  /\ UNCHANGED <<conf, battery, watching, calm, ops>>

(* idle(): after an event, and between two polls of the watches.           *)
Idle ==
  /\ runner = "idle" /\ runner' = "sleep"
  /\ IF conf.interval /\ due THEN due' = FALSE /\ Touch("own") ELSE UNCHANGED <<due, events>>
  /\ UNCHANGED <<conf, battery, first, watching, read, values, shown, calm, quiet, cause, ops>>
Awake ==
  /\ runner = "sleep" /\ runner' = IF watching THEN "wait" ELSE "attach"
  /\ UNCHANGED <<conf, battery, first, watching, events, due, read, values, shown, calm, quiet, cause, ops>>

-----------------------------------------------------------------------------
Elapse ==
  /\ ~due /\ due' = TRUE
  /\ UNCHANGED <<conf, battery, runner, first, watching, events, read, values, shown, calm, quiet, cause, ops>>
Battery ==
  /\ ops < MaxOps /\ ops' = ops + 1 /\ calm' = FALSE
  /\ \/ \E n \in {charge - 1, charge + 1} \cap 0 .. Full : charge' = n /\ UNCHANGED adapter
     \/ adapter' = ~adapter /\ UNCHANGED charge
  /\ UNCHANGED <<conf, runner, first, watching, events, due, read, values, shown, quiet, cause>>
Other ==
  /\ watching /\ "other" \notin events /\ Touch("other")
  /\ UNCHANGED <<conf, battery, runner, first, watching, due, read, values, shown, calm, quiet, cause, ops>>

RunnerStep == Attach \/ Wait \/ ReadCharge \/ ReadAdapter \/ OnEvent \/ Idle \/ Awake
Next == RunnerStep \/ Elapse \/ Battery \/ Other
Spec == Init /\ [][Next]_vars

-----------------------------------------------------------------------------
Right == [format |-> Format(State(Percentage(charge), adapter)),
          percentage |-> ClampPercentage(Percentage(charge), State(Percentage(charge), adapter))]

(* When nothing has changed since the files were read, the bar is right:   *)
(* an event that is skipped had nothing to show.                           *)
ShownAsRead == calm /\ runner \in {"attach", "wait", "idle", "sleep"} => shown = Right

(* The values of the label that no comparison looks at, the time left and  *)
(* the consumption, are old by three events at most.                       *)
RefreshedInTime == quiet <= SKIP_N_UNCHANGED

(* No event comes of the module's own reads, but of the one that polls:    *)
(* after an event the watches are fresh.                                   *)
NoEcho == cause = {"own"} => conf.interval

(* The time left is not less with a larger distance to go.                 *)
TimeLeft ==
  runner = "state" /\ first =>
    \A rate \in {0, 1, 4, 9}, volt \in {0, 1, 2}, online \in BOOLEAN, now \in 0 .. Full - 1 :
      volt # 0 =>
        LET t(n) == Remaining(rate, volt, n, Full, online)
        IN IF online THEN t(now) >= t(now + 1) ELSE t(now) <= t(now + 1)

(* A change is shown, also when nobody else reads the files.               *)
Changed == conf.interval /\ shown # Right
Shown == shown = Right

-----------------------------------------------------------------------------
(* What is proved of it.  The charge has a scale.                          *)
Scaled == Full \in Nat

(* What on_event() has read of a calm battery is so still, ...             *)
ReadRight ==
  calm =>
    /\ runner = "adapter" => read.charge = Percentage(charge)
    /\ runner = "percentage" => State(read.charge, read.online) = State(Percentage(charge), adapter)
    /\ ~(runner \in {"state", "adapter", "percentage"}) =>
         m_state = State(Percentage(charge), adapter) /\ m_percentage = Percentage(charge)

(* ... and what it has found is shown, from the first event on.            *)
Told ==
  /\ first => runner \in {"state", "adapter", "percentage"}
  /\ ~first => shown = [format |-> Format(m_state), percentage |-> ClampPercentage(m_percentage, m_state)]

(* Each event that is skipped is one less that may be.                     *)
Counted == m_unchanged \in Nat /\ quiet \in Nat /\ quiet + m_unchanged <= SKIP_N_UNCHANGED

(* The module reads without watches, but for the one that polls.           *)
Unwatched ==
  /\ watching => runner \in {"wait", "idle", "sleep"}
  /\ conf.interval \/ ("own" \notin events /\ "own" \notin cause)

Inv == DOMAIN read = {"charge", "online"} /\ ReadRight /\ Told /\ Counted /\ Unwatched
=============================================================================
