-------------------------------- MODULE Date --------------------------------
(***************************************************************************)
(* The date module (modules/date.cpp): a timer shows the date and the time *)
(* in one of two formats each; a click on the bar changes the format, on   *)
(* the event queue's worker, and wakes the timer up.  That is a condition  *)
(* variable without a condition: who does not wait misses it.              *)
(*                                                                         *)
(* A text is <<what, format, clock>>, or empty for an empty format.        *)
(***************************************************************************)
EXTENDS Integers, Sequences

CONSTANTS Formats,  \* [date, date_alt, time, time_alt]: whether each is given
          MaxClock, \* bound on time: what the formats tell apart
          MaxClicks

VARIABLES
  conf, clock,
  runner,      \* "date", "time", "compare", "broadcast", "before sleep", "sleep"
  warm, now,   \* the update before the loop is done; the time of update()
  date_string, time_string,
  m_toggled, m_date, m_time,
  toggling,    \* between the change and the wake-up of a click
  shown,
  mixed, clicks  \* history: a click since update() began to read; bound

vars == <<conf, clock, runner, warm, now, date_string, time_string, m_toggled, m_date, m_time,
          toggling, shown, mixed, clicks>>
strings == <<date_string, time_string>>
module == <<m_date, m_time>>

Given(f) == f.date \/ f.time
Text(what, alt, given, t) == IF given THEN <<what, alt, t>> ELSE <<>>
DateText(alt, t) == Text("date", alt, IF alt THEN conf.date_alt ELSE conf.date, t)
TimeText(alt, t) == Text("time", alt, IF alt THEN conf.time_alt ELSE conf.time, t)

TypeOK ==
  /\ conf \in Formats /\ Given(conf) /\ clock \in 0 .. MaxClock /\ now \in 0 .. clock
  /\ runner \in {"date", "time", "compare", "broadcast", "before sleep", "sleep"}
  /\ {warm, m_toggled, toggling, mixed} \subseteq BOOLEAN

(* A configuration without a format for date and time is refused.          *)
Init ==
  /\ conf \in {f \in Formats : Given(f)} /\ clock = 0
  /\ runner = "date" /\ warm = FALSE /\ now = 0 /\ date_string = <<>> /\ time_string = <<>>
  /\ m_toggled = FALSE /\ m_date = <<>> /\ m_time = <<>> /\ toggling = FALSE
  /\ shown = <<"none">> /\ mixed = FALSE /\ clicks = 0

-----------------------------------------------------------------------------
(* update(): the clock once, the format for each of the two.               *)
ReadDate ==
  /\ runner = "date" /\ runner' = "time" /\ now' = clock
  /\ date_string' = DateText(m_toggled, clock) /\ mixed' = FALSE
  /\ UNCHANGED <<conf, clock, warm, time_string, m_toggled, module, toggling, shown, clicks>>
ReadTime ==
  /\ runner = "time" /\ runner' = "compare" /\ time_string' = TimeText(m_toggled, now)
  /\ UNCHANGED <<conf, clock, warm, now, date_string, m_toggled, module, toggling, shown, mixed, clicks>>

Same == m_date = date_string /\ m_time = time_string
Compare ==
  /\ runner = "compare" /\ m_date' = date_string /\ m_time' = time_string
  /\ runner' = IF Same /\ warm THEN "before sleep" ELSE "broadcast"
  /\ UNCHANGED <<conf, clock, warm, now, strings, m_toggled, toggling, shown, mixed, clicks>>
Broadcast ==
  /\ runner = "broadcast" /\ shown' = module /\ warm' = TRUE
  /\ runner' = IF warm THEN "before sleep" ELSE "date"
  /\ UNCHANGED <<conf, clock, now, strings, m_toggled, module, toggling, mixed, clicks>>

(* sleep_until() the next full interval; the clock goes on.                *)
Sleep ==
  /\ runner = "before sleep" /\ runner' = "sleep"
  /\ UNCHANGED <<conf, clock, warm, now, strings, m_toggled, module, toggling, shown, mixed, clicks>>
Elapse ==
  /\ runner = "sleep" /\ runner' = "date"
  /\ clock' = IF clock < MaxClock THEN clock + 1 ELSE clock
  /\ UNCHANGED <<conf, warm, now, strings, m_toggled, module, toggling, shown, mixed, clicks>>

(* action_toggle(), which a message may ask for without another format.    *)
Toggle ==
  /\ ~toggling /\ clicks < MaxClicks /\ clicks' = clicks + 1
  /\ m_toggled' = ~m_toggled /\ toggling' = TRUE /\ mixed' = TRUE
  /\ UNCHANGED <<conf, clock, runner, warm, now, strings, module, shown>>
Wakeup ==
  /\ toggling /\ toggling' = FALSE
  /\ IF runner = "sleep" THEN runner' = "date" ELSE UNCHANGED runner
  /\ UNCHANGED <<conf, clock, warm, now, strings, m_toggled, module, shown, mixed, clicks>>

RunnerStep == ReadDate \/ ReadTime \/ Compare \/ Broadcast \/ Sleep \/ Elapse
Next == RunnerStep \/ Toggle \/ Wakeup
Spec == Init /\ [][Next]_vars

-----------------------------------------------------------------------------
(* A bar whose timer sleeps shows the formats of the last click, unless    *)
(* that click came in the middle of an update: then it shows one of each   *)
(* format, or the ones before, until the interval is over.                 *)
ShownAsToggled ==
  runner = "sleep" /\ ~toggling /\ ~mixed =>
    shown = <<DateText(m_toggled, now), TimeText(m_toggled, now)>>

(* A click that was missed is made good by the next interval.              *)
Clicked == mixed
ClickShown == shown = <<DateText(m_toggled, now), TimeText(m_toggled, now)>>

-----------------------------------------------------------------------------
(* What is proved of it.  The strings of an update are of one format ...   *)
Fresh ==
  ~mixed =>
    /\ runner # "date" => date_string = DateText(m_toggled, now)
    /\ runner \notin {"date", "time"} => time_string = TimeText(m_toggled, now)

(* ... and reach the bar before the thread sleeps.                         *)
Held ==
  /\ runner \in {"broadcast", "before sleep", "sleep"} => module = strings
  /\ runner \in {"before sleep", "sleep"} => warm
  /\ warm /\ runner # "broadcast" => shown = module

Inv == Fresh /\ Held
=============================================================================
