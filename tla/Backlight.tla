----------------------------- MODULE Backlight -----------------------------
(***************************************************************************)
(* The backlight modules: modules/backlight.cpp by files of sysfs and      *)
(* inotify, with a thread of its own, modules/xbacklight.cpp by a property *)
(* of a RandR output and the events of the main thread.  Both step, on the *)
(* event queue's worker, from the percentage that they have shown last.    *)
(*                                                                         *)
(* The screen (external) has a brightness of min .. max; each change is    *)
(* one event for who listens.                                              *)
(***************************************************************************)
EXTENDS Integers

CONSTANTS Screens,  \* [kind, min, max]
          MaxOps    \* bound on changes from elsewhere and scrolls

VARIABLES
  screen, value,
  heard,      \* a change that the module has not followed
  listens,    \* sysfs: the watch is there
  m_percentage, m_max_brightness, shown,
  missed, stepped,  \* history: a change in the pause since the last update;
                    \* [from, by, percentage] of the last step since the
                    \* first update, or none
  ops

vars == <<screen, value, heard, listens, m_percentage, m_max_brightness, shown, missed, stepped, ops>>

Cap(n, lo, hi) == IF n < lo THEN lo ELSE IF n > hi THEN hi ELSE n

(* on_event(): half a per cent is added and the rest cut off; update(): a  *)
(* rounded share of min .. max, brought to the nearest five.               *)
Nearest5(n) == 5 * ((2 * n + 5) \div 10)
Percentage(v) ==
  IF screen.kind = "sysfs" THEN (200 * v + screen.max) \div (2 * screen.max)
  ELSE LET range == screen.max - screen.min
       IN Nearest5((200 * (v - screen.min) + range) \div (2 * range))

(* change_value(): five per cent from what is shown, of 0 .. max.          *)
PercentageToValue(percentage, max) == Cap((2 * percentage * max + 100) \div 200, 0, max)
Target(by, percentage) == PercentageToValue(Cap(percentage + by, 0, 100), m_max_brightness)

TypeOK ==
  /\ screen \in Screens /\ value \in 0 .. screen.max /\ {heard, listens} \subseteq BOOLEAN
  /\ m_percentage \in -100 .. 100 /\ m_max_brightness \in {0, screen.max}

Init ==
  /\ screen \in Screens /\ value = screen.max /\ heard = TRUE /\ listens = (screen.kind = "randr")
  /\ m_percentage = 0 /\ m_max_brightness = IF screen.kind = "sysfs" THEN 0 ELSE screen.max
  /\ shown = -1 /\ missed = FALSE /\ stepped = [from |-> -1, by |-> 0, percentage |-> 0] /\ ops = 0

(* The first update, and one for an event; sysfs ends the watch first and  *)
(* sets it up again after a pause, in which changes are not heard.         *)
Update ==
  /\ heard /\ heard' = FALSE /\ listens' = (screen.kind = "randr")
  /\ m_max_brightness' = screen.max /\ m_percentage' = Percentage(value) /\ shown' = m_percentage'
  /\ missed' = FALSE
  /\ UNCHANGED <<screen, value, stepped, ops>>

Listen ==
  /\ ~listens /\ ~heard /\ listens' = TRUE
  /\ UNCHANGED <<screen, value, heard, m_percentage, m_max_brightness, shown, missed, stepped, ops>>

SetValue(v) ==
  /\ value' = v /\ heard' = (heard \/ (listens /\ v # value))
  /\ missed' = (missed \/ (~listens /\ v # value))

(* The actions, on the worker; a file that cannot be written is an         *)
(* exception that is caught.                                               *)
ChangeValue(by) ==
  /\ ops < MaxOps /\ ops' = ops + 1
  /\ \/ /\ SetValue(Target(by, m_percentage))
        /\ stepped' = [from |-> IF shown = -1 THEN -1 ELSE value, by |-> by, percentage |-> m_percentage]
     \/ /\ screen.kind = "sysfs" /\ UNCHANGED <<value, heard, missed>>
        /\ stepped' = [stepped EXCEPT !.from = -1]
  /\ UNCHANGED <<screen, listens, m_percentage, m_max_brightness, shown>>

Elsewhere ==
  /\ ops < MaxOps /\ ops' = ops + 1
  /\ \E v \in {screen.min, (screen.min + screen.max) \div 2, screen.max} : SetValue(v)
  /\ stepped' = [stepped EXCEPT !.from = -1]
  /\ UNCHANGED <<screen, listens, m_percentage, m_max_brightness, shown>>

Next == Update \/ Listen \/ ChangeValue(5) \/ ChangeValue(-5) \/ Elsewhere
Spec == Init /\ [][Next]_vars

-----------------------------------------------------------------------------
(* A change that the module could hear is shown.                           *)
ShownAsHeard == listens /\ ~heard /\ ~missed => shown = Percentage(value)

(* A step from a percentage that is right moves the screen by it, up or    *)
(* down, as far as the screen goes: with a dozen values or more, and from 0.   *)
StepMoves ==
  LET s == stepped IN
    s.from # -1 /\ screen.min = 0 /\ s.percentage = Percentage(s.from) /\ screen.max >= 12
      /\ (screen.kind = "randr" => screen.max % 20 = 0 /\ (100 * s.from) % (5 * screen.max) = 0) =>
      IF s.by > 0 THEN value > s.from \/ value = screen.max
      ELSE value < s.from \/ value = 0

-----------------------------------------------------------------------------
(* What is proved of it.  A screen has a range of values.                  *)
Ranges ==
  \A s \in Screens : s.kind \in {"sysfs", "randr"} /\ s.min \in Nat /\ s.max \in Nat /\ s.min < s.max

(* The bar shows the value even while it is told.                          *)
Heard ==
  /\ heard \in BOOLEAN /\ missed \in BOOLEAN /\ listens \in BOOLEAN
  /\ ~heard /\ ~missed => shown = Percentage(value)

(* Until something else happens the value is where the last step led it.   *)
Led ==
  /\ screen \in Screens /\ value \in 0 .. screen.max /\ m_percentage \in Int
  /\ shown # -1 => m_max_brightness = screen.max
  /\ m_max_brightness \in {0, screen.max}
  /\ DOMAIN stepped = {"from", "by", "percentage"}
  /\ stepped.from # -1 =>
       /\ stepped.from \in 0 .. screen.max /\ stepped.by \in {5, -5}
       /\ m_max_brightness = screen.max /\ value = Target(stepped.by, stepped.percentage)

Inv == Heard /\ Led
=============================================================================
