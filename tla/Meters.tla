------------------------------- MODULE Meters -------------------------------
(***************************************************************************)
(* The meters that a timer reads: the load of the processors (modules/     *)
(* cpu.cpp) as a state machine, because each value is the difference of    *)
(* two readings; memory.cpp and temperature.cpp as functions of one.       *)
(*                                                                         *)
(* The system (external) counts what each processor that is online has     *)
(* been busy and idle, in that order of numbers; the file lists the ones   *)
(* that are online and may fail to be read.                                *)
(***************************************************************************)
EXTENDS Integers, Sequences, FiniteSets, FiniteSetsExt

CONSTANTS Cores,   \* 1 .. n
          Warn,    \* warn-percentage
          Word,    \* counters wrap there (2^64)
          MaxOps   \* bound on what the system does

VARIABLES
  times, online, readable,
  runner,         \* "update", "show", "sleep"
  m_cputimes, m_cputimes_prev,
  m_load, shown,
  spans, kept, ops  \* history: what each processor did between the last two
                    \* readings; both of them went well, of the same processors

vars == <<times, online, readable, runner, m_cputimes, m_cputimes_prev, m_load, shown, spans, kept, ops>>
system == <<times, online, readable>>

Zero == [c \in Cores |-> [busy |-> 0, idle |-> 0]]
(* The lines of /proc/stat, without the first; total is busy and idle.     *)
Lines == CHOOSE s \in [1 .. Cardinality(online) -> online] : \A i, j \in DOMAIN s : i < j => s[i] < s[j]
ReadValues == IF readable THEN [i \in DOMAIN Lines |-> [idle |-> times[Lines[i]].idle,
                                  total |-> (times[Lines[i]].busy + times[Lines[i]].idle) % Word]]
              ELSE <<>>

(* get_load(): of the line with this number in both readings, as unsigned  *)
(* differences.                                                            *)
Minus(a, b) == (a - b) % Word
Cap(n) == IF n < 0 THEN 0 ELSE IF n > 100 THEN 100 ELSE n
GetLoad(i, cputimes, prev) ==
  IF i > Len(prev) THEN 0
  ELSE LET diff == Minus(cputimes[i].total, prev[i].total)
           idle == Minus(cputimes[i].idle, prev[i].idle)
       IN IF diff = 0 THEN 0 ELSE Cap((100 * Minus(diff, idle)) \div diff)

Total(load) == MapThenSumSet(LAMBDA i : load[i], DOMAIN load) \div Len(load)
Format(total) == IF total >= Warn THEN "warn" ELSE "default"

TypeOK ==
  /\ \A c \in Cores : {times[c].busy, times[c].idle} \subseteq 0 .. Word - 1
  /\ online \subseteq Cores /\ runner \in {"update", "show", "sleep"}
  /\ \A i \in DOMAIN m_load : m_load[i] \in 0 .. 100
  /\ shown.format \in {"none", "default", "warn"}

(* The constructor reads twice.                                            *)
Init ==
  /\ times = [c \in Cores |-> [busy |-> Word - 1, idle |-> 0]]
  /\ online \in {Cores, Cores \ {1}} /\ readable = TRUE /\ runner = "update"
  /\ m_cputimes = ReadValues /\ m_cputimes_prev = ReadValues
  /\ m_load = <<>> /\ shown = [format |-> "none", load |-> <<>>]
  /\ spans = Zero /\ kept = [now |-> TRUE, before |-> TRUE] /\ ops = 0

(* update(): swap and read; without a line nothing is shown anew.          *)
Update ==
  /\ runner = "update" /\ m_cputimes_prev' = m_cputimes /\ m_cputimes' = ReadValues
  /\ IF ReadValues = <<>> THEN runner' = "sleep" /\ spans' = Zero /\ UNCHANGED m_load
     ELSE /\ runner' = "show" /\ UNCHANGED spans
          /\ m_load' = [i \in DOMAIN ReadValues |-> GetLoad(i, ReadValues, m_cputimes)]
  /\ kept' = [now |-> ReadValues # <<>>, before |-> kept.now]
  /\ UNCHANGED <<system, shown, ops>>

Broadcast ==
  /\ runner = "show" /\ runner' = "sleep"
  /\ shown' = [format |-> Format(Total(m_load)), load |-> m_load]
  /\ spans' = Zero
  /\ UNCHANGED <<system, m_cputimes, m_cputimes_prev, m_load, kept, ops>>

Wake ==
  /\ runner = "sleep" /\ runner' = "update"
  /\ UNCHANGED <<system, m_cputimes, m_cputimes_prev, m_load, shown, spans, kept, ops>>

(* What the system does while the module sleeps: a tick of each processor, *)
(* one that goes or comes, a file that cannot be read.                     *)
Tick ==
  /\ \E busy \in SUBSET online :
       LET Add(t) == [c \in Cores |-> IF c \notin online THEN t[c]
                        ELSE IF c \in busy THEN [t[c] EXCEPT !.busy = (@ + 1) % Word]
                        ELSE [t[c] EXCEPT !.idle = (@ + 1) % Word]]
       IN times' = Add(times) /\ spans' = Add(spans)
  /\ UNCHANGED <<online, readable, kept>>
Hotplug ==
  /\ \E c \in Cores : online' = (online \cup {c}) \ (online \cap {c})
  /\ kept' = [kept EXCEPT !.now = FALSE] /\ UNCHANGED <<times, readable, spans>>
Unreadable == readable' = ~readable /\ UNCHANGED <<times, online, spans, kept>>

System ==
  /\ runner = "sleep" /\ ops < MaxOps /\ ops' = ops + 1
  /\ Tick \/ Hotplug \/ Unreadable
  /\ UNCHANGED <<runner, m_cputimes, m_cputimes_prev, m_load, shown>>

Next == Update \/ Broadcast \/ Wake \/ System
Spec == Init /\ [][Next]_vars

-----------------------------------------------------------------------------
(* memory.cpp: what is available, or an approximation of it; percentages   *)
(* of unsigned numbers.  Nothing of nothing has no percentage.             *)
Available(info) ==
  IF info.available # -1 THEN info.available
  ELSE info.free + info.buffers + info.cached + info.reclaimable - info.shmem
Percentage(value, max) == (200 * value + max) \div (2 * max)
MemoryFree(info) == Percentage(Available(info), info.total)
MemoryUsed(info) == 100 - MemoryFree(info)

(* temperature.cpp: thousandths, half a degree added and cut off.          *)
Truncated(n, d) == IF n < 0 THEN -((-n) \div d) ELSE n \div d
Celsius(milli) == Truncated(milli + 500, 1000)
Fahrenheit(c) == (18 * c + 325) \div 10

-----------------------------------------------------------------------------
(* What is shown is the share of time that each processor was busy between *)
(* two readings that went well, of the same processors; also when its      *)
(* counters have wrapped.                                                  *)
Share(span) == IF span.busy + span.idle = 0 THEN 0 ELSE (100 * span.busy) \div (span.busy + span.idle)
LoadAsSpent ==
  runner = "show" /\ kept.now /\ kept.before /\ m_load # <<>> =>
    m_load = [i \in DOMAIN Lines |-> Share(spans[Lines[i]])]

(* A reading that fails leaves what is shown; the format goes with it.     *)
ShownAsRead ==
  runner = "sleep" /\ kept.now /\ shown.load # <<>> =>
    shown = [format |-> Format(Total(m_load)), load |-> m_load]

(* Used and free are shares of a whole that is not less than what is       *)
(* available; a temperature is the nearest degree, or below zero up to one *)
(* and a half too warm, and grows in either unit.                          *)
Millidegrees == {-5000, -1499, -501, -500, -1, 0, 1, 499, 500, 999, 1499, 1500, 40499}
Shares(info) == Available(info) \in 0 .. info.total => {MemoryFree(info), MemoryUsed(info)} \subseteq 0 .. 100
Readings ==
  runner = "update" /\ m_load = <<>> =>
    /\ \A total \in 1 .. 6, available \in -1 .. 6, free \in 0 .. 2, cached \in 0 .. 3, shmem \in 0 .. 2 :
         Shares([total |-> total, available |-> available, free |-> free, buffers |-> 0,
                 cached |-> cached, reclaimable |-> 1, shmem |-> shmem])
    /\ \A n \in Millidegrees :
         /\ 1000 * Celsius(n) - n \in IF n < 0 THEN 0 .. 1499 ELSE -499 .. 500
         /\ \A k \in Millidegrees : n < k => /\ Celsius(n) <= Celsius(k)
                                            /\ Fahrenheit(Celsius(n)) <= Fahrenheit(Celsius(k))

-----------------------------------------------------------------------------
(* What is proved of it.  There is a processor for each line of the file,  *)
(* and no counter moves on by more than its range between two readings.    *)
Metered == Cores \in SUBSET Nat /\ IsFiniteSet(Cores) /\ Word \in Nat \ {0} /\ MaxOps \in Nat /\ MaxOps < Word

Typed ==
  /\ times \in [Cores -> [busy : 0 .. Word - 1, idle : 0 .. Word - 1]]
  /\ spans \in [Cores -> [busy : Nat, idle : Nat]] /\ ops \in 0 .. MaxOps
  /\ \A c \in Cores : spans[c].busy + spans[c].idle <= ops
  /\ online \subseteq Cores /\ readable \in BOOLEAN /\ runner \in {"update", "show", "sleep"}
  /\ kept \in [now : BOOLEAN, before : BOOLEAN]

(* The last reading, if it went well and no processor went or came since:  *)
(* what is counted less what was counted since.                            *)
Before(c) ==
  [idle |-> (times[c].idle - spans[c].idle) % Word,
   total |-> ((times[c].busy + times[c].idle) - (spans[c].busy + spans[c].idle)) % Word]
Counted ==
  /\ runner # "show" /\ kept.now => m_cputimes = [i \in DOMAIN Lines |-> Before(Lines[i])]
  /\ runner = "show" => kept.now /\ readable /\ m_cputimes = ReadValues

Showing ==
  runner # "show" /\ shown.load # <<>> => shown = [format |-> Format(Total(m_load)), load |-> m_load]

Inv == Typed /\ Counted /\ Showing /\ LoadAsSpent
=============================================================================
