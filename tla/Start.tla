-------------------------------- MODULE Start --------------------------------
(***************************************************************************)
(* The start of polybar: the command line, one argument at a time          *)
(* (components/command_line.cpp), and what main() makes of it (main.cpp):  *)
(* a page of usage, a listing, a value of the configuration, or a bar,     *)
(* that may be replaced by a new process when it has ended.                *)
(*                                                                         *)
(* An argument is what is written: an option by its short or long name,    *)
(* with or without "=value", or a plain text.  Names are matched by their  *)
(* beginning; here no name begins with another.                            *)
(***************************************************************************)
EXTENDS Naturals, Sequences, FiniteSets, SequencesExt

CONSTANTS Arguments, \* what may be written
          MaxArgs, Valued, \* the options that have a value
          LogLevels  \* values of "log"

VARIABLES
  args,  \* the command line
  i, m_skipnext, m_optvalues, m_posargs,
  pc, outcome
vars == <<args, i, m_skipnext, m_optvalues, m_posargs, pc, outcome>>

Absent == "absent"
Plain(text) == [opt |-> Absent, long |-> FALSE, value |-> text]
Empty == Plain("")
IsOption(arg) == arg.opt # Absent
At(n) == IF n <= Len(args) THEN args[n] ELSE Empty

Outcomes ==
  {"none", "invalid", "help", "version", "no X", "monitors", "usage", "no config", "dump", "exit", "failed", "exec"}

TypeOK ==
  /\ i \in 1 .. MaxArgs + 1 /\ m_skipnext \in BOOLEAN
  /\ DOMAIN m_optvalues \subseteq {a.opt : a \in Arguments}
  /\ Range(m_posargs) \subseteq {a \in Arguments : ~IsOption(a)}
  /\ pc \in {"parse", "main", "run", "end"} /\ outcome \in Outcomes

Init ==
  /\ args \in BoundedSeq(Arguments, MaxArgs)
  /\ i = 1 /\ m_skipnext = FALSE /\ m_optvalues = << >> /\ m_posargs = <<>>
  /\ pc = "parse" /\ outcome = "none"

-----------------------------------------------------------------------------
(* parse_value(): a long option has its value after "=", a short one as    *)
(* the next argument, or after "=" if anything follows.                    *)
HasValue(arg, next) == IF arg.long THEN arg.value # Absent ELSE next # Empty
ParseValue(arg, next) == IF arg.value # Absent THEN Plain(arg.value) ELSE next
Allowed(opt, value) == opt = "log" => value.value \in LogLevels /\ ~IsOption(value)

(* insert() keeps the first value of an option.                            *)
Insert(opt, value) ==
  m_optvalues' = [o \in DOMAIN m_optvalues \cup {opt} |->
                    IF o \in DOMAIN m_optvalues THEN m_optvalues[o] ELSE value]

(* A value is skipped, but the last argument is looked at even then.       *)
Skipped == m_skipnext /\ At(i + 1) # Empty

Skip ==
  /\ pc = "parse" /\ i <= Len(args) /\ Skipped
  /\ m_skipnext' = FALSE /\ i' = i + 1
  /\ UNCHANGED <<args, m_optvalues, m_posargs, pc, outcome>>

Invalid ==
  /\ pc' = "end" /\ outcome' = "invalid"
  /\ UNCHANGED <<args, i, m_skipnext, m_optvalues, m_posargs>>

ParseOption(arg, value) ==
  /\ arg.opt # "unknown" /\ ~Skipped
  /\ \/ /\ arg.opt \notin Valued
        /\ Insert(arg.opt, Empty) /\ m_skipnext' = FALSE
     \/ /\ arg.opt \in Valued /\ HasValue(arg, At(i + 1)) /\ Allowed(arg.opt, value)
        /\ Insert(arg.opt, value) /\ m_skipnext' = (value = At(i + 1))
  /\ i' = i + 1
  /\ UNCHANGED <<args, m_posargs, pc, outcome>>

ParseText(arg) ==
  /\ ~Skipped /\ m_skipnext' = FALSE /\ i' = i + 1
  /\ m_posargs' = IF m_skipnext THEN m_posargs ELSE Append(m_posargs, arg)
  /\ UNCHANGED <<args, m_optvalues, pc, outcome>>

Parse ==
  /\ pc = "parse" /\ i <= Len(args)
  /\ LET arg == args[i]
         value == ParseValue(arg, At(i + 1))
     IN \/ IsOption(arg) /\ ParseOption(arg, value)
        \/ (~IsOption(arg) \/ (arg.opt = "unknown" /\ m_skipnext)) /\ ParseText(arg)
        \/ /\ ~Skipped
           /\ \/ arg.opt = "unknown" /\ ~m_skipnext
              \/ arg.opt \in Valued /\ ~HasValue(arg, At(i + 1))
              \/ arg.opt \in Valued /\ ~Allowed(arg.opt, value)
           /\ Invalid

-----------------------------------------------------------------------------
(* main(), after process_input(): x, is there an X server; default, is     *)
(* there a configuration at a default path?                                *)
Has(opt) == opt \in DOMAIN m_optvalues
ConfigPath(default) == IF Has("config") THEN m_optvalues["config"] # Empty ELSE default

Ends(what) ==
  /\ outcome' = what
  /\ UNCHANGED <<args, i, m_skipnext, m_optvalues, m_posargs>>

Main ==
  /\ pc = "parse" /\ i > Len(args)
  /\ \E x, default \in BOOLEAN :
       LET decided ==
             CASE Has("help") -> "help"
               [] ~Has("help") /\ Has("version") -> "version"
               [] ~Has("help") /\ ~Has("version") /\ ~x -> "no X"
               [] OTHER ->
                    CASE Has("monitors") -> "monitors"
                      [] ~Has("monitors") /\ Len(m_posargs) # 1 -> "usage"
                      [] ~Has("monitors") /\ Len(m_posargs) = 1 /\ ~ConfigPath(default) -> "no config"
                      [] OTHER -> IF Has("dump") THEN "dump" ELSE "none"
       IN Ends(decided) /\ pc' = IF decided = "none" THEN "run" ELSE "end"

(* controller::run() returns what it returns, or throws; whatever follows, *)
(* children that have ended are reaped first.                              *)
Run == pc = "run" /\ pc' = "end" /\ \E what \in {"exit", "failed", "exec"} : Ends(what)

Next == Skip \/ Parse \/ Main \/ Run
Spec == Init /\ [][Next]_vars

-----------------------------------------------------------------------------
(* What the page of usage says of a command line: [OPTION]... BAR, where   *)
(* -o VALUE and --option=VALUE mean the same.  An argument is a value if a *)
(* short option with a value comes directly before it.                     *)
TakesNext(arg) == arg.opt \in Valued /\ ~arg.long /\ arg.value = Absent
IsValue[n \in 0 .. MaxArgs] ==
  n > 1 /\ n <= Len(args) /\ TakesNext(args[n - 1]) /\ ~IsValue[n - 1]
Written == {n \in DOMAIN args : ~IsValue[n]}
ValueOf(n) == IF args[n].value # Absent THEN Plain(args[n].value) ELSE At(n + 1)
Bars == {n \in Written : ~IsOption(args[n])}
First(opt) ==
  CHOOSE n \in Written : args[n].opt = opt /\ \A k \in Written : args[k].opt = opt => n <= k
IsWritten(opt) == \E n \in Written : args[n].opt = opt

WellFormed ==
  \A n \in Written :
    /\ args[n].opt # "unknown"
    /\ args[n].opt \in Valued =>
         (IF args[n].long THEN args[n].value # Absent ELSE n < Len(args)) /\ Allowed(args[n].opt, ValueOf(n))

(* Three ways to write that are read differently: empty arguments, -o=VALUE, *)
(* and a value that is said again, or looks like an option at the end: a   *)
(* bar named like its file is swallowed by --config.                       *)
Unusual ==
  \E n \in DOMAIN args :
    \/ args[n] = Empty
    \/ args[n].opt \in Valued /\ ~args[n].long /\ args[n].value # Absent
    \/ args[n].long /\ args[n].value # Absent /\ At(n + 1) = Plain(args[n].value)
    \/ IsValue[n] /\ IsOption(args[n])

(* The options found are those written, each with its first value, and the *)
(* bar is the one text that is no value; anything else is refused.         *)
ReadAsWritten ==
  pc = "end" /\ ~Unusual =>
    /\ outcome = "invalid" <=> ~WellFormed
    /\ WellFormed =>
         /\ DOMAIN m_optvalues = {args[n].opt : n \in {k \in Written : IsOption(args[k])}}
         /\ \A opt \in DOMAIN m_optvalues \cap Valued : m_optvalues[opt] = ValueOf(First(opt))
         /\ Len(m_posargs) = Cardinality(Bars)
         /\ \A n \in Bars : Contains(m_posargs, args[n])

(* A bar runs only if exactly one was written, and nothing else was asked. *)
RunsWhenAsked ==
  outcome \in {"exit", "failed", "exec"} /\ ~Unusual =>
    /\ Cardinality(Bars) = 1
    /\ \A opt \in {"help", "version", "monitors", "dump"} : ~IsWritten(opt)
=============================================================================
