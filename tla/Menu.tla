-------------------------------- MODULE Menu --------------------------------
(***************************************************************************)
(* A menu and the way of an action to it: what is clicked in the bar or    *)
(* sent by another process is kept in m_inputdata, one at a time, until    *)
(* the event queue worker takes it, parses it and forwards it to the       *)
(* module or to a shell (modules/menu.cpp, utils/actions.cpp, process_     *)
(* inputdata of components/controller.cpp).  The worker draws the menu too. *)
(*                                                                         *)
(* An input is a sequence of tokens; the only name is that of the menu.    *)
(***************************************************************************)
EXTENDS Integers, Sequences, SequencesExt

CONSTANTS Levels,  \* the items of each level: what an item executes
          Messages, \* inputs that other processes send
          MaxOps

VARIABLES
  m_inputdata, cmd,  \* waiting; taken by the worker; <<>> for none
  last,              \* the last input that was processed
  m_level, drawn,    \* the open level, -1 for none; the one in the window
  update,            \* the module has broadcast a change
  corrupt, misused,  \* an item was read that does not exist; a message asked for that
  ops
vars == <<m_inputdata, cmd, last, m_level, drawn, update, corrupt, misused, ops>>

ActionString(action, data) ==
  <<"#", "menu", ".", action>> \o (IF data = <<>> THEN <<>> ELSE <<".">> \o data)

(* parse_action_string(): a triple, or nothing if it is malformed.         *)
Dot(s) == SelectInSeq(s, LAMBDA t : t = ".")
Parse(s) ==
  LET str    == Tail(s)
      name   == SubSeq(str, 1, Dot(str) - 1)
      rest   == SubSeq(str, Dot(str) + 1, Len(str))
      action == IF Dot(rest) = 0 THEN rest ELSE SubSeq(rest, 1, Dot(rest) - 1)
      data   == IF Dot(rest) = 0 THEN <<>> ELSE SubSeq(rest, Dot(rest) + 1, Len(rest))
  IN IF Dot(str) = 0 \/ name = <<>> \/ action = <<>> THEN <<>> ELSE <<name, action, data>>

(* strtol(): what is not a number is 0.                                    *)
Digits == <<"0", "1", "2">>
Number(s) == IF s = <<>> \/ ~Contains(Digits, s[1]) THEN 0 ELSE SelectInSeq(Digits, LAMBDA t : t = s[1]) - 1

TypeOK ==
  /\ m_level \in -1 .. Len(Levels) - 1 /\ drawn \in -1 .. Len(Levels) - 1
  /\ {update, corrupt, misused} \subseteq BOOLEAN

Init ==
  /\ m_inputdata = <<>> /\ cmd = <<>> /\ last = <<>>
  /\ m_level = -1 /\ drawn = -1 /\ update = FALSE /\ corrupt = FALSE /\ misused = FALSE /\ ops = 0

-----------------------------------------------------------------------------
(* The actions of the module.  After the error of an element without a     *)
(* separator, both numbers are read from all of it; after that of an item  *)
(* that does not exist, it is read.                                        *)
Separator(data) == SelectInSeq(data, LAMBDA t : t = "-")
Element(data) == <<Number(SubSeq(data, 1, IF Separator(data) = 0 THEN Len(data) ELSE Separator(data) - 1)),
                   Number(SubSeq(data, Separator(data) + 1, Len(data)))>>
Exists(level, item) == level < Len(Levels) /\ item < Len(Levels[level + 1])

Open(data) ==
  /\ m_level' = (IF Number(data) < Len(Levels) THEN Number(data) ELSE -1)
  /\ update' = TRUE /\ UNCHANGED <<m_inputdata, corrupt>>
Close ==
  /\ m_level' = -1 /\ update' = (update \/ m_level # -1)
  /\ UNCHANGED <<m_inputdata, corrupt>>

(* What the item executes is queued like any input, and lost if another    *)
(* one waits.  The menu closes if the item can be seen in it.              *)
Exec(data) ==
  LET level == Element(data)[1]
      item  == Element(data)[2]
  IN IF ~Exists(level, item) THEN corrupt' = TRUE /\ UNCHANGED <<m_inputdata, m_level, update>>
     ELSE /\ m_inputdata' = IF m_inputdata = <<>> THEN Levels[level + 1][item + 1] ELSE m_inputdata
          /\ m_level' = IF m_level = level THEN -1 ELSE m_level
          /\ update' = (update \/ m_level = level) /\ UNCHANGED corrupt

(* What of the menu can be clicked: build().                               *)
Clickable(level) ==
  IF level = -1 THEN {ActionString("open", <<"0">>)}
  ELSE {ActionString("close", <<>>)} \cup
       {ActionString("exec", <<Digits[level + 1], "-", Digits[i]>>) : i \in DOMAIN Levels[level + 1]}

-----------------------------------------------------------------------------
(* enqueue(): by the thread that handles the click or the message.         *)
Enqueue(input) ==
  /\ ops < MaxOps /\ ops' = ops + 1 /\ ~corrupt
  /\ m_inputdata' = IF m_inputdata = <<>> THEN input ELSE m_inputdata
  /\ UNCHANGED <<cmd, last, m_level, drawn, update, corrupt>>
Click(input) == Enqueue(input) /\ UNCHANGED misused
Message(input) == Enqueue(input) /\ misused' = (misused \/ Contains(input, "exec"))

Take ==
  /\ cmd = <<>> /\ m_inputdata # <<>> /\ ~corrupt
  /\ cmd' = m_inputdata /\ m_inputdata' = <<>>
  /\ UNCHANGED <<last, m_level, drawn, update, corrupt, misused, ops>>

(* process_inputdata(): an action by its name, an old action by how it     *)
(* begins, anything else in a shell, after which the bar is drawn.         *)
Forward(action) ==
  CASE action = <<>> \/ action[1] # <<"menu">> -> UNCHANGED <<m_inputdata, m_level, update, corrupt>>
    [] action # <<>> /\ action[1] = <<"menu">> ->
         \/ action[2] = <<"open">> /\ Open(action[3])
         \/ action[2] = <<"close">> /\ Close
         \/ action[2] = <<"exec">> /\ Exec(action[3])
         \/ action[2] \notin {<<"open">>, <<"close">>, <<"exec">>} /\ UNCHANGED <<m_inputdata, m_level, update, corrupt>>
Legacy(s) == IF Head(s) = "menu-open-" THEN <<<<"menu">>, <<"open">>, Tail(s)>> ELSE <<<<"menu">>, <<"close">>, Tail(s)>>
ProcessInput ==
  /\ cmd # <<>> /\ cmd' = <<>> /\ last' = cmd /\ ~corrupt
  /\ \/ Head(cmd) = "#" /\ Forward(Parse(cmd)) /\ UNCHANGED drawn
     \/ Head(cmd) \in {"menu-open-", "menu-close"} /\ Forward(Legacy(cmd)) /\ UNCHANGED drawn
     \/ /\ Head(cmd) \notin {"#", "menu-open-", "menu-close"} /\ drawn' = m_level /\ update' = FALSE
        /\ UNCHANGED <<m_inputdata, m_level, corrupt>>
  /\ UNCHANGED <<misused, ops>>
Draw ==
  /\ cmd = <<>> /\ update /\ update' = FALSE /\ drawn' = m_level /\ ~corrupt
  /\ UNCHANGED <<m_inputdata, cmd, last, m_level, corrupt, misused, ops>>

Next ==
  \/ Take \/ ProcessInput \/ Draw
  \/ \E i \in Clickable(drawn) : Click(i)
  \/ \E i \in Messages : Message(i)
Spec == Init /\ [][Next]_vars

-----------------------------------------------------------------------------
(* Every place of the drawn menu does what it says, though the open level  *)
(* may be another by now: the string of its action is read as it was       *)
(* written, and names a level and an item that are there.                  *)
PlacesLead ==
  /\ corrupt => misused
  /\ \A i \in Clickable(drawn) : Parse(i) # <<>> /\ ActionString(Parse(i)[2][1], Parse(i)[3]) = i
  /\ drawn # -1 =>
       /\ {Element(Parse(i)[3]) : i \in {i \in Clickable(drawn) : i[4] = "exec"}}
            = {<<drawn, item>> : item \in 0 .. Len(Levels[drawn + 1]) - 1}

(* An item that opens another level leaves that level open, though the     *)
(* menu is closed when an item of it is chosen; and what is open is drawn. *)
LevelStays ==
  /\ last # <<>> /\ Head(last) = "#" /\ Parse(last) # <<>> =>
       LET action == Parse(last)
       IN action[1] = <<"menu">> /\ action[2] = <<"open">> /\ Number(action[3]) < Len(Levels) =>
            m_level = Number(action[3])
  /\ ~update => drawn = m_level
=============================================================================
