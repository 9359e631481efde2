------------------------------- MODULE Parser -------------------------------
(***************************************************************************)
(* The parser of formatting tags (src/tags/parser.cpp) and the strings it  *)
(* is given: what builder::tag_open() and tag_close() write, and the raw   *)
(* output of scripts.  dispatch::parse() asks it for one element after the *)
(* other; after an error it goes on where the parser stopped.              *)
(*                                                                         *)
(* A character is a letter of a small alphabet: "#" is a valid color, "1"  *)
(* a digit that is a button and "9" one that is not, "x" any other text.   *)
(* Elements are [tag, value]; a value is a sequence.  Operators whose name *)
(* has a suffix are bugs that the code could have.                         *)
(***************************************************************************)
EXTENDS Naturals, Sequences, SequencesExt

CONSTANT
  Outputs   \* what a script prints and the elements that modules write after

VARIABLES
  raw,      \* what a script printed
  origin,   \* the elements that modules wrote after it
  input, pos,
  mode,     \* "text", "tag" inside a tag, "thrown", "done"
  parsed    \* the elements returned so far

vars == <<raw, origin, input, pos, mode, parsed>>

Element(tag, value) == [tag |-> tag, value |-> value]
Colors == {"B", "F", "u", "o"}
Attributes == {"u", "o"}

-----------------------------------------------------------------------------
(* What the builder writes for an element.  An action has its colons       *)
(* escaped.                                                                *)
Escape(cmd) ==
  FlattenSeq([i \in DOMAIN cmd |-> IF cmd[i] = ":" THEN <<"\\", ":">> ELSE <<cmd[i]>>])

Content(e) ==
  CASE e.tag \in Colors -> <<e.tag>> \o (IF e.value = <<"reset">> THEN <<"-">> ELSE <<"#">>)
    [] e.tag = "T" -> IF e.value = <<"0">> THEN <<"T", "-">> ELSE <<"T", "1">>
    [] e.tag = "O" -> <<"O">> \o e.value
    [] e.tag = "P" -> <<"P", "R">>
    [] e.tag = "A" -> IF e.value = <<>> THEN <<"A">>
                      ELSE <<"A", "1", ":">> \o Escape(e.value) \o <<":">>
    [] e.tag \in {"+", "-"} -> <<e.tag>> \o e.value
    [] OTHER -> <<e.tag>>

Write(e) ==
  IF e.tag = "text" THEN e.value ELSE <<"%", "{">> \o Content(e) \o <<"}">>

Output(elements) == FlattenSeq([i \in DOMAIN elements |-> Write(elements[i])])

-----------------------------------------------------------------------------
(* The characters ahead.  Reading past the end gives EOL.                  *)
At(p) == IF p <= Len(input) THEN input[p] ELSE "EOL"
First(p, Stops(_)) ==
  CHOOSE q \in p .. Len(input) + 1 :
    /\ q = Len(input) + 1 \/ Stops(q)
    /\ \A r \in p .. q - 1 : ~Stops(r)

NoSpace(q) == input[q] # " "
EndOfValue(q) == input[q] \in {" ", "}"}
Value(p) == SubSeq(input, p, First(p, EndOfValue) - 1)

(* A colon ends the command unless the character before it, within the     *)
(* command, is a backslash.                                                *)
EndOfCommand(p, q) == input[q] = ":" /\ (q = p \/ input[q - 1] # "\\")
CommandEnd(p) == LET Ends(q) == EndOfCommand(p, q) IN First(p, Ends)
Unescape_Kept(cmd) == cmd
Unescape(cmd) ==
  LET Push(s, c) == IF c = ":" THEN Append(Front(s), c) ELSE Append(s, c)
  IN FoldLeft(Push, <<>>, cmd)

Invalid == <<"invalid">>
ColorOf(v) ==
  CASE v \in {<<>>, <<"-">>} -> <<"reset">>
    [] v = <<"#">> -> <<"color">>
    [] OTHER -> Invalid

(* stoi() reads the digits at the start; a negative font index is 0 before *)
(* what follows them is looked at.                                         *)
Negative(v) == Len(v) > 1 /\ v[1] = "-" /\ v[2] = "1"
FontOf(v) ==
  CASE v \in {<<>>, <<"-">>} \/ Negative(v) -> <<"0">>
    [] v = <<"1">> -> v
    [] OTHER -> Invalid

OffsetOf(v) ==
  CASE v = <<>> -> <<"0">>
    [] v \in {<<"1">>, <<"-", "1">>} -> v
    [] OTHER -> Invalid

ControlOf(v) == IF v = <<"R">> THEN v ELSE Invalid

ValueOf(c, v) ==
  CASE c \in Colors \cup {"U"} -> ColorOf(v)
    [] c = "T" -> FontOf(v)
    [] c = "O" -> OffsetOf(v)
    [] c = "P" -> ControlOf(v)

-----------------------------------------------------------------------------
Init ==
  /\ \E o \in Outputs : raw = o[1] /\ origin = o[2]
  /\ input = raw \o Output(origin)
  /\ pos = 1 /\ mode = "text" /\ parsed = <<>>

(* next_element(): text up to the next tag, or to a NUL, which is dropped; *)
(* a NUL where an element starts gives none, which is not a parser error   *)
(* and ends dispatch::parse().                                             *)
Opens(q) == input[q] = "NUL" \/ (input[q] = "%" /\ At(q + 1) = "{")

Text ==
  /\ mode = "text" /\ pos <= Len(input) /\ ~Opens(pos)
  /\ LET q == First(pos, Opens) IN
       /\ parsed' = Append(parsed, Element("text", SubSeq(input, pos, q - 1)))
       /\ pos' = IF At(q) = "NUL" THEN q + 1 ELSE q
  /\ UNCHANGED <<raw, origin, input, mode>>

NulByte ==
  /\ mode = "text" /\ At(pos) = "NUL"
  /\ pos' = pos + 1 /\ mode' = "thrown"
  /\ UNCHANGED <<raw, origin, input, parsed>>

Open ==
  /\ mode = "text" /\ At(pos) = "%" /\ At(pos + 1) = "{"
  /\ pos' = First(pos + 2, NoSpace)
  /\ mode' = IF pos' <= Len(input) THEN "tag" ELSE "text"
  /\ UNCHANGED <<raw, origin, input, parsed>>

(* After an element of a tag, at p: the end of the tag, or another.        *)
Proceed(p) ==
  LET q == First(p, NoSpace) IN
    CASE At(p) \notin {" ", "}"} -> pos' = p /\ mode' = "text"
      [] At(q) = "}" -> pos' = q + 1 /\ mode' = "text"
      [] OTHER -> pos' = q /\ mode' = IF q <= Len(input) THEN "tag" ELSE "text"

Error(p) == pos' = p /\ mode' = "text" /\ UNCHANGED parsed

(* A tag with a value that ends at a space or a brace.  %{U...} sets both  *)
(* line colors.                                                            *)
ValueTag ==
  /\ mode = "tag" /\ At(pos) \in Colors \cup {"U", "T", "O", "P"}
  /\ LET c == At(pos)
         p == First(pos + 1, EndOfValue)
         v == ValueOf(c, Value(pos + 1))
     IN IF v = Invalid THEN Error(p)
        ELSE /\ parsed' = parsed \o (IF c = "U" THEN <<Element("u", v), Element("o", v)>>
                                     ELSE <<Element(c, v)>>)
             /\ Proceed(p)
  /\ UNCHANGED <<raw, origin, input>>

(* An action opens with a command between colons, and closes without one.  *)
ActionTag ==
  /\ mode = "tag" /\ At(pos) = "A"
  /\ LET p == IF At(pos + 1) \in {"1", "9"} THEN pos + 2 ELSE pos + 1
         end == CommandEnd(p + 1)
     IN IF At(pos + 1) = "9" THEN Error(p)
        ELSE IF At(p) = ":"
        THEN /\ parsed' = Append(parsed,
                  Element("A", Unescape(SubSeq(input, p + 1, end - 1))))
             /\ Proceed(end + 1)
        ELSE parsed' = Append(parsed, Element("A", <<>>)) /\ Proceed(p)
  /\ UNCHANGED <<raw, origin, input>>

AttributeTag ==
  /\ mode = "tag" /\ At(pos) \in {"+", "-", "!"}
  /\ IF At(pos + 1) \in Attributes
     THEN parsed' = Append(parsed, Element(At(pos), <<At(pos + 1)>>)) /\ Proceed(pos + 2)
     ELSE Error(pos + 2)
  /\ UNCHANGED <<raw, origin, input>>

(* %{R} reads nothing more, nor do the alignments.                         *)
PlainTag ==
  /\ mode = "tag" /\ At(pos) \in {"R", "l", "c", "r"}
  /\ parsed' = Append(parsed, Element(At(pos), <<>>)) /\ Proceed(pos + 1)
  /\ UNCHANGED <<raw, origin, input>>

Unrecognized ==
  /\ mode = "tag"
  /\ At(pos) \notin Colors \cup {"U", "T", "O", "P", "A", "+", "-", "!", "R", "l", "c", "r"}
  /\ Error(pos + 1)
  /\ UNCHANGED <<raw, origin, input>>

End ==
  /\ mode = "text" /\ pos > Len(input) /\ mode' = "done"
  /\ UNCHANGED <<raw, origin, input, pos, parsed>>

Next ==
  \/ Text \/ NulByte \/ Open \/ ValueTag \/ ActionTag \/ AttributeTag
  \/ PlainTag \/ Unrecognized \/ End

Spec == Init /\ [][Next]_vars

-----------------------------------------------------------------------------
TypeOK ==
  /\ <<raw, origin>> \in Outputs /\ pos \in 1 .. Len(input) + 3
  /\ mode \in {"text", "tag", "thrown", "done"}

(* A script that leaves a tag or the command of an action unfinished.      *)
Unfinished(str) ==
  \E i \in 1 .. Len(str) - 1 :
    /\ str[i] = "%" /\ str[i + 1] = "{"
    /\ \/ "}" \notin {str[j] : j \in i .. Len(str)}
       \/ Cardinality({j \in i .. Len(str) : str[j] = ":"}) % 2 = 1

(* The parser reads back what the builder wrote, element by element,       *)
(* commands with colons and text with percent signs and braces included,   *)
(* and broken tags in the output of a script before it cost only           *)
(* themselves.  The exceptions: a command that ends in a backslash, and    *)
(* a script that leaves something unfinished; both take what follows.      *)
ParsedAsWritten ==
  mode = "done" =>
    \/ IsSuffix(origin, parsed) /\ (raw = <<>> => parsed = origin)
    \/ Unfinished(raw)
    \/ \E i \in DOMAIN origin :
         /\ origin[i].tag = "A" /\ origin[i].value # <<>>
         /\ Last(origin[i].value) = "\\"
=============================================================================
