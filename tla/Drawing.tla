------------------------------ MODULE Drawing ------------------------------
(***************************************************************************)
(* The drawtypes.  A label (drawtypes/label.cpp) is loaded with limits,    *)
(* completed by another one, filled with values by the runner of a module  *)
(* in each update and drawn by the worker, without a common lock.          *)
(* Below it the numbers of progress bars and ramps.                        *)
(*                                                                         *)
(* A text is a sequence of pieces: a character of some bytes, or a token.  *)
(* Operators whose name has a suffix are bugs that the code could have.    *)
(***************************************************************************)
EXTENDS Integers, Sequences, SequencesExt, FiniteSetsExt

CONSTANTS Loaded,    \* what a configuration says of a label
          Completes, \* [by, label]: nothing, or the label it meets
          Names,     \* the tokens, in the order in which update() replaces
          Updates    \* the values of each update: name -> text

VARIABLES
  label,
  pc,      \* "refused", "complete", "update", "replace", "broadcast"
  with,    \* what completes it
  todo,    \* updates to come
  left,    \* tokens that the running update has yet to replace
  m_tokenized,
  drawn,   \* what the worker has drawn last
  changed  \* a broadcast that it has not followed

vars == <<label, pc, with, todo, left, m_tokenized, drawn, changed>>

Char(bytes) == [is |-> "char", bytes |-> bytes]
Token(name) == [is |-> "token", name |-> name]
Blank == Char(1)
Dots == <<Char(1), Char(1), Char(1)>>
Blanks(n) == [i \in 1 .. n |-> Blank]

(* string_util: code points, bytes, and the first n code points.           *)
CharLen(text) == Len(text)
Bytes(text) == FoldLeft(LAMBDA n, p : n + IF p.is = "char" THEN p.bytes ELSE 1, 0, text)
Truncate(text, n) == IF n >= Len(text) THEN text ELSE SubSeq(text, 1, n)

-----------------------------------------------------------------------------
(* load_label(): a token is %name:min:max:suffix%.  What does not parse, -1, *)
(* ends the reading of the token; a max below min is dropped.              *)
NoLimits(t) == [name |-> t.name, min |-> 0, max |-> 0, suffix |-> <<>>]
Limits(t) ==
  CASE t.min = -1 -> NoLimits(t)
    [] t.min # -1 /\ t.max = -1 -> [NoLimits(t) EXCEPT !.min = t.min]
    [] OTHER -> [name |-> t.name, min |-> t.min, suffix |-> t.suffix,
                 max |-> IF t.max < t.min THEN 0 ELSE t.max]

IsToken(p) == p.is = "token"
Tokens(spec) ==
  LET written == SelectSeq(spec.text, IsToken) IN [i \in DOMAIN written |-> Limits(written[i])]
Stripped(spec) ==
  [i \in DOMAIN spec.text |-> IF IsToken(spec.text[i]) THEN Token(spec.text[i].name) ELSE spec.text[i]]

Refused(spec) ==
  spec.maxlen > 0 /\ (spec.maxlen < spec.minlen \/ (spec.ellipsis /\ spec.maxlen < 3))

LoadLabel(spec) ==
  [text |-> Stripped(spec), tokens |-> Tokens(spec), minlen |-> spec.minlen, maxlen |-> spec.maxlen,
   ellipsis |-> spec.ellipsis, alignment |-> spec.alignment, style |-> spec.style]

TypeOK ==
  /\ pc \in {"refused", "complete", "update", "replace", "broadcast"}
  /\ \A i \in DOMAIN label.tokens : label.tokens[i].name \in Range(Names)
  /\ \A i \in DOMAIN m_tokenized : m_tokenized[i].is \in {"char", "token"}
  /\ label.maxlen > 0 /\ label.ellipsis => pc = "refused" \/ label.maxlen >= 3

Init ==
  /\ \E spec \in Loaded :
       label = LoadLabel(spec) /\ pc = IF Refused(spec) THEN "refused" ELSE "complete"
  /\ with \in Completes /\ todo = Updates /\ left = <<>>
  /\ m_tokenized = label.text /\ drawn = <<>> /\ changed = FALSE

-----------------------------------------------------------------------------
(* copy_undefined() and replace_defined_values(), field by field; maxlen   *)
(* takes ellipsis with it.                                                 *)
Copied(l, from, wins(_)) ==
  [l EXCEPT !.style = [f \in DOMAIN @ |-> IF wins(<<@[f], from.style[f]>>) THEN from.style[f] ELSE @[f]],
            !.maxlen = IF wins(<<@, from.maxlen>>) THEN from.maxlen ELSE @,
            !.ellipsis = IF wins(<<l.maxlen, from.maxlen>>) THEN from.ellipsis ELSE @]
CopyUndefined(l, from) == Copied(l, from, LAMBDA p : p[1] = 0 /\ p[2] # 0)
ReplaceDefinedValues(l, from) == Copied(l, from, LAMBDA p : p[2] # 0)

Complete ==
  /\ pc = "complete" /\ pc' = "update"
  /\ label' = CASE with.by = "nothing" -> label
                [] with.by = "copy" -> CopyUndefined(label, LoadLabel(with.label))
                [] with.by = "replace" -> ReplaceDefinedValues(label, LoadLabel(with.label))
  /\ UNCHANGED <<with, todo, left, m_tokenized, drawn, changed>>

(* A token shows its value cut to max with the suffix, or filled to min -  *)
(* the one counts characters, the other bytes.                             *)
Limited(token, value) ==
  IF token.max # 0 /\ CharLen(value) > token.max THEN Truncate(value, token.max) \o token.suffix
  ELSE IF token.min # 0 /\ Bytes(value) < token.min THEN Blanks(token.min - Bytes(value)) \o value
  ELSE value

FirstOf(text, name) == Min({i \in DOMAIN text : text[i] = Token(name)})
HasToken(text, name) == Token(name) \in Range(text)
ReplaceFirst_All(text, name, value) ==
  FlattenSeq([i \in DOMAIN text |-> IF text[i] = Token(name) THEN value ELSE <<text[i]>>])
ReplaceFirst(text, name, value) ==
  IF ~HasToken(text, name) THEN text
  ELSE LET i == FirstOf(text, name)
       IN SubSeq(text, 1, i - 1) \o value \o SubSeq(text, i + 1, Len(text))

(* replace_token(): each token of the name in turn takes the first place   *)
(* that is left.                                                           *)
ReplaceToken(text, name, value) ==
  LET Place(t, token) == IF token.name = name THEN ReplaceFirst(t, name, Limited(token, value)) ELSE t
  IN FoldLeft(Place, text, label.tokens)

ResetTokens ==
  /\ pc = "update" /\ todo # <<>> /\ pc' = "replace"
  /\ m_tokenized' = label.text /\ left' = Names
  /\ UNCHANGED <<label, with, todo, drawn, changed>>

Replace ==
  /\ pc = "replace"
  /\ IF left = <<>> THEN pc' = "broadcast" /\ UNCHANGED <<m_tokenized, left>>
     ELSE /\ m_tokenized' = ReplaceToken(m_tokenized, Head(left), Head(todo)[Head(left)])
          /\ left' = Tail(left) /\ UNCHANGED pc
  /\ UNCHANGED <<label, with, todo, drawn, changed>>

Broadcast ==
  /\ pc = "broadcast" /\ pc' = "update" /\ changed' = TRUE /\ todo' = Tail(todo)
  /\ UNCHANGED <<label, with, left, m_tokenized, drawn>>

-----------------------------------------------------------------------------
(* get(): filled to minlen by the alignment, or cut to maxlen.             *)
Fill(l, text) ==
  LET n == l.minlen - CharLen(text)  half == (n + 1) \div 2
      left_fill == CASE l.alignment = "right" -> n
                     [] l.alignment = "left" -> 0
                     [] OTHER -> n - half
  IN Blanks(left_fill) \o text \o Blanks(n - left_fill)

Get(l, text) ==
  IF CharLen(text) < l.minlen THEN Fill(l, text)
  ELSE IF l.maxlen = 0 \/ CharLen(text) <= l.maxlen THEN text
  ELSE IF l.ellipsis THEN Truncate(text, l.maxlen - 3) \o Dots
  ELSE Truncate(text, l.maxlen)

(* The worker draws what is there, in the middle of an update too.         *)
Draw ==
  /\ pc \notin {"refused", "complete"} /\ drawn' = Get(label, m_tokenized) /\ changed' = FALSE
  /\ UNCHANGED <<label, pc, with, todo, left, m_tokenized>>

Next == Complete \/ ResetTokens \/ Replace \/ Broadcast \/ Draw
Spec == Init /\ [][Next]_vars

-----------------------------------------------------------------------------
(* Progress bar: widths, and the colors of a gradient.                     *)
FillWidth(perc, width) == (2 * perc * width + 100) \div 200
Inner(bar) == bar.width - IF bar.indicator THEN 1 ELSE 0
EmptyWidth(bar, perc) == Inner(bar) - FillWidth(perc, Inner(bar))
ColorStep(bar) == bar.width \div bar.colors
ColorAt(bar, i) == Min({i \div ColorStep(bar) + 1, bar.colors})

(* Ramp: the icon of a percentage, with or without borders.                *)
RampIndex(perc, icons) == Min({(perc * icons) \div 100, icons - 1})
Percentage(value, lo, hi) == (200 * (value - lo) + hi - lo) \div (2 * (hi - lo))
BorderIndex(value, lo, hi, icons) ==
  IF value <= lo THEN 0 ELSE IF value >= hi THEN icons - 1
  ELSE Min({(Percentage(value, lo, hi) * (icons - 2)) \div 100 + 1, icons - 1})

-----------------------------------------------------------------------------
(* Each occurrence of a token has its own limits: what is drawn once the   *)
(* update is over is the text with each place filled on its own - if no    *)
(* value has something in it that reads like a token.                      *)
OwnLimits(values) ==
  LET places == [i \in DOMAIN label.text |-> Cardinality({j \in 1 .. i : IsToken(label.text[j])})]
      Place(i) == IF IsToken(label.text[i])
                  THEN Limited(label.tokens[places[i]], values[label.text[i].name])
                  ELSE <<label.text[i]>>
  IN FlattenSeq([i \in DOMAIN label.text |-> Place(i)])

LastValues == Updates[Len(Updates) - Len(todo)]
Plainly(values) == \A n \in DOMAIN values : \A i \in DOMAIN values[n] : ~IsToken(values[n][i])

DrawnAsUpdated ==
  pc = "update" /\ todo # Updates /\ drawn # <<>> /\ ~changed /\ Plainly(LastValues) =>
    drawn = Get(label, OwnLimits(LastValues))

(* What is drawn keeps the limits of the label, also in the middle of an   *)
(* update; a label that got its maxlen from another one may break minlen.  *)
LimitsKept ==
  drawn # <<>> =>
    /\ label.maxlen > 0 /\ label.minlen <= label.maxlen => Len(drawn) <= label.maxlen
    /\ label.maxlen = 0 \/ label.minlen <= label.maxlen => Len(drawn) >= label.minlen

(* A bar is as wide as it was configured, at any percentage; a gradient    *)
(* with no more colors than the bar is wide uses them in order, from the   *)
(* first, without leaving one out.                                         *)
BarsAsConfigured ==
  todo = Updates /\ pc = "complete" =>
    \A width \in 1 .. 6, indicator \in BOOLEAN, colors \in 1 .. 6 :
      LET bar == [width |-> width, indicator |-> indicator, colors |-> colors] IN
        \A perc \in {0, 1, 49, 50, 51, 99, 100} :
          LET full == FillWidth(perc, Inner(bar)) IN
            /\ EmptyWidth(bar, perc) >= 0
            /\ (perc = 100) => EmptyWidth(bar, perc) = 0
            /\ colors <= width =>
                 \A i \in 1 .. full - 1 : ColorAt(bar, i) - ColorAt(bar, i - 1) \in {0, 1}

(* A ramp begins and ends where the value does, grows with it, and leaves  *)
(* no icon out; with borders the inner icons are for what lies between.    *)
RampsCover ==
  todo = Updates /\ pc = "complete" =>
    \A icons \in 1 .. 7 :
      /\ {RampIndex(p, icons) : p \in 0 .. 100} = 0 .. icons - 1
      /\ \A p \in 1 .. 100 : RampIndex(p, icons) >= RampIndex(p - 1, icons)
      /\ icons >= 3 =>
           LET Index(v) == BorderIndex(v, 20, 70, icons) IN
             /\ \A v \in 1 .. 100 : Index(v) >= Index(v - 1)
             /\ Index(20) = 0 /\ Index(70) = icons - 1 /\ Index(21) = 1
             /\ {Index(v) : v \in 21 .. 69} \subseteq 1 .. icons - 1
=============================================================================
