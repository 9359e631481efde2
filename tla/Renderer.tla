------------------------------ MODULE Renderer ------------------------------
(***************************************************************************)
(* Where things are on the bar: controller::process_update() joins the     *)
(* contents of the modules, dispatch::parse() hands their elements to the  *)
(* renderer, which draws them into one block for each alignment, and to    *)
(* the action context, which keeps areas relative to those blocks; end()   *)
(* places the blocks.  Blocks keep their width from one draw to the next.  *)
(*                                                                         *)
(* A module's contents are elements of a width, offsets and action tags.   *)
(* Lengths are in half pixels, so that the middle of the bar is exact.     *)
(* Operators whose name has a suffix are bugs that the code could have.    *)
(***************************************************************************)
EXTENDS Tags

CONSTANTS
  Bars,        \* settings: [width, x, rect, fixed, gap, separator, padding]
  Modules,     \* contents that a module may have, <<>> for none
  MaxDraws     \* bound on the number of draws

Alignments == {"left", "center", "right"}
Order == <<"left", "center", "right">>

VARIABLES
  bar,               \* the settings
  shown,             \* what is drawn: alignment -> contents of its modules
  rest,              \* elements that dispatch has not seen yet
  m_align, m_blocks, \* current block; alignment -> width
  actions,           \* action blocks
  texts,             \* history: texts in the blocks, with their actions
  m_align_start,     \* where the action context thinks that blocks start
  phase, draws

vars == <<bar, shown, rest, m_align, m_blocks, actions, texts, m_align_start,
          phase, draws>>

-----------------------------------------------------------------------------
(* process_update(): modules with contents, a separator between them, and  *)
(* padding at the outer edges.                                             *)
Sized(tag, length) == [tag |-> tag, length |-> length, name |-> ""]
Named(tag, name) == [tag |-> tag, length |-> 0, name |-> name]
Text(width) == Sized("text", width)

Joined(modules) ==
  LET full == SelectSeq(modules, LAMBDA m : m # <<>>)
      Part(i) == IF i > 1 /\ bar.separator > 0
                 THEN <<Text(bar.separator)>> \o full[i] ELSE full[i]
      upto[i \in 0 .. Len(full)] == IF i = 0 THEN <<>> ELSE upto[i - 1] \o Part(i)
  IN upto[Len(full)]

Padding(a) == IF bar.padding = 0 THEN <<>> ELSE <<Text(bar.padding)>>

BlockContents(a, modules) ==
  LET joined == Joined(modules) IN
    IF joined = <<>> THEN <<>>
    ELSE <<Named("align", a)>>
           \o (IF a = "left" THEN Padding(a) ELSE <<>>) \o joined
           \o (IF a = "right" THEN Padding(a) ELSE <<>>)

Contents(modules) ==
  LET block(i) == BlockContents(Order[i], modules[Order[i]])
  IN block(1) \o block(2) \o block(3)

-----------------------------------------------------------------------------
(* Positions of the blocks, from the left of the drawing area.             *)
Higher(a, b) == IF a > b THEN a ELSE b
Lower(a, b) == IF a < b THEN a ELSE b
After(x, width) == x + width + (IF width = 0 THEN 0 ELSE bar.gap)

(* The center block: pushed left by the right one and right by the left    *)
(* one.                                                                    *)
CenterX_NoPush(w) ==
  Lower(bar.width \div 2 - bar.x, bar.rect - w["right"] - w["center"] \div 2)
    - w["center"] \div 2

CenterX(w) ==
  LET min == After(0, w["left"])
      max == bar.rect - After(0, w["right"])
      base == IF bar.fixed
              THEN Lower(bar.width \div 2 - bar.x, max - w["center"] \div 2)
              ELSE (min + max) \div 2
  IN Higher(base - w["center"] \div 2, min)

(* The right block: after the center block, or the left one if the width   *)
(* of the center block is 0.                                               *)
RightX(w) ==
  LET min == IF w["center"] = 0 THEN After(0, w["left"])
             ELSE After(CenterX(w), w["center"])
  IN Higher(bar.rect - w["right"], min)

BlockX(w) ==
  [a \in Alignments |->
     CASE a = "left" -> 0
       [] a = "center" -> CenterX(w)
       [] a = "right" -> RightX(w)]

-----------------------------------------------------------------------------
Init ==
  /\ bar \in Bars /\ shown = [a \in Alignments |-> <<>>]
  /\ rest = <<>> /\ m_align = "none"
  /\ m_blocks = [a \in Alignments |-> 0] /\ actions = <<>> /\ texts = {}
  /\ m_align_start = [a \in Alignments |-> 0]
  /\ phase = "idle" /\ draws = 0

(* bar::parse(): begin() of the renderer, and the reset of the actions by  *)
(* dispatch::parse().  The widths stay.                                    *)
Begin ==
  /\ phase = "idle" /\ draws < MaxDraws /\ draws' = draws + 1
  /\ \E l, c, r \in Modules : \E n \in BOOLEAN :
       shown' = [left |-> IF n THEN <<l, r>> ELSE <<l>>, center |-> <<c>>,
                 right |-> <<r>>]
  /\ rest' = Contents(shown') /\ phase' = "dispatch"
  /\ m_align' = "none" /\ actions' = <<>> /\ texts' = {}
  /\ UNCHANGED <<bar, m_blocks, m_align_start>>

DispatchAt(tag) ==
  /\ phase = "dispatch" /\ rest # <<>> /\ Head(rest).tag = tag
  /\ rest' = Tail(rest)

(* Another block begins empty; what was drawn in it before is replaced.    *)
ChangeAlignment ==
  /\ DispatchAt("align")
  /\ LET a == Head(rest).name IN
       IF a = m_align THEN UNCHANGED <<m_align, m_blocks, texts>>
       ELSE /\ m_align' = a /\ m_blocks' = [m_blocks EXCEPT ![a] = 0]
            /\ texts' = {t \in texts : t.align # a}
  /\ UNCHANGED <<bar, shown, actions, m_align_start, phase, draws>>

RenderText ==
  /\ DispatchAt("text")
  /\ LET x == m_blocks[m_align]
         width == Head(rest).length
     IN /\ m_blocks' = [m_blocks EXCEPT ![m_align] = x + width]
        /\ texts' = texts \cup
             {[align |-> m_align, start |-> x, end |-> x + width,
               actions |-> Unclosed(actions)]}
  /\ UNCHANGED <<bar, shown, m_align, actions, m_align_start, phase, draws>>

RenderOffset ==
  /\ DispatchAt("offset")
  /\ m_blocks' = [m_blocks EXCEPT ![m_align] = @ + Head(rest).length]
  /\ UNCHANGED <<bar, shown, m_align, actions, texts, m_align_start, phase, draws>>

HandleAction ==
  /\ DispatchAt("A")
  /\ LET x == m_blocks[m_align] IN
       actions' = IF Head(rest).name \in {"close", "close any"}
                  THEN ActionClose(actions,
                         IF Head(rest).name = "close" THEN "left" ELSE "any",
                         m_align, x)
                  ELSE ActionOpen(actions, Head(rest).name, m_align, x)
  /\ UNCHANGED <<bar, shown, m_align, m_blocks, texts, m_align_start, phase, draws>>

End_NoOffset ==
  /\ phase = "dispatch" /\ rest = <<>> /\ phase' = "idle"
  /\ m_align_start' = BlockX(m_blocks)
  /\ UNCHANGED <<bar, shown, rest, m_align, m_blocks, actions, texts, draws>>

(* The end of dispatch::parse(), with or without unclosed actions, and     *)
(* end(), which paints the blocks.                                         *)
End ==
  /\ phase = "dispatch" /\ rest = <<>> /\ phase' = "idle"
  /\ m_align_start' = [a \in Alignments |-> BlockX(m_blocks)[a] + bar.x]
  /\ UNCHANGED <<bar, shown, rest, m_align, m_blocks, actions, texts, draws>>

Next ==
  \/ Begin \/ ChangeAlignment \/ RenderText \/ RenderOffset \/ HandleAction
  \/ End

Spec == Init /\ [][Next]_vars

-----------------------------------------------------------------------------
TypeOK ==
  /\ bar \in Bars /\ phase \in {"idle", "dispatch"} /\ draws \in 0 .. MaxDraws
  /\ m_align \in Alignments \cup {"none"}
  /\ DOMAIN m_blocks = Alignments

Drawn == phase = "idle" /\ draws > 0

(* flush() paints a block at a whole pixel, half up; test() truncates.     *)
PaintedAt(x) == ((x + 1) \div 2) * 2
ClickedAt(x) == (x \div 2) * 2

(* The area of a closed action lies under the text that was written inside *)
(* it, to the pixel that the two roundings may differ by.                  *)
ClicksOnText ==
  Drawn =>
    \A t \in texts : \A id \in t.actions :
      LET a == actions[id]
          painted == PaintedAt(BlockX(m_blocks)[t.align]) + bar.x
      IN a.open \/
           /\ a.align = t.align
           /\ ClickedAt(a.start + m_align_start[a.align]) <= painted + t.start
           /\ painted + t.end <= ClickedAt(a.end + m_align_start[a.align]) + 2

Used(a) == Joined(shown[a]) # <<>>

(* Widths are those of glyphs, which cairo rounds to whole pixels; only an *)
(* offset, which may be negative, can make a block less than nothing.      *)
WholePixels == \A a \in Alignments : m_blocks[a] \in Nat /\ m_blocks[a] % 2 = 0
Fits ==
  WholePixels /\ After(0, m_blocks["left"]) + After(0, m_blocks["center"]) + m_blocks["right"] <= bar.rect

(* If the contents fit, all blocks are on the bar and none covers another. *)
(* A block that this draw did not use still takes the room of its last     *)
(* contents: the exception.  Nothing of a block without width is seen.     *)
BlocksVisible ==
  Drawn =>
    LET x == BlockX(m_blocks)
        w == m_blocks
    IN \/ \E a \in Alignments : ~Used(a) /\ w[a] # 0
       \/ ~Fits
       \/ /\ w["right"] # 0 => /\ x["right"] + w["right"] <= bar.rect
                               /\ x["right"] >= w["left"]
                               /\ x["right"] >= x["center"] + w["center"]
          /\ w["center"] # 0 => /\ x["center"] + w["center"] <= bar.rect
                                /\ x["center"] >= w["left"]

-----------------------------------------------------------------------------
(* What is proved of it.  The settings of a bar are lengths.               *)
Measures ==
  \A b \in Bars :
    b.width \in Nat /\ b.x \in Nat /\ b.rect \in Nat /\ b.gap \in Nat /\ b.fixed \in BOOLEAN

Inv == bar \in Bars
=============================================================================
