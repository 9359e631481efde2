------------------------------ MODULE Painting ------------------------------
(***************************************************************************)
(* How renderer.cpp paints the bar: borders, a background, one layer for   *)
(* each alignment, put together under a mask for the corners and, for      *)
(* pseudo-transparency, over the wallpaper; and cairo's stack of layers    *)
(* and clips (cairo/context.hpp) under it.                                 *)
(*                                                                         *)
(* A layer is a function from pixels to colours; "clear" is transparent.   *)
(* Where the blocks stand, with the one in the center, is Renderer's; here *)
(* are a left and a right one.                                             *)
(***************************************************************************)
EXTENDS Integers, Sequences, FiniteSets, SequencesExt

CONSTANTS Settings,  \* [w, h, border, radius, line, bg, pseudo], border of
                     \* [top, bottom, left, right]
          Gap,       \* BLOCK_GAP
          TrayWidths, Widths, MaxOps, MaxDraws \* bounds on what the draws do and on them

VARIABLES
  m_bar, m_rect,     \* m_rect: [x, y, w, h]
  stack,             \* [layer, clip], the last one is drawn to
  m_align, m_blocks, \* m_blocks: alignment -> [x, has, pattern]
  m_cornermask, mask_rect, \* the pixels of the mask, and of which rectangle
  wallpaper, window,
  phase, texts, ops, draws, lost  \* history: texts of this draw; bounds;
                                  \* a pattern that nobody destroys

vars == <<m_bar, m_rect, stack, m_align, m_blocks, m_cornermask, mask_rect, wallpaper, window,
          phase, texts, ops, draws, lost>>

Pixels == (0 .. m_bar.w - 1) \X (0 .. m_bar.h - 1)
Rect(x, y, w, h) == {p \in Pixels : p[1] >= x /\ p[1] < x + w /\ p[2] >= y /\ p[2] < y + h}
Clear == [p \in Pixels |-> "clear"]
Inside(r) == Rect(r.x, r.y, r.w, r.h)

-----------------------------------------------------------------------------
(* cairo: a colour replaces what is there (SOURCE) or lies over it (OVER), *)
(* where the clip is.                                                      *)
Source(layer, color, where) == [p \in Pixels |-> IF p \in where THEN color ELSE layer[p]]
Over(layer, pattern, where) ==
  [p \in Pixels |-> IF p \in where /\ pattern[p] # "clear" THEN pattern[p] ELSE layer[p]]
Moved(pattern, x) ==
  [p \in Pixels |-> IF <<p[1] - x, p[2]>> \in Pixels THEN pattern[<<p[1] - x, p[2]>>] ELSE "clear"]

Draw(s, Op(_, _)) == [s EXCEPT ![Len(s)].layer = Op(@, s[Len(s)].clip)]
Push(s) == Append(s, [layer |-> Clear, clip |-> s[Len(s)].clip])

-----------------------------------------------------------------------------
(* fill_borders(): the straight pieces end where the round ones begin; a   *)
(* round one is as wide as the border beside it.                           *)
Inner(tray) ==
  LET b == m_bar.border
  IN [x |-> b.left, y |-> b.top, w |-> m_bar.w - b.left - b.right - tray, h |-> m_bar.h - b.top - b.bottom]

StraightBorders ==
  LET b == m_bar.border
      r == m_bar.radius
      at(size) == IF r > 0 THEN size + r ELSE 0
  IN <<IF b.top = 0 THEN {} ELSE Rect(b.left + r, 0, m_bar.w - b.left - b.right - 2 * r, b.top),
       IF b.bottom = 0 THEN {} ELSE Rect(b.left + r, m_bar.h - b.bottom, m_bar.w - b.left - b.right - 2 * r, b.bottom),
       IF b.left = 0 THEN {} ELSE Rect(0, at(b.top), b.left, m_bar.h - at(b.top) - at(b.bottom)),
       IF b.right = 0 THEN {} ELSE Rect(m_bar.w - b.right, at(b.top), b.right, m_bar.h - at(b.top) - at(b.bottom))>>
Tips == {<<0, 0>>, <<0, m_bar.h - 1>>, <<m_bar.w - 1, 0>>, <<m_bar.w - 1, m_bar.h - 1>>}
RoundBorders ==
  LET b == m_bar.border
      r == m_bar.radius
      box(size, x, y) == IF r = 0 \/ size = 0 THEN {} ELSE Rect(x, y, size + r, size + r) \ (Inside(Inner(0)) \cup Tips)
  IN <<box(b.left, 0, 0), box(b.left, 0, m_bar.h - b.left - r),
       box(b.right, m_bar.w - b.right - r, 0), box(b.right, m_bar.w - b.right - r, m_bar.h - b.right - r)>>
Borders == StraightBorders \o RoundBorders

(* rounded_corners, as a mask: with a radius the pixels at the corners go. *)
Rounded(r) ==
  Inside(r) \ (IF m_bar.radius = 0 THEN {}
               ELSE {<<r.x, r.y>>, <<r.x, r.y + r.h - 1>>, <<r.x + r.w - 1, r.y>>, <<r.x + r.w - 1, r.y + r.h - 1>>})

-----------------------------------------------------------------------------
Alignments == {"left", "right"}
NoBlock == [x |-> 0, has |-> FALSE, pattern |-> Clear]

TypeOK ==
  /\ m_bar \in Settings /\ phase \in {"idle", "draw", "stale"} /\ Len(stack) \in 1 .. 3
  /\ m_align \in Alignments \cup {"none"} /\ lost \in BOOLEAN /\ DOMAIN m_blocks = Alignments

Init ==
  /\ m_bar \in Settings /\ m_rect = Inner(0) /\ stack = <<[layer |-> Clear, clip |-> Pixels]>>
  /\ m_align = "none" /\ m_blocks = [a \in Alignments |-> NoBlock]
  /\ m_cornermask = {} /\ mask_rect = m_rect /\ wallpaper = "clear" /\ window = Clear
  /\ phase = "idle" /\ texts = <<>> /\ ops = 0 /\ draws = 0 /\ lost = FALSE

FillBackground(s) == Draw(s, LAMBDA l, c : Source(l, m_bar.bg, c))

(* begin(): with what the tray leaves; the mask is made once.              *)
Begin(tray) ==
  /\ phase # "draw" /\ draws < MaxDraws /\ phase' = "draw" /\ draws' = draws + 1
  /\ m_rect' = Inner(tray) /\ m_align' = "none" /\ texts' = <<>> /\ lost' = FALSE
  /\ IF m_bar.radius > 0 /\ m_cornermask = {}
     THEN m_cornermask' = Rounded(m_rect') /\ mask_rect' = m_rect'
     ELSE UNCHANGED <<m_cornermask, mask_rect>>
  /\ LET base     == <<[layer |-> Clear, clip |-> Pixels]>>
         layers   == IF m_bar.pseudo THEN Push(base) ELSE base
         bordered == Draw(layers, LAMBDA l, c : Source(l, "border", UNION Range(Borders)))
     IN stack' = [bordered EXCEPT ![Len(bordered)].clip = Inside(m_rect')]
  /\ UNCHANGED <<m_bar, m_blocks, wallpaper, window, ops>>

(* change_alignment(): the layer of the block before is kept for end().    *)
Popped ==
  IF m_align = "none" THEN [blocks |-> m_blocks, stack |-> stack]
  ELSE [blocks |-> [m_blocks EXCEPT ![m_align].has = TRUE, ![m_align].pattern = Last(stack).layer],
        stack |-> Front(stack)]
Lost == m_align # "none" /\ m_blocks[m_align].has
ChangeAlignment(a) ==
  /\ phase = "draw" /\ ops < MaxOps /\ ops' = ops + 1
  /\ a # m_align /\ m_align' = a /\ lost' = (lost \/ Lost)
  /\ m_blocks' = [Popped.blocks EXCEPT ![a].x = 0]
  /\ stack' = FillBackground(Push(Popped.stack))
  /\ texts' = SelectSeq(texts, LAMBDA t : t.align # a)
  /\ UNCHANGED <<m_bar, m_rect, m_cornermask, mask_rect, wallpaper, window, phase, draws>>

(* render_text(), with the line under it.                                  *)
RenderText(w, under) ==
  /\ phase = "draw" /\ m_align # "none" /\ ops < MaxOps /\ ops' = ops + 1
  /\ LET x    == m_blocks[m_align].x
         text == Rect(m_rect.x + x, m_rect.y, w, m_rect.h)
         line == Rect(m_rect.x + x, m_rect.y + m_rect.h - m_bar.line, w, m_bar.line)
     IN /\ stack' = Draw(stack, LAMBDA l, c :
                      Source(Source(l, m_align, c \cap text), "line", IF under THEN c \cap line ELSE {}))
        /\ m_blocks' = [m_blocks EXCEPT ![m_align].x = x + w]
        /\ texts' = Append(texts, [align |-> m_align, x |-> x, w |-> w, under |-> under])
  /\ UNCHANGED <<m_bar, m_rect, m_align, m_cornermask, mask_rect, wallpaper, window, phase, draws, lost>>

-----------------------------------------------------------------------------
BlockX(a, blocks) ==
  LET min == IF blocks["left"].x = 0 THEN 0 ELSE blocks["left"].x + Gap
  IN IF a = "left" THEN 0
     ELSE IF m_rect.w - blocks["right"].x > min THEN m_rect.w - blocks["right"].x ELSE min

(* flush(a): in the rectangle of the block what is there is cleared first. *)
Flush(s, a, blocks) ==
  IF ~blocks[a].has THEN s
  ELSE LET x     == BlockX(a, blocks)
           where == Rect(m_rect.x + x, m_rect.y, blocks[a].x, m_rect.h)
       IN Draw(s, LAMBDA l, c : Over(Source(l, "clear", c \cap where), Moved(blocks[a].pattern, x), c \cap where))

(* end(): a layer for the background and the blocks, through the mask;     *)
(* without any block only the background.  Then the wallpaper under it.    *)
Contents ==
  LET blocks == Popped.blocks
      layers == Flush(Flush(FillBackground(Push(Popped.stack)), "left", blocks), "right", blocks)
      masked(c) == IF m_bar.radius > 0 THEN c \cap m_cornermask ELSE c
  IN IF m_align = "none" THEN FillBackground(stack)
     ELSE Draw(Front(layers), LAMBDA l, c : Over(l, Last(layers).layer, masked(c)))
Finished ==
  IF m_bar.pseudo
  THEN Draw(Front(Contents), LAMBDA l, c : Over(Source(l, wallpaper, c), Last(Contents).layer, c))
  ELSE Contents

End ==
  /\ phase = "draw" /\ phase' = "idle" /\ lost' = (lost \/ Lost)
  /\ stack' = [i \in DOMAIN Finished |-> [Finished[i] EXCEPT !.clip = IF i = 1 THEN Pixels ELSE @]]
  /\ window' = stack'[1].layer
  /\ m_blocks' = [a \in Alignments |-> [NoBlock EXCEPT !.x = m_blocks[a].x]]
  /\ UNCHANGED <<m_bar, m_rect, m_align, m_cornermask, mask_rect, wallpaper, texts, ops, draws>>

(* The root window gets a wallpaper; the next draw has it.                 *)
Wallpaper ==
  /\ phase = "idle" /\ m_bar.pseudo /\ wallpaper = "clear" /\ wallpaper' = "wall" /\ phase' = "stale"
  /\ UNCHANGED <<m_bar, m_rect, stack, m_align, m_blocks, m_cornermask, mask_rect, window, texts, ops, draws, lost>>

Next ==
  \/ \E tray \in TrayWidths : Begin(tray)
  \/ \E a \in Alignments : ChangeAlignment(a)
  \/ \E w \in Widths : RenderText(w, w % 2 = 0)
  \/ End \/ Wallpaper
Spec == Init /\ [][Next]_vars

-----------------------------------------------------------------------------
Done == phase = "idle" /\ draws > 0
Behind == IF m_bar.pseudo THEN wallpaper ELSE "clear"

(* What the bar should look like at a pixel: the border around, the text   *)
(* that reaches there, the background; where that is transparent, outside  *)
(* of round corners and where the tray is, what is behind the bar.         *)
At(t, p) ==
  LET x == m_rect.x + BlockX(t.align, m_blocks) + t.x IN p[1] >= x /\ p[1] < x + t.w
Expected(p) ==
  LET r   == Inner(0)
      own == {i \in DOMAIN texts : At(texts[i], p)}
      t   == texts[CHOOSE i \in own : \A j \in own : texts[i].align = "right" \/ texts[j].align = "left"]
  IN IF p \notin Inside(r) THEN (IF m_bar.radius > 0 /\ p \in Tips THEN Behind ELSE "border")
     ELSE IF p \notin Rounded(m_rect) THEN Behind
     ELSE IF own # {} THEN (IF t.under /\ p[2] >= r.y + r.h - m_bar.line THEN "line" ELSE t.align)
     ELSE IF m_bar.bg = "clear" THEN Behind ELSE m_bar.bg

(* The window shows that after each draw, whatever the draw before it had: *)
(* unless an empty bar has its background in round corners too, or the     *)
(* corners are round for a tray that was narrower or wider.                *)
WindowAsDrawn ==
  Done /\ (m_bar.radius = 0 \/ (m_align # "none" /\ mask_rect = m_rect)) =>
    \A p \in Pixels : window[p] = Expected(p)

(* Every push has its pop, and every pattern is destroyed unless the       *)
(* contents come back to an alignment that they had left.                  *)
LayersBalanced ==
  Done => Len(stack) = 1 /\ \A a \in Alignments : ~m_blocks[a].has

(* Borders meet without covering each other, when those that meet in a     *)
(* round corner are equally wide.                                          *)
BordersOnce ==
  LET area == Pixels \ (Inside(Inner(0)) \cup (IF m_bar.radius > 0 THEN Tips ELSE {}))
  IN \A p \in area : Cardinality({i \in DOMAIN Borders : p \in Borders[i]}) = 1
=============================================================================
