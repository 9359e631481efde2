-------------------------------- MODULE Tags --------------------------------
(***************************************************************************)
(* Formatting elements and what they mean: the context of tags/context.cpp,*)
(* the stack of action blocks of tags/action_context.cpp and the order in  *)
(* which dispatch::parse() applies elements to them.                       *)
(*                                                                         *)
(* A color is one of the bar's own or another, a font the default or another. *)
(***************************************************************************)
EXTENDS Integers, Sequences

Element(tag, value) == [tag |-> tag, value |-> value]

Reset ==
  [bg |-> "bar background", fg |-> "bar foreground", ul |-> "bar underline",
   ol |-> "bar overline", font |-> "default", attrs |-> {}]

Fallback == [B |-> Reset.bg, F |-> Reset.fg, u |-> Reset.ul, o |-> Reset.ol]
Field == [B |-> "bg", F |-> "fg", u |-> "ul", o |-> "ol"]
ColorTags == DOMAIN Fallback

(* One formatting tag applied to context c.                                *)
Apply(c, e) ==
  CASE e.tag \in ColorTags ->
         [c EXCEPT ![Field[e.tag]] =
            IF e.value = "reset" THEN Fallback[e.tag] ELSE e.value]
    [] e.tag = "T" -> [c EXCEPT !.font = IF e.value = "reset" THEN Reset.font ELSE e.value]
    [] e.tag = "R" -> [c EXCEPT !.bg = c.fg, !.fg = c.bg]
    [] e.tag = "+" -> [c EXCEPT !.attrs = @ \cup {e.value}]
    [] e.tag = "-" -> [c EXCEPT !.attrs = @ \ {e.value}]
    [] e.tag = "!" -> [c EXCEPT !.attrs = (@ \ {e.value}) \cup ({e.value} \ @)]
    [] e.tag = "P" -> Reset
    [] OTHER -> c

ContextAfter(elements) ==
  LET after[n \in 0 .. Len(elements)] == IF n = 0 THEN Reset ELSE Apply(after[n - 1], elements[n])
  IN after[Len(elements)]

-----------------------------------------------------------------------------
(* Action blocks, in the order of their ids; "any" closes whatever button. *)
ActionOpen(blocks, button, align, x) ==
  Append(blocks, [button |-> button, align |-> align, start |-> x, end |-> 0,
                  open |-> TRUE])

Closes(block, button, align) ==
  block.open /\ block.align = align /\ button \in {"any", block.button}

(* The innermost block that is still open ends at x.                       *)
ActionClose(blocks, button, align, x) ==
  LET ids == {i \in DOMAIN blocks : Closes(blocks[i], button, align)}
      id == CHOOSE i \in ids : \A j \in ids : j <= i
  IN IF ids = {} THEN blocks
     ELSE [blocks EXCEPT ![id].open = FALSE, ![id].end = x]

Unclosed(blocks) == {i \in DOMAIN blocks : blocks[i].open}
=============================================================================
