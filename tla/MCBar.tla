------------------------------- MODULE MCBar -------------------------------
(* Small instances of Bar: an empty bar, one with a single and a double    *)
(* click area on top of a wider one, and one with a single click area.     *)
EXTENDS Bar

Block(b, p, c) == [button |-> b, pos |-> p, cmd |-> c]

MCLayout ==
  [v \in 0 .. 2 |->
     CASE v = 0 -> <<>>
       [] v = 1 -> <<Block("left", 1, "menu"),
                     Block("double-left", 1, "close")>>
       [] v = 2 -> <<Block("scroll", 1, "up"), Block("left", 1, "toggle")>>]

MCFallbacks == [middle |-> "paste"]

MCPresses == {[button |-> b, pos |-> 1] : b \in {"left", "middle"}}
               \cup {[button |-> "scroll", pos |-> 1]}
LeftPress == {[button |-> "left", pos |-> 1]}
TwoButtons == {[button |-> b, pos |-> 1] : b \in {"left", "middle"}}
=============================================================================
