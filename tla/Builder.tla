------------------------------ MODULE Builder ------------------------------
(***************************************************************************)
(* How a module puts its contents together: builder.cpp, the output of     *)
(* module<Impl> (modules/meta/base.inl) and module_format::decorate() of   *)
(* modules/meta/base.cpp.  A format is a sequence of pieces, text and tags *)
(* that the module builds from labels, from actions or from raw output.    *)
(*                                                                         *)
(* Text is an element "x" and every space one of its own.  Operators whose *)
(* name has a suffix are bugs that the code could have.                    *)
(***************************************************************************)
EXTENDS Tags, SequencesExt

CONSTANTS
  Pieces,      \* what a format is made of: [kind, label]
  Formats,     \* sequences of pieces
  Styles,      \* of a format: [colors, font, offset, padding, spacing, prefix]
  BarSpacing

VARIABLES
  format, style,   \* the format of the module
  todo,            \* pieces that are not built yet
  build,           \* the builder: [tags, attrs, output]
  no_tag_built,
  phase,           \* "build", "decorate", "wrap", "contents", "done"
  flushed,         \* the output of the last flush()
  m_cache

vars == <<format, style, todo, build, no_tag_built, phase, flushed, m_cache>>

Text == Element("x", "")
Space == Element(" ", "")
Spaces(n) == [i \in 1 .. n |-> Space]

-----------------------------------------------------------------------------
(* The builder.                                                            *)
Empty == [tags |-> [t \in ColorTags \cup {"A", "T", "O", "P"} |-> 0],
          attrs |-> {}, output |-> <<>>]

If(condition, then, else) == IF condition THEN then ELSE else
Put(b, elements) == [b EXCEPT !.output = @ \o elements]

TagOpen(b, tag, value) == Put([b EXCEPT !.tags[tag] = @ + 1], <<Element(tag, value)>>)
TagClose(b, tag) ==
  IF b.tags[tag] = 0 THEN b
  ELSE Put([b EXCEPT !.tags[tag] = @ - 1], <<Element(tag, "reset")>>)

AttrOpen(b, attr) ==
  IF attr \in b.attrs THEN b
  ELSE Put([b EXCEPT !.attrs = @ \cup {attr}], <<Element("+", attr)>>)
AttrClose(b, attr) ==
  IF attr \notin b.attrs THEN b
  ELSE Put([b EXCEPT !.attrs = @ \ {attr}], <<Element("-", attr)>>)

Font(b, index) == If(index = "none", b, TagOpen(b, "T", index))

(* An over- or underline with a color switches the attribute on as well.   *)
Color(b, tag) ==
  LET colored == TagOpen(b, tag, "own")
  IN If(tag \in {"u", "o"}, AttrOpen(colored, tag), colored)

(* Its end switches the attribute off, and leaves the color to flush().    *)
ColorClose(b, tag) == If(tag \in {"u", "o"}, AttrClose(b, tag), TagClose(b, tag))

Each(op(_, _), b, tags, order) ==
  FoldLeft(op, b, SelectSeq(order, LAMBDA t : t \in tags))

(* space(0) inserts the spacing of the bar.                                *)
AddSpace(b, width) == Put(b, Spaces(If(width = 0, BarSpacing, width)))

RemoveTrailingSpace(b, len) ==
  LET n == Len(b.output) IN
    IF len = 0 \/ len > n \/ SubSeq(b.output, n - len + 1, n) # Spaces(len) THEN b
    ELSE [b EXCEPT !.output = SubSeq(@, 1, n - len)]

(* node(label): an empty label gives nothing.  font_close() runs whether   *)
(* or not the label has a font.                                            *)
Node(b, label) ==
  LET opened == Each(Color, Put(b, Spaces(label.margin)), label.colors,
                     <<"o", "u", "B", "F">>)
      filled == TagClose(Put(Font(opened, label.font), <<Text>>), "T")
  IN IF label.empty THEN b
     ELSE Put(Each(ColorClose, filled, label.colors, <<"B", "F", "u", "o">>),
              Spaces(label.margin))

Action(b) == TagOpen(b, "A", "left")
ActionNode(b, label) == If(label.empty, b, TagClose(Node(Action(b), label), "A"))

Repeat(b, tag) == Put(b, [i \in 1 .. b.tags[tag] |-> Element(tag, "reset")])

Flush_OneAction(b) ==
  LET colors == Each(TagClose, b, ColorTags \cup {"T"}, <<"B", "F", "T", "o", "u">>)
      attrs == Each(AttrClose, colors, {"u", "o"}, <<"u", "o">>)
  IN TagClose(attrs, "A").output

(* flush() closes what is open: a color or font once, every action.        *)
Flush(b) ==
  LET colors == Each(TagClose, b, ColorTags \cup {"T"}, <<"B", "F", "T", "o", "u">>)
      attrs == Each(AttrClose, colors, {"u", "o"}, <<"u", "o">>)
  IN Repeat(attrs, "A").output

-----------------------------------------------------------------------------
Init ==
  /\ format \in Formats /\ style \in Styles
  /\ todo = format /\ build = Empty /\ no_tag_built = TRUE
  /\ phase = "build" /\ flushed = <<>> /\ m_cache = <<>>

(* Text between tags: leading spaces are dropped while no tag is built.    *)
BuildText ==
  /\ phase = "build" /\ todo # <<>> /\ Head(todo).kind \in {"text", "space"}
  /\ todo' = Tail(todo)
  /\ build' = IF Head(todo).kind = "text" THEN Put(build, <<Text>>)
              ELSE If(no_tag_built /\ todo' # <<>>, build, Put(build, <<Space>>))
  /\ UNCHANGED <<format, style, no_tag_built, phase, flushed, m_cache>>

(* What a module's build() does for one tag: it may have nothing to build. *)
Built(b, piece) ==
  CASE piece.kind = "node" -> Node(b, piece.label)
    [] piece.kind = "action" -> ActionNode(b, piece.label)
    [] piece.kind = "open" -> Node(Action(b), piece.label)
    [] piece.kind = "raw" -> Put(b, <<Element("F", "raw"), Element("+", "u"), Text>>)

(* A tag that is not built gives back the space before it.                 *)
BuildTag ==
  /\ phase = "build" /\ todo # <<>> /\ Head(todo).kind \notin {"text", "space"}
  /\ todo' = Tail(todo)
  /\ LET spaced == If(no_tag_built, build, AddSpace(build, style.spacing)) IN
       IF Head(todo).kind = "nothing"
       THEN /\ build' = If(no_tag_built, spaced,
                  RemoveTrailingSpace(spaced, If(style.spacing = 0, 1, style.spacing)))
            /\ UNCHANGED no_tag_built
       ELSE build' = Built(spaced, Head(todo)) /\ no_tag_built' = FALSE
  /\ UNCHANGED <<format, style, phase, flushed, m_cache>>

FlushFormat ==
  /\ phase = "build" /\ todo = <<>>
  /\ flushed' = Flush(build) /\ build' = Empty /\ phase' = "decorate"
  /\ UNCHANGED <<format, style, todo, no_tag_built, m_cache>>

(* decorate(): the colors are opened twice, around the prefix and again    *)
(* after it.  Output that is empty stays empty.                            *)
Decorated(output) ==
  LET order == <<"B", "F", "u", "o">>
      offset == If(style.offset, TagOpen(Empty, "O", "10"), Empty)
      opened == Each(Color, offset, style.colors, order)
      padded == Put(Font(opened, style.font), Spaces(style.padding))
      prefix == If(style.prefix, Node(padded, [empty |-> FALSE, colors |-> {"F", "u"},
                                               font |-> "none", margin |-> 0]), padded)
      inner == Put(Put(Each(Color, prefix, style.colors, order), output),
                   Spaces(style.padding))
      unfont == If(style.font = "none", inner, TagClose(inner, "T"))
  IN Each(ColorClose, unfont, style.colors, <<"o", "u", "F", "B">>)

Decorate ==
  /\ phase = "decorate" /\ phase' = "wrap"
  /\ flushed' = IF flushed = <<>> THEN <<>> ELSE Flush(Decorated(flushed))
  /\ UNCHANGED <<format, style, todo, build, no_tag_built, m_cache>>

(* A script wraps its output in its click actions, which it never closes   *)
(* itself.                                                                 *)
Wrap ==
  /\ phase = "wrap" /\ phase' = "contents"
  /\ \/ UNCHANGED flushed
     \/ flushed # <<>> /\ flushed' = Flush(Put(Action(Action(Empty)), flushed))
  /\ UNCHANGED <<format, style, todo, build, no_tag_built, m_cache>>

(* contents() adds a reset tag at the edge of the module.                  *)
Contents ==
  /\ phase = "contents" /\ phase' = "done"
  /\ m_cache' = IF flushed = <<>> THEN <<>>
                ELSE flushed \o Flush(TagOpen(Empty, "P", "R"))
  /\ UNCHANGED <<format, style, todo, build, no_tag_built, flushed>>

Next ==
  BuildText \/ BuildTag \/ FlushFormat \/ Decorate \/ Wrap \/ Contents

Spec == Init /\ [][Next]_vars

-----------------------------------------------------------------------------
(* Actions that are open after the elements: every close matches.          *)
ActionsAfter(elements) ==
  LET Step(blocks, e) ==
        CASE e.tag = "A" /\ e.value = "reset" -> ActionClose(blocks, "any", "left", 0)
          [] e.tag = "A" -> ActionOpen(blocks, e.value, "left", 0)
          [] OTHER -> blocks
  IN FoldLeft(Step, <<>>, elements)

Closed(elements) ==
  ContextAfter(elements) = Reset /\ Unclosed(ActionsAfter(elements)) = {}

RawUsed == \E i \in DOMAIN format : format[i].kind = "raw"

TypeOK ==
  /\ format \in Formats /\ style \in Styles /\ no_tag_built \in BOOLEAN
  /\ phase \in {"build", "decorate", "wrap", "contents", "done"}
  /\ \A t \in DOMAIN build.tags : build.tags[t] \in 0 .. 4

(* flush() closes everything that was opened, whatever was opened how many *)
(* times and closed by whom; and what a script prints raw ends at the edge *)
(* of its module: a module never changes the look of the next.             *)
EdgesClean ==
  /\ phase \notin {"build"} /\ ~RawUsed => Closed(flushed)
  /\ phase = "done" => Closed(m_cache)
=============================================================================
