------------------------------- MODULE Fonts -------------------------------
(***************************************************************************)
(* How a text becomes glyphs: the configured fonts and their sizes         *)
(* (renderer.cpp, cairo/font.hpp), the conversion from UTF-8 and back      *)
(* (cairo/utils.cpp), and the search for a font that has each character    *)
(* (operator<< for textblock in cairo/context.hpp).                        *)
(*                                                                         *)
(* Texts are sequences of bytes.  All glyphs of a font are as wide as it   *)
(* is high.                                                                *)
(***************************************************************************)
EXTENDS Integers, Sequences, SequencesExt, FiniteSetsExt

CONSTANTS Configured,  \* sets of fonts to load: sequences of
                       \* [has, scalable, size, pixelsize], 0 if not given
          Screens,     \* [dpi, pixels, millimeters], dpi of -1 if not given
          Texts,       \* sequences of code points
          Broken       \* sequences of bytes that are no UTF-8

VARIABLES
  m_fonts, screen,
  given,        \* history: what is written, as code points; <<>> if broken
  contents,     \* and as bytes
  fns, utf8, chars, x_advance,  \* of operator<<
  drawn         \* history: [font, text], in order

vars == <<m_fonts, screen, given, contents, fns, utf8, chars, x_advance, drawn>>

-----------------------------------------------------------------------------
(* ucs4_to_utf8() and utf8_to_ucs4().  A sequence may be cut short, a byte *)
(* that begins none ends the text.                                         *)
Encode(ucs) ==
  LET tail(n) == [i \in 1 .. n |-> 128 + ((ucs \div 64 ^ (n - i)) % 64)] IN
  IF ucs < 128 THEN <<ucs>>
  ELSE IF ucs < 2048 THEN <<192 + ucs \div 64>> \o tail(1)
  ELSE IF ucs < 65536 THEN <<224 + ucs \div 4096>> \o tail(2)
  ELSE <<240 + ucs \div 262144>> \o tail(3)

Wanted(b) ==  \* by the first byte
  IF b \div 128 = 0 THEN 1 ELSE IF b \div 32 = 6 THEN 2
  ELSE IF b \div 16 = 14 THEN 3 ELSE IF b \div 8 = 30 THEN 4 ELSE 0
Bits(b, len) == IF len = 1 THEN b ELSE b % (2 ^ (7 - len))

Decode(src) ==
  LET follows(i, n) == \A j \in 1 .. n - 1 : i + j <= Len(src) /\ src[i + j] \div 64 = 2
      from[i \in 1 .. Len(src) + 1] ==
        IF i > Len(src) \/ (i <= Len(src) /\ Wanted(src[i]) = 0) THEN <<>>
        ELSE LET len == Wanted(src[i])
                 n   == Max({k \in 1 .. len : follows(i, k)})
                 code == FoldLeft(LAMBDA r, b : r * 64 + (b % 64), Bits(src[i], len), SubSeq(src, i + 1, i + n - 1))
             IN <<[codepoint |-> code, offset |-> i - 1, length |-> n]>> \o from[i + n]
  IN from[1]

-----------------------------------------------------------------------------
(* The size in pixels: points for scalable fonts, pixels for others, the   *)
(* other one if that is 0, and 10 if both are.                             *)
Dpi == IF screen.dpi > 0 THEN [num |-> screen.dpi, den |-> 1]
       ELSE IF screen.dpi < 0 THEN [num |-> 96, den |-> 1]
       ELSE [num |-> screen.pixels * 254, den |-> screen.millimeters * 10]
Size(f) ==
  LET or10(n) == IF n = 0 THEN 10 ELSE n
      points  == (2 * or10(f.size) * Dpi.num + 72 * Dpi.den) \div (144 * Dpi.den)
      pixels  == or10(f.pixelsize)
  IN IF f.size = 0 /\ f.pixelsize = 0 THEN (IF f.scalable THEN points ELSE pixels)
     ELSE IF (f.scalable /\ f.size # 0) \/ f.pixelsize = 0 THEN points ELSE pixels

Fixed == [has |-> {97}, scalable |-> FALSE, size |-> 0, pixelsize |-> 13]
Loaded(fonts) == IF fonts = <<>> THEN <<Fixed>> ELSE fonts

-----------------------------------------------------------------------------
TypeOK ==
  /\ m_fonts \in {Loaded(c) : c \in Configured} /\ screen \in Screens
  /\ ToSet(fns) \subseteq ToSet(m_fonts) /\ x_advance \in Nat
  /\ \A i \in DOMAIN chars : chars[i].offset + chars[i].length <= Len(utf8)

Init ==
  /\ \E c \in Configured : m_fonts = Loaded(c)
  /\ screen \in Screens /\ given = <<>> /\ contents = <<>>
  /\ fns = m_fonts /\ utf8 = <<>> /\ chars = <<>> /\ x_advance = 0 /\ drawn = <<>>

(* render_text(): the fonts with the preferred one in front.               *)
Preferred(font) ==
  IF font \in 1 .. Len(m_fonts)
  THEN [m_fonts EXCEPT ![1] = m_fonts[font], ![font] = m_fonts[1]]
  ELSE m_fonts
RenderText(codes, bytes, font) ==
  /\ contents = <<>> /\ given' = codes /\ contents' = bytes
  /\ utf8' = bytes /\ chars' = Decode(bytes) /\ fns' = Preferred(font)
  /\ UNCHANGED <<m_fonts, screen, x_advance, drawn>>

(* match(): as many characters as the first font has, one with the others. *)
Matches(i) ==
  LET has(n) == \A j \in 1 .. n : chars[j].codepoint \in fns[i].has
  IN Max({n \in 0 .. IF i = 1 THEN Len(chars) ELSE 1 : has(n)})
Matching == {i \in DOMAIN fns : Matches(i) > 0}

Bytes(src, c) == SubSeq(src, c.offset + 1, c.offset + c.length)
DrawRun ==
  /\ chars # <<>> /\ Matching # {}
  /\ LET i      == Min(Matching)
         subset == FlattenSeq([j \in 1 .. Matches(i) |-> Bytes(utf8, chars[j])])
     IN /\ drawn' = Append(drawn, [font |-> fns[i], text |-> subset])
        /\ x_advance' = x_advance + Len(Decode(subset)) * Size(fns[i])
        /\ chars' = SubSeq(chars, Matches(i) + 1, Len(chars))
  /\ UNCHANGED <<m_fonts, screen, given, contents, fns, utf8>>

(* A character that no font has is taken out of the text, and what is      *)
(* behind it moves.                                                        *)
Drop ==
  /\ chars # <<>> /\ Matching = {}
  /\ LET c == Head(chars) IN
       /\ utf8' = SubSeq(utf8, 1, c.offset) \o SubSeq(utf8, c.offset + c.length + 1, Len(utf8))
       /\ chars' = [i \in 1 .. Len(chars) - 1 |->
                      [chars[i + 1] EXCEPT !.offset = @ - c.length]]
  /\ UNCHANGED <<m_fonts, screen, given, contents, fns, x_advance, drawn>>

Next ==
  \/ \E t \in Texts, font \in 0 .. 3 : RenderText(t, FlattenSeq([i \in DOMAIN t |-> Encode(t[i])]), font)
  \/ \E b \in Broken, font \in 0 .. 3 : RenderText(<<>>, b, font)
  \/ DrawRun \/ Drop
Spec == Init /\ [][Next]_vars

-----------------------------------------------------------------------------
Written == Decode(contents)
Drawable(c) == \E i \in DOMAIN fns : c.codepoint \in fns[i].has
Drawn == FlattenSeq([i \in DOMAIN drawn |-> drawn[i].text])
FontOf(c) == fns[Min({i \in DOMAIN fns : c.codepoint \in fns[i].has})]

(* A text arrives as it was written.                                       *)
DecodedAsWritten == given # <<>> => [i \in DOMAIN Written |-> Written[i].codepoint] = given

(* At the end the characters that some font has are on the bar, in order   *)
(* and whole, whatever was dropped between them, each in the first font    *)
(* that has it; and they have been given the room that they take.          *)
GlyphsAsWritten ==
  LET kept == SelectSeq(Written, Drawable) IN
  chars = <<>> =>
    /\ Drawn = FlattenSeq([i \in DOMAIN kept |-> Bytes(contents, kept[i])])
    /\ \A i \in DOMAIN drawn : \A c \in ToSet(Decode(drawn[i].text)) : FontOf(c) = drawn[i].font
    /\ x_advance = FoldLeft(LAMBDA s, c : s + Size(FontOf(c)), 0, kept)
    /\ \A i \in DOMAIN fns : Size(fns[i]) > 0
=============================================================================
