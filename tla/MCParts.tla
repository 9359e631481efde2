------------------------------- MODULE MCParts -------------------------------
(***************************************************************************)
(* The parts of polybar that are small enough to be checked in one run:    *)
(* each behaviour is one of one part, chosen at the start.  The module     *)
(* lifecycle is here with its own variables, so that what is proved of it  *)
(* is checked under the same names; the other parts share slots s1, s2 ... *)
(* for theirs, because at most one of them runs.                           *)
(***************************************************************************)
EXTENDS Module, ProvenParts, TLC

CONSTANT Parts  \* the parts that a run looks at

-----------------------------------------------------------------------------
(* The small instances that the parts are given.                           *)

(* Parser: what a script prints, as characters, and what modules write.    *)
Element(tag, value) == [tag |-> tag, value |-> value]

ParserTexts == {<<"x">>, <<"%", "x">>, <<"x", "%">>, <<"{", "}">>}
ParserCommands ==
  {<<>>, <<"x">>, <<":">>, <<"x", ":", "}">>, <<"\\", "x">>, <<"x", "\\">>, <<":", ":">>}
ParserElements ==
  {Element("text", t) : t \in ParserTexts} \cup {Element("A", c) : c \in ParserCommands}
    \cup {Element("F", <<"reset">>), Element("u", <<"color">>), Element("T", <<"0">>),
          Element("O", <<"-", "1">>), Element("P", <<"R">>), Element("+", <<"o">>),
          Element("l", <<>>)}
ParserWritten ==
  {w \in UNION {[1 .. n -> ParserElements] : n \in 1 .. 2} :
     \A i \in 1 .. Len(w) - 1 : ~(w[i].tag = "text" /\ w[i + 1].tag = "text")}
ParserElsewhere ==
  <<Element("P", <<"R">>), Element("text", <<"x">>), Element("A", <<":">>)>>
ParserRaw ==
  {<<"%", "{">> \o r : r \in UNION {[1 .. n -> {"%", "}", "F", "A", ":", "x"}] : n \in 0 .. 3}}
    \cup {<<>>, <<"%", "{", "O", "9">>}
ParserOutputs == ({<<>>} \X ParserWritten) \cup (ParserRaw \X {ParserElsewhere})

(* Builder: labels that set everything, something or nothing.              *)
BLabel(e, c, f, m) == [empty |-> e, colors |-> c, font |-> f, margin |-> m]
BLabels ==
  {BLabel(TRUE, {}, "none", 0), BLabel(FALSE, {}, "none", 1),
   BLabel(FALSE, {"u", "o"}, "big", 0), BLabel(FALSE, {"B", "F"}, "small", 0)}
BPiece(k, l) == [kind |-> k, label |-> l]
BuilderPieces ==
  {BPiece(k, l) : k \in {"node", "action", "open"}, l \in BLabels}
    \cup {BPiece(k, BLabel(TRUE, {}, "none", 0)) : k \in {"text", "space", "nothing", "raw"}}
BuilderFormats == UNION {[1 .. n -> BuilderPieces] : n \in 1 .. 2}
BStyle(c, f, o, p, s, x) ==
  [colors |-> c, font |-> f, offset |-> o, padding |-> p, spacing |-> s, prefix |-> x]
BuilderStyles ==
  {BStyle({}, "none", FALSE, 0, 0, FALSE), BStyle({"B", "u", "o"}, "big", TRUE, 1, 2, TRUE),
   BStyle({"F"}, "none", FALSE, 0, 1, TRUE)}

(* Renderer: lengths are in half pixels.                                   *)
RDrawn(tag, n) == [tag |-> tag, length |-> n, name |-> ""]
RText(n) == RDrawn("text", 2 * n)
RAction(name) == [tag |-> "A", length |-> 0, name |-> name]
RBar(w, x, r, f, s) ==
  [width |-> 2 * w, x |-> 2 * x, rect |-> 2 * r, fixed |-> f, gap |-> 6, separator |-> s, padding |-> s]
MCRendererBars == {RBar(41, 5, 30, TRUE, 2), RBar(41, 1, 39, FALSE, 0)}
MCRendererModules ==
  {<<>>,
   <<RAction("left"), RText(5), RAction("scroll"), RText(2), RAction("close"), RText(1),
     RAction("close any")>>,
   <<RText(2), RDrawn("offset", 4), RAction("left"), RText(20), RDrawn("offset", -2), RText(1),
     RAction("close any")>>}

(* Bspwm: three states of two monitors.                                    *)
BDesktop(s, n) == [state |-> s, name |-> n]
BMonitor(n, f, d, o, g) == [name |-> n, focused |-> f, desktops |-> d, node |-> o, flags |-> g]
BspwmReports ==
  {<<BMonitor("left", TRUE, <<BDesktop("O", "one"), BDesktop("f", "two")>>, "T", <<>>),
     BMonitor("right", FALSE, <<BDesktop("O", "three")>>, "@", <<>>)>>,
   <<BMonitor("left", FALSE, <<BDesktop("U", "one"), BDesktop("f", "two")>>, "=", <<"S">>),
     BMonitor("right", TRUE, <<BDesktop("O", "three")>>, "F", <<"S", "P">>)>>,
   <<BMonitor("left", TRUE, <<BDesktop("F", "one")>>, "T", <<"L">>)>>}

(* Config: files that include each other, sections that inherit in and     *)
(* against the order of their names, references to all kinds of things.    *)
CPlain(v) == [is |-> "plain", v |-> v]
CNone == [is |-> "none"]
CLine(t, n, v) == [type |-> t, name |-> n, value |-> v]
CHead(n) == CLine("header", n, CNone)
CKey(n, v) == CLine("key", n, v)
CInclude(f) == CLine("include", f, CNone)
COther(t) == CLine(t, "", CNone)
CLocal(s, k, f) == [is |-> "local", section |-> s, key |-> k, fallback |-> f]
COutside(n, f) == [is |-> "outside", name |-> n, fallback |-> f]
ConfigSections == <<"bar/x", "base", "colors", "z">>
ConfigOutside == ("HOME" :> CPlain(<<"home">>)) @@ ("REF" :> CLocal("self", "b", CNone))
CDisk(f) == [files |-> f, dirs |-> ("d" :> <<"c", "e">>)]
CColors ==
  <<CHead("colors"), CKey("red", CPlain(<<"r">>)), CKey("own", CLocal("self", "red", CNone)),
    CKey("env", COutside("REF", CNone)), CKey("b", CPlain(<<"cb">>))>>
CBar ==
  <<CHead("bar/x"), CKey("inherit", CPlain(<<"z", "base">>)), CKey("a", CLocal("colors", "own", CNone)),
    CKey("b", CPlain(<<"vb">>)), CKey("c", CLocal("colors", "env", CNone)),
    CKey("f", CLocal("colors", "red", CPlain(<<"fall">>))), CKey("g", CLocal("root", "nope", CPlain(<<"fall">>))),
    CKey("h", CLocal("self", "nope", CNone)), CKey("i", COutside("REF", CNone)),
    CKey("j", COutside("NONE", CPlain(<<"d">>))), CKey("k", [is |-> "malformed"])>>
CBases ==
  <<CHead("z"), CKey("inherit", CPlain(<<"base">>)), CKey("red", CPlain(<<"z">>)), CKey("a", CPlain(<<"z">>)),
    CHead("base"), COther("comment"), CKey("deep", CPlain(<<"d">>)),
    CKey("loop", CLocal("base", "loop2", CNone)), CKey("loop2", CLocal("self", "loop", CNone))>>
CMain(lines) == "m" :> lines
CIncluded(c, e) == ("c" :> c) @@ ("e" :> e)
ConfigDisks ==
  {CDisk(f) : f \in
    {CMain(<<CInclude("c"), CLine("directory", "d", CNone)>> \o CBar) @@ CIncluded(<<COther("comment"), CInclude("e")>>, <<>>),
     CMain(CBar \o <<CLine("directory", "d", CNone)>>) @@ CIncluded(CColors, CBases),
     CMain(CBar \o CColors \o CBases),
     CMain(CBar \o <<CInclude("c"), CInclude("e")>>) @@ CIncluded(CColors, CBases),
     CMain(CBar \o <<CInclude("c")>>) @@ CIncluded(<<CInclude("e")>>, <<CInclude("c")>>),
     CMain(CBar \o <<CInclude("q")>>),
     CMain(CBar \o <<COther("bom")>>),
     CMain(<<CKey("a", CPlain(<<"v">>))>> \o CBar),
     CMain(CBases \o CColors),
     CMain(CBar \o <<CInclude("c"), CInclude("c")>>) @@ CIncluded(CColors, <<>>),
     CMain(CBar \o <<CHead("base"), CKey("inherit", CPlain(<<"gone">>)), CKey("inherit-2", CPlain(<<"z">>))>>),
     CMain(CBases \o <<CHead("bar/x"), CKey("inherit", CLocal("z", "inherit", CNone)),
                       CKey("inherit-2", CPlain(<<"z">>))>>)}}

(* Screen: clones, dashes, virtual and disconnected monitors.              *)
SOutput(i, n, on, c, x, y, w, h) ==
  [id |-> i, name |-> n, on |-> on, connected |-> c, x |-> x, y |-> y, w |-> w, h |-> h]
SMonitor(n, p, a) ==
  [output |-> 0, name |-> n, primary |-> p, x |-> a.x, y |-> a.y, w |-> a.w, h |-> a.h]
SLayout(o, v, p, h) ==
  LET on == SelectSeq(o, LAMBDA x : x.on) IN
    [outputs |-> o, monitors |-> [i \in DOMAIN on |-> SMonitor(on[i].name, on[i].name = p, on[i])] \o v,
     primary |-> p, height |-> h]
SVirtual == SMonitor("virtual", FALSE, [x |-> 0, y |-> 0, w |-> 8, h |-> 10])
SLarge == SOutput(1, "DP-1", TRUE, TRUE, 0, 0, 16, 10)
SMoved == SOutput(1, "DP-1", TRUE, TRUE, 20, 2, 16, 10)
SRight == SOutput(2, "DP1", TRUE, TRUE, 16, 0, 8, 8)
SInner == SOutput(3, "eDP", TRUE, TRUE, 0, 0, 8, 8)
SOff == SOutput(3, "eDP", FALSE, TRUE, 0, 0, 0, 0)
SUnplugged == SOutput(3, "eDP", TRUE, FALSE, 0, 0, 8, 8)
MCScreenLayouts ==
  {SLayout(<<SLarge>>, <<>>, "DP-1", 10), SLayout(<<SRight, SLarge>>, <<SVirtual>>, "DP-1", 10),
   SLayout(<<SInner, SLarge, SRight>>, <<>>, "", 12), SLayout(<<SUnplugged, SMoved>>, <<>>, "eDP", 12),
   SLayout(<<SOff>>, <<>>, "", 8)}
MCScreenUndashed ==
  [n \in {"", "DP-1", "DP1", "eDP", "virtual", "HDMI"} |-> IF n = "DP-1" THEN "DP1" ELSE n]
SPixels(percent, pixels) == [percent |-> percent, pixels |-> pixels]
SBar(m, f, s, e, b, w, h, x, y) ==
  [monitor |-> m, fallback |-> f, strict |-> s, exact |-> e, bottom |-> b, width |-> w,
   height |-> h, x |-> x, y |-> y, border |-> 1, strut_top |-> 0, strut_bottom |-> 1]
MCScreenBars ==
  {SBar("", "", FALSE, TRUE, FALSE, SPixels(100, 0), SPixels(0, 2), SPixels(0, 0), SPixels(0, 0)),
   SBar("", "", TRUE, FALSE, TRUE, SPixels(50, 0), SPixels(0, 3), SPixels(10, -2), SPixels(0, 1)),
   SBar("DP-1", "eDP", TRUE, FALSE, TRUE, SPixels(100, -4), SPixels(0, 2), SPixels(0, 2), SPixels(0, 0)),
   SBar("HDMI", "eDP", FALSE, TRUE, FALSE, SPixels(100, 0), SPixels(0, 2), SPixels(0, 1), SPixels(0, 2)),
   SBar("DP1", "", FALSE, TRUE, FALSE, SPixels(0, 9), SPixels(0, 2), SPixels(0, 0), SPixels(0, 0))}

(* Alsa: which mixers a configuration names.                               *)
MCAlsaMixers == {{"MASTER"}, {"MASTER", "SPEAKER", "HEADPHONE"}, {"SPEAKER", "HEADPHONE"}}

(* Net: interfaces and systems; "up" only with an access point that is     *)
(* joined, as drivers that report their state do.                          *)
NConf(t, b, a, tt, u, p) ==
  [type |-> t, built |-> b, accumulate |-> a, tuntap |-> tt, unknown_up |-> u, ping |-> p]
MCNetConfigs ==
  {NConf("wired", "nl", FALSE, FALSE, FALSE, 2), NConf("wired", "nl", TRUE, TRUE, FALSE, 0),
   NConf("wireless", "nl", FALSE, FALSE, TRUE, 2), NConf("wireless", "iw", TRUE, FALSE, FALSE, 1)}
NAddr(n, f, s, a) == [name |-> n, family |-> f, scope |-> s, addr |-> a]
NIe(i, n) == [id |-> i, name |-> n]
NBss(s, ies, m) == [status |-> s, ies |-> ies, mbm |-> m]
NSys(calls, wireless, o, l, r, e, scan, addrs) ==
  [calls |-> calls, wireless |-> wireless, operstate |-> o, link |-> l, reaches |-> r,
   essid |-> e, adhoc |-> FALSE, scan |-> scan, addrs |-> addrs]
NHome == NBss("associated", <<NIe("ssid", "home"), NIe("rates", "")>>, -6000)
NCafe == NBss("none", <<NIe("ssid", "cafe"), NIe("rates", "")>>, -9999)
NWork == NBss("authenticated", <<NIe("rates", ""), NIe("ssid", "work")>>, -8950)
NAddrs ==
  <<NAddr("other", "inet", "global", "10.0.0.9"), NAddr("own", "inet", "global", "10.0.0.1"),
    NAddr("own", "inet6", "global", "2001:db8::1"), NAddr("own", "inet6", "link", "fe80::1")>>
MCNetSystems ==
  {NSys(TRUE, TRUE, "up", TRUE, TRUE, "home", <<NCafe, NHome>>, NAddrs),
   NSys(TRUE, TRUE, "unknown", TRUE, FALSE, "", <<NCafe>>, NAddrs),
   NSys(TRUE, FALSE, "down", FALSE, FALSE, "", <<>>, <<>>),
   NSys(TRUE, TRUE, "up", FALSE, TRUE, "work", <<NWork>>, <<>>),
   NSys(FALSE, TRUE, "up", TRUE, TRUE, "home", <<NHome>>, NAddrs)}

(* Drawing: labels with tokens, one of them twice; the second update has a *)
(* value that reads like a token.                                          *)
DChar(n) == [is |-> "char", bytes |-> n]
DTok(n, mi, ma, s) == [is |-> "token", name |-> n, min |-> mi, max |-> ma, suffix |-> s]
DSpec(t, mi, ma, e, a, s) ==
  [text |-> t, minlen |-> mi, maxlen |-> ma, ellipsis |-> e, alignment |-> a,
   style |-> [fg |-> s, font |-> 0]]
DTexts ==
  {<<DTok("title", 2, 3, <<DChar(1)>>), DChar(1), DTok("title", -1, -1, <<>>), DTok("artist", 4, 2, <<>>)>>,
   <<DTok("artist", 3, -1, <<>>), DChar(2)>>, <<>>}
DrawingSpecs ==
  {DSpec(t, l[1], l[2], l[3], a, 0) : t \in DTexts, a \in {"left", "right", "center"},
     l \in {<<0, 0, TRUE>>, <<3, 5, TRUE>>, <<4, 0, FALSE>>, <<0, 2, FALSE>>, <<0, 2, TRUE>>}}
DrawingCompletes ==
  {[by |-> b, label |-> DSpec(<<>>, 0, 3, TRUE, "left", 1)] : b \in {"nothing", "copy", "replace"}}
DrawingUpdates ==
  <<[title |-> <<DChar(2), DChar(2)>>, artist |-> <<>>],
    [title |-> <<DChar(1), [is |-> "token", name |-> "artist"]>>, artist |-> <<DChar(1), DChar(1), DChar(1)>>],
    [title |-> [i \in 1 .. 5 |-> DChar(1)], artist |-> <<DChar(2)>>]>>

(* Ipc: hooks that share a name ("a" and 11, "a1" and 1), a message that   *)
(* fills the buffer, a new line at the end.                                *)
IMod(n, h, i) == [name |-> n, hooks |-> h, initial |-> i]
IReq(t, n, i, e) == [type |-> t, name |-> n, index |-> i, eol |-> e]
MCIpcModules == <<IMod(<<"a">>, 11, 2), IMod(<<"a", "1">>, 1, 0)>>
MCIpcRequests ==
  {IReq("hook:", <<"a">>, 11, <<>>), IReq("hook:", <<"module/", "a">>, 2, <<"\n">>),
   IReq("cmd:", <<"quit">>, 0, <<"\n">>), IReq("action:", <<"a", "send", "x">>, 0, <<>>)}

(* Battery: with and without polling, and the format for low.             *)
BConf(f, l, i, low) == [fullat |-> f, lowat |-> l, interval |-> i, low |-> low]
MCBatteryConfigs == {BConf(99, 10, TRUE, TRUE), BConf(110, 50, FALSE, FALSE)}

(* Fs: a file system with blocks for root alone, one that is full.         *)
FsSizes == {[blocks |-> 100, bfree |-> 50, bavail |-> 45], [blocks |-> 8, bfree |-> 1, bavail |-> 0]}

(* Backlight: coarse and fine, and an output that does not begin at 0.     *)
LScreen(k, l, h) == [kind |-> k, min |-> l, max |-> h]
MCBacklightScreens ==
  {LScreen("sysfs", 0, 7), LScreen("sysfs", 0, 10), LScreen("sysfs", 0, 12), LScreen("sysfs", 0, 255),
   LScreen("randr", 0, 40), LScreen("randr", 1, 15)}

(* Date: with and without other formats.                                   *)
DFmt(d, da, t, ta) == [date |-> d, date_alt |-> da, time |-> t, time_alt |-> ta]
MCDateFormats == {DFmt(TRUE, TRUE, TRUE, TRUE), DFmt(TRUE, FALSE, TRUE, TRUE), DFmt(FALSE, TRUE, TRUE, FALSE), DFmt(FALSE, FALSE, FALSE, FALSE)}

(* Keyboard: three groups, two and one; a lock without a modifier.         *)
KGroup(n, v) == [name |-> n, variant |-> v]
MCKeyboardKeyboards ==
  {[groups |-> <<KGroup("English", "US"), KGroup("Russian", ""), KGroup("German", "")>>,
    symbols |-> <<"pc", "us", "ru", "de", "inet">>, modifiers |-> {"caps lock", "num lock"}],
   [groups |-> <<KGroup("English", "US"), KGroup("Greek", "")>>, symbols |-> <<"pc", "us", "gr", "group">>,
    modifiers |-> {"caps lock", "num lock", "scroll lock"}]}
MCKeyboardConfigs ==
  {[blacklist |-> {"num lock"}, own_on |-> {"caps lock"}, own_off |-> {"scroll lock"}, off |-> "nothing"]}

(* I3: three workspaces on the bar's output, with another in between.      *)
IWs(n, i) == [name |-> n, num |-> i]
MCI3Outputs ==
  <<[name |-> "left", workspaces |-> <<IWs("mail", 1), IWs("web", 3), IWs("chat", 4)>>],
    [name |-> "right", workspaces |-> <<IWs("code", 2)>>]>>

(* Painting: a small bar, with and without round corners and wallpaper.    *)
GBorder(t, b, l, r) == [top |-> t, bottom |-> b, left |-> l, right |-> r]
GBar(b, r, bg, p) == [w |-> 7, h |-> 4, border |-> b, radius |-> r, line |-> 1, bg |-> bg, pseudo |-> p]
PaintingSettings ==
  {GBar(GBorder(1, 0, 1, 2), 0, "clear", FALSE),
   GBar(GBorder(1, 1, 1, 1), 1, "bg", TRUE)}

(* Fonts: characters of one to four bytes, and bytes that begin none.      *)
FFace(h, s, p, x) == [has |-> h, scalable |-> s, size |-> p, pixelsize |-> x]
FontsConfigured ==
  {<<>>, <<FFace({97, 233}, TRUE, 12, 0), FFace({8364}, FALSE, 0, 0)>>,
   <<FFace({97}, FALSE, 7, 0), FFace({97, 128512}, TRUE, 0, 0), FFace({233, 8364}, TRUE, 0, 9)>>}
FontsScreens ==
  {[dpi |-> d, pixels |-> 1920, millimeters |-> 340] : d \in {-1, 0, 72}}
FontsTexts == UNION {[1 .. n -> {97, 233, 8364, 128512}] : n \in 1 .. 3}
FontsBroken == {<<97, 233, 97>>, <<195>>, <<226, 130>>, <<97, 128, 97>>, <<226, 130, 97>>}

(* Hover: bars with and without dimming, with cursors and without.         *)
HBar(d, c, s, f) == [dimvalue |-> d, click |-> c, scroll |-> s, fallbacks |-> f]
MCHoverBars ==
  {HBar(50, "pointer", "ns-resize", {}), HBar(50, "pointer", "ns-resize", {"scroll"}),
   HBar(100, "", "ns-resize", {"click"}), HBar(100, "pointer", "ns-resize", {"click", "scroll"})}
MCHoverAreas == {<<{}, {"click"}>>, <<{"scroll"}, {}>>, <<{"click", "scroll"}, {"scroll"}>>}

(* Background: a transparent bar, a transparent tray, and both.            *)
MCBackgroundSetups == {[bar |-> TRUE, tray |-> FALSE], [bar |-> FALSE, tray |-> TRUE], [bar |-> TRUE, tray |-> TRUE]}

(* Window: windows of the manager's own, and others.                       *)
MCWindowSetups == [override : {TRUE}, restack : {"generic", "i3", "bspwm", "none"}, placing : {FALSE}]
                  \cup [override : {FALSE}, restack : {"i3"}, placing : BOOLEAN]
MCWindowStacks == {<<"i3", "client">>, <<"far", "near", "client">>, <<"near", "far", "client">>}

(* Menu: an item of the first level opens the second one.                  *)
MenuLevels == << << <<"#", "menu", ".", "open", ".", "1">>, <<"xterm">> >>, << <<"#", "menu", ".", "close">> >> >>
MenuMessages == {<<"#">>, <<"#", ".", "open">>, <<"#", "menu", ".">>, <<"#", "menu", ".", "open", ".", "2">>, <<"#", "menu", ".", "exec", ".", "0">>,
                 <<"#", "menu", ".", "exec", ".", "1", "-", "1">>, <<"menu-open-", "1">>, <<"menu-close">>, <<"xterm">>}

(* Start: the ways to write each kind of option, a bar's name, a value that *)
(* is one, and an empty argument.                                          *)
StartArguments ==
  {[opt |-> o, long |-> FALSE, value |-> "absent"] : o \in {"help", "monitors", "config", "unknown"}} \cup
  {[opt |-> "config", long |-> TRUE, value |-> v] : v \in {"absent", "top"}} \cup
  {[opt |-> "log", long |-> l, value |-> "info"] : l \in BOOLEAN} \cup
  {[opt |-> "log", long |-> TRUE, value |-> "loud"]} \cup
  {[opt |-> "absent", long |-> FALSE, value |-> v] : v \in {"top", "info", ""}}

-----------------------------------------------------------------------------

all == <<part, slots, vars>>

Parser == INSTANCE Parser WITH
  Outputs <- ParserOutputs, raw <- s1, origin <- s2, input <- s3,
  pos <- s4, mode <- s5, parsed <- s6

Builder == INSTANCE Builder WITH
  Pieces <- BuilderPieces, Formats <- BuilderFormats,
  Styles <- BuilderStyles, BarSpacing <- 1, format <- s1, style <- s2,
  todo <- s3, build <- s4, no_tag_built <- s5, phase <- s6,
  flushed <- s7, m_cache <- s8

Bspwm == INSTANCE Bspwm WITH
  Reports <- BspwmReports, BarMonitor <- "right", Buffer <- 20,
  MaxSteps <- 3, report <- s1, up <- s2, stream <- s3, hup <- s4,
  steps <- s5, rpc <- s6, received <- s7, m_hash <- s8,
  m_monitors <- s9, m_pinworkspaces <- s10, m_enabled <- s11,
  disconnected <- s12, shown <- s13, cut <- s14

Config == INSTANCE Config WITH
  Disks <- ConfigDisks, Main <- "m", Bar <- "bar/x",
  Sections <- ConfigSections, Outside <- ConfigOutside, Stack <- 8,
  disk <- s1, pc <- s2, error <- s3, frames <- s4, m_files <- s5,
  m_lines <- s6, m_sections <- s7, todo <- s8

Painting == INSTANCE Painting WITH
  Settings <- PaintingSettings, Gap <- 1, TrayWidths <- {0, 1},
  Widths <- {1, 2}, MaxOps <- 4, MaxDraws <- 2, m_bar <- s1,
  m_rect <- s2, stack <- s3, m_align <- s4, m_blocks <- s5,
  m_cornermask <- s6, mask_rect <- s7, wallpaper <- s8, window <- s9,
  phase <- s10, texts <- s11, ops <- s12, draws <- s13, lost <- s14

Fonts == INSTANCE Fonts WITH
  Configured <- FontsConfigured, Screens <- FontsScreens,
  Texts <- FontsTexts, Broken <- FontsBroken, m_fonts <- s1,
  screen <- s2, given <- s3, contents <- s4, fns <- s5, utf8 <- s6,
  chars <- s7, x_advance <- s8, drawn <- s9

Menu == INSTANCE Menu WITH
  Levels <- MenuLevels, Messages <- MenuMessages, MaxOps <- 3,
  m_inputdata <- s1, cmd <- s2, last <- s3, m_level <- s4,
  drawn <- s5, update <- s6, corrupt <- s7, misused <- s8, ops <- s9

Fs == INSTANCE Fs WITH
  Mountpoints <- <<"root", "usb">>, Sizes <- FsSizes, Warn <- 90,
  MaxOps <- 1, remove_unmounted <- s1, mounted <- s2, size <- s3,
  runner <- s4, warm <- s5, mountinfo <- s6, m_mountpoints <- s7,
  m_mounts <- s8, main <- s9, m_index <- s10, output <- s11,
  m_changed <- s12, shown <- s13, undefined <- s14, crossed <- s15,
  removed <- s16, ops <- s17

Drawing == INSTANCE Drawing WITH
  Loaded <- DrawingSpecs, Completes <- DrawingCompletes,
  Names <- <<"title", "artist">>, Updates <- DrawingUpdates,
  label <- s1, pc <- s2, with <- s3, todo <- s4, left <- s5,
  m_tokenized <- s6, drawn <- s7, changed <- s8

Start == INSTANCE Start WITH
  Arguments <- StartArguments, MaxArgs <- 3,
  Valued <- {"config", "log", "dump"}, LogLevels <- {"info"},
  args <- s1, i <- s2, m_skipnext <- s3, m_optvalues <- s4,
  m_posargs <- s5, pc <- s6, outcome <- s7

(* A part uses as many slots as it has variables; the rest stay 0.         *)
PartsInit ==
  /\ part \in Parts /\ Init
  /\ part # "module" => kind = "timer"
  /\ \/ /\ part = "module"
        /\ s1 = 0 /\ s2 = 0 /\ s3 = 0 /\ s4 = 0 /\ s5 = 0 /\ s6 = 0 /\ s7 = 0
        /\ s8 = 0 /\ s9 = 0 /\ s10 = 0 /\ s11 = 0 /\ s12 = 0 /\ s13 = 0
        /\ s14 = 0 /\ s15 = 0 /\ s16 = 0 /\ s17 = 0 /\ s18 = 0 /\ s19 = 0
     \/ /\ part = "script" /\ Script!Init
        /\ s18 = 0 /\ s19 = 0
     \/ /\ part = "parser" /\ Parser!Init
        /\ s7 = 0 /\ s8 = 0 /\ s9 = 0 /\ s10 = 0 /\ s11 = 0 /\ s12 = 0
        /\ s13 = 0 /\ s14 = 0 /\ s15 = 0 /\ s16 = 0 /\ s17 = 0 /\ s18 = 0
        /\ s19 = 0
     \/ /\ part = "builder" /\ Builder!Init
        /\ s9 = 0 /\ s10 = 0 /\ s11 = 0 /\ s12 = 0 /\ s13 = 0 /\ s14 = 0
        /\ s15 = 0 /\ s16 = 0 /\ s17 = 0 /\ s18 = 0 /\ s19 = 0
     \/ /\ part = "renderer" /\ Renderer!Init
        /\ s11 = 0 /\ s12 = 0 /\ s13 = 0 /\ s14 = 0 /\ s15 = 0 /\ s16 = 0
        /\ s17 = 0 /\ s18 = 0 /\ s19 = 0
     \/ /\ part = "mpd" /\ Mpd!Init
        /\ s18 = 0 /\ s19 = 0
     \/ /\ part = "xworkspaces" /\ XWorkspaces!Init
        /\ s18 = 0 /\ s19 = 0
     \/ /\ part = "bspwm" /\ Bspwm!Init
        /\ s15 = 0 /\ s16 = 0 /\ s17 = 0 /\ s18 = 0 /\ s19 = 0
     \/ /\ part = "config" /\ Config!Init
        /\ s9 = 0 /\ s10 = 0 /\ s11 = 0 /\ s12 = 0 /\ s13 = 0 /\ s14 = 0
        /\ s15 = 0 /\ s16 = 0 /\ s17 = 0 /\ s18 = 0 /\ s19 = 0
     \/ /\ part = "screen" /\ Screen!Init
        /\ s15 = 0 /\ s16 = 0 /\ s17 = 0 /\ s18 = 0 /\ s19 = 0
     \/ /\ part = "painting" /\ Painting!Init
        /\ s15 = 0 /\ s16 = 0 /\ s17 = 0 /\ s18 = 0 /\ s19 = 0
     \/ /\ part = "fonts" /\ Fonts!Init
        /\ s10 = 0 /\ s11 = 0 /\ s12 = 0 /\ s13 = 0 /\ s14 = 0 /\ s15 = 0
        /\ s16 = 0 /\ s17 = 0 /\ s18 = 0 /\ s19 = 0
     \/ /\ part = "hover" /\ Hover!Init
        /\ s16 = 0 /\ s17 = 0 /\ s18 = 0 /\ s19 = 0
     \/ /\ part = "background" /\ Background!Init
        /\ s17 = 0 /\ s18 = 0 /\ s19 = 0
     \/ /\ part = "window" /\ Window!Init
        /\ s18 = 0 /\ s19 = 0
     \/ /\ part = "xwindow" /\ XWindow!Init
        /\ s12 = 0 /\ s13 = 0 /\ s14 = 0 /\ s15 = 0 /\ s16 = 0 /\ s17 = 0
        /\ s18 = 0 /\ s19 = 0
     \/ /\ part = "menu" /\ Menu!Init
        /\ s10 = 0 /\ s11 = 0 /\ s12 = 0 /\ s13 = 0 /\ s14 = 0 /\ s15 = 0
        /\ s16 = 0 /\ s17 = 0 /\ s18 = 0 /\ s19 = 0
     \/ /\ part = "tray" /\ Tray!Init
     \/ /\ part = "alsa" /\ Alsa!Init
        /\ s14 = 0 /\ s15 = 0 /\ s16 = 0 /\ s17 = 0 /\ s18 = 0 /\ s19 = 0
     \/ /\ part = "pulse" /\ Pulse!Init
     \/ /\ part = "net" /\ Net!Init
     \/ /\ part = "ipc" /\ Ipc!Init
     \/ /\ part = "battery" /\ Battery!Init
        /\ s18 = 0 /\ s19 = 0
     \/ /\ part = "meters" /\ Meters!Init
        /\ s12 = 0 /\ s13 = 0 /\ s14 = 0 /\ s15 = 0 /\ s16 = 0 /\ s17 = 0
        /\ s18 = 0 /\ s19 = 0
     \/ /\ part = "fs" /\ Fs!Init
        /\ s18 = 0 /\ s19 = 0
     \/ /\ part = "backlight" /\ Backlight!Init
        /\ s11 = 0 /\ s12 = 0 /\ s13 = 0 /\ s14 = 0 /\ s15 = 0 /\ s16 = 0
        /\ s17 = 0 /\ s18 = 0 /\ s19 = 0
     \/ /\ part = "date" /\ Date!Init
        /\ s15 = 0 /\ s16 = 0 /\ s17 = 0 /\ s18 = 0 /\ s19 = 0
     \/ /\ part = "keyboard" /\ Keyboard!Init
        /\ s18 = 0 /\ s19 = 0
     \/ /\ part = "drawing" /\ Drawing!Init
        /\ s9 = 0 /\ s10 = 0 /\ s11 = 0 /\ s12 = 0 /\ s13 = 0 /\ s14 = 0
        /\ s15 = 0 /\ s16 = 0 /\ s17 = 0 /\ s18 = 0 /\ s19 = 0
     \/ /\ part = "start" /\ Start!Init
        /\ s8 = 0 /\ s9 = 0 /\ s10 = 0 /\ s11 = 0 /\ s12 = 0 /\ s13 = 0
        /\ s14 = 0 /\ s15 = 0 /\ s16 = 0 /\ s17 = 0 /\ s18 = 0 /\ s19 = 0
     \/ /\ part = "i3" /\ I3!Init
        /\ s15 = 0 /\ s16 = 0 /\ s17 = 0 /\ s18 = 0 /\ s19 = 0

PartsNext ==
  \/ part = "module" /\ Next /\ UNCHANGED <<part, slots>>
  \/ /\ part = "script" /\ Script!Next
     /\ UNCHANGED <<part, vars, s18, s19>>
  \/ /\ part = "parser" /\ Parser!Next
     /\ UNCHANGED <<part, vars, s7, s8, s9, s10, s11, s12, s13, s14, s15, s16, s17, s18, s19>>
  \/ /\ part = "builder" /\ Builder!Next
     /\ UNCHANGED <<part, vars, s9, s10, s11, s12, s13, s14, s15, s16, s17, s18, s19>>
  \/ /\ part = "renderer" /\ Renderer!Next
     /\ UNCHANGED <<part, vars, s11, s12, s13, s14, s15, s16, s17, s18, s19>>
  \/ /\ part = "mpd" /\ Mpd!Next
     /\ UNCHANGED <<part, vars, s18, s19>>
  \/ /\ part = "xworkspaces" /\ XWorkspaces!Next
     /\ UNCHANGED <<part, vars, s18, s19>>
  \/ /\ part = "bspwm" /\ Bspwm!Next
     /\ UNCHANGED <<part, vars, s15, s16, s17, s18, s19>>
  \/ /\ part = "config" /\ Config!Next
     /\ UNCHANGED <<part, vars, s9, s10, s11, s12, s13, s14, s15, s16, s17, s18, s19>>
  \/ /\ part = "screen" /\ Screen!Next
     /\ UNCHANGED <<part, vars, s15, s16, s17, s18, s19>>
  \/ /\ part = "painting" /\ Painting!Next
     /\ UNCHANGED <<part, vars, s15, s16, s17, s18, s19>>
  \/ /\ part = "fonts" /\ Fonts!Next
     /\ UNCHANGED <<part, vars, s10, s11, s12, s13, s14, s15, s16, s17, s18, s19>>
  \/ /\ part = "hover" /\ Hover!Next
     /\ UNCHANGED <<part, vars, s16, s17, s18, s19>>
  \/ /\ part = "background" /\ Background!Next
     /\ UNCHANGED <<part, vars, s17, s18, s19>>
  \/ /\ part = "window" /\ Window!Next
     /\ UNCHANGED <<part, vars, s18, s19>>
  \/ /\ part = "xwindow" /\ XWindow!Next
     /\ UNCHANGED <<part, vars, s12, s13, s14, s15, s16, s17, s18, s19>>
  \/ /\ part = "menu" /\ Menu!Next
     /\ UNCHANGED <<part, vars, s10, s11, s12, s13, s14, s15, s16, s17, s18, s19>>
  \/ /\ part = "tray" /\ Tray!Next
     /\ UNCHANGED <<part, vars>>
  \/ /\ part = "alsa" /\ Alsa!Next
     /\ UNCHANGED <<part, vars, s14, s15, s16, s17, s18, s19>>
  \/ /\ part = "pulse" /\ Pulse!Next
     /\ UNCHANGED <<part, vars>>
  \/ /\ part = "net" /\ Net!Next
     /\ UNCHANGED <<part, vars>>
  \/ /\ part = "ipc" /\ Ipc!Next
     /\ UNCHANGED <<part, vars>>
  \/ /\ part = "battery" /\ Battery!Next
     /\ UNCHANGED <<part, vars, s18, s19>>
  \/ /\ part = "meters" /\ Meters!Next
     /\ UNCHANGED <<part, vars, s12, s13, s14, s15, s16, s17, s18, s19>>
  \/ /\ part = "fs" /\ Fs!Next
     /\ UNCHANGED <<part, vars, s18, s19>>
  \/ /\ part = "backlight" /\ Backlight!Next
     /\ UNCHANGED <<part, vars, s11, s12, s13, s14, s15, s16, s17, s18, s19>>
  \/ /\ part = "date" /\ Date!Next
     /\ UNCHANGED <<part, vars, s15, s16, s17, s18, s19>>
  \/ /\ part = "keyboard" /\ Keyboard!Next
     /\ UNCHANGED <<part, vars, s18, s19>>
  \/ /\ part = "drawing" /\ Drawing!Next
     /\ UNCHANGED <<part, vars, s9, s10, s11, s12, s13, s14, s15, s16, s17, s18, s19>>
  \/ /\ part = "start" /\ Start!Next
     /\ UNCHANGED <<part, vars, s8, s9, s10, s11, s12, s13, s14, s15, s16, s17, s18, s19>>
  \/ /\ part = "i3" /\ I3!Next
     /\ UNCHANGED <<part, vars, s15, s16, s17, s18, s19>>

PartsSpec == PartsInit /\ [][PartsNext]_all

(* Threads of the part that runs get on.                                   *)
PartsFairSpec ==
  /\ PartsSpec
  /\ WF_vars(part = "module" /\ RunnerStep)
  /\ WF_vars(part = "module" /\ WorkerStep)
  /\ WF_vars(part = "module" /\ MainStep)
  /\ WF_vars(part = "module" /\ raised /\ Quit)
  /\ \A t \in Stoppers : WF_vars(part = "module" /\ StopStep(t))
  /\ WF_(Script!vars)(part = "script" /\ Script!RunnerStep)
  /\ WF_(Script!vars)(part = "script" /\ Script!MainStep)
  /\ \A t \in Script!Stoppers : WF_(Script!vars)(part = "script" /\ Script!StopStep(t))
  /\ WF_(Script!vars)(part = "script" /\ Script!CommandEnds)
  /\ WF_(Script!vars)(part = "script" /\ Script!Exit)
  /\ WF_(Mpd!vars)(part = "mpd" /\ Mpd!RunnerStep)
  /\ WF_(Config!vars)(part = "config" /\ Config!ParseStep)
  /\ WF_(Background!vars)(part = "background" /\ Background!HandleEvent)
  /\ WF_(Background!vars)(part = "background" /\ Background!Draw)
  /\ WF_(Window!vars)(part = "window" /\ Window!HandleEvent)
  /\ WF_(Tray!vars)(part = "tray" /\ Tray!MainStep)
  /\ WF_(Tray!vars)(part = "tray" /\ Tray!WorkerStep)
  /\ WF_(Pulse!vars)(part = "pulse" /\ Pulse!RunnerStep)
  /\ WF_(Pulse!vars)(part = "pulse" /\ Pulse!Dispatch)
  /\ WF_(Ipc!vars)(part = "ipc" /\ Ipc!PolybarStep)
  /\ WF_(Battery!vars)(part = "battery" /\ Battery!RunnerStep)
  /\ WF_(Battery!vars)(part = "battery" /\ Battery!Elapse)
  /\ WF_(Date!vars)(part = "date" /\ Date!RunnerStep)
  /\ WF_(Date!vars)(part = "date" /\ Date!Wakeup)
  /\ WF_(I3!vars)(part = "i3" /\ I3!RunnerStep)
  /\ WF_(I3!vars)(part = "i3" /\ I3!StopStep)

-----------------------------------------------------------------------------
(* One type invariant for the parts that share the slots.                  *)
PartsTypeOK ==
  /\ part = "script" => Script!TypeOK
  /\ part = "parser" => Parser!TypeOK
  /\ part = "builder" => Builder!TypeOK
  /\ part = "renderer" => Renderer!TypeOK
  /\ part = "mpd" => Mpd!TypeOK
  /\ part = "xworkspaces" => XWorkspaces!TypeOK
  /\ part = "bspwm" => Bspwm!TypeOK
  /\ part = "config" => Config!TypeOK
  /\ part = "screen" => Screen!TypeOK
  /\ part = "tray" => Tray!TypeOK
  /\ part = "alsa" => Alsa!TypeOK
  /\ part = "pulse" => Pulse!TypeOK
  /\ part = "net" => Net!TypeOK
  /\ part = "drawing" => Drawing!TypeOK
  /\ part = "ipc" => Ipc!TypeOK
  /\ part = "battery" => Battery!TypeOK
  /\ part = "meters" => Meters!TypeOK
  /\ part = "fs" => Fs!TypeOK
  /\ part = "backlight" => Backlight!TypeOK
  /\ part = "date" => Date!TypeOK
  /\ part = "keyboard" => Keyboard!TypeOK
  /\ part = "i3" => I3!TypeOK
  /\ part = "painting" => Painting!TypeOK
  /\ part = "fonts" => Fonts!TypeOK
  /\ part = "hover" => Hover!TypeOK
  /\ part = "background" => Background!TypeOK
  /\ part = "window" => Window!TypeOK
  /\ part = "xwindow" => XWindow!TypeOK
  /\ part = "menu" => Menu!TypeOK
  /\ part = "start" => Start!TypeOK

(* What somebody waits for happens, while threads run.                     *)
(*   script      stopping the module ends, unless its runner waits for the *)
(*               rest of a line                                            *)
(*   mpd         a connection that the server closed is given up, unless   *)
(*               an action took the flag                                   *)
(*   config      following includes ends                                   *)
(*   tray        the end of the tracked manager gives the selection a new  *)
(*               owner                                                     *)
(*   pulse       events are processed, unless an action has kept the lock  *)
(*   ipc         a message that is written is read, unless a hook holds    *)
(*               the thread                                                *)
(*   battery     a change is shown, with polling                           *)
(*   date        a click is shown                                          *)
(*   i3          stop() ends, unless the runner has opened its socket      *)
(*               again before it could see that                            *)
(*   background  the wallpaper is drawn once it stops changing             *)
(*   window      a window that is closed ends the connection               *)
Awaited ==
  \/ part = "script" /\ Script!Stopping
  \/ part = "mpd" /\ Mpd!Lost
  \/ part = "config" /\ Config!Reading
  \/ part = "tray" /\ Tray!OwnerEnds
  \/ part = "pulse" /\ Pulse!EventsWait
  \/ part = "ipc" /\ Ipc!Waiting
  \/ part = "battery" /\ Battery!Changed
  \/ part = "date" /\ Date!Clicked
  \/ part = "i3" /\ I3!Stopping
  \/ part = "background" /\ Background!Changed
  \/ part = "window" /\ Window!Closing

(* ... what is waited for ...                                              *)
Happened ==
  \/ part = "script" /\ Script!Stopped
  \/ part = "mpd" /\ Mpd!Noticed
  \/ part = "config" /\ ~Config!Reading
  \/ part = "tray" /\ Tray!OwnerAgain
  \/ part = "pulse" /\ Pulse!EventsGone
  \/ part = "ipc" /\ Ipc!Served
  \/ part = "battery" /\ Battery!Shown
  \/ part = "date" /\ Date!ClickShown
  \/ part = "i3" /\ I3!Stopped
  \/ part = "background" /\ Background!Drawn
  \/ part = "window" /\ Window!Disconnected

(* Each of these leads to what is waited for.                              *)
AwaitedHappens == Awaited ~> Happened

(* Parser: what a well-formed text says is what is found, and an error     *)
(* does not change what follows.  Start: the command line is read as the   *)
(* page of usage says.  Config: a file is read once per way to it, a       *)
(* section has what it and those it inherits from say, and a reference is  *)
(* what it refers to.                                                      *)
ParsedAsWritten ==
  /\ part = "parser" => Parser!ParsedAsWritten
  /\ part = "start" => Start!ReadAsWritten /\ Start!RunsWhenAsked
  /\ part = "config" =>
       Config!IncludesFollowed /\ Config!Inherited /\ Config!ReferencesResolve

(* Builder: a module, whatever it nests, repeats or leaves open, does not  *)
(* change the look of the next.                                            *)
EdgesClean == part = "builder" => Builder!EdgesClean

(* Renderer: the area of an action lies under its text, in spite of two    *)
(* roundings.  Menu: a click opens, closes or executes what it is on.      *)
ClicksOnText ==
  /\ part = "renderer" => Renderer!ClicksOnText
  /\ part = "menu" => Menu!PlacesLead /\ Menu!LevelStays

(* What the modules show that ShownFollows does not speak of, the output   *)
(* of a hook that a message names, and how the bar's window lies among     *)
(* others, follows in the same way.                                        *)
OthersFollow ==
  /\ part = "bspwm" => Bspwm!MonitorsFollow
  /\ part = "fs" => Fs!DrawnAsFound /\ Fs!OrderKept /\ Fs!SharesSum
  /\ part = "i3" => I3!WorkspacesOnce
  /\ part = "ipc" => Ipc!HooksRun
  /\ part = "window" => Window!StackedLow

(* Labels, bars, ramps, layers and fonts say what they were given.         *)
DrawnAsGiven ==
  /\ part = "painting" => Painting!WindowAsDrawn /\ Painting!LayersBalanced /\ Painting!BordersOnce
  /\ part = "drawing" =>
    Drawing!DrawnAsUpdated /\ Drawing!LimitsKept /\ Drawing!BarsAsConfigured /\ Drawing!RampsCover
  /\ part = "fonts" => Fonts!DecodedAsWritten /\ Fonts!GlyphsAsWritten

(* What tray_manager.cpp says of the tray and the bar.                     *)
TrayFollowsBar == part = "tray" => Tray!TrayFollowsBar
-----------------------------------------------------------------------------
(* A run of parts starts with one, ...                                     *)
LEMMA PartsStart ==
  ASSUME PartsInit
  PROVE  ProvenInit
<1>1. part = "script" => Script!Init
  BY DEF PartsInit
<1>2. part = "renderer" => Renderer!Init
  BY DEF PartsInit
<1>3. part = "mpd" => Mpd!Init
  BY DEF PartsInit
<1>4. part = "xworkspaces" => XWorkspaces!Init
  BY DEF PartsInit
<1>5. part = "screen" => Screen!Init
  BY DEF PartsInit
<1>6. part = "hover" => Hover!Init
  BY DEF PartsInit
<1>7. part = "background" => Background!Init
  BY DEF PartsInit
<1>8. part = "window" => Window!Init
  BY DEF PartsInit
<1>9. part = "xwindow" => XWindow!Init
  BY DEF PartsInit
<1>10. part = "tray" => Tray!Init
  BY DEF PartsInit
<1>11. part = "alsa" => Alsa!Init
  BY DEF PartsInit
<1>12. part = "pulse" => Pulse!Init
  BY DEF PartsInit
<1>13. part = "net" => Net!Init
  BY DEF PartsInit
<1>14. part = "ipc" => Ipc!Init
  BY DEF PartsInit
<1>15. part = "battery" => Battery!Init
  BY DEF PartsInit
<1>16. part = "meters" => Meters!Init
  BY DEF PartsInit
<1>17. part = "backlight" => Backlight!Init
  BY DEF PartsInit
<1>18. part = "date" => Date!Init
  BY DEF PartsInit
<1>19. part = "keyboard" => Keyboard!Init
  BY DEF PartsInit
<1>20. part = "i3" => I3!Init
  BY DEF PartsInit
<1> QED
  BY <1>1, <1>2, <1>3, <1>4, <1>5, <1>6, <1>7, <1>8, <1>9, <1>10, <1>11,
     <1>12, <1>13, <1>14, <1>15, <1>16, <1>17, <1>18, <1>19, <1>20 DEF
     ProvenInit, Others

(* ... and goes on with that one.                                          *)
LEMMA PartsGoOn ==
  ASSUME [PartsNext]_all
  PROVE  ProvenNext
<1>1. CASE PartsNext
  <2>1. part' = part
    BY <1>1 DEF PartsNext
  <2> QED
    BY <1>1, <2>1 DEF PartsNext, ProvenNext, Others
<1>2. CASE UNCHANGED all
  <2>1. UNCHANGED <<part, slots>>
    BY <1>2 DEF all
  <2> QED
    BY <2>1, ProvenStays
<1> QED
  BY <1>1, <1>2

(* So the invariants of the proven parts hold of every run.                *)
LEMMA PartsKeepInv == PartsSpec => []ProvenInv
<1>1. PartsInit => ProvenInv
  BY PartsStart, ProvenInitInv
<1>2. ProvenInv /\ [PartsNext]_all => ProvenInv'
  BY PartsGoOn, ProvenInvKept
<1> QED
  BY <1>1, <1>2, PTL DEF PartsSpec

(* A script module that is gone has left no command behind, whoever        *)
(* destroyed the last one.                                                 *)
THEOREM CommandsAlwaysTerminated == PartsSpec => []CommandsTerminated
<1>1. ProvenInv => CommandsTerminated
  BY ProvenInvSays
<1> QED
  BY <1>1, PartsKeepInv, PTL

(* A pipe that breaks ends polybar only if an action's connection had      *)
(* taken the handler.                                                      *)
THEOREM PipesHandled == PartsSpec => []PipeHandled
<1>1. ProvenInv => PipeHandled
  BY ProvenInvSays
<1> QED
  BY <1>1, PartsKeepInv, PTL

(* With all events handled, the tray is active iff it owns the selection.  *)
THEOREM SelectionAlwaysConsistent == PartsSpec => []SelectionConsistent
<1>1. ProvenInv => SelectionConsistent
  BY ProvenInvSays
<1> QED
  BY <1>1, PartsKeepInv, PTL

(* ... its clients are then the icons in its window, ...                   *)
THEOREM IconsAlwaysMirrored == PartsSpec => []IconsMirrored
<1>1. ProvenInv => IconsMirrored
  BY ProvenInvSays
<1> QED
  BY <1>1, PartsKeepInv, PTL

(* ... and the bar has made room for those that are mapped.                *)
THEOREM RoomAlwaysMade == PartsSpec => []RoomForIcons
<1>1. ProvenInv => RoomForIcons
  BY ProvenInvSays
<1> QED
  BY <1>1, PartsKeepInv, PTL

(* Whatever the bar's size and the widths of what is written, contents     *)
(* that fit are on the bar, and no block covers another.                   *)
THEOREM BlocksAlwaysVisible == PartsSpec => []BlocksVisible
<1>1. ProvenInv => BlocksVisible
  BY ProvenInvSays
<1> QED
  BY <1>1, PartsKeepInv, PTL

(* What the bar shows of mpd, alsa, i3, the ipc channel, the battery, the  *)
(* backlight, the clock, the keyboard, the pointer, the monitors, the      *)
(* desktops and the active window follows them, and its own window what it *)
(* was told.                                                               *)
THEOREM ShownAlwaysFollows == PartsSpec => []ShownFollows
<1>1. ProvenInv => ShownFollows
  BY ProvenInvSays
<1> QED
  BY <1>1, PartsKeepInv, PTL

(* A toggle turns, and a step moves, what they are about: sound, light,    *)
(* group or workspace.                                                     *)
THEOREM ActionsAlwaysTakeEffect == PartsSpec => []ActionsTakeEffect
<1>1. ProvenInv => ActionsTakeEffect
  BY ProvenInvSays
<1> QED
  BY <1>1, PartsKeepInv, PTL

(* The bar is on the monitor it names whenever that is there, its struts   *)
(* reserve it, and the purge leaves no clone and loses no place: for any   *)
(* monitors, outputs and configurations of the bar.                        *)
THEOREM MonitorsAlwaysHandled == PartsSpec => []MonitorsHandled
<1>1. ProvenInv => MonitorsHandled
  BY ProvenInvSays
<1> QED
  BY <1>1, PartsKeepInv, PTL
=============================================================================
