----------------------------- MODULE TrayProofs -----------------------------
(***************************************************************************)
(* Proofs about Tray, for any icons, any other managers and any number of  *)
(* things that they do.                                                    *)
(*                                                                         *)
(* SelectionAgreed: the tray and the X server agree about the selection.   *)
(* Requests for icons change nothing of it (Keeps, by induction over the   *)
(* set of icons); a lost selection is either still among the events or was *)
(* handled; and while a thread is about to ask or to verify (Turns,        *)
(* Decides), nothing is concluded from what it has seen.                   *)
(*                                                                         *)
(* IconsAgreed, RoomMade: they agree about the icons.  What polybar        *)
(* believes (View) and what is so (x) differ by what is queued (Fits): the *)
(* last event of a window says whether it is mapped, and of a client that  *)
(* is not in the tray window some event says that it has gone.  A request  *)
(* keeps this because it queues what it changes (Says), and a handler      *)
(* because it believes what it takes from the queue (Takes).               *)
(***************************************************************************)
EXTENDS Tray, FiniteSetTheorems, SequenceTheorems, TLAPS

(* Of a set of finite sets that is not empty one is the least that is in   *)
(* it: there is a first set for which something fails, which is what       *)
(* induction over finite sets amounts to here.                             *)
LEMMA Least ==
  ASSUME NEW S, NEW T \in SUBSET FiniteSubsetsOf(S), T # {}
  PROVE \E u \in T : \A v \in T : v \subseteq u => v = u
<1>1. \E z \in T : \A y \in T : ~ (<<y, z>> \in StrictSubsetOrdering(S))
  BY WFMin, FS_StrictSubsetOrderingWellFounded
<1>2. QED
  BY <1>1 DEF StrictSubsetOrdering, FiniteSubsetsOf

(* What a recursion over the subsets of S, one element c[u] at a time, says of f. *)
Recurs(f, S, base, c, G) ==
  f = [u \in SUBSET S |-> IF u = {} THEN base ELSE G[<<f[u \ {c[u]}], c[u]>>]]

(* There is such an f for every step G, by the elements c takes out one    *)
(* after the other.                                                        *)
LEMMA SetRecursion ==
  ASSUME NEW S, IsFiniteSet(S), NEW V, NEW base \in V, NEW c \in [SUBSET S -> S],
         \A u \in SUBSET S : u # {} => c[u] \in u,
         NEW G \in [V \X S -> V]
  PROVE \E f \in [SUBSET S -> V] : Recurs(f, S, base, c, G)
<1> DEFINE Good(u, g) == /\ g \in [SUBSET u -> V]
                         /\ \A v \in SUBSET u : g[v] = IF v = {} THEN base ELSE G[<<g[v \ {c[v]}], c[v]>>]
           Has == {u \in SUBSET S : \E g : Good(u, g)}
           Bad == (SUBSET S) \ Has
<1>1. ASSUME NEW u \in SUBSET S, NEW g, NEW h, Good(u, g), Good(u, h)
      PROVE g = h
  <2> DEFINE Differ == {v \in SUBSET u : g[v] # h[v]}
  <2> SUFFICES Differ = {}
    BY <1>1
  <2> SUFFICES ASSUME Differ # {} PROVE FALSE
    OBVIOUS
  <2>1. Differ \in SUBSET FiniteSubsetsOf(S)
    BY FS_FiniteSubsetsOfFinite
  <2>2. PICK v \in Differ : \A w \in Differ : w \subseteq v => w = v
    <3> HIDE DEF Differ
    <3> QED
      BY <2>1, Least
  <2>3. v # {}
    BY <2>2, <1>1
  <2>4. v \ {c[v]} \notin Differ /\ c[v] \in v
    BY <2>2, <2>3
  <2>5. v \in SUBSET u /\ v \ {c[v]} \in SUBSET u /\ g[v] # h[v] /\ v \in SUBSET S
    BY <2>2
  <2>6. g[v \ {c[v]}] = h[v \ {c[v]}]
    BY <2>4, <2>5
  <2> QED
    BY <2>3, <2>5, <2>6, <1>1
<1>2. Bad = {}
  <2> SUFFICES ASSUME Bad # {} PROVE FALSE
    OBVIOUS
  <2>1. Bad \in SUBSET FiniteSubsetsOf(S)
    BY FS_FiniteSubsetsOfFinite
  <2>2. PICK u \in Bad : \A w \in Bad : w \subseteq u => w = u
    <3> HIDE DEF Bad
    <3> QED
      BY <2>1, Least
  <2>3. \A v \in SUBSET u : v # u => \E g : Good(v, g)
    <3> HIDE DEF Good
    <3> QED
      BY <2>2
  <2> DEFINE part(v) == CHOOSE g : Good(v, g)
             val(v) == IF v = {} THEN base ELSE G[<<part(v \ {c[v]})[v \ {c[v]}], c[v]>>]
             whole == [v \in SUBSET u |-> val(v)]
  <2>4. \A v \in SUBSET u : v # u => Good(v, part(v))
    BY <2>3
  <2>5. ASSUME NEW v \in SUBSET u, v # u
        PROVE \A w \in SUBSET v : part(v)[w] = part(w)[w]
    <3> SUFFICES ASSUME NEW w \in SUBSET v PROVE part(v)[w] = part(w)[w]
      OBVIOUS
    <3>1. w # u /\ w \in SUBSET u /\ w \in SUBSET S
      BY <2>5
    <3>2. Good(w, part(w)) /\ Good(v, part(v))
      BY <2>4, <2>5, <3>1
    <3>3. Good(w, [z \in SUBSET w |-> part(v)[z]])
      <4> HIDE DEF part
      <4>1. \A z \in SUBSET w : z \in SUBSET v /\ z \ {c[z]} \in SUBSET w
        OBVIOUS
      <4> QED
        BY <3>2, <4>1
    <3>4. [z \in SUBSET w |-> part(v)[z]] = part(w)
      <4> HIDE DEF Good, part
      <4> QED
        BY <1>1, <3>1, <3>2, <3>3
    <3> QED
      BY <3>4
  <2>6. \A v \in SUBSET u : v # {} => v \ {c[v]} \in SUBSET u /\ v \ {c[v]} # u
    OBVIOUS
  <2>7. \A v \in SUBSET u : v # u => whole[v] = part(v)[v]
    <3> SUFFICES ASSUME NEW v \in SUBSET u, v # u PROVE val(v) = part(v)[v]
      OBVIOUS
    <3>0. v # u
      OBVIOUS
    <3>1. Good(v, part(v))
      BY <2>4
    <3>2. CASE v = {}
      <4> HIDE DEF part
      <4> QED BY <3>1, <3>2
    <3>3. CASE v # {}
      <4>1. part(v)[v \ {c[v]}] = part(v \ {c[v]})[v \ {c[v]}]
        <5> HIDE DEF part
        <5>1. v \ {c[v]} \in SUBSET v
          OBVIOUS
        <5> QED
          BY <2>5, <5>1, <3>0
      <4> HIDE DEF part
      <4> QED BY <3>1, <3>3, <4>1
    <3> QED BY <3>2, <3>3
  <2>8. Good(u, whole)
    <3>1. ASSUME NEW v \in SUBSET u PROVE whole[v] \in V
      <4> HIDE DEF part
      <4>1. CASE v = {}
        BY <4>1
      <4>2. CASE v # {}
        <5>1. part(v \ {c[v]}) \in [SUBSET (v \ {c[v]}) -> V]
          <6> v \ {c[v]} \in SUBSET u /\ v \ {c[v]} # u
            BY <2>6, <4>2
          <6> QED BY <2>4
        <5>2. part(v \ {c[v]})[v \ {c[v]}] \in V
          BY <5>1
        <5>3. c[v] \in S
          OBVIOUS
        <5> QED BY <4>2, <5>2, <5>3
      <4> QED BY <4>1, <4>2
    <3>2. ASSUME NEW v \in SUBSET u
          PROVE whole[v] = IF v = {} THEN base ELSE G[<<whole[v \ {c[v]}], c[v]>>]
      <4>1. v # {} => whole[v \ {c[v]}] = part(v \ {c[v]})[v \ {c[v]}]
        <5> HIDE DEF part, whole
        <5> QED BY <2>6, <2>7
      <4> HIDE DEF part
      <4> QED BY <4>1
    <3>3. whole \in [SUBSET u -> V]
      <4> HIDE DEF val
      <4> QED BY <3>1
    <3> HIDE DEF whole
    <3> QED BY <3>2, <3>3
  <2> HIDE DEF Good, whole
  <2> QED
    BY <2>2, <2>8
<1>3. PICK f : Good(S, f)
  BY <1>2
<1>4. f = [u \in SUBSET S |-> IF u = {} THEN base ELSE G[<<f[u \ {c[u]}], c[u]>>]]
  BY <1>3
<1> QED
  BY <1>3, <1>4 DEF Recurs

(* What f is for the empty set, and for every set that loses an element,   *)
(* it is for S.                                                            *)
LEMMA SubsetInduction ==
  ASSUME NEW S, IsFiniteSet(S), NEW V, NEW f, f[{}] \in V,
         \A u \in SUBSET S : u # {} => \E w \in u : f[u \ {w}] \in V => f[u] \in V
  PROVE  f[S] \in V
<1> DEFINE Bad == {u \in SUBSET S : f[u] \notin V}
<1> SUFFICES Bad = {}
  OBVIOUS
<1> SUFFICES ASSUME Bad # {} PROVE FALSE
  OBVIOUS
<1>1. Bad \in SUBSET FiniteSubsetsOf(S)
  BY FS_FiniteSubsetsOfFinite
<1>2. PICK u \in Bad : \A w \in Bad : w \subseteq u => w = u
  <2> HIDE DEF Bad
  <2> QED
    BY <1>1, Least
<1>3. u \in SUBSET S /\ u # {} /\ f[u] \notin V
  BY <1>2
<1>4. PICK w \in u : f[u \ {w}] \in V => f[u] \in V
  BY <1>3
<1>5. u \ {w} \in SUBSET S /\ f[u \ {w}] \notin V
  BY <1>3, <1>4
<1> QED
  BY <1>2, <1>5

(* A request for an icon of S leads from a state of V to one of V.         *)
Closed(V, S, request) == \A t \in V, w \in S : Ask(t, request, w) \in V

(* it says what has become of s when some of the icons are done, and, in   *)
(* the end, all of them.                                                   *)
Iterates(it, S, V, request, s) ==
  /\ it \in [SUBSET S -> V] /\ it[{}] = s /\ it[S] = ForAll(S, request, s)
  /\ \A u \in SUBSET S : u # {} => \E w \in u : it[u] = Ask(it[u \ {w}], request, w)

(* What the requests for the icons of a set amount to: one after the other. *)
LEMMA ForAllSteps ==
  ASSUME NEW S, IsFiniteSet(S), NEW V, NEW s \in V, NEW request,
         Closed(V, S, request)
  PROVE  \E it : Iterates(it, S, V, request, s)
<1> DEFINE any(u) == CHOOSE w \in u : TRUE
           c == [u \in SUBSET S |-> IF u = {} THEN any(S) ELSE any(u)]
           G == [p \in V \X S |-> Ask(p[1], request, p[2])]
           Iter(f) == f = [u \in SUBSET S |-> IF u = {} THEN s ELSE Ask(f[u \ {any(u)}], request, any(u))]
           it == CHOOSE f : Iter(f)
<1> HIDE DEF any
<1>1. \A u \in SUBSET S : u # {} => any(u) \in u
  BY DEF any
<1>2. ForAll(S, request, s) = it[S]
  BY DEF ForAll, FoldSet, MapThenFoldSet, any
<1>3. Iter(it)
  <2>1. CASE S = {}
    <3> DEFINE one == [u \in SUBSET S |-> s]
    <3>1. Iter(one)
      BY <2>1
    <3> HIDE DEF Iter, one
    <3> QED BY <3>1
  <2>2. CASE S # {}
    <3>1. c \in [SUBSET S -> S] /\ \A u \in SUBSET S : u # {} => c[u] = any(u)
      BY <1>1, <2>2
    <3>2. G \in [V \X S -> V]
      BY DEF Closed
    <3>3. PICK f \in [SUBSET S -> V] : Recurs(f, S, s, c, G)
      <4>1. \A u \in SUBSET S : u # {} => c[u] \in u
        BY <1>1, <3>1
      <4> HIDE DEF c, G
      <4> QED BY <4>1, <3>1, <3>2, SetRecursion
    <3>4. ASSUME NEW u \in SUBSET S
          PROVE f[u] = IF u = {} THEN s ELSE Ask(f[u \ {any(u)}], request, any(u))
      <4>1. CASE u = {}
        <5> HIDE DEF c, G
        <5> QED BY <3>3, <4>1 DEF Recurs
      <4>2. CASE u # {}
        <5>1. f[u] = G[<<f[u \ {any(u)}], any(u)>>]
          <6> HIDE DEF c, G
          <6> QED BY <3>1, <3>3, <4>2 DEF Recurs
        <5>2. f[u \ {any(u)}] \in V /\ any(u) \in S
          BY <1>1, <4>2
        <5>3. G[<<f[u \ {any(u)}], any(u)>>] = Ask(f[u \ {any(u)}], request, any(u))
          BY <5>2
        <5> QED BY <5>1, <5>3, <4>2
      <4> QED BY <4>1, <4>2
    <3>5. Iter(f)
      <4>1. f = [u \in SUBSET S |-> f[u]]
        OBVIOUS
      <4> QED BY <3>4, <4>1
    <3> HIDE DEF Iter
    <3> QED BY <3>5
  <2> QED BY <2>1, <2>2
<1>4. it[{}] = s
  <2> HIDE DEF it
  <2> QED BY <1>3
<1>5. ASSUME NEW u \in SUBSET S, u # {}
      PROVE  any(u) \in u /\ it[u] = Ask(it[u \ {any(u)}], request, any(u))
  <2> HIDE DEF it
  <2> QED BY <1>1, <1>3, <1>5
<1>6. ASSUME NEW v \in SUBSET S
      PROVE  it[v] \in V
  <2> HIDE DEF it
  <2>1. IsFiniteSet(v)
    BY FS_Subset
  <2>2. ASSUME NEW u \in SUBSET v, u # {}
        PROVE \E w \in u : it[u \ {w}] \in V => it[u] \in V
    <3>1. u \in SUBSET S
      OBVIOUS
    <3>2. any(u) \in u /\ any(u) \in S /\ it[u] = Ask(it[u \ {any(u)}], request, any(u))
      BY <1>5, <2>2, <3>1
    <3>3. it[u \ {any(u)}] \in V => it[u] \in V
      BY <3>2 DEF Closed
    <3> QED BY <3>2, <3>3
  <2> QED BY <1>4, <2>1, <2>2, SubsetInduction
<1>7. it \in [SUBSET S -> V]
  <2>1. it = [u \in SUBSET S |-> IF u = {} THEN s ELSE Ask(it[u \ {any(u)}], request, any(u))]
    BY <1>3
  <2> HIDE DEF it
  <2> QED BY <1>6, <2>1
<1> HIDE DEF it
<1>8. Iterates(it, S, V, request, s)
  BY <1>2, <1>4, <1>5, <1>7 DEF Iterates
<1> QED
  BY <1>8


(* What one request for an icon keeps (of the X server's state, which      *)
(* stays in V), a request for each of a set of icons keeps:                *)
(* reconfigure_clients() and the destructors in clear() ask in a loop.     *)
LEMMA ForAllKeeps ==
  ASSUME NEW S, IsFiniteSet(S), NEW V, NEW s \in V, NEW request, Closed(V, S, request)
  PROVE  ForAll(S, request, s) \in V
<1>1. PICK it : Iterates(it, S, V, request, s)
  BY ForAllSteps
<1> QED
  BY <1>1 DEF Iterates

(* ... and what holds for the icons that are done, of whom there is one    *)
(* more each time, holds in the end for all.                               *)
Advances(W, V, S, request) ==
  \A u \in SUBSET S : \A w \in u, t \in V : t \in W[u \ {w}] => Ask(t, request, w) \in W[u]

(* ... as polybar asks for one icon after the other.                       *)
LEMMA ForAllAdvance ==
  ASSUME NEW S, IsFiniteSet(S), NEW V, NEW s \in V, NEW request, Closed(V, S, request),
         NEW W, s \in W[{}], Advances(W, V, S, request)
  PROVE  ForAll(S, request, s) \in V /\ ForAll(S, request, s) \in W[S]
<1>1. PICK it : Iterates(it, S, V, request, s)
  BY ForAllSteps
<1> DEFINE f == [u \in SUBSET S |-> IF it[u] \in W[u] THEN 1 ELSE 0]
           Yes == {1}
<1>2. f[{}] \in Yes
  BY <1>1 DEF Iterates
<1>3. ASSUME NEW u \in SUBSET S, u # {}
      PROVE \E w \in u : f[u \ {w}] \in Yes => f[u] \in Yes
  <2>1. PICK w \in u : it[u] = Ask(it[u \ {w}], request, w)
    BY <1>1, <1>3 DEF Iterates
  <2>2. u \ {w} \in SUBSET S /\ it[u \ {w}] \in V
    BY <1>1 DEF Iterates
  <2>3. it[u \ {w}] \in W[u \ {w}] => it[u] \in W[u]
    BY <2>1, <2>2 DEF Advances
  <2>4. f[u \ {w}] \in Yes => f[u] \in Yes
    BY <2>2, <2>3
  <2> QED
    BY <2>4
<1>4. f[S] \in Yes
  <2> HIDE DEF f, Yes
  <2> QED
    BY <1>2, <1>3, SubsetInduction
<1>5. it[S] \in W[S] /\ it[S] \in V
  BY <1>1, <1>4 DEF Iterates
<1> QED
  BY <1>1, <1>5 DEF Iterates

(* What the constants are: windows are no window's name twice.             *)
Windows ==
  IsFiniteSet(Icons) /\ None \notin Icons \cup Others /\ Tray \notin Icons \cup Others

(* The X server tells of a lost selection nobody but the tray window, only *)
(* icons ask to be embedded, and what is destroyed is a window.            *)
SaneEvents ==
  {e \in Events : /\ e.type = "clear" => e.win = Tray
                  /\ e.type = "dock" => e.win \in Icons
                  /\ e.type = "destroy" => e.win \in Icons \cup Others \cup {Tray}}

XStates ==
  [owner : Others \cup {None, Tray}, alive : SUBSET (Icons \cup Others),
   inside : SUBSET Icons, mapped : SUBSET (Icons \cup Others \cup {Tray}),
   info : SUBSET Icons, heard : SUBSET (Icons \cup Others \cup {Tray}),
   events : Seq(SaneEvents)]

(* A lost selection, or anything else, that the tray window is yet to be   *)
(* told.                                                                   *)
Cleared(s) == \E n \in DOMAIN s.events : s.events[n].type = "clear"
ToTray(s) == \E n \in DOMAIN s.events : s.events[n].win = Tray

(* What no request for an icon changes.                                    *)
Keeps(s, t) ==
  /\ t \in XStates /\ t.owner = s.owner
  /\ Tray \in t.heard <=> Tray \in s.heard
  /\ Cleared(t) <=> Cleared(s)
  /\ ToTray(t) => ToTray(s) \/ Tray \in s.heard

(* One request after the other.                                            *)
LEMMA KeepsOn ==
  ASSUME NEW s, NEW t, NEW u, Keeps(s, t), Keeps(t, u)
  PROVE  Keeps(s, u)
BY DEF Keeps

(* What an event that is queued adds.                                      *)
LEMMA AppendKeeps ==
  ASSUME NEW s \in XStates, NEW e \in SaneEvents
  PROVE  LET t == [s EXCEPT !.events = Append(@, e)] IN
           /\ t \in XStates /\ t.owner = s.owner /\ t.heard = s.heard
           /\ Cleared(t) <=> Cleared(s) \/ e.type = "clear"
           /\ ToTray(t) <=> ToTray(s) \/ e.win = Tray
<1> DEFINE t == [s EXCEPT !.events = Append(@, e)]
<1>1. s.events \in Seq(SaneEvents)
  BY DEF XStates
<1>2. /\ Append(s.events, e) \in Seq(SaneEvents)
      /\ Len(Append(s.events, e)) = Len(s.events) + 1
      /\ \A n \in 1 .. Len(s.events) : Append(s.events, e)[n] = s.events[n]
      /\ Append(s.events, e)[Len(s.events) + 1] = e
  BY <1>1, AppendProperties
<1>3. t \in XStates /\ t.owner = s.owner /\ t.heard = s.heard /\ t.events = Append(s.events, e)
  BY <1>2 DEF XStates
<1>4. /\ DOMAIN s.events = 1 .. Len(s.events) /\ Len(s.events) \in Nat
      /\ DOMAIN t.events = 1 .. Len(s.events) + 1
  BY <1>1, <1>2, <1>3
<1>5. Cleared(t) <=> Cleared(s) \/ e.type = "clear"
  <2> HIDE DEF t
  <2> QED
    BY <1>2, <1>3, <1>4 DEF Cleared
<1>6. ToTray(t) <=> ToTray(s) \/ e.win = Tray
  <2> HIDE DEF t
  <2> QED
    BY <1>2, <1>3, <1>4 DEF ToTray
<1> QED
  BY <1>3, <1>5, <1>6

(* The events the X server makes of a window's changes.                    *)
LEMMA EventSane ==
  ASSUME NEW type \in {"configure", "property", "map", "unmap", "reparent", "destroy"},
         NEW win \in Icons \cup Others \cup {Tray}
  PROVE  /\ Event(type, win) \in SaneEvents
         /\ \A p \in {Tray, None} : [Event(type, win) EXCEPT !.parent = p] \in SaneEvents
         /\ Event(type, win).type = type /\ Event(type, win).win = win
BY DEF Event, SaneEvents, Events

(* An event that polybar may or may not have asked for.                    *)
LEMMA TellKeeps ==
  ASSUME NEW s \in XStates, NEW e \in SaneEvents, e.type # "clear"
  PROVE  Keeps(s, Tell(s, e))
<1>1. CASE e.win \in s.heard
  BY <1>1, AppendKeeps DEF Tell, Keeps
<1>2. CASE e.win \notin s.heard
  BY <1>2 DEF Tell, Keeps
<1> QED
  BY <1>1, <1>2

(* Where windows are, and whether they are mapped or alive, is no matter   *)
(* of the selection.                                                       *)
LEMMA PlacesKeep ==
  ASSUME NEW s \in XStates, NEW m \in SUBSET (Icons \cup Others \cup {Tray}),
         NEW i \in SUBSET Icons, NEW a \in SUBSET (Icons \cup Others)
  PROVE  /\ Keeps(s, [s EXCEPT !.mapped = m])
         /\ Keeps(s, [s EXCEPT !.inside = i])
         /\ Keeps(s, [s EXCEPT !.alive = a])
BY DEF XStates, Keeps, Cleared, ToTray

(* Mapping a window.                                                       *)
LEMMA XMapKeeps ==
  ASSUME NEW s \in XStates, NEW w \in Icons \cup Others \cup {Tray}
  PROVE  Keeps(s, XMap(s, w))
<1> DEFINE t == [s EXCEPT !.mapped = @ \cup {w}]
<1>1. Keeps(s, t) /\ Keeps(s, s)
  <2>1. s.mapped \cup {w} \in SUBSET (Icons \cup Others \cup {Tray})
    BY DEF XStates
  <2> QED
    BY <2>1, PlacesKeep DEF Keeps
<1>2. Keeps(t, Tell(t, Event("map", w)))
  <2>1. t \in XStates
    BY <1>1 DEF Keeps
  <2> HIDE DEF t
  <2> QED
    BY <2>1, EventSane, TellKeeps
<1> HIDE DEF t
<1>3. XMap(s, w) \in {s, Tell(t, Event("map", w))}
  BY DEF XMap, t
<1> QED
  BY <1>1, <1>2, <1>3, KeepsOn

(* Unmapping one.                                                          *)
LEMMA XUnmapKeeps ==
  ASSUME NEW s \in XStates, NEW w \in Icons \cup Others \cup {Tray}
  PROVE  Keeps(s, XUnmap(s, w))
<1> DEFINE t == [s EXCEPT !.mapped = @ \ {w}]
<1>1. Keeps(s, t) /\ Keeps(s, s)
  <2>1. s.mapped \ {w} \in SUBSET (Icons \cup Others \cup {Tray})
    BY DEF XStates
  <2> QED
    BY <2>1, PlacesKeep DEF Keeps
<1>2. Keeps(t, Tell(t, Event("unmap", w)))
  <2>1. t \in XStates
    BY <1>1 DEF Keeps
  <2> HIDE DEF t
  <2> QED
    BY <2>1, EventSane, TellKeeps
<1> HIDE DEF t
<1>3. XUnmap(s, w) \in {s, Tell(t, Event("unmap", w))}
  BY DEF XUnmap, t
<1> QED
  BY <1>1, <1>2, <1>3, KeepsOn

(* Moving an icon, unmapped and mapped again on the way.                   *)
LEMMA XReparentKeeps ==
  ASSUME NEW s \in XStates, NEW i \in Icons, NEW p \in {Tray, None}
  PROVE  Keeps(s, XReparent(s, i, p))
<1> DEFINE in == IF p = Tray THEN XUnmap(s, i).inside \cup {i} ELSE XUnmap(s, i).inside \ {i}
           t == [XUnmap(s, i) EXCEPT !.inside = IF p = Tray THEN @ \cup {i} ELSE @ \ {i}]
           moved == Tell(t, [Event("reparent", i) EXCEPT !.parent = p])
<1>1. Keeps(s, XUnmap(s, i))
  BY XUnmapKeeps
<1>2. XUnmap(s, i) \in XStates
  BY <1>1 DEF Keeps
<1>3. Keeps(XUnmap(s, i), t)
  <2>1. t = [XUnmap(s, i) EXCEPT !.inside = in] /\ in \in SUBSET Icons
    BY <1>2 DEF XStates
  <2> HIDE DEF in, t
  <2> QED
    BY <1>2, <2>1, PlacesKeep
<1>4. Keeps(t, moved)
  <2>1. t \in XStates
    BY <1>3 DEF Keeps
  <2>2. [Event("reparent", i) EXCEPT !.parent = p] \in SaneEvents
    BY EventSane
  <2>3. [Event("reparent", i) EXCEPT !.parent = p].type # "clear"
    BY DEF Event
  <2> HIDE DEF t
  <2> QED
    BY <2>1, <2>2, <2>3, TellKeeps
<1> HIDE DEF t
<1>5. Keeps(s, moved)
  <2> HIDE DEF moved
  <2> QED
    BY <1>1, <1>3, <1>4, KeepsOn
<1>6. Keeps(moved, XMap(moved, i))
  <2>1. moved \in XStates
    BY <1>5 DEF Keeps
  <2> QED
    BY <2>1, XMapKeeps
<1>7. Keeps(s, s)
  BY DEF Keeps
<1>8. XReparent(s, i, p) \in {s, moved, XMap(moved, i)}
  BY DEF XReparent, t
<1> HIDE DEF moved
<1> QED
  BY <1>5, <1>6, <1>7, <1>8, KeepsOn

(* So no request for an icon concerns the selection ...                    *)
LEMMA AskKeeps ==
  ASSUME NEW s \in XStates, NEW request \in Requests, NEW i \in Icons
  PROVE  Keeps(s, Ask(s, request, i))
<1>1. Keeps(s, XMap(s, i)) /\ Keeps(s, XUnmap(s, i))
  BY XMapKeeps, XUnmapKeeps
<1>2. Keeps(s, Unembed(s, i))
  <2>1. XUnmap(s, i) \in XStates
    BY <1>1 DEF Keeps
  <2>2. Keeps(XUnmap(s, i), Unembed(s, i))
    BY <2>1, XReparentKeeps DEF Unembed
  <2> QED
    BY <1>1, <2>2, KeepsOn
<1> QED
  BY <1>1, <1>2 DEF Ask, Requests

(* ... nor do any number of them.                                          *)
LEMMA IconsKeep ==
  ASSUME Windows, NEW s \in XStates, NEW request \in Requests, NEW S \in SUBSET Icons
  PROVE  Keeps(s, ForAll(S, request, s))
<1> DEFINE V == {t \in XStates : Keeps(s, t)}
<1>1. IsFiniteSet(S)
  BY FS_Subset DEF Windows
<1>2. s \in V
  BY DEF Keeps
<1>3. Closed(V, S, request)
  <2> SUFFICES ASSUME NEW t \in V, NEW i \in S PROVE Ask(t, request, i) \in V
    BY DEF Closed
  <2>1. Keeps(t, Ask(t, request, i))
    BY AskKeeps
  <2>2. Keeps(s, Ask(t, request, i))
    BY <2>1, KeepsOn
  <2> QED
    BY <2>2 DEF Keeps
<1>4. ForAll(S, request, s) \in V
  <2> HIDE DEF V
  <2> QED
    BY <1>1, <1>2, <1>3, ForAllKeeps
<1> QED
  BY <1>4
-----------------------------------------------------------------------------
(* The invariant.  Who is about to decide for whom the selection is: a     *)
(* thread that activates, or the main thread when it was lost.             *)
Deciding == {"activate", "track", "take", "verify", "lost"}
Threads == {"main", "worker"}

Typed ==
  /\ x \in XStates /\ m_activated \in BOOLEAN /\ m_acquired_selection \in BOOLEAN
  /\ m_othermanager \in Others \cup {None, Tray} /\ m_clients \in SUBSET Icons
  /\ pc \in [Threads -> PC] /\ docking \in Icons \cup {None}
  /\ pc["main"] = "setup" => docking \in Icons
  /\ pc["worker"] \notin {"lost", "setup"}

(* A tray that is not active has no window that could own the selection,   *)
(* and nobody will speak of one.                                           *)
Inactive == ~m_activated => x.owner # Tray /\ Tray \notin x.heard /\ ~ToTray(x)

(* One that is active hears of its selection, and if nobody is deciding it *)
(* has it or will be told that it has lost it.                             *)
Active ==
  m_activated =>
    /\ Tray \in x.heard
    /\ (\A t \in Threads : pc[t] \notin Deciding) =>
         (m_acquired_selection /\ x.owner = Tray) \/ Cleared(x)

(* The threads take turns in deciding.                                     *)
Turns ==
  /\ pc["worker"] \in Deciding => pc["main"] \notin Deciding
  /\ pc["worker"] = "activate" => m_othermanager = None

(* What a thread that decides can rely on.                                 *)
Decides ==
  \A t \in Threads :
    /\ pc[t] = "activate" => ~m_activated
    /\ pc[t] \in {"track", "take", "verify", "lost"} => m_activated
    /\ pc[t] \in {"track", "take", "verify"} => ~m_acquired_selection
    /\ pc[t] \in {"track", "take"} => ~Cleared(x)
    /\ pc[t] \in {"track", "take", "lost"} => x.owner # Tray
    /\ pc[t] = "verify" => x.owner = Tray \/ Cleared(x)

Sel ==
  Running /\ ~overtaken =>
    /\ m_acquired_selection => m_activated
    /\ Cleared(x) => x.owner # Tray
    /\ Inactive /\ Active /\ Turns /\ Decides

Inv == Typed /\ Sel
-----------------------------------------------------------------------------
(* What is left when an event has been taken: unless it was one of the     *)
(* selection, nothing about the selection has changed.                     *)
LEMMA RestKeeps ==
  ASSUME Typed, x.events # <<>>
  PROVE  /\ Rest \in XStates /\ Rest.owner = x.owner /\ Rest.heard = x.heard
         /\ Head(x.events) \in SaneEvents
         /\ Head(x.events).type = "clear" => Cleared(x)
         /\ Head(x.events).type # "clear" => Keeps(x, Rest)
         /\ Cleared(Rest) => Cleared(x)
         /\ ToTray(Rest) => ToTray(x)
<1>1. x.events \in Seq(SaneEvents) /\ x.events # <<>>
  BY DEF Typed, XStates
<1>2. /\ Tail(x.events) \in Seq(SaneEvents) /\ Head(x.events) \in SaneEvents
      /\ Len(x.events) \in Nat \ {0} /\ Len(Tail(x.events)) = Len(x.events) - 1
      /\ Head(x.events) = x.events[1]
      /\ \A n \in 1 .. Len(Tail(x.events)) : Tail(x.events)[n] = x.events[n + 1]
  BY <1>1, HeadTailProperties
<1>3. Rest \in XStates /\ Rest.owner = x.owner /\ Rest.heard = x.heard /\ Rest.events = Tail(x.events)
  BY <1>2 DEF Rest, Typed, XStates
<1>4. DOMAIN x.events = 1 .. Len(x.events) /\ DOMAIN Rest.events = 1 .. Len(x.events) - 1
  BY <1>1, <1>2, <1>3
<1>5. \A n \in DOMAIN Rest.events : n + 1 \in DOMAIN x.events /\ Rest.events[n] = x.events[n + 1]
  BY <1>2, <1>3, <1>4
<1>6. \A n \in DOMAIN x.events : n # 1 => n - 1 \in DOMAIN Rest.events /\ Rest.events[n - 1] = x.events[n]
  BY <1>2, <1>3, <1>4
<1>7. (Cleared(Rest) => Cleared(x)) /\ (ToTray(Rest) => ToTray(x))
  BY <1>5 DEF Cleared, ToTray
<1>8. Head(x.events).type # "clear" => (Cleared(x) => Cleared(Rest))
  BY <1>2, <1>6 DEF Cleared
<1>9. Head(x.events).type = "clear" => Cleared(x)
  BY <1>2, <1>4 DEF Cleared
<1> QED
  BY <1>2, <1>3, <1>7, <1>8, <1>9 DEF Keeps

(* The one owner is told, the other is not.                                *)
LEMMA XSetOwnerEffect ==
  ASSUME NEW s \in XStates, NEW w \in Others \cup {None, Tray}
  PROVE  LET t == XSetOwner(s, w) IN
           /\ t \in XStates /\ t.owner = w /\ t.heard = s.heard
           /\ Cleared(t) <=> Cleared(s) \/ (s.owner = Tray /\ Tray \in s.heard)
           /\ ToTray(t) => ToTray(s) \/ Tray \in s.heard
<1> DEFINE told == IF s.owner = Tray THEN Tell(s, Event("clear", Tray)) ELSE s
<1>1. Event("clear", Tray) \in SaneEvents /\ Event("clear", Tray).type = "clear" /\ Event("clear", Tray).win = Tray
  BY DEF Event, SaneEvents, Events
<1>2. /\ told \in XStates /\ told.heard = s.heard
      /\ Cleared(told) <=> Cleared(s) \/ (s.owner = Tray /\ Tray \in s.heard)
      /\ ToTray(told) => ToTray(s) \/ Tray \in s.heard
  <2>1. CASE s.owner = Tray /\ Tray \in s.heard
    BY <1>1, <2>1, AppendKeeps DEF Tell
  <2>2. CASE ~(s.owner = Tray /\ Tray \in s.heard)
    BY <1>1, <2>2 DEF Tell
  <2> QED
    BY <2>1, <2>2
<1>3. XSetOwner(s, w) = [told EXCEPT !.owner = w]
  BY DEF XSetOwner
<1> HIDE DEF told
<1> QED
  BY <1>2, <1>3 DEF XStates, Cleared, ToTray

(* A window that ends gives back its selection without a word.             *)
LEMMA XDestroyEffect ==
  ASSUME Windows, NEW s \in XStates, NEW w \in Icons \cup Others
  PROVE  LET t == XDestroy(s, w) IN
           /\ t \in XStates /\ t.owner = (IF s.owner = w THEN None ELSE s.owner)
           /\ Tray \in t.heard <=> Tray \in s.heard
           /\ Cleared(t) <=> Cleared(s)
           /\ ToTray(t) => ToTray(s) \/ Tray \in s.heard
<1> DEFINE u == XUnmap(s, w)
           d == [u EXCEPT !.alive = @ \ {w}, !.inside = @ \ {w}, !.owner = IF @ = w THEN None ELSE @]
<1>1. Keeps(s, u) /\ u \in XStates
  BY XUnmapKeeps DEF Keeps
<1> HIDE DEF u
<1>2. /\ d \in XStates /\ d.owner = (IF u.owner = w THEN None ELSE u.owner) /\ d.heard = u.heard
      /\ Cleared(d) <=> Cleared(u)
      /\ ToTray(d) <=> ToTray(u)
  BY <1>1 DEF XStates, Cleared, ToTray
<1> HIDE DEF d
<1>3. Keeps(d, Tell(d, Event("destroy", w)))
  BY <1>2, EventSane, TellKeeps
<1>4. XDestroy(s, w) = Tell(d, Event("destroy", w))
  BY DEF XDestroy, d, u
<1> QED
  BY <1>1, <1>2, <1>3, <1>4 DEF Keeps

(* Listening to another manager's window.                                  *)
LEMMA TrackOwnerKeeps ==
  ASSUME Windows, Typed, NEW s \in XStates
  PROVE  Keeps(s, TrackOwner(s))
BY DEF Windows, Typed, TrackOwner, Keeps, XStates, Cleared, ToTray

(* What is still queued for the tray window when that is destroyed does    *)
(* not reach a handler as such.                                            *)
LEMMA OutdatedSane ==
  ASSUME Windows, NEW events \in Seq(SaneEvents)
  PROVE  /\ Outdated(events) \in Seq(SaneEvents)
         /\ \A n \in DOMAIN Outdated(events) :
              Outdated(events)[n].win # Tray /\ Outdated(events)[n].type # "clear"
<1>1. Event("stale", None) \in SaneEvents /\ Event("stale", None).win # Tray /\ Event("stale", None).type # "clear"
  BY DEF Event, SaneEvents, Events, None, Tray
<1>2. \A n \in DOMAIN events : events[n] \in SaneEvents
  BY ElementOfSeq
<1>3. \A n \in DOMAIN events :
        LET e == IF events[n].win = Tray THEN Event("stale", None) ELSE events[n]
        IN e \in SaneEvents /\ e.win # Tray /\ e.type # "clear"
  BY <1>1, <1>2 DEF SaneEvents
<1>4. DOMAIN events = 1 .. Len(events) /\ Len(events) \in Nat
  OBVIOUS
<1>5. Outdated(events) \in [1 .. Len(events) -> SaneEvents]
  BY <1>3, <1>4 DEF Outdated
<1>6. Outdated(events) \in Seq(SaneEvents)
  BY <1>4, <1>5
<1> QED
  BY <1>3, <1>6 DEF Outdated

(* deactivate() leaves no window, no selection and nothing to be heard of  *)
(* either.                                                                 *)
LEMMA DeactivateEffect ==
  ASSUME Windows, Typed, NEW s \in XStates, NEW clear_selection \in BOOLEAN, Deactivate(s, clear_selection)
  PROVE  /\ x' \in XStates /\ x'.owner # Tray /\ Tray \notin x'.heard /\ ~ToTray(x') /\ ~Cleared(x')
         /\ m_activated' = FALSE /\ m_acquired_selection' = FALSE /\ m_clients' = {}
<1> DEFINE cleared == IF clear_selection /\ m_acquired_selection THEN XSetOwner(s, None) ELSE s
           left == ForAll(m_clients, "unembed", cleared)
<1>1. cleared \in XStates
  BY XSetOwnerEffect
<1> HIDE DEF cleared
<1>2. left \in XStates
  BY <1>1, IconsKeep DEF Typed, Keeps, Requests
<1>3. /\ x' = [left EXCEPT !.owner = IF @ = Tray THEN None ELSE @, !.inside = {}, !.mapped = @ \ {Tray},
                          !.heard = @ \ {Tray}, !.events = Outdated(@)]
      /\ m_activated' = FALSE /\ m_acquired_selection' = FALSE /\ m_clients' = {}
  BY DEF Deactivate, cleared
<1> HIDE DEF left
<1>4. left.events \in Seq(SaneEvents)
  BY <1>2 DEF XStates
<1>5. x' \in XStates /\ x'.owner # Tray /\ Tray \notin x'.heard /\ x'.events = Outdated(left.events)
  BY <1>2, <1>3, <1>4, OutdatedSane DEF XStates, None, Tray
<1> QED
  BY <1>3, <1>4, <1>5, OutdatedSane DEF Cleared, ToTray

(* reconfigure() maps and unmaps only, if it does anything.                *)
LEMMA ReconfigureKeeps ==
  ASSUME Windows, NEW s \in XStates, NEW C \in SUBSET Icons, NEW M, NEW F, Reconfigure(s, C, M, F)
  PROVE  Keeps(s, x') /\ m_clients' \in SUBSET Icons
<1> DEFINE live == C \cap s.alive
           first == ForAll((live \cap F) \ M, "map", s)
           icons == ForAll((live \cap M) \ F, "unmap", first)
<1>1. live \in SUBSET Icons
  OBVIOUS
<1> HIDE DEF live
<1>2. Keeps(s, first)
  BY <1>1, IconsKeep DEF Requests
<1> HIDE DEF first
<1>3. Keeps(first, icons)
  BY <1>1, <1>2, IconsKeep DEF Requests, Keeps
<1> HIDE DEF icons
<1>4. Keeps(s, icons) /\ icons \in XStates
  BY <1>2, <1>3, KeepsOn DEF Keeps
<1>5. Keeps(icons, XUnmap(icons, Tray)) /\ Keeps(icons, XMap(icons, Tray)) /\ Keeps(icons, icons)
  BY <1>4, XUnmapKeeps, XMapKeeps DEF Keeps
<1>6. CASE Held
  BY <1>6 DEF Reconfigure, Keeps
<1>7. CASE ~Held
  <2>1. x' \in {icons, XUnmap(icons, Tray), XMap(icons, Tray)} /\ m_clients' = live
    BY <1>7 DEF Reconfigure, icons, first, live
  <2> QED
    BY <1>1, <1>4, <1>5, <2>1, KeepsOn
<1> QED
  BY <1>6, <1>7

(* Removing a client, likewise.                                            *)
LEMMA RemoveKeeps ==
  ASSUME Windows, Typed, NEW s \in XStates, NEW i \in Icons, Remove(s, i)
  PROVE  Keeps(s, x') /\ m_clients' \in SUBSET Icons
<1>1. Keeps(s, Unembed(s, i))
  BY AskKeeps DEF Ask, Requests
<1>2. m_clients \ {i} \in SUBSET Icons /\ Unembed(s, i) \in XStates
  BY <1>1 DEF Typed, Keeps
<1>3. Keeps(Unembed(s, i), x') /\ m_clients' \in SUBSET Icons
  BY <1>2, ReconfigureKeeps DEF Remove
<1> QED
  BY <1>1, <1>3, KeepsOn

(* And so does a change of the bar's visibility.                           *)
LEMMA VisibilityKeeps ==
  ASSUME NEW s \in XStates, NEW v, Toggle(s, v)
  PROVE  Keeps(s, x')
<1>1. x' \in {s, XUnmap(s, Tray), XMap(s, Tray)}
  BY DEF Toggle
<1> QED
  BY <1>1, XUnmapKeeps, XMapKeeps DEF Keeps

(* Listening to an icon.                                                   *)
LEMMA HearKeeps ==
  ASSUME Windows, NEW s \in XStates, NEW w \in Icons \cup Others
  PROVE  Keeps(s, [s EXCEPT !.heard = @ \cup {w}])
BY DEF Windows, XStates, Keeps, Cleared, ToTray

(* Only the tray window is told of a selection.                            *)
LEMMA ClearedToTray ==
  ASSUME NEW s \in XStates, Cleared(s)
  PROVE  ToTray(s)
<1>1. s.events \in Seq(SaneEvents)
  BY DEF XStates
<1>2. \A n \in DOMAIN s.events : s.events[n] \in SaneEvents
  BY <1>1, ElementOfSeq
<1> QED
  BY <1>2 DEF Cleared, ToTray, SaneEvents

(* A step in which no thread begins or ends to decide.                     *)
Calm ==
  /\ Keeps(x, x') /\ m_clients' \in SUBSET Icons
  /\ UNCHANGED <<selection, overtaken>>

(* Such a step keeps what holds of the selection ...                       *)
LEMMA CalmSel ==
  ASSUME Typed, Sel, Calm, pc' \in [Threads -> PC],
         \A t \in Threads : pc'[t] = pc[t] \/ (pc[t] \notin Deciding /\ pc'[t] \notin Deciding),
         Running
  PROVE  Sel'
<1>1. /\ m_activated' = m_activated /\ m_acquired_selection' = m_acquired_selection
      /\ m_othermanager' = m_othermanager /\ overtaken' = overtaken
  BY DEF Calm, selection
<1>2. \A t \in Threads, D \in SUBSET Deciding : pc'[t] \in D <=> pc[t] \in D
  OBVIOUS
<1> SUFFICES ASSUME ~overtaken PROVE Sel'
  BY <1>1 DEF Sel
<1>3. /\ m_acquired_selection => m_activated
      /\ Cleared(x) => x.owner # Tray
      /\ Inactive /\ Active /\ Turns /\ Decides
  BY DEF Sel
<1>4. (Cleared(x) => x.owner # Tray)'
  BY <1>3 DEF Calm, Keeps
<1>5. Inactive'
  BY <1>1, <1>3 DEF Calm, Keeps, Inactive
<1>6. Active'
  BY <1>1, <1>2, <1>3 DEF Calm, Keeps, Active
<1>7. Turns'
  BY <1>1, <1>2, <1>3 DEF Turns, Threads, Deciding
<1>8. Decides'
  <2> SUFFICES ASSUME NEW t \in Threads
      PROVE /\ pc'[t] = "activate" => ~m_activated
            /\ pc'[t] \in {"track", "take", "verify", "lost"} => m_activated
            /\ pc'[t] \in {"track", "take", "verify"} => ~m_acquired_selection
            /\ pc'[t] \in {"track", "take"} => ~Cleared(x')
            /\ pc'[t] \in {"track", "take", "lost"} => x'.owner # Tray
            /\ pc'[t] = "verify" => x'.owner = Tray \/ Cleared(x')
    BY <1>1 DEF Decides
  <2>1. \A D \in SUBSET Deciding : pc'[t] \in D => pc'[t] = pc[t]
    BY <1>2
  <2>2. CASE pc'[t] \notin Deciding
    BY <2>2 DEF Deciding
  <2>3. CASE pc'[t] \in Deciding
    <3>1. pc'[t] = pc[t]
      BY <2>3, <2>1
    <3> QED
      BY <3>1, <1>3 DEF Decides, Calm, Keeps
  <2> QED
    BY <2>2, <2>3
<1> QED
  BY <1>1, <1>3, <1>4, <1>5, <1>6, <1>7, <1>8 DEF Sel

(* ... and the whole invariant, when it leaves the threads where they are. *)
LEMMA CalmKeeps ==
  ASSUME Inv, Running, Calm, UNCHANGED <<pc, docking>>
  PROVE  Inv'
<1>1. Typed'
  BY DEF Inv, Typed, Calm, Keeps, selection
<1>2. Sel'
  BY CalmSel DEF Inv, Typed
<1> QED
  BY <1>1, <1>2 DEF Inv

(* The events other than that of the selection.                            *)
LEMMA HandlesCalm ==
  ASSUME Windows, Inv, NEW type, type # "clear", Handles(type)
  PROVE  /\ Running /\ Keeps(x, Rest) /\ Rest \in XStates
         /\ type = "dock" => Subject \in Icons
         /\ type = "destroy" => Subject \in Icons \cup Others \cup {Tray}
BY RestKeeps DEF Inv, Handles, At, SaneEvents, Subject, Keeps

(* An event that concerns nobody.                                          *)
LEMMA IgnoreKeeps ==
  ASSUME Windows, Inv, NEW type, type # "clear", Handles(type), Ignore
  PROVE  Inv'
<1>1. Running /\ Calm /\ UNCHANGED <<pc, docking>>
  BY HandlesCalm DEF Ignore, Calm, clients, User, Inv, Typed
<1> QED
  BY <1>1, CalmKeeps

(* process_docking_request(): refused, or begun.                           *)
LEMMA DockKeeps ==
  ASSUME Windows, Inv, Dock
  PROVE  Inv'
<1>1. Running /\ Keeps(x, Rest) /\ Rest \in XStates /\ Subject \in Icons /\ pc["main"] = "idle"
  BY HandlesCalm DEF Dock, Handles, At
<1>2. CASE Ignore
  BY <1>2, IgnoreKeeps DEF Dock
<1>3. CASE /\ Reconfigure(Rest, m_clients, clients_mapped, flags)
           /\ UNCHANGED <<selection, Window, pc, docking, User>>
  <2>1. Keeps(Rest, x') /\ m_clients' \in SUBSET Icons
    BY <1>1, <1>3, ReconfigureKeeps DEF Inv, Typed
  <2>2. Calm
    BY <1>1, <1>3, <2>1, KeepsOn DEF Calm, User
  <2> QED
    BY <1>1, <1>3, <2>2, CalmKeeps
<1>4. CASE /\ m_clients' = m_clients \cup {Subject}
           /\ docking' = Subject /\ Goto("main", "setup") /\ x' = Rest
           /\ UNCHANGED <<selection, Window, clients_mapped, room, User>>
  <2>1. Calm
    BY <1>1, <1>4 DEF Calm, User, Inv, Typed
  <2>2. /\ pc' \in [Threads -> PC] /\ pc'["main"] = "setup" /\ pc'["worker"] = pc["worker"]
    BY <1>4 DEF Goto, Inv, Typed, Threads, PC
  <2>3. Sel'
    BY <1>1, <2>1, <2>2, CalmSel DEF Inv, Threads, Deciding
  <2>4. Typed'
    BY <1>1, <1>4, <2>1, <2>2 DEF Inv, Typed, Calm, Keeps, selection
  <2> QED
    BY <2>3, <2>4 DEF Inv
<1> QED
  BY <1>2, <1>3, <1>4 DEF Dock

(* ... and finished, whether or not the icon is still there.               *)
LEMMA SetupKeeps ==
  ASSUME Windows, Inv, Setup
  PROVE  Inv'
<1> DEFINE heard == [x EXCEPT !.heard = @ \cup {docking}]
           inside == XReparent(heard, docking, Tray)
<1>1. docking \in Icons /\ x \in XStates /\ Running /\ pc["main"] = "setup"
  BY DEF Inv, Typed, Setup, At
<1>2. Keeps(x, heard)
  BY <1>1, HearKeeps
<1> HIDE DEF heard
<1>3. Keeps(heard, inside)
  BY <1>1, <1>2, XReparentKeeps DEF Keeps
<1> HIDE DEF inside
<1>4. Keeps(x, inside)
  BY <1>2, <1>3, KeepsOn
<1>5. Keeps(x, XMap(inside, docking))
  <2>1. Keeps(inside, XMap(inside, docking))
    BY <1>1, <1>4, XMapKeeps DEF Keeps
  <2> QED
    BY <1>4, <2>1, KeepsOn
<1>6. Keeps(x, x)
  BY <1>1 DEF Keeps
<1>7. x' \in {x, inside, XMap(inside, docking)} /\ m_clients' \in SUBSET Icons
  BY DEF Setup, heard, inside, clients, Inv, Typed
<1>8. Calm
  BY <1>4, <1>5, <1>6, <1>7 DEF Calm, Setup, User
<1>9. pc' \in [Threads -> PC] /\ pc'["main"] = "idle" /\ pc'["worker"] = pc["worker"] /\ docking' = None
  BY DEF Goto, Inv, Typed, Threads, PC, Setup
<1>10. Sel'
  BY <1>1, <1>8, <1>9, CalmSel DEF Inv, Threads, Deciding
<1>11. Typed'
  BY <1>1, <1>8, <1>9 DEF Inv, Typed, Calm, Keeps, selection
<1> QED
  BY <1>10, <1>11 DEF Inv

(* The handlers that remove an icon.                                       *)
LEMMA RemovesKeeps ==
  ASSUME Windows, Inv, NEW type, type # "clear", Handles(type), Subject \in m_clients,
         Remove(Rest, Subject), UNCHANGED <<selection, Window, pc, docking, User>>
  PROVE  Inv'
<1>1. Running /\ Keeps(x, Rest) /\ Rest \in XStates
  BY HandlesCalm
<1>2. Keeps(Rest, x') /\ m_clients' \in SUBSET Icons
  BY <1>1, RemoveKeeps DEF Inv, Typed
<1>3. Calm
  BY <1>1, <1>2, KeepsOn DEF Calm, User
<1> QED
  BY <1>1, <1>3, CalmKeeps

(* The handlers that make room for one.                                    *)
LEMMA ReconfiguresKeeps ==
  ASSUME Windows, Inv, NEW type, type # "clear", Handles(type), NEW M, NEW F,
         Reconfigure(Rest, m_clients, M, F), UNCHANGED <<selection, pc, docking, User>>
  PROVE  Inv'
<1>1. Running /\ Keeps(x, Rest) /\ Rest \in XStates
  BY HandlesCalm
<1>2. Keeps(Rest, x') /\ m_clients' \in SUBSET Icons
  BY <1>1, ReconfigureKeeps DEF Inv, Typed
<1>3. Calm
  BY <1>1, <1>2, KeepsOn DEF Calm, User
<1> QED
  BY <1>1, <1>3, CalmKeeps

(* An event that is dealt with without a request.                          *)
LEMMA RestInv ==
  ASSUME Windows, Inv, NEW type, type # "clear", Handles(type), x' = Rest,
         UNCHANGED <<selection, m_clients, pc, docking, User>>
  PROVE  Inv'
<1>1. Running /\ Calm
  BY HandlesCalm DEF Calm, User, Inv, Typed
<1> QED
  BY <1>1, CalmKeeps

(* property_notify.                                                        *)
LEMMA PropertyKeeps ==
  ASSUME Windows, Inv, PropertyNotify
  PROVE  Inv'
<1>1. Handles("property")
  BY DEF PropertyNotify
<1>2. CASE Ignore
  BY <1>1, <1>2, IgnoreKeeps
<1>3. CASE /\ Subject \in m_clients /\ UNCHANGED <<selection, Window, pc, docking, User>>
  <2>1. CASE Remove(Rest, Subject)
    BY <1>1, <1>3, <2>1, RemovesKeeps
  <2>2. CASE \E F : Reconfigure(Rest, m_clients, clients_mapped, F)
    BY <1>1, <1>3, <2>2, ReconfiguresKeeps
  <2>3. CASE x' = Rest /\ UNCHANGED m_clients
    BY <1>1, <1>3, <2>3, RestInv
  <2> QED
    BY <1>2, <1>3, <2>1, <2>2, <2>3 DEF PropertyNotify
<1> QED
  BY <1>2, <1>3 DEF PropertyNotify

(* map_notify.                                                             *)
LEMMA MapKeeps ==
  ASSUME Windows, Inv, MapNotify
  PROVE  Inv'
<1>1. Handles("map") /\ UNCHANGED <<selection, pc, docking, User>>
  BY DEF MapNotify
<1>2. CASE x' = Rest /\ UNCHANGED m_clients
  BY <1>1, <1>2, RestInv
<1>3. CASE \E M : Reconfigure(Rest, m_clients, M, flags)
  BY <1>1, <1>3, ReconfiguresKeeps
<1> QED
  BY <1>2, <1>3 DEF MapNotify, clients

(* All handlers but the two that are about the selection.                  *)
LEMMA HandlerKeeps ==
  ASSUME Windows, Inv, Handler, ~SelectionClear, ~DestroyNotify
  PROVE  Inv'
<1>1. CASE Dock
  BY <1>1, DockKeeps
<1>2. CASE ConfigureRequest
  BY <1>2, IgnoreKeeps, RemovesKeeps DEF ConfigureRequest
<1>3. CASE PropertyNotify
  BY <1>3, PropertyKeeps
<1>4. CASE ReparentNotify
  BY <1>4, IgnoreKeeps, RemovesKeeps DEF ReparentNotify
<1>5. CASE MapNotify
  BY <1>5, MapKeeps
<1>6. CASE UnmapNotify
  BY <1>6, RestInv DEF UnmapNotify
<1>7. CASE Expose
  <2>1. Running /\ Keeps(x, Rest) /\ Rest \in XStates
    BY <1>7, HandlesCalm DEF Expose
  <2>2. Keeps(Rest, x')
    BY <1>7, <2>1, VisibilityKeeps DEF Expose, VisibilityChange
  <2>3. Calm
    BY <1>7, <2>1, <2>2, KeepsOn DEF Calm, Expose, User, clients, Inv, Typed
  <2> QED
    BY <1>7, <2>1, <2>3, CalmKeeps DEF Expose
<1>8. CASE UpdateBackground
  BY <1>8, RestInv DEF UpdateBackground, clients
<1>9. CASE Stale
  BY <1>9, IgnoreKeeps DEF Stale
<1> QED
  BY <1>1, <1>2, <1>3, <1>4, <1>5, <1>6, <1>7, <1>8, <1>9 DEF Handler

(* The bar shows or hides the tray.                                        *)
LEMMA VisibleKeeps ==
  ASSUME Windows, Inv, NEW v \in BOOLEAN, TellVisibility(v) \/ SetVisible(v) \/ Broadcast
  PROVE  Inv'
<1>1. CASE TellVisibility(v)
  <2>1. Running /\ pc["worker"] \in {"tell_visible", "tell_hidden"}
    BY <1>1 DEF TellVisibility, At
  <2>2. Calm
    BY <1>1, VisibilityKeeps DEF TellVisibility, Calm, User, clients, Inv, Typed
  <2>3. pc' \in [Threads -> PC] /\ pc'["main"] = pc["main"] /\ docking' = docking
        /\ pc'["worker"] \in {"refresh", "idle"}
    BY <1>1 DEF TellVisibility, Goto, Inv, Typed, Threads, PC
  <2>4. Sel'
    BY <2>1, <2>2, <2>3, CalmSel DEF Inv, Threads, Deciding
  <2>5. Typed'
    BY <2>1, <2>2, <2>3 DEF Inv, Typed, Calm, Keeps, selection
  <2> QED
    BY <2>4, <2>5 DEF Inv
<1>2. CASE SetVisible(v)
  <2>1. Running /\ Calm /\ UNCHANGED <<pc, docking>>
    BY <1>2, VisibilityKeeps DEF SetVisible, VisibilityChange, At, Calm, clients, Inv, Typed
  <2> QED
    BY <2>1, CalmKeeps
<1>3. CASE Broadcast
  <2>1. Running /\ pc["worker"] = "broadcast"
    BY <1>3 DEF Broadcast, At
  <2>2. Calm
    BY <1>3 DEF Broadcast, Calm, Keeps, User, clients, Inv, Typed
  <2>3. /\ pc' \in [Threads -> PC] /\ pc'["main"] = pc["main"] /\ docking' = docking
        /\ pc'["worker"] \in {"tell_visible", "tell_hidden"}
    BY <1>3 DEF Broadcast, Goto, Inv, Typed, Threads, PC
  <2>4. Sel'
    BY <2>1, <2>2, <2>3, CalmSel DEF Inv, Threads, Deciding
  <2>5. Typed'
    BY <2>1, <2>2, <2>3 DEF Inv, Typed, Calm, Keeps, selection
  <2> QED
    BY <2>4, <2>5 DEF Inv
<1> QED
  BY <1>1, <1>2, <1>3

(* The worker refreshes the window of the tray.                            *)
LEMMA RefreshKeeps ==
  ASSUME Inv, Refresh \/ Clear
  PROVE  Inv'
<1>1. Running /\ pc["worker"] \in {"refresh", "clear"}
  BY DEF Refresh, Clear, At
<1>2. Calm
  BY DEF Refresh, Clear, Calm, Keeps, clients, Inv, Typed
<1>3. /\ pc' \in [Threads -> PC] /\ pc'["main"] = pc["main"] /\ docking' = docking
      /\ pc'["worker"] \in {"idle", "clear", "terminated"}
  BY DEF Refresh, Clear, Goto, Inv, Typed, Threads, PC
<1>4. Sel'
  BY <1>1, <1>2, <1>3, CalmSel DEF Inv, Threads, Deciding
<1>5. Typed'
  BY <1>1, <1>2, <1>3 DEF Inv, Typed, Calm, Keeps, selection
<1> QED
  BY <1>4, <1>5 DEF Inv
-----------------------------------------------------------------------------
(* What other programs do that is not about the selection.                 *)
LEMMA WorldCalm ==
  ASSUME Windows, Inv, World, Keeps(x, x')
  PROVE  Inv'
<1>1. Running /\ Calm /\ UNCHANGED <<pc, docking>>
  BY DEF World, Calm, clients, Inv, Typed
<1> QED
  BY <1>1, CalmKeeps

(* They may have something said.                                           *)
LEMMA AppendCalm ==
  ASSUME NEW s \in XStates, NEW e \in SaneEvents, e.type # "clear", e.win # Tray
  PROVE  Keeps(s, [s EXCEPT !.events = Append(@, e)])
BY AppendKeeps DEF Keeps

(* The icons.                                                              *)
LEMMA IconsActKeep ==
  ASSUME Windows, Inv, NEW i \in Icons,
         Asks(i) \/ Resizes(i) \/ UnmapsItself(i) \/ Leaves(i) \/ SetsFlag(i)
  PROVE  Inv'
<1>1. World
  BY DEF Asks, Resizes, UnmapsItself, Leaves, SetsFlag, Elsewhere
<1>2. x \in XStates
  BY DEF Inv, Typed
<1>3. CASE Asks(i)
  <2>1. Event("dock", i) \in SaneEvents /\ Event("dock", i).type # "clear" /\ Event("dock", i).win # Tray
    BY DEF Windows, Event, SaneEvents, Events
  <2>2. Keeps(x, x')
    BY <1>2, <1>3, <2>1, AppendCalm DEF Asks
  <2> QED
    BY <1>1, <2>2, WorldCalm
<1>4. CASE Resizes(i)
  <2>1. Event("configure", i) \in SaneEvents /\ Event("configure", i).type # "clear" /\ Event("configure", i).win # Tray
    BY DEF Windows, Event, SaneEvents, Events
  <2>2. Keeps(x, x')
    BY <1>2, <1>4, <2>1, AppendCalm DEF Resizes
  <2> QED
    BY <1>1, <2>2, WorldCalm
<1>5. CASE UnmapsItself(i)
  <2>1. Keeps(x, x')
    BY <1>2, <1>5, XUnmapKeeps DEF UnmapsItself
  <2> QED
    BY <1>1, <2>1, WorldCalm
<1>6. CASE Leaves(i)
  <2>1. Keeps(x, x')
    BY <1>2, <1>6, AskKeeps DEF Leaves, Ask, Requests, Unembed
  <2> QED
    BY <1>1, <2>1, WorldCalm
<1>7. CASE SetsFlag(i)
  <2> DEFINE f == IF i \in x.info THEN x.info \ {i} ELSE x.info \cup {i}
             s == [x EXCEPT !.info = f]
  <2>1. s \in XStates /\ Keeps(x, s)
    BY <1>2 DEF XStates, Keeps, Cleared, ToTray
  <2>2. x' = Tell(s, Event("property", i))
    BY <1>7 DEF SetsFlag
  <2> HIDE DEF s
  <2>3. Keeps(s, x')
    BY <2>1, <2>2, EventSane, TellKeeps
  <2>4. Keeps(x, x')
    BY <2>1, <2>3, KeepsOn
  <2> QED
    BY <1>1, <2>4, WorldCalm
<1> QED
  BY <1>3, <1>4, <1>5, <1>6, <1>7

(* The user, and the bar's own window.                                     *)
LEMMA HappensKeeps ==
  ASSUME Windows, Inv, NEW type \in {"expose", "background"}, Happens(type)
  PROVE  Inv'
<1>1. Event(type, None) \in SaneEvents /\ Event(type, None).type # "clear" /\ Event(type, None).win # Tray
  BY DEF Event, SaneEvents, Events, None, Tray
<1>2. Keeps(x, x')
  BY <1>1, AppendCalm DEF Happens, Inv, Typed
<1> QED
  BY <1>2, WorldCalm DEF Happens, Elsewhere

(* Another manager takes or releases the selection: if it was the tray's,  *)
(* that will be told.                                                      *)
LEMMA OwnerMovesKeeps ==
  ASSUME Windows, Inv, Elsewhere, NEW w \in Others \cup {None}, x' = XSetOwner(x, w)
  PROVE  Inv'
<1>1. /\ x' \in XStates /\ x'.owner = w /\ x'.heard = x.heard
      /\ Cleared(x') <=> Cleared(x) \/ (x.owner = Tray /\ Tray \in x.heard)
      /\ ToTray(x') => ToTray(x) \/ Tray \in x.heard
  BY XSetOwnerEffect DEF Inv, Typed
<1>2. w # Tray
  BY DEF Windows, None, Tray
<1>3. Running /\ UNCHANGED <<selection, clients, pc, docking, overtaken>>
  BY DEF Elsewhere, World
<1>4. Typed'
  BY <1>1, <1>3 DEF Inv, Typed, selection, clients
<1>5. Sel'
  BY <1>1, <1>2, <1>3 DEF Inv, Typed, Sel, Inactive, Active, Turns, Decides, Threads, Deciding, selection, Running
<1> QED
  BY <1>4, <1>5 DEF Inv

(* A program ends, be it the owner: nobody is told of the selection, which *)
(* was not the tray's then.                                                *)
LEMMA DiesKeeps ==
  ASSUME Windows, Inv, NEW w \in Icons \cup Others, Dies(w)
  PROVE  Inv'
<1>1. /\ x' \in XStates /\ x'.owner = (IF x.owner = w THEN None ELSE x.owner)
      /\ Tray \in x'.heard <=> Tray \in x.heard
      /\ Cleared(x') <=> Cleared(x)
      /\ ToTray(x') => ToTray(x) \/ Tray \in x.heard
  BY XDestroyEffect DEF Inv, Typed, Dies
<1>2. (x'.owner = Tray <=> x.owner = Tray)
  BY <1>1 DEF Windows, None, Tray
<1>3. Running /\ UNCHANGED <<selection, clients, pc, docking, overtaken>>
  BY DEF Elsewhere, World, Dies
<1>4. Typed'
  BY <1>1, <1>3 DEF Inv, Typed, selection, clients
<1>5. Sel'
  BY <1>1, <1>2, <1>3 DEF Inv, Typed, Sel, Inactive, Active, Turns, Decides, Threads, Deciding, selection, Running
<1> QED
  BY <1>4, <1>5 DEF Inv
-----------------------------------------------------------------------------
(* activate() begins, on a tray that was not active, which therefore has   *)
(* nothing queued that could be taken for the new window's.                *)
LEMMA ActivateKeeps ==
  ASSUME Windows, Inv, NEW t \in Threads, Activate(t)
  PROVE  Inv'
<1>1. /\ x' = [x EXCEPT !.heard = @ \cup {Tray}] /\ m_activated' = TRUE /\ m_othermanager' = x.owner
      /\ pc' = [pc EXCEPT ![t] = IF x.owner = None THEN "take" ELSE "track"]
      /\ m_acquired_selection' = m_acquired_selection /\ UNCHANGED <<m_clients, docking, overtaken>>
      /\ Running /\ pc[t] = "activate" /\ ~m_activated
  BY DEF Activate, Goto, At, clients, User
<1>2. /\ x' \in XStates /\ x'.owner = x.owner /\ Tray \in x'.heard
      /\ (Cleared(x') <=> Cleared(x)) /\ (ToTray(x') <=> ToTray(x))
  BY <1>1 DEF Inv, Typed, XStates, Cleared, ToTray
<1>3. pc' \in [Threads -> PC] /\ pc'[t] \in {"take", "track"} /\ \A u \in Threads : u # t => pc'[u] = pc[u]
  BY <1>1 DEF Inv, Typed, Threads, PC
<1>4. Typed'
  BY <1>1, <1>2, <1>3 DEF Inv, Typed, XStates, Threads
<1>5. ASSUME ~overtaken PROVE ~ToTray(x) /\ ~Cleared(x) /\ x.owner # Tray /\ ~m_acquired_selection
  BY <1>1, <1>5, ClearedToTray DEF Inv, Typed, Sel, Inactive
<1>6. ASSUME ~overtaken PROVE \A u \in Threads : u # t => pc[u] \notin Deciding
  BY <1>1, <1>6 DEF Inv, Sel, Turns, Threads, Deciding
<1>7. Sel'
  BY <1>1, <1>2, <1>3, <1>5, <1>6 DEF Inv, Sel, Inactive, Active, Turns, Decides, Threads, Deciding
<1> QED
  BY <1>4, <1>7 DEF Inv

(* While a thread decides the other one does not.                          *)
LEMMA OtherWaits ==
  ASSUME Inv, Running, ~overtaken, NEW t \in Threads, pc[t] \in Deciding
  PROVE  \A u \in Threads : u # t => pc[u] \notin Deciding
BY DEF Inv, Sel, Turns, Threads, Deciding

(* A decision that ends without the selection.                             *)
LEMMA DeactivatedKeeps ==
  ASSUME Windows, Inv, NEW t \in Threads, pc[t] \in Deciding, Running,
         NEW c \in BOOLEAN, Deactivate(TrackOwner(x), c), pc' \in [Threads -> PC],
         pc'[t] \in {"broadcast", "idle"}, \A u \in Threads : u # t => pc'[u] = pc[u],
         UNCHANGED <<m_othermanager, docking, overtaken>>
  PROVE  Inv'
<1>1. TrackOwner(x) \in XStates
  BY TrackOwnerKeeps DEF Inv, Typed, Keeps
<1>2. /\ x' \in XStates /\ x'.owner # Tray /\ Tray \notin x'.heard /\ ~ToTray(x') /\ ~Cleared(x')
      /\ m_activated' = FALSE /\ m_acquired_selection' = FALSE /\ m_clients' = {}
  BY <1>1, DeactivateEffect DEF Inv
<1>3. Typed'
  BY <1>2 DEF Inv, Typed, Threads
<1>4. ~overtaken => \A u \in Threads : pc'[u] \notin Deciding
  BY OtherWaits DEF Deciding
<1>5. Sel'
  BY <1>2, <1>4 DEF Sel, Inactive, Active, Turns, Decides, Threads, Deciding
<1> QED
  BY <1>3, <1>5 DEF Inv

(* Where a thread goes when it has decided.                                *)
LEMMA FinishEffect ==
  ASSUME Typed, NEW t \in Threads, Finish(t)
  PROVE  /\ pc' \in [Threads -> PC] /\ pc'[t] \in {"broadcast", "idle"}
         /\ \A u \in Threads : u # t => pc'[u] = pc[u]
BY DEF Typed, Finish, Goto, Threads, PC

(* The selection has an owner, who is tracked; the tray gives up.          *)
LEMMA TrackKeeps ==
  ASSUME Windows, Inv, NEW t \in Threads, Track(t)
  PROVE  Inv'
<1>1. Running /\ pc[t] = "track" /\ UNCHANGED <<m_othermanager, docking, overtaken>>
  BY DEF Track, At, User
<1>2. /\ pc' \in [Threads -> PC] /\ pc'[t] \in {"broadcast", "idle"}
      /\ \A u \in Threads : u # t => pc'[u] = pc[u]
  BY FinishEffect DEF Inv, Track
<1>3. CASE Deactivate(TrackOwner(x), TRUE)
  BY <1>1, <1>2, <1>3, DeactivatedKeeps DEF Deciding
<1>4. CASE /\ m_acquired_selection /\ x' = TrackOwner(x)
           /\ UNCHANGED <<m_activated, m_acquired_selection, clients>>
  <2>1. overtaken /\ overtaken'
    BY <1>1, <1>4 DEF Inv, Sel, Decides
  <2>2. Typed'
    BY <1>1, <1>2, <1>4, TrackOwnerKeeps DEF Inv, Typed, Keeps, clients, Threads
  <2> QED
    BY <2>1, <2>2 DEF Inv, Sel
<1> QED
  BY <1>3, <1>4 DEF Track

(* The selection is taken: it is the tray's until that is told otherwise.  *)
LEMMA TakeKeeps ==
  ASSUME Windows, Inv, NEW t \in Threads, Take(t)
  PROVE  Inv'
<1>1. /\ Running /\ pc[t] = "take" /\ pc' = [pc EXCEPT ![t] = "verify"] /\ x' = XSetOwner(x, Tray)
      /\ UNCHANGED <<selection, m_clients, docking, overtaken>>
  BY DEF Take, At, Goto, clients, User
<1>2. /\ x' \in XStates /\ x'.owner = Tray /\ x'.heard = x.heard
      /\ Cleared(x') <=> Cleared(x) \/ (x.owner = Tray /\ Tray \in x.heard)
  BY <1>1, XSetOwnerEffect DEF Inv, Typed
<1>3. pc' \in [Threads -> PC] /\ pc'[t] = "verify" /\ \A u \in Threads : u # t => pc'[u] = pc[u]
  BY <1>1 DEF Inv, Typed, Threads, PC
<1>4. Typed'
  BY <1>1, <1>2, <1>3 DEF Inv, Typed, Threads, selection
<1>5. ~overtaken => \A u \in Threads : u # t => pc[u] \notin Deciding
  BY <1>1, OtherWaits DEF Deciding
<1>6. ~overtaken => m_activated /\ ~m_acquired_selection /\ ~Cleared(x) /\ x.owner # Tray /\ Tray \in x.heard
  BY <1>1 DEF Inv, Sel, Decides, Active
<1>7. Sel'
  BY <1>1, <1>2, <1>3, <1>5, <1>6 DEF Sel, Inactive, Active, Turns, Decides, Threads, Deciding, selection
<1> QED
  BY <1>4, <1>7 DEF Inv

(* Whether it worked out: if not, somebody else has taken it, and that     *)
(* will be told.                                                           *)
LEMMA VerifyKeeps ==
  ASSUME Windows, Inv, NEW t \in Threads, Verify(t)
  PROVE  Inv'
<1>1. /\ Running /\ pc[t] = "verify"
      /\ UNCHANGED <<x, m_activated, m_othermanager, m_clients, docking, overtaken>>
  BY DEF Verify, At, clients, User
<1>2. ~overtaken => /\ \A u \in Threads : u # t => pc[u] \notin Deciding
                    /\ m_activated /\ ~m_acquired_selection /\ Tray \in x.heard
                    /\ x.owner = Tray \/ Cleared(x)
                    /\ Cleared(x) => x.owner # Tray
  <2>1. ~overtaken => \A u \in Threads : u # t => pc[u] \notin Deciding
    BY <1>1, OtherWaits DEF Deciding
  <2> QED
    BY <1>1, <2>1 DEF Inv, Sel, Decides, Active
<1>3. CASE x.owner = (IF m_activated THEN Tray ELSE None) /\ m_acquired_selection' = TRUE /\ Finish(t)
  <2>1. /\ pc' \in [Threads -> PC] /\ pc'[t] \in {"broadcast", "idle"}
        /\ \A u \in Threads : u # t => pc'[u] = pc[u]
    BY <1>3, FinishEffect DEF Inv
  <2>2. Typed'
    BY <1>1, <1>3, <2>1 DEF Inv, Typed, Threads
  <2>3. Sel'
    BY <1>1, <1>2, <1>3, <2>1 DEF Inv, Sel, Inactive, Active, Turns, Decides, Threads, Deciding, Cleared
  <2> QED
    BY <2>2, <2>3 DEF Inv
<1>4. CASE /\ x.owner # (IF m_activated THEN Tray ELSE None) /\ UNCHANGED m_acquired_selection
           /\ Goto(t, IF t = "worker" THEN "terminated" ELSE "idle")
  <2>1. /\ pc' \in [Threads -> PC] /\ pc'[t] \in {"terminated", "idle"}
        /\ pc'[t] = "terminated" => t = "worker"
        /\ \A u \in Threads : u # t => pc'[u] = pc[u]
    BY <1>4 DEF Inv, Typed, Goto, Threads, PC
  <2>2. Typed'
    BY <1>1, <1>4, <2>1 DEF Inv, Typed, Threads
  <2>3. Sel'
    BY <1>1, <1>2, <1>4, <2>1 DEF Inv, Sel, Inactive, Active, Turns, Decides, Threads, Deciding, Cleared
  <2> QED
    BY <2>2, <2>3 DEF Inv
<1> QED
  BY <1>3, <1>4 DEF Verify

(* The selection is lost: nobody else is deciding, unless the worker,      *)
(* which is about to believe that it has it.                               *)
LEMMA ClearKeeps ==
  ASSUME Windows, Inv, SelectionClear
  PROVE  Inv'
<1>1. /\ Running /\ pc["main"] = "idle" /\ x.events # <<>> /\ Head(x.events).type = "clear"
      /\ x' = Rest /\ m_othermanager' = x.owner /\ pc' = [pc EXCEPT !["main"] = "lost"]
      /\ overtaken' = (overtaken \/ pc["worker"] = "verify")
      /\ UNCHANGED <<m_activated, m_acquired_selection, m_clients, docking>>
  BY DEF SelectionClear, Handles, At, Goto, clients
<1>2. /\ Rest \in XStates /\ Rest.owner = x.owner /\ Rest.heard = x.heard /\ Cleared(x)
      /\ Cleared(Rest) => Cleared(x)
      /\ ToTray(x)
  BY <1>1, RestKeeps, ClearedToTray DEF Inv, Typed
<1>3. pc' \in [Threads -> PC] /\ pc'["main"] = "lost" /\ pc'["worker"] = pc["worker"]
  BY <1>1 DEF Inv, Typed, Threads, PC
<1>4. Typed'
  BY <1>1, <1>2, <1>3 DEF Inv, Typed, XStates
<1>5. ~overtaken => m_activated /\ x.owner # Tray /\ Tray \in x.heard
  BY <1>1, <1>2 DEF Inv, Sel, Inactive, Active
<1>6. ~overtaken' => pc["worker"] \notin Deciding
  BY <1>1, <1>2, <1>5 DEF Inv, Typed, Sel, Decides, Deciding, Threads
<1>7. Sel'
  BY <1>1, <1>2, <1>3, <1>5, <1>6 DEF Inv, Sel, Inactive, Active, Turns, Decides, Threads, Deciding
<1> QED
  BY <1>4, <1>7 DEF Inv

(* ... and the tray is deactivated.                                        *)
LEMMA LostKeeps ==
  ASSUME Windows, Inv, Lost
  PROVE  Inv'
<1>1. /\ Running /\ pc["main"] = "lost" /\ Deactivate(TrackOwner(x), FALSE)
      /\ UNCHANGED <<m_othermanager, docking, overtaken>>
  BY DEF Lost, At, User
<1>2. /\ pc' \in [Threads -> PC] /\ pc'["main"] = "idle"
      /\ \A u \in Threads : u # "main" => pc'[u] = pc[u]
  BY DEF Lost, Goto, Inv, Typed, Threads, PC
<1> QED
  BY <1>1, <1>2, DeactivatedKeeps DEF Deciding, Threads

(* The tracked manager has ended.  The worker is not activating: it would  *)
(* have no manager to track yet, or be active.                             *)
LEMMA DestroyKeeps ==
  ASSUME Windows, Inv, DestroyNotify
  PROVE  Inv'
<1>1. Handles("destroy") /\ Running /\ Keeps(x, Rest) /\ Subject \in Icons \cup Others \cup {Tray}
  BY HandlesCalm DEF DestroyNotify
<1>2. CASE Ignore
  BY <1>1, <1>2, IgnoreKeeps
<1>3. CASE Subject \in m_clients /\ Remove(Rest, Subject) /\ UNCHANGED <<selection, Window, pc, docking, User>>
  BY <1>1, <1>3, RemovesKeeps
<1>4. CASE /\ ~m_activated /\ Subject = m_othermanager /\ x' = Rest /\ Goto("main", "activate")
           /\ UNCHANGED <<selection, Window, clients, room, docking, User>>
  <2>1. pc["main"] = "idle" /\ m_othermanager # None
    BY <1>1, <1>4 DEF Handles, At, Windows, None, Tray
  <2>2. /\ m_activated' = m_activated /\ m_acquired_selection' = m_acquired_selection
        /\ m_othermanager' = m_othermanager /\ m_clients' = m_clients /\ docking' = docking
        /\ overtaken' = overtaken
    BY <1>4 DEF selection, clients, User
  <2>3. pc' \in [Threads -> PC] /\ pc'["main"] = "activate" /\ pc'["worker"] = pc["worker"]
    BY <1>4 DEF Goto, Inv, Typed, Threads, PC
  <2>4. Typed'
    BY <1>1, <1>4, <2>2, <2>3 DEF Inv, Typed, Keeps
  <2>5. ~overtaken => pc["worker"] \notin Deciding
    BY <1>1, <1>4, <2>1 DEF Inv, Sel, Turns, Decides, Deciding, Threads
  <2>6. Sel'
    BY <1>1, <1>4, <2>2, <2>3, <2>5 DEF Inv, Sel, Inactive, Active, Turns, Decides, Threads, Deciding, Keeps
  <2> QED
    BY <2>4, <2>6 DEF Inv
<1> QED
  BY <1>2, <1>3, <1>4 DEF DestroyNotify
-----------------------------------------------------------------------------
(* In the beginning the worker is about to activate the tray.              *)
LEMMA InitInv ==
  ASSUME Windows, Init
  PROVE  Inv
<1>1. x.events = <<>> /\ x.owner # Tray /\ x.heard = {}
  BY DEF Init, Windows, None, Tray
<1>0. /\ x = [owner |-> x.owner, alive |-> x.alive, inside |-> x.inside, mapped |-> x.mapped,
              info |-> x.info, heard |-> x.heard, events |-> x.events]
      /\ x.owner \in Others \cup {None} /\ x.alive = Icons \cup Others /\ x.inside = {} /\ x.mapped = {}
      /\ x.info \in {{}, Icons}
  BY DEF Init
<1>00. <<>> \in Seq(SaneEvents)
  OBVIOUS
<1>2. ~Cleared(x) /\ ~ToTray(x)
  BY <1>1 DEF Cleared, ToTray
<1>3. x \in XStates
  BY <1>0, <1>00, <1>1 DEF XStates
<1>4. pc["main"] = "idle" /\ pc["worker"] = "activate" /\ pc \in [Threads -> PC]
  BY DEF Init, Threads, PC
<1>5. Typed
  BY <1>3, <1>4 DEF Init, Typed
<1>6. Sel
  BY <1>1, <1>2, <1>4 DEF Init, Sel, Inactive, Active, Turns, Decides, Threads, Deciding
<1> QED
  BY <1>5, <1>6 DEF Inv

(* Every step keeps the invariant.                                         *)
LEMMA InvKept ==
  ASSUME Windows, Inv, [Next]_vars
  PROVE  Inv'
<1>1. CASE MainStep
  BY <1>1, ActivateKeeps, TrackKeeps, TakeKeeps, VerifyKeeps, SetupKeeps, LostKeeps, HandlerKeeps,
     ClearKeeps, DestroyKeeps DEF MainStep, Threads
<1>2. CASE WorkerStep
  BY <1>2, ActivateKeeps, TrackKeeps, TakeKeeps, VerifyKeeps, VisibleKeeps, RefreshKeeps
     DEF WorkerStep, Threads
<1>3. CASE \E v \in BOOLEAN : SetVisible(v)
  BY <1>3, VisibleKeeps
<1>4. CASE Environment
  BY <1>4, OwnerMovesKeeps, DiesKeeps, IconsActKeep, HappensKeeps DEF Environment, OtherTakes, OtherReleases
<1>5. CASE UNCHANGED vars
  <2>1. Typed' /\ Sel'
    BY <1>5 DEF vars, selection, clients, Inv, Typed, Sel, Inactive, Active, Turns, Decides, Running, Cleared, ToTray
  <2> QED
    BY <2>1 DEF Inv
<1> QED
  BY <1>1, <1>2, <1>3, <1>4, <1>5 DEF Next

(* At rest nobody decides, and nothing is left to be told.                 *)
LEMMA InvConsistent ==
  ASSUME Inv
  PROVE  SelectionConsistent
<1> SUFFICES ASSUME AtRest, ~overtaken
    PROVE (m_activated <=> x.owner = Tray) /\ (m_activated => m_acquired_selection)
  BY DEF SelectionConsistent
<1>1. ~Cleared(x) /\ pc["main"] = "idle" /\ pc["worker"] = "idle"
  BY DEF AtRest, Cleared
<1>2. Running /\ \A t \in Threads : pc[t] \notin Deciding
  BY <1>1 DEF Running, Threads, Deciding
<1> QED
  BY <1>1, <1>2 DEF Inv, Sel, Inactive, Active

(* With any icons and any other managers, however their requests, their    *)
(* ends and polybar's two threads interleave: once everything is handled   *)
(* the tray is active exactly if it owns the selection.                    *)
THEOREM SelectionAgreed == ASSUME Windows PROVE Spec => []SelectionConsistent
<1>1. Init => Inv
  BY InitInv
<1>2. Inv /\ [Next]_vars => Inv'
  BY InvKept
<1>3. Inv => SelectionConsistent
  BY InvConsistent
<1> QED
  BY <1>1, <1>2, <1>3, PTL DEF Spec
-----------------------------------------------------------------------------
(* The icons.  q is what is queued for polybar.  An event says that a      *)
(* window is mapped or not, or that an icon has left the tray.             *)
Moves(e, w) == e.win = w /\ e.type \in {"map", "unmap"}
Goes(e, i) == e.win = i /\ (e.type = "destroy" \/ (e.type = "reparent" /\ e.parent # Tray))
Maps(e, i) == e.win = i /\ e.type = "map"

(* Polybar, which takes the windows of K for mapped, will know better when *)
(* it has heard everything: w is mapped if it is one of S.                 *)
Told(q, w, K, S) ==
  /\ \A n \in DOMAIN q :
       Moves(q[n], w) /\ (\A m \in DOMAIN q : m > n => ~Moves(q[m], w)) =>
         (q[n].type = "map" <=> w \in S)
  /\ (\A n \in DOMAIN q : ~Moves(q[n], w)) => (w \in K <=> w \in S)

Going(q, i) == \E n \in DOMAIN q : Goes(q[n], i)
Mapping(q, i) == \E n \in DOMAIN q : Maps(q[n], i)
Docks(q) == \E n \in DOMAIN q : q[n].type = "dock"
OfTray(q) == \E n \in DOMAIN q : q[n].win = Tray

(* An icon that is not one of B was unmapped because it leaves.            *)
Followed(q, B) ==
  \A n \in DOMAIN q :
    q[n].type = "unmap" /\ q[n].win \in Icons \ B =>
      \E m \in DOMAIN q : m > n /\ Goes(q[m], q[n].win)

(* What polybar knows: its clients and which windows it takes for mapped;  *)
(* the client being set up, which may be on either side; those whose       *)
(* leaving is being handled, or is sure to be queued; whether icons may    *)
(* have asked already, and whether all still want what they wanted.        *)
Sight(C, K, F, d, L, P, q, o) ==
  [clients |-> C, mapped |-> K, flags |-> F, docking |-> d, leaving |-> L,
   pending |-> P, docks |-> q, orderly |-> o]
Mapped == clients_mapped \cup {w \in {Tray} : m_mapped}
View ==
  Sight(m_clients, Mapped, flags, {docking} \ {None}, {docking} \ {None},
        {i \in Icons : Going(x.events, i)},
        pc["worker"] \notin {"activate", "track", "take"}, ~withdrawn)

(* Where windows are, as against where polybar believes they are.          *)
Placed(s, v) ==
  /\ s \in XStates /\ v.clients \subseteq Icons /\ v.docking \subseteq v.clients
  /\ v.mapped \subseteq (v.clients \ v.docking) \cup {Tray}
  /\ s.mapped \subseteq s.alive \cup {Tray} /\ s.inside \subseteq s.alive
  /\ s.mapped \subseteq (v.clients \ v.docking) \cup {Tray}
  /\ s.inside \subseteq v.clients \ v.docking
  /\ v.clients \ v.docking \subseteq s.heard
  /\ Tray \in s.mapped \cup v.mapped => Tray \in s.heard

(* What polybar will be told.                                              *)
Hears(s, v) ==
  /\ \A w \in Icons \cup {Tray} : Told(s.events, w, v.mapped, s.mapped)
  /\ \A i \in (v.clients \ (s.inside \cup v.leaving)) \cup v.pending : Going(s.events, i)
  /\ v.docks \/ ~Docks(s.events)
  /\ Tray \in s.heard \/ ~OfTray(s.events)

(* If no icon has withdrawn, what is mapped wants to be, and what is       *)
(* unmapped leaves: those of B have yet to.                                *)
Orderly(s, v, B) ==
  v.orderly =>
    /\ v.flags \subseteq s.info /\ Followed(s.events, B)
    /\ \A i \in Icons : i \in s.mapped \cup v.mapped \/ Mapping(s.events, i) =>
                          i \in s.info /\ (i \in v.clients => i \in v.flags)

Fits(s, v, B) == Placed(s, v) /\ Hears(s, v) /\ Orderly(s, v, B)

(* The activation on the worker comes before any icon.                     *)
Early ==
  pc["worker"] \in {"activate", "track", "take"} =>
    /\ x.owner # Tray /\ ~Cleared(x) /\ pc["main"] = "idle" /\ m_clients = {}
    /\ pc["worker"] = "activate" => m_othermanager = None /\ ~m_activated
    /\ pc["worker"] \in {"track", "take"} => m_activated

(* The tray window, and what comes and goes with it.                       *)
WithWindow ==
  /\ m_mapped \in BOOLEAN /\ clients_mapped \subseteq m_clients
  /\ m_activated <=> Tray \in x.heard
  /\ ~m_activated => m_clients = {} /\ ~m_mapped
  /\ pc["main"] = "setup" <=> docking # None

(* Room was made for as many icons as polybar takes for mapped, and the    *)
(* worker is about to make as much; if that is not even so, one of them is *)
(* about to leave.                                                         *)
Even == LET n == Cardinality(clients_mapped) IN configured_slots = n /\ configured_w = n
EvenSoon == Held => clients_mapped = {} \/ refresh.width = Cardinality(clients_mapped)
Room ==
  ~refused =>
    /\ configured_slots \in Nat /\ Cardinality(clients_mapped) <= configured_slots
    /\ ~withdrawn => (Even /\ EvenSoon) \/ \E i \in m_clients \ {docking} : Going(x.events, i)

Embedded == Fits(x, View, {}) /\ Early /\ WithWindow /\ Room

(* What one more event, e, says.                                           *)
LEMMA AppendSays ==
  ASSUME NEW q \in Seq(SaneEvents), NEW e \in SaneEvents
  PROVE  /\ \A w, K, S : Told(Append(q, e), w, K, S) <=>
                           IF Moves(e, w) THEN e.type = "map" <=> w \in S ELSE Told(q, w, K, S)
         /\ \A i : Going(Append(q, e), i) <=> Going(q, i) \/ Goes(e, i)
         /\ \A i : Mapping(Append(q, e), i) <=> Mapping(q, i) \/ Maps(e, i)
         /\ Docks(Append(q, e)) <=> Docks(q) \/ e.type = "dock"
         /\ OfTray(Append(q, e)) <=> OfTray(q) \/ e.win = Tray
         /\ \A B, L : /\ Followed(q, B) /\ (\A i \in B \ L : Goes(e, i))
                      /\ e.type = "unmap" => e.win \notin Icons \ L
                      => Followed(Append(q, e), L)
<1> DEFINE t == Append(q, e)
<1>1. /\ t \in Seq(SaneEvents) /\ Len(t) = Len(q) + 1 /\ Len(q) \in Nat
      /\ \A n \in 1 .. Len(q) : t[n] = q[n]
      /\ t[Len(q) + 1] = e
  BY AppendProperties
<1>2. DOMAIN q = 1 .. Len(q) /\ DOMAIN t = 1 .. Len(q) + 1
  BY <1>1
<1> DEFINE last == Len(q) + 1
<1>3. /\ \A n \in DOMAIN q : n \in DOMAIN t /\ t[n] = q[n] /\ n < last
      /\ \A n \in DOMAIN t : n = last \/ (n \in DOMAIN q /\ t[n] = q[n])
      /\ \A n \in DOMAIN t : ~(n > last)
      /\ last \in DOMAIN t /\ t[last] = e
  BY <1>1, <1>2
<1> HIDE DEF t, last
<1>4. ASSUME NEW w, NEW K, NEW S
      PROVE Told(t, w, K, S) <=> IF Moves(e, w) THEN e.type = "map" <=> w \in S ELSE Told(q, w, K, S)
  <2>1. CASE Moves(e, w)
    BY <1>3, <2>1 DEF Told
  <2>2. CASE ~Moves(e, w)
    <3>1. (\A n \in DOMAIN t : ~Moves(t[n], w)) <=> (\A n \in DOMAIN q : ~Moves(q[n], w))
      BY <1>3, <2>2
    <3>2. ASSUME NEW n \in DOMAIN q
          PROVE (\A m \in DOMAIN t : m > n => ~Moves(t[m], w)) <=> (\A m \in DOMAIN q : m > n => ~Moves(q[m], w))
      BY <1>3, <2>2
    <3> QED BY <1>3, <2>2, <3>1, <3>2 DEF Told
  <2> QED BY <2>1, <2>2
<1>5. \A i : Going(t, i) <=> Going(q, i) \/ Goes(e, i)
  BY <1>3 DEF Going
<1>6. \A i : Mapping(t, i) <=> Mapping(q, i) \/ Maps(e, i)
  BY <1>3 DEF Mapping
<1>7. (Docks(t) <=> Docks(q) \/ e.type = "dock") /\ (OfTray(t) <=> OfTray(q) \/ e.win = Tray)
  BY <1>3 DEF Docks, OfTray
<1>8. ASSUME NEW B, NEW L, Followed(q, B), \A i \in B \ L : Goes(e, i),
             e.type = "unmap" => e.win \notin Icons \ L
      PROVE Followed(t, L)
  <2> SUFFICES ASSUME NEW n \in DOMAIN t, t[n].type = "unmap", t[n].win \in Icons \ L
      PROVE \E m \in DOMAIN t : m > n /\ Goes(t[m], t[n].win)
    BY DEF Followed
  <2>1. n \in DOMAIN q /\ t[n] = q[n]
    BY <1>3, <1>8
  <2>2. CASE t[n].win \in B
    BY <1>3, <1>8, <2>1, <2>2
  <2>3. CASE t[n].win \notin B
    <3>1. PICK m \in DOMAIN q : m > n /\ Goes(q[m], q[n].win)
      BY <1>8, <2>1, <2>3 DEF Followed
    <3> QED BY <1>3, <2>1, <3>1
  <2> QED BY <2>2, <2>3
<1> QED
  BY <1>4, <1>5, <1>6, <1>7, <1>8 DEF t

(* What is left to be said when the first event, e, has been taken.        *)
LEMMA TailSays ==
  ASSUME NEW q \in Seq(SaneEvents), q # <<>>
  PROVE  LET e == Head(q) IN
         /\ \A w, K, S : Told(q, w, K, S) /\ ~Moves(e, w) => Told(Tail(q), w, K, S)
         /\ \A w, K, L, S : /\ Told(q, w, K, S) /\ Moves(e, w)
                            /\ (w \in L <=> e.type = "map") \/ (w \notin L /\ w \notin S)
                            => Told(Tail(q), w, L, S)
         /\ \A i : Going(q, i) => Going(Tail(q), i) \/ Goes(e, i)
         /\ \A i : Mapping(Tail(q), i) => Mapping(q, i)
         /\ \A i : Maps(e, i) => Mapping(q, i)
         /\ Docks(Tail(q)) => Docks(q)
         /\ e.type = "dock" => Docks(q)
         /\ OfTray(Tail(q)) => OfTray(q)
         /\ e.win = Tray => OfTray(q)
         /\ \A B : Followed(q, B) => Followed(Tail(q), B)
         /\ Followed(q, {}) /\ e.type = "unmap" /\ e.win \in Icons => Going(Tail(q), e.win)
<1> DEFINE t == Tail(q)
           e == Head(q)
<1>1. /\ t \in Seq(SaneEvents) /\ Len(t) = Len(q) - 1 /\ Len(q) \in Nat \ {0}
      /\ \A n \in 1 .. Len(t) : t[n] = q[n + 1]
      /\ q[1] = e
  BY HeadTailProperties
<1>2. DOMAIN q = 1 .. Len(q) /\ DOMAIN t = 1 .. Len(q) - 1
  BY <1>1
<1>3. /\ \A n \in DOMAIN t : n \in Int /\ n + 1 \in DOMAIN q /\ t[n] = q[n + 1] /\ n + 1 > 1
      /\ \A n \in DOMAIN q : n \in Int /\ (n = 1 \/ (n > 1 /\ n - 1 \in DOMAIN t /\ t[n - 1] = q[n]))
      /\ 1 \in DOMAIN q /\ q[1] = e
  BY <1>1, <1>2
<1> HIDE DEF t, e
<1>4. ASSUME NEW w, NEW K, NEW L, NEW S, Told(q, w, K, S),
             IF Moves(e, w) THEN (w \in L <=> e.type = "map") \/ (w \notin L /\ w \notin S)
             ELSE w \in L <=> w \in K
      PROVE Told(t, w, L, S)
  <2>1. ASSUME NEW n \in DOMAIN t, Moves(t[n], w), \A m \in DOMAIN t : m > n => ~Moves(t[m], w)
        PROVE t[n].type = "map" <=> w \in S
    <3>1. n + 1 \in DOMAIN q /\ q[n + 1] = t[n]
      BY <1>3
    <3>2. \A m \in DOMAIN q : m > n + 1 => ~Moves(q[m], w)
      <4> SUFFICES ASSUME NEW m \in DOMAIN q, m > n + 1 PROVE ~Moves(q[m], w)
        OBVIOUS
      <4>1. m \in Int /\ n \in Int
        BY <1>3
      <4>2. m # 1
        BY <1>3, <4>1
      <4>3. m - 1 \in DOMAIN t /\ t[m - 1] = q[m] /\ m - 1 > n
        BY <1>3, <4>1, <4>2
      <4> QED BY <4>3, <2>1
    <3> QED BY <1>4, <2>1, <3>1, <3>2 DEF Told
  <2>2. ASSUME \A n \in DOMAIN t : ~Moves(t[n], w)
        PROVE w \in L <=> w \in S
    <3>1. ASSUME NEW n \in DOMAIN q, n > 1
          PROVE ~Moves(q[n], w)
      <4>1. n - 1 \in DOMAIN t /\ t[n - 1] = q[n]
        BY <1>3, <3>1
      <4> QED BY <2>2, <4>1
    <3>2. CASE Moves(e, w)
      BY <1>3, <1>4, <3>1, <3>2 DEF Told
    <3>3. CASE ~Moves(e, w)
      <4>1. \A n \in DOMAIN q : ~Moves(q[n], w)
        BY <1>3, <3>1, <3>3
      <4> QED BY <1>4, <3>3, <4>1 DEF Told
    <3> QED BY <3>2, <3>3
  <2> QED BY <2>1, <2>2 DEF Told
<1>5. \A i : Going(q, i) => Going(t, i) \/ Goes(e, i)
  BY <1>3 DEF Going
<1>6. (\A i : Mapping(t, i) => Mapping(q, i)) /\ (\A i : Maps(e, i) => Mapping(q, i))
  BY <1>3 DEF Mapping
<1>7. /\ Docks(t) => Docks(q)
      /\ e.type = "dock" => Docks(q)
      /\ OfTray(t) => OfTray(q)
      /\ e.win = Tray => OfTray(q)
  BY <1>3 DEF Docks, OfTray
<1>8. ASSUME NEW B, Followed(q, B)
      PROVE Followed(t, B)
  <2> SUFFICES ASSUME NEW n \in DOMAIN t, t[n].type = "unmap", t[n].win \in Icons \ B
      PROVE \E m \in DOMAIN t : m > n /\ Goes(t[m], t[n].win)
    BY DEF Followed
  <2>1. n + 1 \in DOMAIN q /\ q[n + 1] = t[n]
    BY <1>3
  <2>2. PICK m \in DOMAIN q : m > n + 1 /\ Goes(q[m], q[n + 1].win)
    BY <1>8, <2>1 DEF Followed
  <2>3. m \in Int /\ n \in Int
    BY <1>3
  <2>4. m - 1 \in DOMAIN t /\ t[m - 1] = q[m] /\ m - 1 > n
    BY <1>3, <2>2, <2>3
  <2> QED BY <2>1, <2>2, <2>4
<1>9. ASSUME Followed(q, {}), e.type = "unmap", e.win \in Icons
      PROVE Going(t, e.win)
  <2>1. PICK m \in DOMAIN q : m > 1 /\ Goes(q[m], e.win)
    BY <1>3, <1>9 DEF Followed
  <2>2. m - 1 \in DOMAIN t /\ t[m - 1] = q[m]
    BY <1>3, <2>1
  <2> QED BY <2>1, <2>2 DEF Going
<1> QED
  <2>1. \A w, K, S : Told(q, w, K, S) /\ ~Moves(e, w) => Told(t, w, K, S)
    BY <1>4
  <2>2. \A w, K, L, S : /\ Told(q, w, K, S) /\ Moves(e, w)
                        /\ (w \in L <=> e.type = "map") \/ (w \notin L /\ w \notin S)
                        => Told(t, w, L, S)
    BY <1>4
  <2> QED
    BY <2>1, <2>2, <1>5, <1>6, <1>7, <1>8, <1>9 DEF t, e

(* What matters of the sets.                                               *)
LEMMA ToldSame ==
  ASSUME NEW q, NEW w, NEW K, NEW S, NEW L, NEW T, Told(q, w, K, S), w \in K <=> w \in L, w \in S <=> w \in T
  PROVE  Told(q, w, L, T)
BY DEF Told

(* From s to t the X server has changed something and queued e, which says *)
(* so.                                                                     *)
Says(s, v, B, e, t, L) ==
  /\ e \in SaneEvents /\ t.events = Append(s.events, e)
  /\ Tray \in s.heard => Tray \in t.heard
  /\ e.win = Tray => Tray \in t.heard
  /\ \A w \in Icons \cup {Tray} :
       IF Moves(e, w) THEN e.type = "map" <=> w \in t.mapped ELSE w \in s.mapped <=> w \in t.mapped
  /\ \A i \in s.inside \ t.inside : Goes(e, i)
  /\ e.type = "dock" => v.docks
  /\ v.orderly => /\ s.info \subseteq t.info
                  /\ \A i \in B \ L : Goes(e, i)
                  /\ e.type = "unmap" => e.win \notin Icons \ L
                  /\ e.type = "map" /\ e.win \in Icons => e.win \in v.flags

(* Then what polybar will be told is still right.                          *)
LEMMA SaysFits ==
  ASSUME NEW s, NEW v, NEW B, NEW e, NEW t, NEW L, Fits(s, v, B), Placed(t, v), Says(s, v, B, e, t, L)
  PROVE  Fits(t, v, L)
<1> DEFINE q == s.events
<1>1. q \in Seq(SaneEvents) /\ e \in SaneEvents /\ t.events = Append(q, e)
  BY DEF Fits, Placed, XStates, Says
<1>2. /\ \A w, K, S : Told(Append(q, e), w, K, S) <=>
                        IF Moves(e, w) THEN e.type = "map" <=> w \in S ELSE Told(q, w, K, S)
      /\ \A i : Going(Append(q, e), i) <=> Going(q, i) \/ Goes(e, i)
      /\ \A i : Mapping(Append(q, e), i) <=> Mapping(q, i) \/ Maps(e, i)
      /\ Docks(Append(q, e)) <=> Docks(q) \/ e.type = "dock"
      /\ OfTray(Append(q, e)) <=> OfTray(q) \/ e.win = Tray
      /\ Followed(q, B) /\ (\A i \in B \ L : Goes(e, i)) /\ (e.type = "unmap" => e.win \notin Icons \ L)
           => Followed(Append(q, e), L)
  BY <1>1, AppendSays
<1> HIDE DEF q
<1>3. ASSUME NEW w \in Icons \cup {Tray} PROVE Told(t.events, w, v.mapped, t.mapped)
  <2>1. Told(q, w, v.mapped, s.mapped)
    BY DEF Fits, Hears, q
  <2>2. CASE Moves(e, w)
    BY <1>1, <1>2, <2>2 DEF Says
  <2>3. CASE ~Moves(e, w)
    <3>1. w \in s.mapped <=> w \in t.mapped
      BY <2>3 DEF Says
    <3>2. Told(q, w, v.mapped, t.mapped)
      BY <2>1, <3>1, ToldSame
    <3> QED BY <1>1, <1>2, <2>3, <3>2
  <2> QED BY <2>2, <2>3
<1>4. ASSUME NEW i \in (v.clients \ (t.inside \cup v.leaving)) \cup v.pending PROVE Going(t.events, i)
  BY <1>1, <1>2 DEF Fits, Hears, Says, q
<1>5. Hears(t, v)
  BY <1>1, <1>2, <1>3, <1>4 DEF Fits, Hears, Says, q
<1>6. Orderly(t, v, L)
  <2> SUFFICES ASSUME v.orderly
      PROVE /\ v.flags \subseteq t.info /\ Followed(t.events, L)
            /\ \A i \in Icons : i \in t.mapped \cup v.mapped \/ Mapping(t.events, i) =>
                                  i \in t.info /\ (i \in v.clients => i \in v.flags)
    BY DEF Orderly
  <2>1. /\ v.flags \subseteq s.info /\ Followed(q, B)
        /\ \A i \in Icons : i \in s.mapped \cup v.mapped \/ Mapping(q, i) =>
                              i \in s.info /\ (i \in v.clients => i \in v.flags)
    BY DEF Fits, Orderly, q
  <2>2. v.flags \subseteq t.info /\ Followed(t.events, L) /\ s.info \subseteq t.info
    BY <1>1, <1>2, <2>1 DEF Says
  <2>3. ASSUME NEW i \in Icons, i \in t.mapped \cup v.mapped \/ Mapping(t.events, i)
        PROVE  i \in t.info /\ (i \in v.clients => i \in v.flags)
    <3>1. CASE Maps(e, i)
      BY <2>2, <3>1 DEF Maps, Says
    <3>2. CASE ~Maps(e, i)
      <4>1. i \in s.mapped \cup v.mapped \/ Mapping(q, i)
        BY <1>1, <1>2, <2>3, <3>2 DEF Maps, Moves, Says
      <4> QED BY <2>1, <2>2, <4>1
    <3> QED BY <3>1, <3>2
  <2> QED BY <2>2, <2>3
<1> QED
  BY <1>5, <1>6 DEF Fits

(* ... or it has changed nothing that concerns polybar.                    *)
Silent(s, v, t) ==
  /\ t.events = s.events /\ t.mapped = s.mapped /\ t.inside = s.inside
  /\ Tray \in s.heard => Tray \in t.heard
  /\ v.orderly => s.info \subseteq t.info

(* Then there was nothing to be told.                                      *)
LEMMA SilentFits ==
  ASSUME NEW s, NEW v, NEW B, NEW t, Fits(s, v, B), Placed(t, v), Silent(s, v, t)
  PROVE  Fits(t, v, B)
<1>1. Hears(t, v)
  BY DEF Fits, Hears, Silent
<1>2. Orderly(t, v, B)
  BY DEF Fits, Orderly, Silent
<1> QED
  BY <1>1, <1>2 DEF Fits

(* A window is mapped, at polybar's request.                               *)
LEMMA XMapFits ==
  ASSUME Windows, NEW s, NEW v, NEW B, Fits(s, v, B), NEW w \in (v.clients \ v.docking) \cup {Tray},
         w = Tray => Tray \in s.heard, v.orderly /\ w # Tray => w \in v.flags
  PROVE  Fits(XMap(s, w), v, B)
<1> DEFINE e == Event("map", w)
           t == [s EXCEPT !.mapped = @ \cup {w}, !.events = Append(@, e)]
<1>1. CASE w \in s.mapped \/ w \notin s.alive \cup {Tray}
  BY <1>1 DEF XMap
<1>2. CASE ~(w \in s.mapped \/ w \notin s.alive \cup {Tray})
  <2>1. s \in XStates /\ w \in Icons \cup {Tray} /\ w \in s.heard
    BY DEF Fits, Placed
  <2>2. XMap(s, w) = t
    BY <1>2, <2>1 DEF XMap, Tell, XStates, Event
  <2>3. t \in XStates
    <3>1. XMap(s, w) \in XStates
      BY <2>1, XMapKeeps DEF Keeps
    <3> QED BY <2>2, <3>1
  <2>4. /\ t.mapped = s.mapped \cup {w} /\ t.events = Append(s.events, e) /\ t.inside = s.inside
        /\ t.heard = s.heard /\ t.alive = s.alive /\ t.info = s.info
    BY <2>1 DEF XStates
  <2>5. e \in SaneEvents /\ e.type = "map" /\ e.win = w
    BY <2>1, EventSane DEF Event
  <2> HIDE DEF e, t
  <2>6. Placed(t, v)
    BY <1>2, <2>1, <2>3, <2>4 DEF Fits, Placed
  <2>7. Says(s, v, B, e, t, B)
    BY <2>1, <2>4, <2>5 DEF Says, Moves, Goes, Windows
  <2>8. Fits(t, v, B)
    BY <2>6, <2>7, SaysFits
  <2> QED BY <2>2, <2>8
<1> QED
  BY <1>1, <1>2

(* One is unmapped, by whomever.                                           *)
LEMMA XUnmapFits ==
  ASSUME Windows, NEW s, NEW v, NEW B, NEW L, Fits(s, v, B), NEW w \in Icons \cup Others \cup {Tray},
         B \subseteq L, v.orderly /\ w \in Icons => w \in L
  PROVE  Fits(XUnmap(s, w), v, IF w \in s.mapped THEN L ELSE B)
<1> DEFINE e == Event("unmap", w)
           t == [s EXCEPT !.mapped = @ \ {w}, !.events = Append(@, e)]
<1>1. CASE w \notin s.mapped
  BY <1>1 DEF XUnmap
<1>2. CASE w \in s.mapped
  <2>1. s \in XStates /\ w \in Icons \cup {Tray} /\ w \in s.heard
    BY <1>2 DEF Fits, Placed
  <2>2. XUnmap(s, w) = t
    BY <1>2, <2>1 DEF XUnmap, Tell, XStates, Event
  <2>3. t \in XStates
    <3>1. XUnmap(s, w) \in XStates
      BY <2>1, XUnmapKeeps DEF Keeps
    <3> QED BY <2>2, <3>1
  <2>4. /\ t.mapped = s.mapped \ {w} /\ t.events = Append(s.events, e) /\ t.inside = s.inside
        /\ t.heard = s.heard /\ t.alive = s.alive /\ t.info = s.info
    BY <2>1 DEF XStates
  <2>5. e \in SaneEvents /\ e.type = "unmap" /\ e.win = w
    BY <2>1, EventSane DEF Event
  <2> HIDE DEF e, t
  <2>6. Placed(t, v)
    BY <2>1, <2>3, <2>4 DEF Fits, Placed
  <2>7. Says(s, v, B, e, t, L)
    BY <1>2, <2>1, <2>4, <2>5 DEF Says, Moves, Goes, Windows
  <2>8. Fits(t, v, L)
    BY <2>6, <2>7, SaysFits
  <2> QED BY <1>2, <2>2, <2>8
<1> QED
  BY <1>1, <1>2

(* An icon that is not mapped is moved to the root window.                 *)
LEMMA LeaveFits ==
  ASSUME Windows, NEW s, NEW v, NEW B, NEW i \in Icons, Fits(s, v, B), i \notin s.mapped,
         B = {} \/ (B = {i} /\ i \in s.heard \cap s.alive)
  PROVE  LET t == XReparent(s, i, None) IN
           /\ Fits(t, v, {}) /\ t.mapped = s.mapped /\ t.inside = s.inside \ {i}
           /\ t.alive = s.alive /\ t.info = s.info /\ t.heard = s.heard
<1> DEFINE e == [Event("reparent", i) EXCEPT !.parent = None]
           b == [s EXCEPT !.inside = @ \ {i}]
           t == [s EXCEPT !.inside = @ \ {i}, !.events = Append(@, e)]
<1>1. s \in XStates /\ XUnmap(s, i) = s
  BY DEF Fits, Placed, XUnmap
<1>2. CASE i \notin s.alive
  <2>1. XReparent(s, i, None) = s /\ B = {}
    BY <1>2 DEF XReparent
  <2>2. i \notin s.inside
    BY <1>2 DEF Fits, Placed
  <2> QED BY <2>1, <2>2
<1>3. CASE i \in s.alive
  <2>1. e \in SaneEvents /\ e.type = "reparent" /\ e.win = i /\ e.parent = None /\ None # Tray
    BY EventSane DEF Event, None, Tray
  <2>2. XReparent(s, i, None) = Tell(b, e)
    BY <1>1, <1>3, <2>1 DEF XReparent
  <2>3. /\ b.mapped = s.mapped /\ b.events = s.events /\ b.inside = s.inside \ {i}
        /\ b.heard = s.heard /\ b.alive = s.alive /\ b.info = s.info
    BY <1>1 DEF XStates
  <2>4. XReparent(s, i, None) \in XStates
    BY <1>1, XReparentKeeps DEF Keeps
  <2>5. CASE i \in s.heard
    <3>1. XReparent(s, i, None) = t
      BY <1>1, <2>1, <2>2, <2>5 DEF Tell, XStates
    <3>2. /\ t.mapped = s.mapped /\ t.events = Append(s.events, e) /\ t.inside = s.inside \ {i}
          /\ t.heard = s.heard /\ t.alive = s.alive /\ t.info = s.info
      BY <1>1 DEF XStates
    <3>3. t \in XStates
      BY <2>4, <3>1
    <3> HIDE DEF e, b, t
    <3>4. Placed(t, v)
      BY <3>2, <3>3 DEF Fits, Placed
    <3>5. Says(s, v, B, e, t, {})
      BY <2>1, <2>5, <3>2 DEF Says, Moves, Goes, Windows
    <3>6. Fits(t, v, {})
      BY <3>4, <3>5, SaysFits
    <3> QED BY <3>1, <3>2, <3>6
  <2>6. CASE i \notin s.heard
    <3>1. XReparent(s, i, None) = b
      BY <2>1, <2>2, <2>3, <2>6 DEF Tell
    <3>2. b \in XStates
      BY <2>4, <3>1
    <3> HIDE DEF e, b, t
    <3>3. i \notin s.inside /\ B = {}
      BY <2>6 DEF Fits, Placed
    <3>4. Placed(b, v)
      BY <2>3, <3>2 DEF Fits, Placed
    <3>5. Silent(s, v, b)
      BY <2>3, <3>3 DEF Silent
    <3>6. Fits(b, v, {})
      BY <3>3, <3>4, <3>5, SilentFits
    <3> QED BY <2>3, <3>1, <3>6
  <2> QED BY <2>5, <2>6
<1> QED
  BY <1>2, <1>3

(* What XUnmap leaves alone.                                               *)
LEMMA XUnmapEffect ==
  ASSUME NEW s \in XStates, NEW w \in Icons \cup Others \cup {Tray}
  PROVE  LET t == XUnmap(s, w) IN
           /\ t \in XStates /\ t.mapped = s.mapped \ {w} /\ t.inside = s.inside /\ t.alive = s.alive
           /\ t.info = s.info /\ t.heard = s.heard /\ t.owner = s.owner
<1>1. XUnmap(s, w) \in XStates
  BY XUnmapKeeps DEF Keeps
<1>2. CASE w \notin s.mapped
  BY <1>1, <1>2 DEF XUnmap
<1>3. CASE w \in s.mapped
  BY <1>1, <1>3 DEF XUnmap, Tell, XStates
<1> QED
  BY <1>2, <1>3

(* ~tray_client(), or an icon that leaves.                                 *)
LEMMA UnembedFits ==
  ASSUME Windows, NEW s, NEW v, NEW i \in Icons, Fits(s, v, {})
  PROVE  LET t == Unembed(s, i) IN
           /\ Fits(t, v, {}) /\ t.mapped = s.mapped \ {i} /\ t.inside = s.inside \ {i}
           /\ t.alive = s.alive /\ t.info = s.info /\ t.heard = s.heard
<1> DEFINE u == XUnmap(s, i)
           B == IF i \in s.mapped THEN {i} ELSE {}
<1>1. Fits(u, v, B)
  BY XUnmapFits
<1>2. s \in XStates
  BY DEF Fits, Placed
<1>3. /\ u.mapped = s.mapped \ {i} /\ u.inside = s.inside /\ u.alive = s.alive
      /\ u.info = s.info /\ u.heard = s.heard
  BY <1>2, XUnmapEffect
<1>4. i \in s.mapped => i \in s.heard \cap s.alive
  BY DEF Fits, Placed, Windows
<1>5. B = {} \/ (B = {i} /\ i \in u.heard \cap u.alive)
  BY <1>3, <1>4
<1>6. Unembed(s, i) = XReparent(u, i, None)
  BY DEF Unembed
<1> HIDE DEF u, B
<1>7. i \notin u.mapped
  BY <1>3
<1>8. LET t == XReparent(u, i, None) IN
        /\ Fits(t, v, {}) /\ t.mapped = u.mapped /\ t.inside = u.inside \ {i}
        /\ t.alive = u.alive /\ t.info = u.info /\ t.heard = u.heard
  BY <1>1, <1>5, <1>7, LeaveFits
<1> QED
  BY <1>3, <1>6, <1>8

(* A program ends.                                                         *)
LEMMA XDestroyFits ==
  ASSUME Windows, NEW s, NEW v, NEW w \in Icons \cup Others, Fits(s, v, {})
  PROVE  Fits(XDestroy(s, w), v, {})
<1> DEFINE u == XUnmap(s, w)
           B == IF w \in s.mapped THEN {w} ELSE {}
           e == Event("destroy", w)
           b == [u EXCEPT !.alive = @ \ {w}, !.inside = @ \ {w}, !.owner = IF @ = w THEN None ELSE @]
           t == [b EXCEPT !.events = Append(@, e)]
<1>1. s \in XStates /\ XDestroy(s, w) \in XStates
  BY XDestroyEffect DEF Fits, Placed
<1>2. Fits(u, v, B)
  BY XUnmapFits
<1>3. u \in XStates /\ w \notin u.mapped
  BY <1>1, XUnmapEffect
<1>4. /\ XDestroy(s, w) = Tell(b, e)
      /\ e \in SaneEvents /\ e.type = "destroy" /\ e.win = w /\ w # Tray
  BY EventSane DEF XDestroy, Windows, Event
<1>6. /\ b.mapped = u.mapped /\ b.events = u.events /\ b.inside = u.inside \ {w}
      /\ b.heard = u.heard /\ b.alive = u.alive \ {w} /\ b.info = u.info
  BY <1>3 DEF XStates
<1>7. w \in s.mapped => w \in u.heard
  <2>1. u.heard = s.heard
    BY <1>1, XUnmapEffect
  <2> QED BY <1>4, <2>1 DEF Fits, Placed
<1>8. CASE w \in u.heard
  <2>1. XDestroy(s, w) = t
    BY <1>4, <1>6, <1>8 DEF Tell
  <2>2. /\ t.mapped = u.mapped /\ t.events = Append(u.events, e) /\ t.inside = u.inside \ {w}
        /\ t.heard = u.heard /\ t.alive = u.alive \ {w} /\ t.info = u.info
    BY <1>3 DEF XStates
  <2>3. t \in XStates
    BY <1>1, <2>1
  <2> HIDE DEF u, e, b, t
  <2>4. Placed(t, v)
    BY <1>2, <1>3, <2>2, <2>3 DEF Fits, Placed
  <2>5. Says(u, v, B, e, t, {})
    BY <1>4, <1>8, <2>2 DEF Says, Moves, Goes, Windows
  <2>6. Fits(t, v, {})
    BY <1>2, <2>4, <2>5, SaysFits
  <2> QED BY <2>1, <2>6
<1>9. CASE w \notin u.heard
  <2>1. XDestroy(s, w) = b
    BY <1>4, <1>6, <1>9 DEF Tell
  <2>2. b \in XStates
    BY <1>1, <2>1
  <2>3. B = {}
    BY <1>7, <1>9
  <2> HIDE DEF u, e, b, t, B
  <2>4. w \notin u.inside
    BY <1>2, <1>9 DEF Fits, Placed
  <2>5. Placed(b, v)
    BY <1>2, <1>3, <1>6, <2>2 DEF Fits, Placed
  <2>6. Silent(u, v, b)
    BY <1>6, <2>4 DEF Silent
  <2>7. Fits(b, v, {})
    BY <1>2, <2>3, <2>5, <2>6, SilentFits
  <2> QED BY <2>1, <2>7
<1> QED
  BY <1>8, <1>9

(* Several clients are mapped ...                                          *)
LEMMA MapAllFits ==
  ASSUME Windows, NEW s, NEW v, Fits(s, v, {}), NEW S \in SUBSET (v.clients \ v.docking),
         v.orderly => S \subseteq v.flags
  PROVE  Fits(ForAll(S, "map", s), v, {})
<1> DEFINE V == {t \in XStates : Fits(t, v, {})}
<1>1. IsFiniteSet(S)
  BY FS_Subset DEF Windows, Fits, Placed
<1>2. s \in V
  BY DEF Fits, Placed
<1>3. Closed(V, S, "map")
  <2> SUFFICES ASSUME NEW t \in V, NEW w \in S PROVE Ask(t, "map", w) \in V
    BY DEF Closed
  <2>1. w # Tray
    BY DEF Fits, Placed, Windows
  <2>2. Fits(XMap(t, w), v, {})
    BY <2>1, XMapFits
  <2> QED
    BY <2>2 DEF Ask, Fits, Placed
<1>4. ForAll(S, "map", s) \in V
  <2> HIDE DEF V
  <2> QED
    BY <1>1, <1>2, <1>3, ForAllKeeps
<1> QED
  BY <1>4

(* ... or, which may only be once one has withdrawn, unmapped ...          *)
LEMMA UnmapAllFits ==
  ASSUME Windows, NEW s, NEW v, Fits(s, v, {}), NEW S \in SUBSET Icons, v.orderly => S = {}
  PROVE  Fits(ForAll(S, "unmap", s), v, {})
<1> DEFINE V == {t \in XStates : Fits(t, v, {})}
<1>1. IsFiniteSet(S)
  BY FS_Subset DEF Windows
<1>2. s \in V
  BY DEF Fits, Placed
<1>3. Closed(V, S, "unmap")
  <2> SUFFICES ASSUME NEW t \in V, NEW w \in S PROVE Ask(t, "unmap", w) \in V
    BY DEF Closed
  <2>1. ~v.orderly
    OBVIOUS
  <2>2. Fits(XUnmap(t, w), v, {})
    BY <2>1, XUnmapFits
  <2> QED
    BY <2>2 DEF Ask, Fits, Placed
<1>4. ForAll(S, "unmap", s) \in V
  <2> HIDE DEF V
  <2> QED
    BY <1>1, <1>2, <1>3, ForAllKeeps
<1> QED
  BY <1>4

(* ... or all are put out, and are mapped no longer.                       *)
LEMMA UnembedAllFits ==
  ASSUME Windows, NEW s, NEW v, Fits(s, v, {}), NEW S \in SUBSET Icons
  PROVE  LET t == ForAll(S, "unembed", s) IN
           Fits(t, v, {}) /\ t.mapped \cap S = {} /\ t.mapped \subseteq s.mapped
<1> DEFINE V == {t \in XStates : Fits(t, v, {})}
           W == [u \in SUBSET S |-> {t \in V : t.mapped \cap u = {} /\ t.mapped \subseteq s.mapped}]
<1>1. IsFiniteSet(S)
  BY FS_Subset DEF Windows
<1>2. s \in V /\ s \in W[{}]
  BY DEF Fits, Placed
<1>3. ASSUME NEW t \in V, NEW w \in S
      PROVE Ask(t, "unembed", w) \in V /\ Ask(t, "unembed", w).mapped = t.mapped \ {w}
  BY UnembedFits DEF Ask, Fits, Placed
<1>4. Closed(V, S, "unembed")
  <2> HIDE DEF V
  <2> QED
    BY <1>3 DEF Closed
<1>5. Advances(W, V, S, "unembed")
  <2> SUFFICES ASSUME NEW u \in SUBSET S, NEW w \in u, NEW t \in V, t \in W[u \ {w}]
      PROVE Ask(t, "unembed", w) \in W[u]
    BY DEF Advances
  <2>1. t.mapped \cap (u \ {w}) = {} /\ t.mapped \subseteq s.mapped
    <3>1. u \ {w} \in SUBSET S
      OBVIOUS
    <3> HIDE DEF V
    <3> QED
      BY <3>1
  <2> HIDE DEF V
  <2>2. w \in S
    OBVIOUS
  <2>3. Ask(t, "unembed", w) \in V /\ Ask(t, "unembed", w).mapped = t.mapped \ {w}
    BY <1>3, <2>2
  <2> QED
    BY <2>1, <2>3
<1>6. ForAll(S, "unembed", s) \in W[S]
  <2> HIDE DEF V, W
  <2> QED
    BY <1>1, <1>2, <1>4, <1>5, ForAllAdvance
<1> QED
  BY <1>6

(* Polybar sees more clearly: u instead of v.                              *)
Sees(s, v, u) ==
  /\ \A w \in Icons \cup {Tray} :
       (w \in u.mapped <=> w \in v.mapped) \/ w \notin u.mapped \cup s.mapped
  /\ \A i \in (u.clients \ (s.inside \cup u.leaving)) \cup u.pending :
       i \in (v.clients \ (s.inside \cup v.leaving)) \cup v.pending
  /\ v.docks => u.docks
  /\ u.orderly =>
       /\ v.orderly /\ u.flags \subseteq s.info
       /\ \A i \in u.clients : i \in s.info /\ (i \in v.clients => i \in v.flags) => i \in u.flags

(* What it will be told completes that as well.                            *)
LEMMA SeesFits ==
  ASSUME NEW s, NEW v, NEW u, NEW B, Fits(s, v, B), Placed(s, u), Sees(s, v, u)
  PROVE  Fits(s, u, B)
<1>1. ASSUME NEW w \in Icons \cup {Tray} PROVE Told(s.events, w, u.mapped, s.mapped)
  <2>1. Told(s.events, w, v.mapped, s.mapped)
    BY DEF Fits, Hears
  <2>2. CASE w \in u.mapped <=> w \in v.mapped
    BY <2>1, <2>2, ToldSame
  <2>3. CASE w \notin u.mapped \cup s.mapped
    BY <2>1, <2>3 DEF Told
  <2> QED BY <2>2, <2>3 DEF Sees
<1>2. Hears(s, u)
  BY <1>1 DEF Fits, Hears, Sees
<1>3. Orderly(s, u, B)
  <2> SUFFICES ASSUME u.orderly
      PROVE /\ u.flags \subseteq s.info /\ Followed(s.events, B)
            /\ \A i \in Icons : i \in s.mapped \cup u.mapped \/ Mapping(s.events, i) =>
                                  i \in s.info /\ (i \in u.clients => i \in u.flags)
    BY DEF Orderly
  <2>1. /\ v.orderly /\ u.flags \subseteq s.info /\ Followed(s.events, B)
        /\ \A i \in Icons : i \in s.mapped \cup v.mapped \/ Mapping(s.events, i) =>
                              i \in s.info /\ (i \in v.clients => i \in v.flags)
    BY DEF Fits, Orderly, Sees
  <2>2. ASSUME NEW i \in Icons, i \in s.mapped \cup u.mapped \/ Mapping(s.events, i)
        PROVE  i \in s.info /\ (i \in u.clients => i \in u.flags)
    <3>1. i \in s.mapped \cup v.mapped \/ Mapping(s.events, i)
      BY <2>2 DEF Sees
    <3> QED BY <2>1, <3>1 DEF Sees
  <2> QED BY <2>1, <2>2
<1> QED
  BY <1>2, <1>3 DEF Fits

(* It has taken an event, and sees what that says.                         *)
Takes(e, v, u) ==
  /\ \A w \in Icons \cup {Tray} :
       IF Moves(e, w) THEN (w \in u.mapped <=> e.type = "map") \/ w \notin u.mapped \cup x.mapped
       ELSE w \in u.mapped <=> w \in v.mapped
  /\ \A i \in (u.clients \ (x.inside \cup u.leaving)) \cup u.pending :
       ~Goes(e, i) /\ i \in (v.clients \ (x.inside \cup v.leaving)) \cup v.pending
  /\ v.docks => u.docks
  /\ u.orderly =>
       /\ v.orderly /\ u.flags \subseteq x.info
       /\ \A i \in u.clients : i \in x.info /\ (i \in v.clients => i \in v.flags) => i \in u.flags

(* What remains of the X server's state besides the events.                *)
LEMMA RestSame ==
  ASSUME Typed, x.events # <<>>
  PROVE  /\ Rest \in XStates /\ Rest.events = Tail(x.events) /\ Rest.mapped = x.mapped
         /\ Rest.inside = x.inside /\ Rest.alive = x.alive /\ Rest.info = x.info
         /\ Rest.heard = x.heard /\ Rest.owner = x.owner
<1>1. Rest \in XStates
  BY RestKeeps
<1> QED
  BY <1>1 DEF Rest, Typed, XStates

(* The events that are left complete it.                                   *)
LEMMA TakesFits ==
  ASSUME Typed, x.events # <<>>, NEW v, NEW u, Fits(x, v, {}), Placed(x, u), Takes(Head(x.events), v, u)
  PROVE  Fits(Rest, u, {})
<1> DEFINE q == x.events
           e == Head(q)
           t == Tail(q)
<1>1. q \in Seq(SaneEvents) /\ q # <<>>
  BY DEF Typed, XStates
<1>2. /\ \A w, K, S : Told(q, w, K, S) /\ ~Moves(e, w) => Told(t, w, K, S)
      /\ \A w, K, L, S : /\ Told(q, w, K, S) /\ Moves(e, w)
                         /\ (w \in L <=> e.type = "map") \/ (w \notin L /\ w \notin S)
                         => Told(t, w, L, S)
      /\ \A i : Going(q, i) => Going(t, i) \/ Goes(e, i)
      /\ \A i : Mapping(t, i) => Mapping(q, i)
      /\ \A i : Maps(e, i) => Mapping(q, i)
      /\ Docks(t) => Docks(q)
      /\ OfTray(t) => OfTray(q)
      /\ Followed(q, {}) => Followed(t, {})
  BY <1>1, TailSays
<1>3. /\ Rest \in XStates /\ Rest.events = t /\ Rest.mapped = x.mapped
      /\ Rest.inside = x.inside /\ Rest.alive = x.alive /\ Rest.info = x.info
      /\ Rest.heard = x.heard /\ Rest.owner = x.owner
  BY RestSame
<1>4. Head(x.events) = e
  OBVIOUS
<1> HIDE DEF q, e, t
<1>5. ASSUME NEW w \in Icons \cup {Tray} PROVE Told(t, w, u.mapped, x.mapped)
  <2>1. Told(q, w, v.mapped, x.mapped)
    BY DEF Fits, Hears, q
  <2>2. CASE Moves(e, w)
    BY <1>2, <1>4, <2>1, <2>2 DEF Takes
  <2>3. CASE ~Moves(e, w)
    <3>1. w \in u.mapped <=> w \in v.mapped
      BY <1>4, <2>3 DEF Takes
    <3>2. Told(t, w, v.mapped, x.mapped)
      BY <1>2, <2>1, <2>3
    <3> QED BY <3>1, <3>2, ToldSame
  <2> QED BY <2>2, <2>3
<1>6. Hears(Rest, u)
  <2>1. ASSUME NEW i \in (u.clients \ (x.inside \cup u.leaving)) \cup u.pending PROVE Going(t, i)
    <3>1. ~Goes(e, i) /\ Going(q, i)
      BY <1>4 DEF Fits, Hears, Takes, q
    <3> QED BY <1>2, <3>1
  <2>2. u.docks \/ ~Docks(t)
    BY <1>2 DEF Fits, Hears, Takes, q
  <2>3. Tray \in x.heard \/ ~OfTray(t)
    BY <1>2 DEF Fits, Hears, q
  <2> QED BY <1>3, <1>5, <2>1, <2>2, <2>3 DEF Hears
<1>7. Orderly(Rest, u, {})
  <2> SUFFICES ASSUME u.orderly
      PROVE /\ u.flags \subseteq Rest.info /\ Followed(Rest.events, {})
            /\ \A i \in Icons : i \in Rest.mapped \cup u.mapped \/ Mapping(Rest.events, i) =>
                                  i \in Rest.info /\ (i \in u.clients => i \in u.flags)
    BY DEF Orderly
  <2>1. /\ v.orderly /\ u.flags \subseteq x.info /\ Followed(q, {})
        /\ \A i \in Icons : i \in x.mapped \cup v.mapped \/ Mapping(q, i) =>
                              i \in x.info /\ (i \in v.clients => i \in v.flags)
    BY DEF Fits, Orderly, Takes, q
  <2>2. ASSUME NEW i \in Icons, i \in x.mapped \cup u.mapped \/ Mapping(t, i)
        PROVE  i \in x.info /\ (i \in u.clients => i \in u.flags)
    <3>1. i \in x.mapped \cup v.mapped \/ Mapping(q, i)
      <4>1. CASE Maps(e, i)
        BY <1>2, <4>1
      <4>2. CASE ~Maps(e, i)
        <5>1. i \in u.mapped => i \in v.mapped \cup x.mapped
          BY <1>4, <4>2 DEF Takes, Moves, Maps
        <5> QED BY <1>2, <2>2, <5>1
      <4> QED BY <4>1, <4>2
    <3> QED BY <2>1, <3>1 DEF Takes
  <2> QED BY <1>2, <1>3, <2>1, <2>2
<1>8. Placed(Rest, u)
  BY <1>3 DEF Placed
<1> QED
  BY <1>6, <1>7, <1>8 DEF Fits

(* The selection says nothing of the icons.                                *)
LEMMA XSetOwnerFits ==
  ASSUME Windows, NEW s, NEW v, Fits(s, v, {}), NEW w \in Others \cup {None, Tray}
  PROVE  Fits(XSetOwner(s, w), v, {})
<1> DEFINE e == Event("clear", Tray)
           b == [s EXCEPT !.owner = w]
           t == [s EXCEPT !.owner = w, !.events = Append(@, e)]
<1>1. s \in XStates /\ XSetOwner(s, w) \in XStates
  BY XSetOwnerEffect DEF Fits, Placed
<1>2. e \in SaneEvents /\ e.type = "clear" /\ e.win = Tray
  BY DEF Event, SaneEvents, Events
<1>3. CASE s.owner = Tray /\ Tray \in s.heard
  <2>1. XSetOwner(s, w) = t
    BY <1>1, <1>2, <1>3 DEF XSetOwner, Tell, XStates
  <2>2. /\ t.mapped = s.mapped /\ t.events = Append(s.events, e) /\ t.inside = s.inside
        /\ t.heard = s.heard /\ t.alive = s.alive /\ t.info = s.info
    BY <1>1 DEF XStates
  <2>3. t \in XStates
    BY <1>1, <2>1
  <2> HIDE DEF e, t
  <2>4. Placed(t, v)
    BY <2>2, <2>3 DEF Fits, Placed
  <2>5. Says(s, v, {}, e, t, {})
    BY <1>2, <1>3, <2>2 DEF Says, Moves, Goes
  <2> QED BY <2>1, <2>4, <2>5, SaysFits
<1>4. CASE ~(s.owner = Tray /\ Tray \in s.heard)
  <2>1. XSetOwner(s, w) = b
    BY <1>1, <1>2, <1>4 DEF XSetOwner, Tell
  <2>2. /\ b.mapped = s.mapped /\ b.events = s.events /\ b.inside = s.inside
        /\ b.heard = s.heard /\ b.alive = s.alive /\ b.info = s.info
    BY <1>1 DEF XStates
  <2>3. b \in XStates
    BY <1>1, <2>1
  <2> HIDE DEF e, b
  <2>4. Placed(b, v)
    BY <2>2, <2>3 DEF Fits, Placed
  <2>5. Silent(s, v, b)
    BY <2>2 DEF Silent
  <2> QED BY <2>1, <2>4, <2>5, SilentFits
<1> QED
  BY <1>3, <1>4

(* The tray's own window is mapped or unmapped.                            *)
LEMMA TrayWindowFits ==
  ASSUME Windows, NEW s, NEW v, Fits(s, v, {})
  PROVE  Fits(XUnmap(s, Tray), v, {}) /\ (Tray \in s.heard => Fits(XMap(s, Tray), v, {}))
<1>1. Fits(XUnmap(s, Tray), v, {})
  BY XUnmapFits DEF Windows
<1>2. Tray \in s.heard => Fits(XMap(s, Tray), v, {})
  BY XMapFits
<1> QED
  BY <1>1, <1>2

(* There is room for the icons that are mapped now, unless it was refused. *)
Fitted ==
  \/ refused'
  \/ /\ ~Held /\ configured_slots' = Cardinality(clients_mapped')
     /\ configured_w' = Cardinality(clients_mapped')

(* reconfigure(): what polybar sees afterwards, of what it saw before.     *)
LEMMA ReconfigureFits ==
  ASSUME Windows, NEW s, NEW v, Fits(s, v, {}), v.docking = {},
         NEW C, NEW M, NEW F, C = v.clients, M = v.mapped \ {Tray}, F = v.flags,
         M = {} \/ Tray \in s.heard, Tray \in v.mapped <=> m_mapped, Reconfigure(s, C, M, F)
  PROVE  /\ Fits(x', Sight(m_clients', clients_mapped' \cup {w \in {Tray} : m_mapped}, flags',
                           {}, v.leaving, v.pending, v.docks, v.orderly), {})
         /\ Fitted
         /\ m_clients' \subseteq C /\ clients_mapped' \subseteq m_clients'
<1>0. CASE Held
  <2> DEFINE w == Sight(C, M \cup {y \in {Tray} : m_mapped}, F, {}, v.leaving, v.pending, v.docks, v.orderly)
  <2>1. /\ refused' /\ x' = s /\ m_clients' = C /\ clients_mapped' = M /\ flags' = F
    BY <1>0 DEF Reconfigure
  <2>2. /\ w.clients = C /\ w.mapped = M \cup {y \in {Tray} : m_mapped} /\ w.flags = F
        /\ w.docking = {} /\ w.leaving = v.leaving /\ w.pending = v.pending
        /\ w.docks = v.docks /\ w.orderly = v.orderly
    BY DEF Sight
  <2> HIDE DEF w
  <2>3. w.mapped = v.mapped
    BY <2>2
  <2>4. Fits(s, w, {})
    BY <2>2, <2>3 DEF Fits, Placed, Hears, Orderly
  <2>5. M \subseteq C
    BY DEF Fits, Placed
  <2> QED BY <2>1, <2>4, <2>5 DEF w, Fitted
<1> SUFFICES ASSUME ~Held
    PROVE  /\ Fits(x', Sight(m_clients', clients_mapped' \cup {w \in {Tray} : m_mapped}, flags',
                             {}, v.leaving, v.pending, v.docks, v.orderly), {})
           /\ Fitted /\ m_clients' \subseteq C /\ clients_mapped' \subseteq m_clients'
  BY <1>0
<1> DEFINE live == C \cap s.alive
           u == Sight(live, (M \cap live) \cup {w \in {Tray} : m_mapped}, F \cap live,
                      {}, v.leaving, v.pending, v.docks, v.orderly)
           n == mapped_clients(live, M)
           first == ForAll((live \cap F) \ M, "map", s)
           icons == ForAll((live \cap M) \ F, "unmap", first)
<1>1. /\ m_clients' = live /\ clients_mapped' = M \cap live /\ flags' = F \cap live
      /\ configured_slots' = n /\ configured_w' = n
      /\ x' = IF n = 0 /\ m_mapped THEN XUnmap(icons, Tray)
              ELSE IF n > 0 /\ ~m_mapped /\ ~m_hidden THEN XMap(icons, Tray)
              ELSE icons
  BY DEF Reconfigure
<1>2. /\ u.clients = live /\ u.mapped = (M \cap live) \cup {w \in {Tray} : m_mapped}
      /\ u.flags = F \cap live /\ u.docking = {} /\ u.leaving = v.leaving /\ u.pending = v.pending
      /\ u.docks = v.docks /\ u.orderly = v.orderly
  BY DEF Sight
<1>3. n = Cardinality(M \cap live)
  <2>1. live \cap M = M \cap live
    OBVIOUS
  <2> QED BY <2>1 DEF mapped_clients
<1> HIDE DEF u, n
<1>4. C \subseteq Icons /\ Tray \notin Icons
  BY DEF Fits, Placed, Windows
<1>5. Fits(s, u, {})
  <2>1. Placed(s, u)
    BY <1>2, <1>4 DEF Fits, Placed
  <2>2. Sees(s, v, u)
    <3>1. \A w \in Icons \cup {Tray} :
            (w \in u.mapped <=> w \in v.mapped) \/ w \notin u.mapped \cup s.mapped
      BY <1>2, <1>4 DEF Fits, Placed
    <3>2. \A i \in (u.clients \ (s.inside \cup u.leaving)) \cup u.pending :
            i \in (v.clients \ (s.inside \cup v.leaving)) \cup v.pending
      BY <1>2
    <3>3. u.orderly =>
            /\ v.orderly /\ u.flags \subseteq s.info
            /\ \A i \in u.clients : i \in s.info /\ (i \in v.clients => i \in v.flags) => i \in u.flags
      BY <1>2 DEF Fits, Orderly
    <3> QED BY <1>2, <3>1, <3>2, <3>3 DEF Sees
  <2> QED BY <2>1, <2>2, SeesFits
<1>6. v.orderly => (live \cap M) \ F = {}
  BY <1>4 DEF Fits, Orderly
<1> HIDE DEF live
<1>7. Fits(first, u, {})
  <2>1. (live \cap F) \ M \in SUBSET (u.clients \ u.docking)
    BY <1>2
  <2>2. u.orderly => (live \cap F) \ M \subseteq u.flags
    BY <1>2 DEF live
  <2> QED BY <1>5, <2>1, <2>2, MapAllFits
<1>8. s \in XStates /\ first \in XStates /\ (Tray \in first.heard <=> Tray \in s.heard)
  <2>1. (live \cap F) \ M \in SUBSET Icons
    BY <1>4 DEF live
  <2>2. s \in XStates
    BY DEF Fits, Placed
  <2> QED BY <2>1, <2>2, IconsKeep DEF Keeps, Requests
<1> HIDE DEF first
<1>9. (live \cap M) \ F \in SUBSET Icons
  BY <1>4 DEF live
<1>10. Fits(icons, u, {})
  BY <1>2, <1>6, <1>7, <1>9, UnmapAllFits
<1>11. Tray \in icons.heard <=> Tray \in s.heard
  BY <1>8, <1>9, IconsKeep DEF Keeps, Requests
<1> HIDE DEF icons
<1>12. n > 0 => Tray \in icons.heard
  <2>1. M \cap live = {} => n = 0
    BY <1>3, FS_EmptySet
  <2> QED BY <1>11, <2>1
<1>13. Fits(x', u, {})
  BY <1>1, <1>10, <1>12, TrayWindowFits
<1>14. m_clients' \subseteq C /\ clients_mapped' \subseteq m_clients'
  BY <1>1 DEF live
<1> QED
  BY <1>1, <1>3, <1>13, <1>14 DEF u, Fitted

(* Removing a client, whose leaving need not be queued any more.           *)
LEMMA RemoveFits ==
  ASSUME Windows, NEW s, NEW v, Fits(s, v, {}), v.docking = {}, NEW i \in Icons,
         v.clients = m_clients, v.mapped = Mapped, v.flags = flags, v.leaving \subseteq {i},
         clients_mapped \subseteq m_clients, m_clients = {} \/ Tray \in s.heard, Remove(s, i)
  PROVE  /\ Fits(x', Sight(m_clients', clients_mapped' \cup {w \in {Tray} : m_mapped}, flags',
                           {}, {}, v.pending, v.docks, v.orderly), {})
         /\ Fitted
         /\ m_clients' \subseteq m_clients \ {i} /\ clients_mapped' \subseteq m_clients'
<1> DEFINE t == Unembed(s, i)
           u == Sight(m_clients \ {i}, Mapped \ {i}, flags \ {i}, {}, {}, v.pending, v.docks, v.orderly)
<1>1. /\ Fits(t, v, {}) /\ t.mapped = s.mapped \ {i} /\ t.inside = s.inside \ {i}
      /\ t.alive = s.alive /\ t.info = s.info /\ t.heard = s.heard
  BY UnembedFits
<1>2. /\ u.clients = m_clients \ {i} /\ u.mapped = Mapped \ {i} /\ u.flags = flags \ {i} /\ u.docking = {}
      /\ u.leaving = {} /\ u.pending = v.pending /\ u.docks = v.docks /\ u.orderly = v.orderly
  BY DEF Sight
<1>3. Reconfigure(t, m_clients \ {i}, clients_mapped \ {i}, flags \ {i})
  BY DEF Remove
<1>4. Tray \notin Icons /\ m_clients \subseteq Icons
  BY DEF Fits, Placed, Windows
<1> HIDE DEF t, u
<1>5. Placed(t, u)
  BY <1>1, <1>2 DEF Fits, Placed
<1>6. Sees(t, v, u)
  <2>1. \A w \in Icons \cup {Tray} :
          (w \in u.mapped <=> w \in v.mapped) \/ w \notin u.mapped \cup t.mapped
    BY <1>1, <1>2
  <2>2. \A j \in (u.clients \ (t.inside \cup u.leaving)) \cup u.pending :
          j \in (v.clients \ (t.inside \cup v.leaving)) \cup v.pending
    BY <1>1, <1>2
  <2>3. u.orderly =>
          /\ v.orderly /\ u.flags \subseteq t.info
          /\ \A j \in u.clients : j \in t.info /\ (j \in v.clients => j \in v.flags) => j \in u.flags
    BY <1>1, <1>2 DEF Fits, Orderly
  <2> QED BY <1>2, <2>1, <2>2, <2>3 DEF Sees
<1>7. Fits(t, u, {})
  BY <1>1, <1>5, <1>6, SeesFits
<1>8. clients_mapped \ {i} = u.mapped \ {Tray}
  BY <1>2, <1>4 DEF Mapped
<1>9. Tray \in u.mapped <=> m_mapped
  BY <1>2, <1>4 DEF Mapped
<1>10. clients_mapped \ {i} = {} \/ Tray \in t.heard
  BY <1>1
<1> QED
  BY <1>2, <1>3, <1>7, <1>8, <1>9, <1>10, ReconfigureFits

(* A change of the bar's visibility.                                       *)
LEMMA VisibilityFits ==
  ASSUME Windows, NEW s, NEW v, Fits(s, v, {}), NEW b, Toggle(s, b),
         m_activated => Tray \in s.heard
  PROVE  Fits(x', v, {})
<1>1. x' = s \/ x' = XUnmap(s, Tray) \/ (m_activated /\ x' = XMap(s, Tray))
  BY DEF Toggle
<1> QED
  BY <1>1, TrayWindowFits

(* deactivate() silences the old tray window; of the icons everything is   *)
(* still said.                                                             *)
LEMMA OutdatedSays ==
  ASSUME Windows, NEW q \in Seq(SaneEvents)
  PROVE  LET t == Outdated(q) IN
         /\ \A w \in Icons : \A K, S : Told(q, w, K, S) /\ w \notin S => Told(t, w, {}, {})
         /\ Told(t, Tray, {}, {})
         /\ \A i \in Icons : Mapping(t, i) => Mapping(q, i)
         /\ Docks(t) => Docks(q)
         /\ ~OfTray(t)
         /\ Followed(q, {}) => Followed(t, {})
<1> DEFINE t == Outdated(q)
           stale == Event("stale", None)
<1>1. DOMAIN t = DOMAIN q /\ \A n \in DOMAIN q : t[n] = IF q[n].win = Tray THEN stale ELSE q[n]
  BY DEF Outdated
<1>2. stale.type = "stale" /\ stale.win = None /\ None # Tray /\ None \notin Icons /\ Tray \notin Icons
  BY DEF Event, None, Tray, Windows
<1> HIDE DEF t, stale
<1>3. \A n \in DOMAIN q : t[n].win # Tray /\ (t[n].type = "stale" \/ t[n] = q[n])
  BY <1>1, <1>2
<1>4. \A n \in DOMAIN q : \A w \in Icons : /\ Moves(t[n], w) <=> Moves(q[n], w)
                                           /\ Goes(t[n], w) <=> Goes(q[n], w)
                                           /\ Maps(t[n], w) <=> Maps(q[n], w)
                                           /\ Moves(t[n], w) => t[n] = q[n]
  BY <1>1, <1>2 DEF Moves, Goes, Maps
<1>5. ASSUME NEW w \in Icons, NEW K, NEW S, Told(q, w, K, S), w \notin S PROVE Told(t, w, {}, {})
  BY <1>1, <1>4, <1>5 DEF Told
<1>6. Told(t, Tray, {}, {})
  BY <1>1, <1>3 DEF Told, Moves
<1>7. \A i \in Icons : Mapping(t, i) => Mapping(q, i)
  BY <1>1, <1>4 DEF Mapping
<1>8. (Docks(t) => Docks(q)) /\ ~OfTray(t)
  BY <1>1, <1>3 DEF Docks, OfTray
<1>9. ASSUME Followed(q, {}) PROVE Followed(t, {})
  <2> SUFFICES ASSUME NEW n \in DOMAIN t, t[n].type = "unmap", t[n].win \in Icons
      PROVE \E m \in DOMAIN t : m > n /\ Goes(t[m], t[n].win)
    BY DEF Followed
  <2>1. n \in DOMAIN q /\ t[n] = q[n]
    BY <1>1, <1>3
  <2>2. PICK m \in DOMAIN q : m > n /\ Goes(q[m], q[n].win)
    BY <1>9, <2>1 DEF Followed
  <2> QED BY <1>1, <1>4, <2>1, <2>2
<1> QED
  BY <1>5, <1>6, <1>7, <1>8, <1>9 DEF t

(* Then nobody is a client any more.                                       *)
LEMMA DeactivateFits ==
  ASSUME Windows, Typed, NEW s, NEW v, Fits(s, v, {}), v.clients = m_clients,
         NEW clear_selection \in BOOLEAN, Deactivate(s, clear_selection)
  PROVE  /\ Fits(x', Sight({}, {}, {}, {}, {}, {}, v.docks, v.orderly), {})
         /\ m_activated' = FALSE /\ m_mapped' = FALSE /\ Tray \notin x'.heard
         /\ m_clients' = {} /\ clients_mapped' = {} /\ flags' = {}
         /\ configured_slots' = 0 /\ configured_w' = 0
<1> DEFINE cleared == IF clear_selection /\ m_acquired_selection THEN XSetOwner(s, None) ELSE s
           left == ForAll(m_clients, "unembed", cleared)
           u == Sight({}, {}, {}, {}, {}, {}, v.docks, v.orderly)
<1>1. Fits(cleared, v, {})
  BY XSetOwnerFits
<1> HIDE DEF cleared
<1>2. m_clients \in SUBSET Icons
  BY DEF Typed
<1>3. Fits(left, v, {}) /\ left.mapped \cap m_clients = {}
  BY <1>1, <1>2, UnembedAllFits
<1>4. /\ x' = [left EXCEPT !.owner = IF @ = Tray THEN None ELSE @, !.inside = {}, !.mapped = @ \ {Tray},
                          !.heard = @ \ {Tray}, !.events = Outdated(@)]
      /\ m_activated' = FALSE /\ m_mapped' = FALSE
      /\ m_clients' = {} /\ clients_mapped' = {} /\ flags' = {}
      /\ configured_slots' = 0 /\ configured_w' = 0
  BY DEF Deactivate, cleared
<1>5. x' \in XStates
  <2>1. s \in XStates
    BY DEF Fits, Placed
  <2> QED BY <2>1, DeactivateEffect
<1> HIDE DEF left
<1>6. left \in XStates /\ left.mapped \subseteq {Tray}
  BY <1>3 DEF Fits, Placed
<1>7. /\ x'.inside = {} /\ x'.mapped = {} /\ x'.heard = left.heard \ {Tray}
      /\ x'.events = Outdated(left.events) /\ x'.info = left.info /\ x'.alive = left.alive
  BY <1>4, <1>6 DEF XStates
<1>8. /\ u.clients = {} /\ u.mapped = {} /\ u.flags = {} /\ u.docking = {} /\ u.leaving = {} /\ u.pending = {}
      /\ u.docks = v.docks /\ u.orderly = v.orderly
  BY DEF Sight
<1>9. left.events \in Seq(SaneEvents)
  BY <1>6 DEF XStates
<1>10. LET t == Outdated(left.events) IN
         /\ \A w \in Icons : \A K, S : Told(left.events, w, K, S) /\ w \notin S => Told(t, w, {}, {})
         /\ Told(t, Tray, {}, {})
         /\ \A i \in Icons : Mapping(t, i) => Mapping(left.events, i)
         /\ Docks(t) => Docks(left.events)
         /\ ~OfTray(t)
         /\ Followed(left.events, {}) => Followed(t, {})
  BY <1>9, OutdatedSays
<1> HIDE DEF u
<1>11. Placed(x', u)
  BY <1>5, <1>7, <1>8 DEF Placed
<1>12. ASSUME NEW w \in Icons \cup {Tray} PROVE Told(x'.events, w, u.mapped, x'.mapped)
  <2>1. CASE w = Tray
    BY <1>7, <1>8, <1>10, <2>1
  <2>2. CASE w \in Icons
    <3>1. w \notin left.mapped
      BY <1>6, <2>2 DEF Windows
    <3>2. Told(left.events, w, v.mapped, left.mapped)
      BY <1>3, <2>2 DEF Fits, Hears
    <3> QED BY <1>7, <1>8, <1>10, <2>2, <3>1, <3>2
  <2> QED BY <2>1, <2>2
<1>13. Hears(x', u)
  BY <1>3, <1>7, <1>8, <1>10, <1>12 DEF Fits, Hears
<1>14. Orderly(x', u, {})
  BY <1>3, <1>7, <1>8, <1>10 DEF Fits, Orderly
<1> QED
  BY <1>4, <1>7, <1>11, <1>13, <1>14 DEF Fits, u

(* What polybar sees after a step, if it sees as much as u.                *)
LEMMA NowFits ==
  ASSUME NEW u, Fits(x', u, {}), u.clients = m_clients', u.mapped = Mapped', u.flags = flags',
         u.docking = {docking'} \ {None}, u.leaving \cap u.clients \subseteq {docking'} \ {None},
         u.docks => pc'["worker"] \notin {"activate", "track", "take"}, u.orderly <=> ~withdrawn'
  PROVE  Fits(x', View', {})
<1> DEFINE v == View'
<1>1. /\ v.clients = m_clients' /\ v.mapped = Mapped' /\ v.flags = flags'
      /\ v.docking = {docking'} \ {None} /\ v.leaving = {docking'} \ {None}
      /\ v.pending = {i \in Icons : Going(x'.events, i)}
      /\ v.docks <=> pc'["worker"] \notin {"activate", "track", "take"}
      /\ v.orderly <=> ~withdrawn'
  BY DEF View, Sight
<1> HIDE DEF v
<1>2. Placed(x', v)
  BY <1>1 DEF Fits, Placed
<1>3. ASSUME NEW i \in (v.clients \ (x'.inside \cup v.leaving)) \cup v.pending PROVE Going(x'.events, i)
  BY <1>1 DEF Fits, Hears
<1>4. Hears(x', v)
  BY <1>1, <1>3 DEF Fits, Hears
<1>5. Orderly(x', v, {})
  BY <1>1 DEF Fits, Orderly
<1> QED
  BY <1>2, <1>4, <1>5 DEF Fits, v

(* What View says.                                                         *)
LEMMA ViewFields ==
  /\ View.clients = m_clients /\ View.mapped = Mapped /\ View.flags = flags
  /\ View.docking = {docking} \ {None} /\ View.leaving = {docking} \ {None}
  /\ View.pending = {i \in Icons : Going(x.events, i)}
  /\ View.docks <=> pc["worker"] \notin {"activate", "track", "take"}
  /\ View.orderly <=> ~withdrawn
BY DEF View, Sight

(* Clients can be counted.                                                 *)
LEMMA Counted ==
  ASSUME Windows, NEW S \in SUBSET Icons
  PROVE  IsFiniteSet(S) /\ Cardinality(S) \in Nat
BY FS_Subset, FS_CardinalityType DEF Windows

(* The worker goes on with its refreshing, and nothing else is refused.    *)
Quiet == refused' = refused /\ refresh' = refresh /\ (Held' => Held)

(* reconfigure() makes room.                                               *)
LEMMA EvenRoom ==
  ASSUME Windows, clients_mapped' \in SUBSET Icons, Fitted, pc' = pc
  PROVE  Room'
<1>1. Cardinality(clients_mapped') \in Nat
  BY Counted
<1> QED
  BY <1>1 DEF Room, Even, EvenSoon, Fitted, Held

(* If no icon is mapped there is always room.                              *)
LEMMA EmptyRoom ==
  ASSUME clients_mapped' = {}, configured_slots' = 0, configured_w' = 0
  PROVE  Room'
<1>1. Cardinality({}) = 0
  BY FS_EmptySet
<1> QED
  BY <1>1 DEF Room, Even, EvenSoon

(* A step that leaves the clients where they are.                          *)
LEMMA RoomKept ==
  ASSUME Room, Quiet, UNCHANGED <<clients_mapped, configured_slots>>,
         configured_w' \in {configured_w, Cardinality(clients_mapped)}, withdrawn => withdrawn',
         \A i \in m_clients \ {docking} : Going(x.events, i) =>
           i \in m_clients' \ {docking'} /\ Going(x'.events, i)
  PROVE  Room'
BY DEF Room, Even, EvenSoon, Quiet

(* The worker is left alone while it activates the tray.                   *)
LEMMA EarlyKept ==
  ASSUME Early, Keeps(x, x'), m_clients' \subseteq m_clients, pc' = pc, UNCHANGED selection
  PROVE  Early'
BY DEF Early, Keeps, selection

(* Of a step that is neither about the selection nor the beginning or the  *)
(* end of a setup, only two things remain to be seen.                      *)
LEMMA CalmEmbedded ==
  ASSUME Embedded, Keeps(x, x'), m_clients' \subseteq m_clients, clients_mapped' \subseteq m_clients',
         pc' = pc, docking' = docking, UNCHANGED selection,
         m_mapped' \in BOOLEAN, ~m_activated => ~m_mapped', Fits(x', View', {}), Room'
  PROVE  Embedded'
<1>1. Early'
  BY EarlyKept DEF Embedded
<1>2. WithWindow'
  BY DEF Embedded, WithWindow, Keeps, selection
<1> QED
  BY <1>1, <1>2 DEF Embedded

(* While the main thread handles an event no icon is being set up.         *)
LEMMA HandlesIdle ==
  ASSUME Embedded, NEW type, Handles(type)
  PROVE  /\ Running /\ docking = None /\ x.events # <<>> /\ pc["main"] = "idle"
         /\ Head(x.events).type = type /\ Head(x.events).win = Subject
BY DEF Embedded, WithWindow, Handles, At, Subject

(* The first event, and what is learnt from it: K are now taken for mapped.*)
First == Head(x.events)
Learns(K) ==
  \A w \in Icons \cup {Tray} :
    IF Moves(First, w) THEN (w \in K <=> First.type = "map") \/ w \notin K \cup x.mapped
    ELSE w \in K <=> w \in Mapped
Flagged(F) == ~withdrawn => F \subseteq x.info /\ \A i \in m_clients \cap flags \cap x.info : i \in F
Left == {i \in Icons : Going(x.events, i) /\ ~Goes(First, i)}
Taken(K, F) ==
  Sight(m_clients, K, F, {}, {i \in Icons : Goes(First, i)}, Left, View.docks, View.orderly)

(* What the first event says of the windows, polybar sees.                 *)
LEMMA TakenFits ==
  ASSUME Windows, Typed, Embedded, docking = None, x.events # <<>>, NEW K, NEW F,
         K \subseteq m_clients \cup {Tray}, Tray \in K => Tray \in x.heard, Learns(K), Flagged(F)
  PROVE  Fits(Rest, Taken(K, F), {})
<1> DEFINE u == Taken(K, F)
<1>1. /\ u.clients = m_clients /\ u.mapped = K /\ u.flags = F /\ u.docking = {}
      /\ u.leaving = {i \in Icons : Goes(First, i)} /\ u.pending = Left
      /\ u.docks = View.docks /\ u.orderly = View.orderly
  BY DEF Taken, Sight
<1>2. /\ View.clients = m_clients /\ View.mapped = Mapped /\ View.flags = flags
      /\ View.docking = {} /\ View.leaving = {}
      /\ View.pending = {i \in Icons : Going(x.events, i)}
      /\ View.orderly <=> ~withdrawn
  BY ViewFields
<1>3. Fits(x, View, {}) /\ m_clients \subseteq Icons
  BY DEF Embedded, Typed
<1> HIDE DEF u
<1>4. Placed(x, u)
  BY <1>1, <1>2, <1>3 DEF Fits, Placed
<1>5. Takes(First, View, u)
  <2>1. \A w \in Icons \cup {Tray} :
          IF Moves(First, w) THEN (w \in u.mapped <=> First.type = "map") \/ w \notin u.mapped \cup x.mapped
          ELSE w \in u.mapped <=> w \in View.mapped
    BY <1>1, <1>2 DEF Learns
  <2>2. \A i \in (u.clients \ (x.inside \cup u.leaving)) \cup u.pending :
          ~Goes(First, i) /\ i \in (View.clients \ (x.inside \cup View.leaving)) \cup View.pending
    BY <1>1, <1>2, <1>3 DEF Left
  <2>3. u.orderly =>
          /\ View.orderly /\ u.flags \subseteq x.info
          /\ \A i \in u.clients : i \in x.info /\ (i \in View.clients => i \in View.flags) => i \in u.flags
    BY <1>1, <1>2 DEF Flagged
  <2> QED BY <1>1, <2>1, <2>2, <2>3 DEF Takes
<1> QED
  BY <1>3, <1>4, <1>5, TakesFits DEF First, u

(* Whoever is about to leave still is, unless the event has just said so.  *)
LEMMA StillGoing ==
  ASSUME Typed, x.events # <<>>, NEW i, Going(x.events, i), ~Goes(First, i)
  PROVE  Going(Rest.events, i)
<1>1. x.events \in Seq(SaneEvents)
  BY DEF Typed, XStates
<1>2. Going(x.events, i) => Going(Tail(x.events), i) \/ Goes(Head(x.events), i)
  BY <1>1, TailSays
<1> QED
  BY <1>2, RestSame DEF First

(* If nothing moves, nothing is learnt.                                    *)
LEMMA LearnsNothing ==
  ASSUME First.type \notin {"map", "unmap"}
  PROVE  Learns(Mapped)
BY DEF Learns, Moves

(* Flags that are not asked for again are still right.                     *)
LEMMA FlaggedSame ==
  ASSUME Embedded
  PROVE  Flagged(flags)
BY ViewFields DEF Embedded, Fits, Orderly, Flagged

(* Only clients and the tray window are taken for mapped.                  *)
LEMMA MappedPlaces ==
  ASSUME Embedded
  PROVE  Mapped \subseteq m_clients \cup {Tray} /\ (Tray \in Mapped => Tray \in x.heard)
BY ViewFields DEF Embedded, Fits, Placed

(* An event is taken and answered by no request.                           *)
LEMMA RestEmbedded ==
  ASSUME Windows, Inv, Embedded, NEW type, type # "clear", Handles(type), x' = Rest,
         UNCHANGED <<selection, pc, docking, m_clients, withdrawn>>,
         m_mapped' \in BOOLEAN, m_mapped' => Tray \in x.heard, clients_mapped' \subseteq m_clients,
         Learns(Mapped'), Flagged(flags'), \A i \in m_clients : ~Goes(First, i), Room'
  PROVE  Embedded'
<1>1. docking = None /\ x.events # <<>> /\ Keeps(x, Rest) /\ Typed
  BY HandlesIdle, HandlesCalm DEF Inv
<1>2. /\ Mapped' \subseteq m_clients \cup {Tray} /\ (Tray \in Mapped' => Tray \in x.heard)
  BY <1>1 DEF Mapped, Typed, Windows
<1>3. Fits(Rest, Taken(Mapped', flags'), {})
  <2> DEFINE K == Mapped'
             F == flags'
  <2>1. /\ K \subseteq m_clients \cup {Tray} /\ (Tray \in K => Tray \in x.heard)
        /\ Learns(K) /\ Flagged(F)
    BY <1>2
  <2> HIDE DEF K, F
  <2>2. Fits(Rest, Taken(K, F), {})
    BY <1>1, <2>1, TakenFits
  <2> QED BY <2>2 DEF K, F
<1> DEFINE u == Taken(Mapped', flags')
<1>4. /\ u.clients = m_clients /\ u.mapped = Mapped' /\ u.flags = flags' /\ u.docking = {}
      /\ u.leaving = {i \in Icons : Goes(First, i)}
      /\ u.docks = View.docks /\ u.orderly = View.orderly
  BY DEF Taken, Sight
<1> HIDE DEF u
<1>5. Fits(x', u, {})
  BY <1>3 DEF u
<1>6. Fits(x', View', {})
  <2>1. u.clients = m_clients' /\ u.docking = {docking'} \ {None}
    BY <1>1, <1>4
  <2>2. u.leaving \cap u.clients \subseteq {docking'} \ {None}
    BY <1>4
  <2>3. u.docks => pc'["worker"] \notin {"activate", "track", "take"}
    BY <1>4, ViewFields
  <2>4. u.orderly <=> ~withdrawn'
    BY <1>4, ViewFields
  <2> QED BY <1>4, <1>5, <2>1, <2>2, <2>3, <2>4, NowFits
<1>7. m_activated <=> Tray \in x.heard
  BY DEF Embedded, WithWindow
<1> QED
  BY <1>1, <1>6, <1>7, CalmEmbedded

(* ... or by a reconfiguration.                                            *)
LEMMA ReconfigureEmbedded ==
  ASSUME Windows, Inv, Embedded, NEW type, type # "clear", Handles(type), NEW M, NEW F,
         M \subseteq m_clients, Learns(M \cup {w \in {Tray} : m_mapped}), Flagged(F),
         \A i \in m_clients : ~Goes(First, i), Reconfigure(Rest, m_clients, M, F),
         UNCHANGED <<selection, m_mapped, pc, docking, withdrawn>>
  PROVE  Embedded'
<1>1. docking = None /\ x.events # <<>> /\ Keeps(x, Rest) /\ Typed /\ Rest \in XStates
  BY HandlesIdle, HandlesCalm DEF Inv
<1>2. m_clients \in SUBSET Icons /\ Tray \notin Icons
  BY <1>1 DEF Typed, Windows
<1>3. /\ m_activated <=> Tray \in x.heard
      /\ ~m_activated => m_clients = {} /\ ~m_mapped
      /\ m_mapped \in BOOLEAN
  BY DEF Embedded, WithWindow
<1> DEFINE K == M \cup {w \in {Tray} : m_mapped}
           u == Taken(K, F)
<1>4. K \subseteq m_clients \cup {Tray} /\ (Tray \in K => Tray \in x.heard) /\ Learns(K)
  BY <1>2, <1>3
<1>5. M = K \ {Tray} /\ (Tray \in K <=> m_mapped)
  BY <1>2
<1>6. M = {} \/ Tray \in Rest.heard
  BY <1>1, <1>3, RestSame
<1> HIDE DEF K
<1>7. /\ u.clients = m_clients /\ u.mapped = K /\ u.flags = F /\ u.docking = {}
      /\ u.leaving = {i \in Icons : Goes(First, i)} /\ u.pending = Left
      /\ u.docks = View.docks /\ u.orderly = View.orderly
  BY DEF Taken, Sight
<1>8. Fits(Rest, u, {})
  BY <1>1, <1>4, TakenFits
<1> HIDE DEF u
<1> DEFINE t == Sight(m_clients', clients_mapped' \cup {w \in {Tray} : m_mapped}, flags',
                      {}, u.leaving, u.pending, u.docks, u.orderly)
<1>9. /\ Fits(x', t, {})
      /\ Fitted
      /\ m_clients' \subseteq m_clients /\ clients_mapped' \subseteq m_clients'
  BY <1>5, <1>6, <1>7, <1>8, ReconfigureFits
<1>10. /\ t.clients = m_clients' /\ t.mapped = clients_mapped' \cup {w \in {Tray} : m_mapped}
       /\ t.flags = flags' /\ t.docking = {} /\ t.leaving = u.leaving
       /\ t.docks = u.docks /\ t.orderly = u.orderly
  BY DEF Sight
<1> HIDE DEF t
<1>11. Fits(x', View', {})
  <2>1. t.mapped = Mapped' /\ t.docking = {docking'} \ {None}
    BY <1>1, <1>10 DEF Mapped
  <2>2. t.leaving \cap t.clients \subseteq {docking'} \ {None}
    BY <1>7, <1>9, <1>10
  <2>3. t.docks => pc'["worker"] \notin {"activate", "track", "take"}
    BY <1>7, <1>10, ViewFields
  <2>4. t.orderly <=> ~withdrawn'
    BY <1>7, <1>10, ViewFields
  <2> QED BY <1>9, <1>10, <2>1, <2>2, <2>3, <2>4, NowFits
<1>12. Room'
  <2>1. clients_mapped' \in SUBSET Icons
    BY <1>2, <1>9
  <2> QED BY <1>9, <2>1, EvenRoom
<1>13. Keeps(x, x')
  <2>1. Keeps(Rest, x')
    BY <1>1, <1>2, ReconfigureKeeps
  <2> QED BY <1>1, <2>1, KeepsOn
<1> QED
  BY <1>3, <1>9, <1>11, <1>12, <1>13, CalmEmbedded

(* ... or by removing the icon.                                            *)
LEMMA RemoveEmbedded ==
  ASSUME Windows, Inv, Embedded, NEW type, type \notin {"clear", "map", "unmap"}, Handles(type),
         Subject \in m_clients, Remove(Rest, Subject), UNCHANGED <<selection, Window, pc, docking, User>>
  PROVE  Embedded'
<1>1. /\ docking = None /\ x.events # <<>> /\ Keeps(x, Rest) /\ Typed /\ Rest \in XStates
      /\ First.type = type /\ First.win = Subject
  BY HandlesIdle, HandlesCalm DEF Inv, First
<1>2. m_clients \in SUBSET Icons /\ Tray \notin Icons /\ Subject \in Icons
  BY <1>1 DEF Typed, Windows
<1>3. /\ m_activated <=> Tray \in x.heard
      /\ ~m_activated => m_clients = {} /\ ~m_mapped
      /\ m_mapped \in BOOLEAN /\ clients_mapped \subseteq m_clients
  BY DEF Embedded, WithWindow
<1> DEFINE u == Taken(Mapped, flags)
<1>4. /\ u.clients = m_clients /\ u.mapped = Mapped /\ u.flags = flags /\ u.docking = {}
      /\ u.leaving = {i \in Icons : Goes(First, i)} /\ u.pending = Left
      /\ u.docks = View.docks /\ u.orderly = View.orderly
  BY DEF Taken, Sight
<1>5. Fits(Rest, u, {})
  BY <1>1, LearnsNothing, FlaggedSame, MappedPlaces, TakenFits
<1>6. u.leaving \subseteq {Subject}
  BY <1>1, <1>4 DEF Goes
<1>7. m_clients = {} \/ Tray \in Rest.heard
  BY <1>1, <1>3, RestSame
<1> HIDE DEF u
<1> DEFINE t == Sight(m_clients', clients_mapped' \cup {w \in {Tray} : m_mapped}, flags',
                      {}, {}, u.pending, u.docks, u.orderly)
<1>8. /\ Fits(x', t, {})
      /\ Fitted
      /\ m_clients' \subseteq m_clients \ {Subject} /\ clients_mapped' \subseteq m_clients'
  BY <1>2, <1>3, <1>4, <1>5, <1>6, <1>7, RemoveFits
<1>9. /\ t.clients = m_clients' /\ t.mapped = clients_mapped' \cup {w \in {Tray} : m_mapped}
      /\ t.flags = flags' /\ t.docking = {} /\ t.leaving = {}
      /\ t.docks = u.docks /\ t.orderly = u.orderly
  BY DEF Sight
<1> HIDE DEF t
<1>10. withdrawn' = withdrawn /\ m_mapped' = m_mapped /\ docking' = docking /\ pc' = pc
  BY DEF User, Window
<1>11. Fits(x', View', {})
  <2>1. t.mapped = Mapped' /\ t.docking = {docking'} \ {None}
    BY <1>1, <1>9, <1>10 DEF Mapped
  <2>2. t.leaving \cap t.clients \subseteq {docking'} \ {None}
    BY <1>9
  <2>3. t.docks => pc'["worker"] \notin {"activate", "track", "take"}
    BY <1>4, <1>9, <1>10, ViewFields
  <2>4. t.orderly <=> ~withdrawn'
    BY <1>4, <1>9, <1>10, ViewFields
  <2> QED BY <1>8, <1>9, <2>1, <2>2, <2>3, <2>4, NowFits
<1>12. Room'
  <2>1. clients_mapped' \in SUBSET Icons
    BY <1>2, <1>8
  <2> QED BY <1>8, <1>10, <2>1, EvenRoom
<1>13. Keeps(x, x')
  <2>1. Keeps(Rest, x')
    BY <1>1, <1>2, RemoveKeeps
  <2> QED BY <1>1, <2>1, KeepsOn
<1>14. m_clients' \subseteq m_clients /\ clients_mapped' \subseteq m_clients'
  BY <1>8
<1> QED
  BY <1>3, <1>10, <1>11, <1>12, <1>13, <1>14, CalmEmbedded

(* Room as before: nobody has come or gone.                                *)
LEMMA RestRoom ==
  ASSUME Inv, Embedded, NEW type, Handles(type), x' = Rest, Quiet, UNCHANGED <<m_clients, docking, withdrawn>>,
         UNCHANGED <<clients_mapped, configured_slots>>,
         configured_w' \in {configured_w, Cardinality(clients_mapped)},
         \A i \in m_clients : ~Goes(First, i)
  PROVE  Room'
<1>1. x.events # <<>> /\ Typed /\ Room
  BY HandlesIdle DEF Inv, Embedded
<1>2. \A i \in m_clients \ {docking} : Going(x.events, i) => Going(x'.events, i)
  BY <1>1, StillGoing
<1> QED
  BY <1>1, <1>2, RoomKept

(* An event that is no client's, or says nothing of one, is ignored.       *)
LEMMA IgnoreEmbedded ==
  ASSUME Windows, Inv, Embedded, NEW type, type \notin {"clear", "map", "unmap"}, Handles(type), Ignore,
         \A i \in m_clients : ~Goes(First, i)
  PROVE  Embedded'
<1>1. /\ x' = Rest /\ UNCHANGED <<selection, pc, docking, m_clients, withdrawn>>
      /\ UNCHANGED <<m_mapped, clients_mapped, flags, configured_slots, configured_w>> /\ Quiet
  BY DEF Ignore, Window, clients, room, User, Quiet, Held
<1>2. First.type = type
  BY HandlesIdle DEF First
<1>3. Learns(Mapped') /\ Flagged(flags')
  <2>1. Mapped' = Mapped
    BY <1>1 DEF Mapped
  <2> QED BY <1>1, <1>2, <2>1, LearnsNothing, FlaggedSame
<1>4. /\ m_activated <=> Tray \in x.heard
      /\ ~m_activated => ~m_mapped
      /\ m_mapped \in BOOLEAN /\ clients_mapped \subseteq m_clients
  BY DEF Embedded, WithWindow
<1>5. Room'
  BY <1>1, RestRoom
<1> QED
  BY <1>1, <1>3, <1>4, <1>5, RestEmbedded

(* process_docking_request().                                              *)
LEMMA DockEmbedded ==
  ASSUME Windows, Inv, Embedded, Dock
  PROVE  Embedded'
<1>1. /\ Handles("dock") /\ docking = None /\ x.events # <<>> /\ Keeps(x, Rest) /\ Typed
      /\ First.type = "dock" /\ Subject \in Icons /\ pc["main"] = "idle"
  BY HandlesIdle, HandlesCalm DEF Dock, Inv, First
<1>2. \A i : ~Goes(First, i) /\ ~Moves(First, i)
  BY <1>1 DEF Goes, Moves
<1>3. CASE Ignore
  BY <1>1, <1>2, <1>3, IgnoreEmbedded
<1>4. CASE /\ Reconfigure(Rest, m_clients, clients_mapped, flags)
           /\ UNCHANGED <<selection, Window, pc, docking, User>>
  <2>1. clients_mapped \subseteq m_clients
    BY DEF Embedded, WithWindow
  <2>2. Learns(clients_mapped \cup {w \in {Tray} : m_mapped}) /\ Flagged(flags)
    BY <1>1, LearnsNothing, FlaggedSame DEF Mapped
  <2>3. UNCHANGED <<selection, m_mapped, pc, docking, withdrawn>>
    BY <1>4 DEF Window, User
  <2> QED BY <1>1, <1>2, <1>4, <2>1, <2>2, <2>3, ReconfigureEmbedded
<1>5. CASE /\ m_activated /\ Subject \notin m_clients /\ m_clients' = m_clients \cup {Subject}
           /\ flags' = (flags \ {Subject}) \cup ({Subject} \cap x.info)
           /\ docking' = Subject /\ Goto("main", "setup") /\ x' = Rest
           /\ UNCHANGED <<selection, Window, clients_mapped, room, User>>
  <2> DEFINE i == Subject
             u == Sight(m_clients \cup {i}, Mapped, flags', {i}, {i}, View.pending, View.docks, View.orderly)
  <2>1. /\ u.clients = m_clients \cup {i} /\ u.mapped = Mapped /\ u.flags = flags' /\ u.docking = {i}
        /\ u.leaving = {i} /\ u.pending = View.pending
        /\ u.docks = View.docks /\ u.orderly = View.orderly
    BY DEF Sight
  <2>2. Fits(x, View, {})
    BY DEF Embedded
  <2> HIDE DEF u
  <2>3. i \in Icons /\ i \notin m_clients /\ i # Tray /\ i # None
    BY <1>1, <1>5 DEF Windows
  <2>4. Placed(x, u)
    <3>1. /\ View.clients = m_clients /\ View.mapped = Mapped /\ View.docking = {}
      BY <1>1, ViewFields
    <3> HIDE DEF i
    <3>2. m_clients \subseteq Icons /\ Mapped \subseteq m_clients \cup {Tray} /\ x.mapped \subseteq m_clients \cup {Tray}
          /\ x.inside \subseteq m_clients /\ m_clients \subseteq x.heard
      BY <2>2, <3>1 DEF Fits, Placed
    <3>3. u.clients \ u.docking = m_clients
      BY <2>1, <2>3
    <3> QED BY <2>1, <2>2, <2>3, <3>1, <3>2, <3>3 DEF Fits, Placed
  <2>5. Takes(First, View, u)
    <3>1. \A w \in Icons \cup {Tray} : w \in u.mapped <=> w \in View.mapped
      BY <2>1, ViewFields
    <3>2. \A j \in (u.clients \ (x.inside \cup u.leaving)) \cup u.pending :
            j \in (View.clients \ (x.inside \cup View.leaving)) \cup View.pending
      BY <1>1, <2>1, ViewFields
    <3>3. u.orderly =>
            /\ View.orderly /\ u.flags \subseteq x.info
            /\ \A j \in u.clients : j \in x.info /\ (j \in View.clients => j \in View.flags) => j \in u.flags
      <4> SUFFICES ASSUME u.orderly
          PROVE /\ View.orderly /\ u.flags \subseteq x.info
                /\ \A j \in u.clients : j \in x.info /\ (j \in View.clients => j \in View.flags) => j \in u.flags
        OBVIOUS
      <4>1. View.orderly /\ View.flags \subseteq x.info
        BY <2>1, <2>2 DEF Fits, Orderly
      <4>2. View.flags = flags /\ View.clients = m_clients
        BY ViewFields
      <4>3. u.flags = (flags \ {i}) \cup ({i} \cap x.info)
        BY <1>5, <2>1
      <4> QED BY <2>1, <4>1, <4>2, <4>3
    <3> QED BY <1>2, <2>1, <3>1, <3>2, <3>3 DEF Takes
  <2>6. Fits(x', u, {})
    BY <1>1, <1>5, <2>2, <2>4, <2>5, TakesFits DEF First
  <2>7. /\ pc' \in [Threads -> PC] /\ pc'["main"] = "setup" /\ pc'["worker"] = pc["worker"]
        /\ m_mapped' = m_mapped /\ withdrawn' = withdrawn /\ clients_mapped' = clients_mapped
        /\ configured_slots' = configured_slots /\ configured_w' = configured_w
    BY <1>1, <1>5 DEF Goto, Typed, Threads, PC, Window, User, room
  <2>13. Quiet
    BY <1>5, <2>7 DEF Quiet, Held, room, User
  <2>8. pc["worker"] \notin {"activate", "track", "take"}
    <3>1. x.events \in Seq(SaneEvents)
      BY <1>1 DEF Typed, XStates
    <3>2. Docks(x.events)
      BY <1>1, <3>1, TailSays DEF First
    <3> QED BY <2>2, <3>2, ViewFields DEF Fits, Hears
  <2>9. Fits(x', View', {})
    <3>1. Mapped' = Mapped
      BY <2>7 DEF Mapped
    <3>2. {docking'} \ {None} = {i}
      BY <1>5, <2>3
    <3>3. u.orderly <=> ~withdrawn'
      BY <2>1, <2>7, ViewFields
    <3>4. u.docks => pc'["worker"] \notin {"activate", "track", "take"}
      BY <2>7, <2>8
    <3> QED BY <1>5, <2>1, <2>6, <3>1, <3>2, <3>3, <3>4, NowFits
  <2>10. Room'
    <3>1. \A j \in m_clients \ {docking} : Going(x.events, j) => j \in m_clients' \ {docking'} /\ Going(x'.events, j)
      BY <1>1, <1>2, <1>5, <2>3, StillGoing
    <3> QED BY <2>7, <2>13, <3>1, RoomKept DEF Embedded
  <2>11. Early'
    BY <2>7, <2>8 DEF Early
  <2>12. WithWindow'
    BY <1>1, <1>5, <2>3, <2>7, RestSame DEF Embedded, WithWindow, selection
  <2> QED BY <2>9, <2>10, <2>11, <2>12 DEF Embedded
<1> QED
  BY <1>3, <1>4, <1>5 DEF Dock

(* property_notify.                                                        *)
LEMMA PropertyEmbedded ==
  ASSUME Windows, Inv, Embedded, PropertyNotify
  PROVE  Embedded'
<1> DEFINE queried == (flags \ {Subject}) \cup ({Subject} \cap x.info)
<1>1. /\ Handles("property") /\ docking = None /\ First.type = "property"
  BY HandlesIdle DEF PropertyNotify, First
<1>2. \A i : ~Goes(First, i)
  BY <1>1 DEF Goes
<1>3. Learns(Mapped) /\ Flagged(queried)
  BY <1>1, LearnsNothing, FlaggedSame DEF Flagged
<1>4. /\ m_activated <=> Tray \in x.heard
      /\ ~m_activated => ~m_mapped
      /\ m_mapped \in BOOLEAN /\ clients_mapped \subseteq m_clients
  BY DEF Embedded, WithWindow
<1>5. CASE Ignore
  BY <1>1, <1>2, <1>5, IgnoreEmbedded
<1>6. CASE /\ Subject \in m_clients /\ UNCHANGED <<selection, Window, pc, docking, User>>
           /\ Remove(Rest, Subject)
  BY <1>1, <1>6, RemoveEmbedded
<1>7. CASE /\ UNCHANGED <<selection, Window, pc, docking, User>>
           /\ Reconfigure(Rest, m_clients, clients_mapped, queried)
  <2>1. UNCHANGED <<selection, m_mapped, pc, docking, withdrawn>>
    BY <1>7 DEF Window, User
  <2>2. Learns(clients_mapped \cup {w \in {Tray} : m_mapped})
    BY <1>3 DEF Mapped
  <2> HIDE DEF queried
  <2> QED BY <1>1, <1>2, <1>3, <1>4, <1>7, <2>1, <2>2, ReconfigureEmbedded
<1>8. CASE /\ UNCHANGED <<selection, Window, pc, docking, User>>
           /\ x' = Rest /\ flags' = queried /\ UNCHANGED <<m_clients, clients_mapped, room>>
  <2>1. /\ UNCHANGED <<selection, pc, docking, m_clients, withdrawn, m_mapped, clients_mapped, configured_slots, configured_w>>
        /\ Quiet
    BY <1>8 DEF Window, User, room, Quiet, Held
  <2>2. Mapped' = Mapped
    BY <2>1 DEF Mapped
  <2>3. Room'
    BY <1>1, <1>2, <1>8, <2>1, RestRoom
  <2>4. Learns(Mapped') /\ Flagged(flags')
    BY <1>3, <1>8, <2>2
  <2> QED BY <1>1, <1>2, <1>4, <1>8, <2>1, <2>3, <2>4, RestEmbedded
<1> QED
  BY <1>5, <1>6, <1>7, <1>8 DEF PropertyNotify

(* An icon that wants to be resized.                                       *)
LEMMA ConfigureEmbedded ==
  ASSUME Windows, Inv, Embedded, ConfigureRequest
  PROVE  Embedded'
<1>1. Handles("configure") /\ First.type = "configure"
  BY HandlesIdle DEF ConfigureRequest, First
<1>2. \A i : ~Goes(First, i)
  BY <1>1 DEF Goes
<1> QED
  BY <1>1, <1>2, IgnoreEmbedded, RemoveEmbedded DEF ConfigureRequest

(* One that has moved.                                                     *)
LEMMA ReparentEmbedded ==
  ASSUME Windows, Inv, Embedded, ReparentNotify
  PROVE  Embedded'
<1>1. Handles("reparent") /\ First.type = "reparent" /\ First.win = Subject
  BY HandlesIdle DEF ReparentNotify, First
<1>2. CASE (Subject \notin m_clients \/ Head(x.events).parent = Tray) /\ Ignore
  <2>1. \A i \in m_clients : ~Goes(First, i)
    BY <1>1, <1>2 DEF Goes, First
  <2> QED BY <1>1, <1>2, <2>1, IgnoreEmbedded
<1>3. CASE Subject \in m_clients /\ Remove(Rest, Subject) /\ UNCHANGED <<selection, Window, pc, docking, User>>
  BY <1>1, <1>3, RemoveEmbedded
<1> QED
  BY <1>2, <1>3 DEF ReparentNotify

(* One that has ended, or the manager that polybar waited for.             *)
LEMMA DestroyEmbedded ==
  ASSUME Windows, Inv, Embedded, DestroyNotify
  PROVE  Embedded'
<1>1. /\ Handles("destroy") /\ First.type = "destroy" /\ First.win = Subject /\ docking = None
      /\ x.events # <<>> /\ Keeps(x, Rest) /\ Typed /\ Subject # None /\ pc["main"] = "idle"
  BY HandlesIdle, HandlesCalm DEF DestroyNotify, First, Inv, Windows, None, Tray
<1>2. /\ m_activated <=> Tray \in x.heard
      /\ ~m_activated => m_clients = {} /\ ~m_mapped
      /\ m_mapped \in BOOLEAN /\ clients_mapped \subseteq m_clients
  BY DEF Embedded, WithWindow
<1>3. CASE Ignore /\ (IF m_activated THEN Subject \notin m_clients ELSE Subject # m_othermanager)
  <2>1. \A i \in m_clients : ~Goes(First, i)
    BY <1>1, <1>2, <1>3 DEF Goes
  <2> QED BY <1>1, <1>3, <2>1, IgnoreEmbedded
<1>4. CASE Subject \in m_clients /\ Remove(Rest, Subject) /\ UNCHANGED <<selection, Window, pc, docking, User>>
  BY <1>1, <1>4, RemoveEmbedded
<1>5. CASE /\ ~m_activated /\ Subject = m_othermanager /\ x' = Rest /\ Goto("main", "activate")
           /\ UNCHANGED <<selection, Window, clients, room, docking, User>>
  <2>1. /\ m_mapped' = m_mapped /\ withdrawn' = withdrawn /\ docking' = docking
        /\ m_clients' = m_clients /\ clients_mapped' = clients_mapped /\ flags' = flags
        /\ configured_slots' = configured_slots /\ configured_w' = configured_w
        /\ m_activated' = m_activated
    BY <1>5 DEF Window, User, clients, room, selection
  <2>2. pc'["main"] = "activate" /\ pc'["worker"] = pc["worker"]
    BY <1>1, <1>5 DEF Goto, Typed, Threads, PC
  <2>3. pc["worker"] \notin {"activate", "track", "take"}
    BY <1>1, <1>5 DEF Embedded, Early
  <2> DEFINE u == Taken(Mapped, flags)
  <2>4. /\ u.clients = m_clients /\ u.mapped = Mapped /\ u.flags = flags /\ u.docking = {}
        /\ u.leaving = {i \in Icons : Goes(First, i)}
        /\ u.docks = View.docks /\ u.orderly = View.orderly
    BY DEF Taken, Sight
  <2>5. Fits(x', u, {})
    BY <1>1, <1>5, LearnsNothing, FlaggedSame, MappedPlaces, TakenFits
  <2> HIDE DEF u
  <2>6. Fits(x', View', {})
    <3>1. u.mapped = Mapped' /\ u.docking = {docking'} \ {None}
      BY <1>1, <2>1, <2>4 DEF Mapped
    <3>2. u.leaving \cap u.clients \subseteq {docking'} \ {None}
      BY <1>2, <1>5, <2>4
    <3>3. u.orderly <=> ~withdrawn'
      BY <2>1, <2>4, ViewFields
    <3> QED BY <2>1, <2>2, <2>3, <2>4, <2>5, <3>1, <3>2, <3>3, NowFits
  <2>7. Room'
    <3>1. \A i \in m_clients \ {docking} : Going(x.events, i) => i \in m_clients' \ {docking'} /\ Going(x'.events, i)
      BY <1>2, <1>5
    <3>2. Quiet
      BY <1>5, <2>2 DEF Quiet, Held, room, User
    <3> QED BY <2>1, <3>1, <3>2, RoomKept DEF Embedded
  <2>8. WithWindow'
    BY <1>1, <1>2, <1>5, <2>1, <2>2, RestSame DEF WithWindow
  <2>9. Early'
    BY <2>2, <2>3 DEF Early
  <2> QED BY <2>6, <2>7, <2>8, <2>9 DEF Embedded
<1> QED
  BY <1>3, <1>4, <1>5 DEF DestroyNotify

(* A window is mapped, as polybar hears: the tray's own, or an icon's, for *)
(* which there is room or room is made; not one of a stranger.             *)
LEMMA MapEmbedded ==
  ASSUME Windows, Inv, Embedded, MapNotify
  PROVE  Embedded'
<1>1. /\ Handles("map") /\ First.type = "map" /\ First.win = Subject /\ docking = None
      /\ x.events # <<>> /\ Typed /\ UNCHANGED <<selection, pc, docking, User>>
  BY HandlesIdle DEF MapNotify, First, Inv
<1>2. /\ m_activated <=> Tray \in x.heard
      /\ ~m_activated => m_clients = {} /\ ~m_mapped
      /\ m_mapped \in BOOLEAN /\ clients_mapped \subseteq m_clients
      /\ m_clients \in SUBSET Icons /\ Tray \notin Icons
  BY <1>1 DEF Embedded, WithWindow, Typed, Windows
<1>3. /\ \A i : ~Goes(First, i)
      /\ \A w : Moves(First, w) <=> w = Subject
  BY <1>1 DEF Goes, Moves
<1>4. Flagged(flags) /\ withdrawn' = withdrawn
  BY <1>1, FlaggedSame DEF User
<1>10. refused' = refused => Quiet
  BY <1>1 DEF Quiet, Held, User
<1>5. x.mapped \subseteq m_clients \cup {Tray}
  BY ViewFields DEF Embedded, Fits, Placed
<1>6. CASE Subject = Tray /\ m_mapped' = TRUE /\ x' = Rest /\ Redraw(TRUE)
           /\ UNCHANGED <<m_hidden, clients, configured_slots>>
  <2>1. UNCHANGED <<m_clients, clients_mapped, flags, configured_slots>>
    BY <1>6 DEF clients
  <2>2. Tray \in x.heard
    <3>1. x.events \in Seq(SaneEvents)
      BY <1>1 DEF Typed, XStates
    <3>2. OfTray(x.events)
      BY <1>1, <1>6, <3>1, TailSays DEF First
    <3> QED BY <3>2 DEF Embedded, Fits, Hears
  <2>3. Learns(Mapped')
    BY <1>1, <1>3, <1>6, <2>1 DEF Learns, Mapped
  <2>4. configured_w' \in {configured_w, Cardinality(clients_mapped)}
    <3>1. m_clients \cap clients_mapped = clients_mapped
      BY <1>2
    <3> QED BY <1>6, <3>1 DEF Redraw, mapped_clients
  <2>5. Room'
    BY <1>1, <1>3, <1>4, <1>6, <1>10, <2>1, <2>4, RestRoom DEF Redraw
  <2> QED BY <1>1, <1>2, <1>3, <1>4, <1>6, <2>1, <2>2, <2>3, <2>5, RestEmbedded
<1>7. CASE Subject \in m_clients /\ Reconfigure(Rest, m_clients, clients_mapped \cup {Subject}, flags) /\ UNCHANGED Window
  <2> DEFINE M == clients_mapped \cup {Subject}
  <2>1. M \subseteq m_clients
    BY <1>2, <1>7
  <2>2. Learns(M \cup {w \in {Tray} : m_mapped})
    BY <1>1, <1>3, <1>7 DEF Learns, Mapped
  <2>3. UNCHANGED <<selection, m_mapped, pc, docking, withdrawn>>
    BY <1>1, <1>7 DEF Window, User
  <2>4. Reconfigure(Rest, m_clients, M, flags)
    BY <1>7
  <2> HIDE DEF M
  <2> QED BY <1>1, <1>3, <1>4, <2>1, <2>2, <2>3, <2>4, ReconfigureEmbedded
<1>8. CASE /\ Subject \in m_clients /\ ~NoSlot(clients_mapped \cup {Subject})
           /\ clients_mapped' = clients_mapped \cup {Subject} /\ x' = Rest
           /\ UNCHANGED <<m_clients, flags, room, Window>>
  <2>1. m_mapped' = m_mapped /\ UNCHANGED <<m_clients, flags, configured_slots, configured_w>> /\ Quiet
    BY <1>8, <1>10 DEF room, Window
  <2>2. Learns(Mapped')
    BY <1>1, <1>3, <1>8, <2>1 DEF Learns, Mapped
  <2>3. clients_mapped' \in SUBSET Icons /\ clients_mapped \in SUBSET Icons
    BY <1>2, <1>8
  <2>4. /\ Cardinality(clients_mapped') \in Nat /\ IsFiniteSet(clients_mapped)
        /\ Cardinality(clients_mapped) \in Nat
    BY <2>3, Counted
  <2>5. ~refused => Cardinality(clients_mapped') <= configured_slots
    <3>1. m_clients \cap (clients_mapped \cup {Subject}) = clients_mapped'
      BY <1>2, <1>8
    <3>2. ~(Cardinality(clients_mapped') > configured_slots)
      BY <1>8, <3>1 DEF NoSlot, mapped_clients
    <3> QED BY <2>4, <3>2 DEF Embedded, Room
  <2>6. ~refused /\ Even => clients_mapped' = clients_mapped
    <3> SUFFICES ASSUME ~refused, Even PROVE clients_mapped' = clients_mapped
      OBVIOUS
    <3>1. CASE Subject \in clients_mapped
      BY <1>8, <3>1
    <3>2. CASE Subject \notin clients_mapped
      <4>1. Cardinality(clients_mapped') = Cardinality(clients_mapped) + 1
        BY <1>8, <2>4, <3>2, FS_AddElement
      <4>2. configured_slots = Cardinality(clients_mapped)
        BY DEF Even
      <4> QED BY <2>4, <2>5, <4>1, <4>2
    <3> QED BY <3>1, <3>2
  <2>7. Room'
    <3>1. \A i \in m_clients \ {docking} : Going(x.events, i) => i \in m_clients' \ {docking'} /\ Going(x'.events, i)
      BY <1>1, <1>3, <1>8, <2>1, StillGoing
    <3>2. Even /\ EvenSoon /\ clients_mapped' = clients_mapped => (Even /\ EvenSoon)'
      BY <2>1 DEF Even, EvenSoon, Quiet
    <3>3. refused' = refused
      BY <2>1 DEF Quiet
    <3> QED BY <1>4, <2>1, <2>5, <2>6, <3>1, <3>2, <3>3 DEF Embedded, Room
  <2>8. clients_mapped' \subseteq m_clients
    BY <1>2, <1>8
  <2> QED BY <1>1, <1>2, <1>3, <1>4, <1>8, <2>1, <2>2, <2>7, <2>8, RestEmbedded
<1>9. CASE Subject \notin m_clients \cup {Tray} /\ x' = Rest /\ UNCHANGED <<clients, room, Window>>
  <2>1. m_mapped' = m_mapped /\ UNCHANGED <<m_clients, clients_mapped, flags, configured_slots, configured_w>>
    BY <1>9 DEF clients, room, Window
  <2>5. Quiet
    BY <1>9, <1>10 DEF room
  <2>2. Mapped' = Mapped
    BY <2>1 DEF Mapped
  <2>3. Learns(Mapped')
    BY <1>3, <1>5, <1>9, <2>2, MappedPlaces DEF Learns
  <2>4. Room'
    BY <1>1, <1>3, <1>4, <1>9, <2>1, <2>5, RestRoom
  <2> QED BY <1>1, <1>2, <1>3, <1>4, <1>9, <2>1, <2>3, <2>4, RestEmbedded
<1> QED
  BY <1>6, <1>7, <1>8, <1>9 DEF MapNotify

(* ... or unmapped.  If it was a client's, and none has withdrawn, that    *)
(* client is about to leave.                                               *)
LEMMA UnmapEmbedded ==
  ASSUME Windows, Inv, Embedded, UnmapNotify
  PROVE  Embedded'
<1>1. /\ Handles("unmap") /\ First.type = "unmap" /\ First.win = Subject /\ docking = None
      /\ x.events # <<>> /\ Typed /\ x' = Rest
      /\ m_mapped' = (m_mapped /\ Subject # Tray) /\ clients_mapped' = clients_mapped \ {Subject}
      /\ UNCHANGED <<selection, pc, docking, m_clients, flags, configured_slots, configured_w, withdrawn>>
      /\ Quiet
  BY HandlesIdle DEF UnmapNotify, First, Inv, room, User, Quiet, Held
<1>2. /\ m_activated <=> Tray \in x.heard
      /\ ~m_activated => m_clients = {} /\ ~m_mapped
      /\ m_mapped \in BOOLEAN /\ clients_mapped \subseteq m_clients
      /\ m_clients \in SUBSET Icons /\ Tray \notin Icons
  BY <1>1 DEF Embedded, WithWindow, Typed, Windows
<1>3. /\ \A i : ~Goes(First, i)
      /\ \A w : Moves(First, w) <=> w = Subject
  BY <1>1 DEF Goes, Moves
<1>4. Learns(Mapped')
  BY <1>1, <1>2, <1>3 DEF Learns, Mapped
<1>5. clients_mapped \in SUBSET Icons
  BY <1>2
<1>6. ~refused => Cardinality(clients_mapped') <= configured_slots
  <2>1. IsFiniteSet(clients_mapped) /\ Cardinality(clients_mapped) \in Nat
    BY <1>5, Counted
  <2>2. clients_mapped' \subseteq clients_mapped
    BY <1>1
  <2>3. clients_mapped' \in SUBSET Icons
    BY <1>5, <2>2
  <2>4. Cardinality(clients_mapped') \in Nat
    BY <2>3, Counted
  <2>5. Cardinality(clients_mapped') <= Cardinality(clients_mapped)
    BY <2>1, <2>2, FS_Subset
  <2> QED BY <2>1, <2>4, <2>5 DEF Embedded, Room
<1>7. Room'
  <2>0. refused' = refused
    BY <1>1 DEF Quiet
  <2>1. \A i \in m_clients : Going(x.events, i) => Going(x'.events, i)
    BY <1>1, <1>3, StillGoing
  <2>2. CASE Subject \in clients_mapped /\ ~withdrawn
    <3>1. x.events \in Seq(SaneEvents) /\ Followed(x.events, {})
      BY <1>1, <2>2, ViewFields DEF Typed, XStates, Embedded, Fits, Orderly
    <3>2. Going(Rest.events, Subject)
      BY <1>1, <1>2, <2>2, <3>1, TailSays, RestSame DEF First
    <3>3. Subject \in m_clients' \ {docking'}
      BY <1>1, <1>2, <2>2 DEF Windows
    <3> QED BY <1>1, <1>6, <2>0, <3>2, <3>3 DEF Embedded, Room
  <2>3. CASE ~(Subject \in clients_mapped /\ ~withdrawn)
    <3>1. withdrawn \/ clients_mapped' = clients_mapped
      BY <1>1, <2>3
    <3>2. ~withdrawn => (Even /\ EvenSoon => (Even /\ EvenSoon)')
      BY <1>1, <3>1 DEF Even, EvenSoon, Quiet
    <3> QED BY <1>1, <1>6, <2>0, <2>1, <3>2 DEF Embedded, Room
  <2> QED BY <2>2, <2>3
<1>8. clients_mapped' \subseteq m_clients /\ m_mapped' \in BOOLEAN /\ (m_mapped' => Tray \in x.heard)
  BY <1>1, <1>2
<1> QED
  BY <1>1, <1>3, <1>4, <1>7, <1>8, FlaggedSame, RestEmbedded

(* The visibility of the bar changes: that moves nothing but the tray's    *)
(* own window.                                                             *)
LEMMA VisibilityRoom ==
  ASSUME Embedded, NEW s, NEW v, VisibilityChange(s, v)
  PROVE  configured_w' \in {configured_w, Cardinality(clients_mapped)} /\ refused' = refused
<1>1. m_clients \cap clients_mapped = clients_mapped
  BY DEF Embedded, WithWindow
<1> QED
  BY <1>1 DEF VisibilityChange, Redraw, mapped_clients

(* The bar window is exposed.                                              *)
LEMMA ExposeEmbedded ==
  ASSUME Windows, Inv, Embedded, Expose
  PROVE  Embedded'
<1>1. /\ Handles("expose") /\ First.type = "expose" /\ docking = None
      /\ x.events # <<>> /\ Keeps(x, Rest) /\ Typed /\ Rest \in XStates
      /\ VisibilityChange(Rest, visible) /\ pc' = pc /\ docking' = docking
  BY HandlesIdle, HandlesCalm DEF Expose, First, Inv
<1>2. /\ m_activated <=> Tray \in x.heard
      /\ ~m_activated => m_clients = {} /\ ~m_mapped
      /\ m_mapped \in BOOLEAN /\ clients_mapped \subseteq m_clients
  BY DEF Embedded, WithWindow
<1>3. UNCHANGED <<m_mapped, m_clients, clients_mapped, flags, configured_slots, withdrawn, selection>>
  BY DEF Expose, clients, User
<1>11. Quiet
  BY <1>1, VisibilityRoom DEF Expose, User, Quiet, Held
<1>4. \A i : ~Goes(First, i)
  BY <1>1 DEF Goes
<1> DEFINE u == Taken(Mapped, flags)
<1>5. /\ u.clients = m_clients /\ u.mapped = Mapped /\ u.flags = flags /\ u.docking = {}
      /\ u.leaving = {i \in Icons : Goes(First, i)} /\ u.pending = Left
      /\ u.docks = View.docks /\ u.orderly = View.orderly
  BY DEF Taken, Sight
<1>6. Fits(Rest, u, {})
  BY <1>1, LearnsNothing, FlaggedSame, MappedPlaces, TakenFits
<1> HIDE DEF u
<1>7. Fits(x', u, {})
  <2>1. m_activated => Tray \in Rest.heard
    BY <1>1, <1>2, RestSame
  <2> QED BY <1>1, <1>6, <2>1, VisibilityFits DEF VisibilityChange
<1>8. Fits(x', View', {})
  <2>1. u.mapped = Mapped' /\ u.docking = {docking'} \ {None} /\ u.leaving \cap u.clients = {}
    BY <1>1, <1>3, <1>4, <1>5 DEF Mapped
  <2>2. u.docks => pc'["worker"] \notin {"activate", "track", "take"}
    BY <1>1, <1>5, ViewFields
  <2>3. u.orderly <=> ~withdrawn'
    BY <1>3, <1>5, ViewFields
  <2> QED BY <1>3, <1>5, <1>7, <2>1, <2>2, <2>3, NowFits
<1>9. Room'
  <2>1. \A i \in m_clients \ {docking} : Going(x.events, i) => i \in m_clients' \ {docking'} /\ Going(x'.events, i)
    <3>1. m_clients \subseteq Icons
      BY <1>1 DEF Typed
    <3> QED BY <1>1, <1>3, <1>4, <1>5, <1>7, <3>1 DEF Fits, Hears, Left
  <2> QED BY <1>1, <1>3, <1>11, <2>1, VisibilityRoom, RoomKept DEF Embedded
<1>10. Keeps(x, x')
  <2>1. Keeps(Rest, x')
    BY <1>1, VisibilityKeeps DEF VisibilityChange
  <2> QED BY <1>1, <2>1, KeepsOn
<1> QED
  BY <1>1, <1>2, <1>3, <1>8, <1>9, <1>10, CalmEmbedded

(* Its background changes.                                                 *)
LEMMA BackgroundEmbedded ==
  ASSUME Windows, Inv, Embedded, UpdateBackground
  PROVE  Embedded'
<1>1. /\ Handles("background") /\ First.type = "background" /\ x' = Rest /\ Redraw(m_mapped)
      /\ UNCHANGED <<m_mapped, m_clients, clients_mapped, flags, configured_slots, withdrawn, selection, pc, docking>>
  BY HandlesIdle DEF UpdateBackground, First, clients, User, Window
<1>2. /\ m_activated <=> Tray \in x.heard
      /\ ~m_activated => m_clients = {} /\ ~m_mapped
      /\ m_mapped \in BOOLEAN /\ clients_mapped \subseteq m_clients
  BY DEF Embedded, WithWindow
<1>3. \A i : ~Goes(First, i)
  BY <1>1 DEF Goes
<1>4. configured_w' \in {configured_w, Cardinality(clients_mapped)}
  <2>1. m_clients \cap clients_mapped = clients_mapped
    BY <1>2
  <2> QED BY <1>1, <2>1 DEF Redraw, mapped_clients
<1>5. Room'
  <2>1. Quiet
    BY <1>1 DEF UpdateBackground, Redraw, User, Quiet, Held
  <2> QED BY <1>1, <1>3, <1>4, <2>1, RestRoom
<1>6. Learns(Mapped') /\ Flagged(flags')
  <2>1. Mapped' = Mapped
    BY <1>1 DEF Mapped
  <2> QED BY <1>1, <2>1, LearnsNothing, FlaggedSame
<1> QED
  BY <1>1, <1>2, <1>3, <1>5, <1>6, RestEmbedded

(* The selection is lost; of that the worker hears nothing before it has   *)
(* taken it.                                                               *)
LEMMA ClearEmbedded ==
  ASSUME Windows, Inv, Embedded, SelectionClear
  PROVE  Embedded'
<1>1. /\ Handles("clear") /\ First.type = "clear" /\ docking = None /\ x.events # <<>> /\ Typed
      /\ x' = Rest /\ pc' = [pc EXCEPT !["main"] = "lost"] /\ docking' = docking
      /\ UNCHANGED <<m_activated, m_mapped, m_clients, clients_mapped, flags, configured_slots, configured_w, withdrawn>>
  BY HandlesIdle DEF SelectionClear, First, Inv, Goto, clients, Window, room
<1>2. /\ m_activated <=> Tray \in x.heard
      /\ ~m_activated => m_clients = {} /\ ~m_mapped
      /\ m_mapped \in BOOLEAN /\ clients_mapped \subseteq m_clients
  BY DEF Embedded, WithWindow
<1>3. Cleared(x)
  BY <1>1, RestKeeps DEF First
<1>4. pc["worker"] \notin {"activate", "track", "take"}
  BY <1>3 DEF Embedded, Early
<1>5. pc'["worker"] = pc["worker"] /\ pc'["main"] = "lost"
  BY <1>1 DEF Typed, Threads
<1>6. \A i : ~Goes(First, i)
  BY <1>1 DEF Goes
<1> DEFINE u == Taken(Mapped, flags)
<1>7. /\ u.clients = m_clients /\ u.mapped = Mapped /\ u.flags = flags /\ u.docking = {}
      /\ u.leaving = {i \in Icons : Goes(First, i)}
      /\ u.docks = View.docks /\ u.orderly = View.orderly
  BY DEF Taken, Sight
<1>8. Fits(x', u, {})
  BY <1>1, LearnsNothing, FlaggedSame, MappedPlaces, TakenFits
<1> HIDE DEF u
<1>9. Fits(x', View', {})
  <2>1. u.mapped = Mapped' /\ u.docking = {docking'} \ {None} /\ u.leaving \cap u.clients = {}
    BY <1>1, <1>6, <1>7 DEF Mapped
  <2>2. u.orderly <=> ~withdrawn'
    BY <1>1, <1>7, ViewFields
  <2> QED BY <1>1, <1>4, <1>5, <1>7, <1>8, <2>1, <2>2, NowFits
<1>10. Room'
  <2>1. Quiet
    BY <1>5 DEF SelectionClear, room, Quiet, Held
  <2> QED BY <1>1, <1>6, <2>1, RestRoom
<1>11. WithWindow'
  BY <1>1, <1>2, <1>5, RestSame DEF WithWindow
<1>12. Early'
  BY <1>4, <1>5 DEF Early
<1> QED
  BY <1>9, <1>10, <1>11, <1>12 DEF Embedded

(* Every handler.                                                          *)
LEMMA HandlerEmbedded ==
  ASSUME Windows, Inv, Embedded, Handler
  PROVE  Embedded'
<1>1. CASE Stale
  <2>1. Handles("stale") /\ First.type = "stale" /\ Ignore
    BY <1>1, HandlesIdle DEF Stale, First
  <2>2. \A i : ~Goes(First, i)
    BY <2>1 DEF Goes
  <2> QED BY <2>1, <2>2, IgnoreEmbedded
<1> QED
  BY <1>1, DockEmbedded, ConfigureEmbedded, ClearEmbedded, PropertyEmbedded, ReparentEmbedded,
     DestroyEmbedded, MapEmbedded, UnmapEmbedded, ExposeEmbedded, BackgroundEmbedded DEF Handler

(* An event that says nothing of where windows are.                        *)
LEMMA AppendFits ==
  ASSUME NEW s, NEW v, Fits(s, v, {}), NEW e \in SaneEvents, e.win # Tray, e.type = "dock" => v.docks,
         e.type \in {"dock", "configure", "property", "expose", "background"}
  PROVE  Fits([s EXCEPT !.events = Append(@, e)], v, {})
<1> DEFINE t == [s EXCEPT !.events = Append(@, e)]
<1>1. s \in XStates
  BY DEF Fits, Placed
<1>2. t \in XStates
  BY <1>1, AppendKeeps
<1>3. /\ t.mapped = s.mapped /\ t.events = Append(s.events, e) /\ t.inside = s.inside
      /\ t.heard = s.heard /\ t.alive = s.alive /\ t.info = s.info
  BY <1>1 DEF XStates
<1> HIDE DEF t
<1>4. Placed(t, v)
  BY <1>2, <1>3 DEF Fits, Placed
<1>5. Says(s, v, {}, e, t, {})
  BY <1>3 DEF Says, Moves, Goes
<1>6. Fits(t, v, {})
  BY <1>4, <1>5, SaysFits
<1> QED
  BY <1>6 DEF t

(* What polybar sees while others act.                                     *)
Onlooker ==
  Sight(m_clients, Mapped, flags, View.docking, View.leaving, View.pending, View.docks, ~withdrawn')

(* That is as right as before, or says less.                               *)
LEMMA OnlookerFits ==
  ASSUME Embedded, withdrawn => withdrawn'
  PROVE  /\ Fits(x, Onlooker, {})
         /\ Onlooker.clients = m_clients /\ Onlooker.mapped = Mapped /\ Onlooker.flags = flags
         /\ Onlooker.docking = {docking} \ {None} /\ Onlooker.leaving = {docking} \ {None}
         /\ Onlooker.pending = {i \in Icons : Going(x.events, i)}
         /\ Onlooker.docks <=> pc["worker"] \notin {"activate", "track", "take"}
         /\ Onlooker.orderly <=> ~withdrawn'
<1> DEFINE u == Onlooker
<1>1. /\ u.clients = m_clients /\ u.mapped = Mapped /\ u.flags = flags
      /\ u.docking = View.docking /\ u.leaving = View.leaving /\ u.pending = View.pending
      /\ u.docks = View.docks /\ u.orderly = ~withdrawn'
  BY DEF Onlooker, Sight
<1> HIDE DEF u
<1>2. Fits(x, View, {})
  BY DEF Embedded
<1>3. Placed(x, u)
  BY <1>1, <1>2, ViewFields DEF Fits, Placed
<1>4. Sees(x, View, u)
  <2>1. u.orderly => View.orderly /\ View.flags \subseteq x.info
    BY <1>1, <1>2, ViewFields DEF Fits, Orderly
  <2> QED BY <1>1, <2>1, ViewFields DEF Sees
<1>5. Fits(x, u, {})
  BY <1>2, <1>3, <1>4, SeesFits
<1> QED
  BY <1>1, <1>5, ViewFields DEF u

(* They do not disturb the worker's activation.                            *)
LEMMA WorldEmbedded ==
  ASSUME Typed, Embedded, World, withdrawn => withdrawn', Fits(x', Onlooker, {}),
         Tray \in x'.heard <=> Tray \in x.heard,
         pc["worker"] \in {"activate", "track", "take"} => x'.owner # Tray /\ ~Cleared(x')
  PROVE  Embedded'
<1>1. /\ UNCHANGED <<m_activated, m_acquired_selection, m_othermanager, m_mapped, m_hidden, m_clients,
                     clients_mapped, flags, configured_slots, configured_w, pc, docking>>
      /\ Quiet
  BY DEF World, selection, Window, clients, room, Quiet, Held
<1> DEFINE u == Onlooker
<1>2. /\ u.clients = m_clients /\ u.mapped = Mapped /\ u.flags = flags
      /\ u.docking = {docking} \ {None} /\ u.leaving = {docking} \ {None}
      /\ u.pending = {i \in Icons : Going(x.events, i)}
      /\ u.docks <=> pc["worker"] \notin {"activate", "track", "take"}
      /\ u.orderly <=> ~withdrawn'
  BY OnlookerFits
<1> HIDE DEF u
<1>3. Fits(x', u, {})
  BY DEF u
<1>4. Mapped' = Mapped
  BY <1>1 DEF Mapped
<1>5. Fits(x', View', {})
  BY <1>1, <1>2, <1>3, <1>4, NowFits
<1>6. Room'
  <2>1. \A i \in m_clients \ {docking} : Going(x.events, i) => i \in m_clients' \ {docking'} /\ Going(x'.events, i)
    <3>1. m_clients \subseteq Icons
      BY DEF Typed
    <3> QED BY <1>1, <1>2, <1>3, <3>1 DEF Fits, Hears
  <2> QED BY <1>1, <2>1, RoomKept DEF Embedded
<1>7. WithWindow' /\ Early'
  BY <1>1 DEF Embedded, WithWindow, Early
<1> QED
  BY <1>5, <1>6, <1>7 DEF Embedded

(* Other managers, and programs that end.                                  *)
LEMMA OthersEmbedded ==
  ASSUME Windows, Inv, Embedded, Elsewhere,
         \/ \E w \in Others \cup {None} : x' = XSetOwner(x, w)
         \/ \E w \in Icons \cup Others : x' = XDestroy(x, w)
  PROVE  Embedded'
<1>1. Typed /\ x \in XStates /\ World /\ withdrawn' = withdrawn
  BY DEF Inv, Typed, Elsewhere
<1>2. Fits(x, Onlooker, {})
  BY <1>1, OnlookerFits
<1>3. pc["worker"] \in {"activate", "track", "take"} => x.owner # Tray /\ ~Cleared(x)
  BY DEF Embedded, Early
<1>4. ASSUME NEW w \in Others \cup {None}, x' = XSetOwner(x, w)
      PROVE  Embedded'
  <2>1. /\ x'.owner = w /\ x'.heard = x.heard
        /\ Cleared(x') <=> Cleared(x) \/ (x.owner = Tray /\ Tray \in x.heard)
    BY <1>1, <1>4, XSetOwnerEffect
  <2>2. w # Tray
    BY DEF Windows, None, Tray
  <2>3. Fits(x', Onlooker, {})
    BY <1>2, <1>4, XSetOwnerFits
  <2> QED BY <1>1, <1>3, <2>1, <2>2, <2>3, WorldEmbedded
<1>5. ASSUME NEW w \in Icons \cup Others, x' = XDestroy(x, w)
      PROVE  Embedded'
  <2>1. /\ x'.owner = (IF x.owner = w THEN None ELSE x.owner)
        /\ Tray \in x'.heard <=> Tray \in x.heard
        /\ Cleared(x') <=> Cleared(x)
    BY <1>1, <1>5, XDestroyEffect
  <2>2. None # Tray
    BY DEF None, Tray
  <2>3. Fits(x', Onlooker, {})
    BY <1>2, <1>5, XDestroyFits
  <2> QED BY <1>1, <1>3, <2>1, <2>2, <2>3, WorldEmbedded
<1> QED
  BY <1>4, <1>5

(* What neither selects nor clears leaves the worker alone.                *)
LEMMA WorldKeepsEmbedded ==
  ASSUME Inv, Embedded, World, withdrawn => withdrawn', Fits(x', Onlooker, {}), Keeps(x, x')
  PROVE  Embedded'
<1>1. pc["worker"] \in {"activate", "track", "take"} => x'.owner # Tray /\ ~Cleared(x')
  BY DEF Embedded, Early, Keeps
<1>2. Typed /\ (Tray \in x'.heard <=> Tray \in x.heard)
  BY DEF Inv, Keeps
<1> QED
  BY <1>1, <1>2, WorldEmbedded

(* The icons.                                                              *)
LEMMA IconsActEmbedded ==
  ASSUME Windows, Inv, Embedded, NEW i \in Icons,
         Asks(i) \/ Resizes(i) \/ UnmapsItself(i) \/ Leaves(i) \/ SetsFlag(i)
  PROVE  Embedded'
<1>1. World /\ (withdrawn => withdrawn') /\ x \in XStates
  <2>1. World /\ x \in XStates
    BY DEF Asks, Resizes, UnmapsItself, Leaves, SetsFlag, Elsewhere, Inv, Typed
  <2>2. withdrawn' = withdrawn \/ withdrawn' = TRUE \/ withdrawn' = (withdrawn \/ i \in x.info)
    BY DEF Asks, Resizes, UnmapsItself, Leaves, SetsFlag, Elsewhere
  <2>3. withdrawn => withdrawn'
    BY <2>2
  <2> QED BY <2>1, <2>3
<1>2. Fits(x, Onlooker, {}) /\ (Onlooker.orderly <=> ~withdrawn')
  BY <1>1, OnlookerFits
<1>3. CASE Asks(i)
  <2>1. Event("dock", i) \in SaneEvents /\ Event("dock", i).type = "dock" /\ Event("dock", i).win # Tray
    BY DEF Windows, Event, SaneEvents, Events
  <2>2. Onlooker.docks
    BY <1>1, <1>3, OnlookerFits DEF Asks, Embedded, Early
  <2>3. Fits(x', Onlooker, {})
    BY <1>2, <1>3, <2>1, <2>2, AppendFits DEF Asks
  <2>4. Keeps(x, x')
    BY <1>1, <1>3, <2>1, AppendCalm DEF Asks
  <2> QED BY <1>1, <2>3, <2>4, WorldKeepsEmbedded
<1>4. CASE Resizes(i)
  <2>1. /\ Event("configure", i) \in SaneEvents /\ Event("configure", i).type = "configure"
        /\ Event("configure", i).win # Tray
    BY DEF Windows, Event, SaneEvents, Events
  <2>2. Fits(x', Onlooker, {})
    BY <1>2, <1>4, <2>1, AppendFits DEF Resizes
  <2>3. Keeps(x, x')
    BY <1>1, <1>4, <2>1, AppendCalm DEF Resizes
  <2> QED BY <1>1, <2>2, <2>3, WorldKeepsEmbedded
<1>5. CASE UnmapsItself(i)
  <2>1. ~Onlooker.orderly /\ x' = XUnmap(x, i)
    BY <1>2, <1>5 DEF UnmapsItself
  <2>2. Fits(x', Onlooker, {})
    BY <1>2, <2>1, XUnmapFits
  <2>3. Keeps(x, x')
    BY <1>1, <2>1, XUnmapKeeps
  <2> QED BY <1>1, <2>2, <2>3, WorldKeepsEmbedded
<1>6. CASE Leaves(i)
  <2>1. x' = Unembed(x, i)
    BY <1>6 DEF Leaves, Unembed
  <2>2. Fits(x', Onlooker, {})
    BY <1>2, <2>1, UnembedFits
  <2>3. Keeps(x, x')
    BY <1>1, <2>1, AskKeeps DEF Ask, Requests
  <2> QED BY <1>1, <2>2, <2>3, WorldKeepsEmbedded
<1>7. CASE SetsFlag(i)
  <2> DEFINE f == IF i \in x.info THEN x.info \ {i} ELSE x.info \cup {i}
             s == [x EXCEPT !.info = f]
             e == Event("property", i)
  <2>1. s \in XStates /\ Keeps(x, s)
    BY <1>1 DEF XStates, Keeps, Cleared, ToTray
  <2>2. x' = Tell(s, e) /\ (Onlooker.orderly => i \notin x.info)
    BY <1>2, <1>7 DEF SetsFlag
  <2>3. /\ s.mapped = x.mapped /\ s.events = x.events /\ s.inside = x.inside
        /\ s.heard = x.heard /\ s.alive = x.alive /\ s.info = f
    BY <1>1 DEF XStates
  <2>4. e \in SaneEvents /\ e.type = "property" /\ e.win # Tray
    BY EventSane DEF Windows, Event
  <2> HIDE DEF s, e
  <2>5. Fits(s, Onlooker, {})
    <3>1. Placed(s, Onlooker)
      BY <1>2, <2>1, <2>3 DEF Fits, Placed
    <3>2. Silent(x, Onlooker, s)
      BY <2>2, <2>3 DEF Silent
    <3> QED BY <1>2, <3>1, <3>2, SilentFits
  <2>6. Fits(x', Onlooker, {})
    BY <2>2, <2>4, <2>5, AppendFits DEF Tell
  <2>7. Keeps(s, x')
    BY <2>1, <2>2, <2>4, TellKeeps
  <2>8. Keeps(x, x')
    BY <2>1, <2>7, KeepsOn
  <2> QED BY <1>1, <2>6, <2>8, WorldKeepsEmbedded
<1> QED
  BY <1>3, <1>4, <1>5, <1>6, <1>7

(* The user, and the bar's own window.                                     *)
LEMMA HappensEmbedded ==
  ASSUME Windows, Inv, Embedded, NEW type \in {"expose", "background"}, Happens(type)
  PROVE  Embedded'
<1>1. World /\ withdrawn' = withdrawn /\ x \in XStates
  BY DEF Happens, Elsewhere, Inv, Typed
<1>2. Event(type, None) \in SaneEvents /\ Event(type, None).type = type /\ Event(type, None).win # Tray
  BY DEF Event, SaneEvents, Events, None, Tray
<1>3. Fits(x, Onlooker, {})
  BY <1>1, OnlookerFits
<1>4. Fits(x', Onlooker, {})
  BY <1>2, <1>3, AppendFits DEF Happens
<1>5. Keeps(x, x')
  BY <1>1, <1>2, AppendCalm DEF Happens
<1> QED
  BY <1>1, <1>4, <1>5, WorldKeepsEmbedded

(* The bar shows or hides the tray.                                        *)
LEMMA VisibleEmbedded ==
  ASSUME Windows, Inv, Embedded, NEW v \in BOOLEAN, TellVisibility(v) \/ SetVisible(v) \/ Broadcast
  PROVE  Embedded'
<1>1. Typed /\ x \in XStates /\ Fits(x, View, {}) /\ Room /\ WithWindow
  BY DEF Inv, Typed, Embedded
<1>2. /\ m_activated <=> Tray \in x.heard
      /\ ~m_activated => m_clients = {} /\ ~m_mapped
      /\ m_mapped \in BOOLEAN /\ clients_mapped \subseteq m_clients
  BY <1>1 DEF WithWindow
<1>3. CASE Broadcast
  <2>1. /\ UNCHANGED <<x, m_activated, m_mapped, m_clients, clients_mapped, flags, configured_slots,
                       configured_w, docking, withdrawn, refused>>
        /\ pc'["main"] = pc["main"] /\ pc["worker"] = "broadcast"
        /\ pc'["worker"] \notin {"activate", "track", "take", "clear"}
    BY <1>1, <1>3 DEF Broadcast, At, Goto, selection, Window, clients, room, User, Typed, Threads
  <2>2. View' = View /\ Room' /\ WithWindow'
    BY <1>1, <2>1 DEF View, Mapped, Room, Even, EvenSoon, Held, WithWindow
  <2> QED BY <1>1, <2>1, <2>2 DEF Embedded, Early
<1>4. CASE TellVisibility(v) \/ SetVisible(v)
  <2>1. /\ Toggle(x, v)
        /\ UNCHANGED <<selection, m_mapped, m_clients, clients_mapped, flags, configured_slots, docking, withdrawn>>
    BY <1>4 DEF TellVisibility, SetVisible, VisibilityChange, clients, room, User
  <2>2. pc' = pc \/ (/\ pc'["main"] = pc["main"] /\ pc["worker"] \notin {"activate", "track", "take"}
                     /\ pc'["worker"] \notin {"activate", "track", "take"})
    BY <1>1, <1>4 DEF TellVisibility, SetVisible, At, Goto, Typed, Threads
  <2>3. Fits(x', View, {})
    BY <1>1, <1>2, <2>1, VisibilityFits
  <2>4. Fits(x', View', {})
    <3>1. View.mapped = Mapped'
      BY <2>1, ViewFields DEF Mapped
    <3> QED BY <2>1, <2>2, <2>3, <3>1, NowFits, ViewFields
  <2>5. Room'
    <3>1. \A i \in m_clients \ {docking} : Going(x.events, i) => i \in m_clients' \ {docking'} /\ Going(x'.events, i)
      <4>1. m_clients \subseteq Icons
        BY <1>1 DEF Typed
      <4> QED BY <2>1, <2>3, <4>1, ViewFields DEF Fits, Hears
    <3>2. configured_w' \in {configured_w, Cardinality(clients_mapped)} /\ refused' = refused
      BY <1>4, VisibilityRoom DEF TellVisibility, SetVisible, room
    <3>3. Quiet
      BY <1>1, <1>4, <3>2 DEF TellVisibility, SetVisible, User, Goto, Quiet, Held, Typed, Threads
    <3> QED BY <1>1, <2>1, <3>1, <3>2, <3>3, RoomKept
  <2>6. Keeps(x, x')
    BY <1>1, <2>1, VisibilityKeeps
  <2>7. CASE pc' = pc
    BY <1>1, <1>2, <2>1, <2>4, <2>5, <2>6, <2>7, CalmEmbedded
  <2>8. CASE /\ pc'["main"] = pc["main"] /\ pc'["worker"] \notin {"activate", "track", "take"}
    <3>1. WithWindow'
      BY <1>1, <2>1, <2>6, <2>8 DEF WithWindow, Keeps, selection
    <3>2. Early'
      BY <2>8 DEF Early
    <3> QED BY <2>4, <2>5, <3>1, <3>2 DEF Embedded
  <2> QED BY <2>2, <2>7, <2>8
<1> QED
  BY <1>3, <1>4

(* activate() begins: the tray has a window, and listens to it.            *)
LEMMA ActivateEmbedded ==
  ASSUME Windows, Inv, Embedded, NEW t \in Threads, Activate(t)
  PROVE  Embedded'
<1>1. Typed /\ x \in XStates /\ Fits(x, View, {}) /\ Room /\ WithWindow /\ Early
  BY DEF Inv, Typed, Embedded
<1>2. /\ x' = [x EXCEPT !.heard = @ \cup {Tray}] /\ m_activated' = TRUE /\ ~m_activated
      /\ pc[t] = "activate" /\ pc' = [pc EXCEPT ![t] = IF x.owner = None THEN "take" ELSE "track"]
      /\ UNCHANGED <<m_mapped, m_clients, clients_mapped, flags, configured_slots, configured_w,
                     docking, withdrawn>>
  BY DEF Activate, At, Goto, Window, clients, room, User
<1>3. /\ x'.mapped = x.mapped /\ x'.events = x.events /\ x'.inside = x.inside /\ x'.owner = x.owner
      /\ x'.heard = x.heard \cup {Tray} /\ x'.alive = x.alive /\ x'.info = x.info /\ x' \in XStates
  BY <1>1, <1>2 DEF XStates
<1>4. Fits(x', View, {})
  <2>1. Placed(x', View)
    BY <1>1, <1>3 DEF Fits, Placed
  <2>2. Silent(x, View, x')
    BY <1>3 DEF Silent
  <2> QED BY <1>1, <2>1, <2>2, SilentFits
<1>5. /\ pc'[t] \in {"take", "track"} /\ \A u \in Threads : u # t => pc'[u] = pc[u]
      /\ t = "main" => pc["worker"] \notin {"activate", "track", "take"}
      /\ t \in {"main", "worker"}
  BY <1>1, <1>2 DEF Typed, Threads, Early
<1>6. pc'["worker"] \in {"activate", "track", "take"} <=> pc["worker"] \in {"activate", "track", "take"}
  BY <1>2, <1>5 DEF Threads
<1>7. Fits(x', View', {})
  <2>1. View' = View
    BY <1>2, <1>3, <1>6 DEF View, Mapped
  <2> QED BY <1>4, <2>1
<1>8. Room'
  <2>1. refused' = refused /\ refresh' = refresh /\ (Held' => Held)
    BY <1>1, <1>2 DEF Activate, room, User, Held, Typed, Threads
  <2> QED BY <1>1, <1>2, <1>3, <2>1 DEF Room, Even, EvenSoon
<1>9. WithWindow'
  <2>1. pc'["main"] = "setup" <=> pc["main"] = "setup"
    BY <1>2, <1>5 DEF Threads
  <2> QED BY <1>1, <1>2, <1>3, <2>1 DEF WithWindow
<1>10. Early'
  <2> SUFFICES ASSUME t = "worker" PROVE Early'
    BY <1>5 DEF Early, Threads
  <2>1. x.owner # Tray /\ ~Cleared(x) /\ pc["main"] = "idle" /\ m_clients = {}
    BY <1>1, <1>2 DEF Early
  <2> QED BY <1>2, <1>3, <1>5, <2>1 DEF Early, Cleared, Threads
<1> QED
  BY <1>7, <1>8, <1>9, <1>10 DEF Embedded

(* Somebody else's selection is waited for, and the tray is deactivated.   *)
LEMMA DeactivatedEmbedded ==
  ASSUME Windows, Inv, Embedded, docking = None, pc["main"] # "setup", NEW c \in BOOLEAN,
         Deactivate(TrackOwner(x), c), docking' = docking, withdrawn' = withdrawn,
         pc'["main"] # "setup", pc["worker"] \in {"activate", "track", "take"} => pc["worker"] = "track",
         \/ pc'["worker"] \notin {"activate", "track", "take"}
         \/ pc'["worker"] = pc["worker"] /\ pc["worker"] \notin {"activate", "track", "take"}
  PROVE  Embedded'
<1>1. Typed /\ x \in XStates /\ Fits(x, View, {})
  BY DEF Inv, Typed, Embedded
<1> DEFINE s == TrackOwner(x)
<1>2. Fits(s, View, {})
  <2>1. s \in XStates
    BY <1>1, TrackOwnerKeeps DEF Keeps
  <2>2. /\ s.mapped = x.mapped /\ s.events = x.events /\ s.inside = x.inside
        /\ s.alive = x.alive /\ s.info = x.info /\ x.heard \subseteq s.heard
    BY <1>1 DEF TrackOwner, XStates
  <2> HIDE DEF s
  <2>3. Placed(s, View)
    BY <1>1, <2>1, <2>2 DEF Fits, Placed
  <2>4. Silent(x, View, s)
    BY <2>2 DEF Silent
  <2> QED BY <1>1, <2>3, <2>4, SilentFits
<1> DEFINE u == Sight({}, {}, {}, {}, {}, {}, View.docks, View.orderly)
<1>3. /\ Fits(x', u, {})
      /\ m_activated' = FALSE /\ m_mapped' = FALSE /\ Tray \notin x'.heard
      /\ m_clients' = {} /\ clients_mapped' = {} /\ flags' = {}
      /\ configured_slots' = 0 /\ configured_w' = 0
  BY <1>1, <1>2, ViewFields, DeactivateFits
<1>4. /\ u.clients = {} /\ u.mapped = {} /\ u.flags = {} /\ u.docking = {} /\ u.leaving = {}
      /\ u.docks = View.docks /\ u.orderly = View.orderly
  BY DEF Sight
<1> HIDE DEF u, s
<1>5. Fits(x', View', {})
  <2>1. Mapped' = {}
    BY <1>3 DEF Mapped
  <2>2. u.docks => pc'["worker"] \notin {"activate", "track", "take"}
    BY <1>4, ViewFields
  <2>3. u.orderly <=> ~withdrawn'
    BY <1>4, ViewFields
  <2> QED BY <1>3, <1>4, <2>1, <2>2, <2>3, NowFits
<1>6. Room'
  BY <1>3, EmptyRoom
<1>7. WithWindow'
  BY <1>3 DEF WithWindow
<1>8. Early'
  BY DEF Early
<1> QED
  BY <1>5, <1>6, <1>7, <1>8 DEF Embedded

(* ... by a thread that has found the selection taken.                     *)
LEMMA TrackEmbedded ==
  ASSUME Windows, Inv, Embedded, NEW t \in Threads, Track(t)
  PROVE  Embedded'
<1>1. Typed /\ x \in XStates /\ Fits(x, View, {}) /\ Room /\ WithWindow /\ Early
  BY DEF Inv, Typed, Embedded
<1>2. Running /\ pc[t] = "track" /\ UNCHANGED <<docking, withdrawn>> /\ t \in {"main", "worker"}
  BY DEF Track, At, User, Threads
<1>3. /\ pc' \in [Threads -> PC] /\ pc'[t] \in {"broadcast", "idle"}
      /\ \A u \in Threads : u # t => pc'[u] = pc[u]
  BY <1>1, FinishEffect DEF Track
<1>4. /\ pc["main"] # "setup" /\ pc'["main"] # "setup"
      /\ pc'["worker"] \notin {"activate", "track", "take"}
      /\ pc["worker"] \in {"activate", "track", "take"} => pc["worker"] = "track"
  BY <1>1, <1>2, <1>3 DEF Early, Threads
<1>5. docking = None
  BY <1>1, <1>4 DEF WithWindow
<1>6. CASE Deactivate(TrackOwner(x), TRUE)
  BY <1>2, <1>4, <1>5, <1>6, DeactivatedEmbedded
<1>7. CASE /\ x' = TrackOwner(x)
           /\ UNCHANGED <<m_activated, m_acquired_selection, m_mapped, clients, room>>
  <2>1. UNCHANGED <<m_activated, m_mapped, m_clients, clients_mapped, flags, configured_slots, configured_w>>
    BY <1>7 DEF clients, room
  <2>2. x' \in XStates /\ (Tray \in x'.heard <=> Tray \in x.heard)
    BY <1>1, <1>7, TrackOwnerKeeps DEF Keeps
  <2>3. /\ x'.mapped = x.mapped /\ x'.events = x.events /\ x'.inside = x.inside
        /\ x'.alive = x.alive /\ x'.info = x.info /\ x.heard \subseteq x'.heard
    BY <1>1, <1>7 DEF TrackOwner, XStates
  <2>4. Fits(x', View, {})
    <3>1. Placed(x', View)
      BY <1>1, <2>2, <2>3 DEF Fits, Placed
    <3>2. Silent(x, View, x')
      BY <2>3 DEF Silent
    <3> QED BY <1>1, <3>1, <3>2, SilentFits
  <2>5. Fits(x', View', {})
    <3>1. View.mapped = Mapped'
      BY <2>1, ViewFields DEF Mapped
    <3> QED BY <1>2, <1>4, <2>1, <2>4, <3>1, NowFits, ViewFields
  <2>6. Room' /\ WithWindow'
    <3>1. refused' = refused /\ refresh' = refresh /\ (Held' => Held)
      BY <1>2, <1>3, <1>7 DEF Track, room, User, Held, Threads
    <3> QED BY <1>1, <1>2, <1>4, <2>1, <2>2, <2>3, <3>1 DEF Room, Even, EvenSoon, WithWindow
  <2>7. Early'
    BY <1>4 DEF Early
  <2> QED BY <2>5, <2>6, <2>7 DEF Embedded
<1> QED
  BY <1>6, <1>7 DEF Track

(* The selection was lost.                                                 *)
LEMMA LostEmbedded ==
  ASSUME Windows, Inv, Embedded, Lost
  PROVE  Embedded'
<1>1. Typed /\ WithWindow /\ Early
  BY DEF Inv, Embedded
<1>2. /\ pc["main"] = "lost" /\ Deactivate(TrackOwner(x), FALSE)
      /\ UNCHANGED <<docking, withdrawn>>
      /\ pc'["main"] = "idle" /\ pc'["worker"] = pc["worker"]
  BY <1>1 DEF Lost, At, User, Goto, Typed, Threads
<1>3. pc["worker"] \notin {"activate", "track", "take"}
  BY <1>1, <1>2 DEF Early
<1>4. docking = None
  BY <1>1, <1>2 DEF WithWindow
<1> QED
  BY <1>2, <1>3, <1>4, DeactivatedEmbedded

(* The selection is taken.                                                 *)
LEMMA TakeEmbedded ==
  ASSUME Windows, Inv, Embedded, NEW t \in Threads, Take(t)
  PROVE  Embedded'
<1>1. Typed /\ x \in XStates /\ Fits(x, View, {}) /\ Room /\ WithWindow /\ Early
  BY DEF Inv, Typed, Embedded
<1>2. /\ pc[t] = "take" /\ pc' = [pc EXCEPT ![t] = "verify"] /\ x' = XSetOwner(x, Tray)
      /\ UNCHANGED <<m_activated, m_mapped, m_clients, clients_mapped, flags, configured_slots,
                     configured_w, docking, withdrawn>>
      /\ t \in {"main", "worker"}
  BY DEF Take, At, Goto, selection, Window, clients, room, User, Threads
<1>3. /\ pc'[t] = "verify" /\ \A u \in Threads : u # t => pc'[u] = pc[u]
  BY <1>1, <1>2 DEF Typed, Threads
<1>4. /\ pc'["worker"] \notin {"activate", "track", "take"}
      /\ pc'["main"] = "setup" <=> pc["main"] = "setup"
  BY <1>1, <1>2, <1>3 DEF Early, Threads
<1>5. x'.heard = x.heard
  BY <1>1, <1>2, XSetOwnerEffect
<1>6. Fits(x', View, {})
  BY <1>1, <1>2, XSetOwnerFits
<1>7. Fits(x', View', {})
  <2>1. View.mapped = Mapped'
    BY <1>2, ViewFields DEF Mapped
  <2> QED BY <1>2, <1>4, <1>6, <2>1, NowFits, ViewFields
<1>8. Room'
  <2>1. \A i \in m_clients \ {docking} : Going(x.events, i) => i \in m_clients' \ {docking'} /\ Going(x'.events, i)
    <3>1. m_clients \subseteq Icons
      BY <1>1 DEF Typed
    <3> QED BY <1>2, <1>6, <3>1, ViewFields DEF Fits, Hears
  <2>2. Quiet
    BY <1>2, <1>3 DEF Take, room, User, Quiet, Held, Threads
  <2> QED BY <1>1, <1>2, <2>1, <2>2, RoomKept
<1>9. WithWindow' /\ Early'
  BY <1>1, <1>2, <1>4, <1>5 DEF WithWindow, Early
<1> QED
  BY <1>7, <1>8, <1>9 DEF Embedded

(* ... and that is looked at.                                              *)
LEMMA VerifyEmbedded ==
  ASSUME Windows, Inv, Embedded, NEW t \in Threads, Verify(t)
  PROVE  Embedded'
<1>1. Typed /\ Fits(x, View, {}) /\ Room /\ WithWindow /\ Early
  BY DEF Inv, Embedded
<1>2. /\ pc[t] = "verify" /\ t \in {"main", "worker"}
      /\ UNCHANGED <<x, m_activated, m_othermanager, m_mapped, m_clients, clients_mapped, flags,
                     configured_slots, configured_w, docking, withdrawn>>
  BY DEF Verify, At, Window, clients, room, User, Threads
<1>3. /\ pc'[t] \in {"terminated", "broadcast", "idle"} /\ \A u \in Threads : u # t => pc'[u] = pc[u]
  BY <1>1, FinishEffect DEF Verify, Goto, Typed, Threads
<1>4. /\ pc'["worker"] \notin {"activate", "track", "take"}
      /\ pc["worker"] \notin {"activate", "track", "take"}
      /\ pc'["main"] = "setup" <=> pc["main"] = "setup"
  BY <1>1, <1>2, <1>3 DEF Early, Threads
<1>5. View' = View
  BY <1>2, <1>4 DEF View, Mapped
<1>6. Room' /\ WithWindow' /\ Early'
  <2>1. refused' = refused /\ refresh' = refresh /\ (Held' => Held)
    BY <1>2, <1>3 DEF Verify, room, User, Held, Threads
  <2> QED BY <1>1, <1>2, <1>4, <2>1 DEF Room, Even, EvenSoon, WithWindow, Early
<1> QED
  BY <1>1, <1>2, <1>5, <1>6 DEF Embedded

(* What XReparent leaves alone when an icon that is not mapped comes in.   *)
LEMMA EnterEffect ==
  ASSUME Windows, NEW s \in XStates, NEW i \in Icons, i \in s.alive \ s.mapped, i \in s.heard
  PROVE  LET t == XReparent(s, i, Tray)
             e == [Event("reparent", i) EXCEPT !.parent = Tray] IN
           /\ t \in XStates /\ t.events = Append(s.events, e) /\ t.mapped = s.mapped
           /\ t.inside = s.inside \cup {i} /\ t.alive = s.alive /\ t.info = s.info
           /\ t.heard = s.heard /\ t.owner = s.owner
           /\ e \in SaneEvents /\ e.type = "reparent" /\ e.win = i /\ e.parent = Tray
<1> DEFINE e == [Event("reparent", i) EXCEPT !.parent = Tray]
           t == [s EXCEPT !.inside = @ \cup {i}, !.events = Append(@, e)]
<1>1. e \in SaneEvents /\ e.type = "reparent" /\ e.win = i /\ e.parent = Tray
  BY EventSane DEF Event
<1>2. XUnmap(s, i) = s
  BY DEF XUnmap
<1>3. XReparent(s, i, Tray) = t
  BY <1>1, <1>2 DEF XReparent, Tell, XStates
<1>4. XReparent(s, i, Tray) \in XStates
  BY XReparentKeeps DEF Keeps
<1>5. /\ t.mapped = s.mapped /\ t.events = Append(s.events, e) /\ t.inside = s.inside \cup {i}
      /\ t.heard = s.heard /\ t.alive = s.alive /\ t.info = s.info /\ t.owner = s.owner
  BY DEF XStates
<1> HIDE DEF t, e
<1> QED
  BY <1>1, <1>3, <1>4, <1>5 DEF e

(* The icon that has asked is embedded, and mapped if it wants to be.      *)
LEMMA EnterFits ==
  ASSUME Windows, NEW s, NEW v, Fits(s, v, {}), NEW i \in Icons, v.docking = {i}, v.leaving = {i},
         i \in s.alive, i \in s.heard,
         NEW t, t = IF i \in v.flags THEN XMap(XReparent(s, i, Tray), i) ELSE XReparent(s, i, Tray)
  PROVE  Fits(t, Sight(v.clients, v.mapped, v.flags, {}, {}, v.pending, v.docks, v.orderly), {})
<1> DEFINE r == XReparent(s, i, Tray)
           e == [Event("reparent", i) EXCEPT !.parent = Tray]
           u == Sight(v.clients, v.mapped, v.flags, {}, {}, v.pending, v.docks, v.orderly)
<1>1. s \in XStates /\ i \notin s.mapped /\ i \notin s.inside /\ i \notin v.mapped /\ i \in v.clients
  BY DEF Fits, Placed, Windows
<1>2. /\ r \in XStates /\ r.events = Append(s.events, e) /\ r.mapped = s.mapped
      /\ r.inside = s.inside \cup {i} /\ r.alive = s.alive /\ r.info = s.info
      /\ r.heard = s.heard /\ r.owner = s.owner
      /\ e \in SaneEvents /\ e.type = "reparent" /\ e.win = i /\ e.parent = Tray
  BY <1>1, EnterEffect
<1>3. /\ u.clients = v.clients /\ u.mapped = v.mapped /\ u.flags = v.flags /\ u.docking = {}
      /\ u.leaving = {} /\ u.pending = v.pending /\ u.docks = v.docks /\ u.orderly = v.orderly
  BY DEF Sight
<1> DEFINE n == Sight(v.clients, v.mapped, v.flags, {}, {i}, v.pending, v.docks, v.orderly)
<1>4. /\ n.clients = v.clients /\ n.mapped = v.mapped /\ n.flags = v.flags /\ n.docking = {}
      /\ n.leaving = {i} /\ n.pending = v.pending /\ n.docks = v.docks /\ n.orderly = v.orderly
  BY DEF Sight
<1> HIDE DEF r, e, u, n
<1>5. Fits(s, n, {})
  <2>1. Placed(s, n)
    BY <1>4 DEF Fits, Placed
  <2>2. Sees(s, v, n)
    BY <1>4 DEF Sees, Fits, Orderly
  <2> QED BY <2>1, <2>2, SeesFits
<1>6. Fits(r, n, {})
  <2>1. Placed(r, n)
    BY <1>2, <1>4, <1>5 DEF Fits, Placed
  <2>2. Says(s, n, {}, e, r, {})
    BY <1>2 DEF Says, Moves, Goes, Windows
  <2> QED BY <1>5, <2>1, <2>2, SaysFits
<1>7. Fits(r, u, {})
  <2>1. Placed(r, u)
    BY <1>3, <1>4, <1>6 DEF Fits, Placed
  <2>2. Sees(r, n, u)
    BY <1>2, <1>3, <1>4, <1>6 DEF Sees, Fits, Orderly
  <2> QED BY <1>6, <2>1, <2>2, SeesFits
<1>8. CASE i \in v.flags
  <2>1. t = XMap(r, i)
    BY <1>8 DEF r
  <2>2. i \in (u.clients \ u.docking) \cup {Tray} /\ i # Tray
    BY <1>1, <1>3 DEF Windows
  <2>3. Fits(XMap(r, i), u, {})
    BY <1>3, <1>7, <1>8, <2>2, XMapFits
  <2> QED BY <2>1, <2>3 DEF u
<1>9. CASE i \notin v.flags
  BY <1>7, <1>9 DEF r, u
<1> QED
  BY <1>8, <1>9

(* process_docking_request() ends: the icon is embedded, or dropped if it  *)
(* has ended meanwhile.                                                    *)
LEMMA SetupEmbedded ==
  ASSUME Windows, Inv, Embedded, Setup
  PROVE  Embedded'
<1>1. Typed /\ x \in XStates /\ Fits(x, View, {}) /\ Room /\ WithWindow /\ Early
  BY DEF Inv, Typed, Embedded
<1>2. /\ pc["main"] = "setup" /\ pc' = [pc EXCEPT !["main"] = "idle"] /\ docking' = None
      /\ UNCHANGED <<m_activated, m_mapped, configured_slots, configured_w, withdrawn>>
      /\ docking \in Icons /\ docking # None
  BY <1>1 DEF Setup, At, Goto, selection, Window, room, User, Typed, Windows
<1>3. /\ pc'["main"] = "idle" /\ pc'["worker"] = pc["worker"]
      /\ pc["worker"] \notin {"activate", "track", "take"}
  BY <1>1, <1>2 DEF Typed, Threads, Early
<1>8. Quiet
  BY <1>3 DEF Setup, room, User, Quiet, Held
<1>4. /\ View.clients = m_clients /\ View.mapped = Mapped /\ View.flags = flags
      /\ View.docking = {docking} /\ View.leaving = {docking}
      /\ View.pending = {i \in Icons : Going(x.events, i)}
      /\ View.docks /\ (View.orderly <=> ~withdrawn)
  BY <1>2, <1>3, ViewFields
<1>5. /\ docking \in m_clients /\ docking \notin Mapped /\ docking \notin x.mapped
      /\ docking \notin x.inside /\ docking \notin clients_mapped
      /\ m_clients \subseteq Icons /\ docking # Tray
  BY <1>1, <1>2, <1>4 DEF Fits, Placed, Windows, Mapped
<1>6. CASE /\ docking \in x.alive /\ UNCHANGED clients
           /\ LET heard == [x EXCEPT !.heard = @ \cup {docking}]
                  inside == XReparent(heard, docking, Tray)
              IN x' = IF docking \in flags THEN XMap(inside, docking) ELSE inside
  <2> DEFINE s == [x EXCEPT !.heard = @ \cup {docking}]
             u == Sight(m_clients, Mapped, flags, {}, {}, View.pending, View.docks, View.orderly)
  <2>1. /\ s \in XStates /\ s.mapped = x.mapped /\ s.events = x.events /\ s.inside = x.inside
        /\ s.heard = x.heard \cup {docking} /\ s.alive = x.alive /\ s.info = x.info
    BY <1>1, <1>2 DEF XStates
  <2>2. x' = IF docking \in flags THEN XMap(XReparent(s, docking, Tray), docking)
             ELSE XReparent(s, docking, Tray)
    BY <1>6
  <2>3. Keeps(x, x')
    <3>1. Keeps(x, s)
      BY <1>1, <1>2, HearKeeps
    <3> HIDE DEF s
    <3>2. Keeps(s, XReparent(s, docking, Tray))
      BY <1>2, <2>1, XReparentKeeps
    <3>3. Keeps(XReparent(s, docking, Tray), XMap(XReparent(s, docking, Tray), docking))
      BY <1>2, <3>2, XMapKeeps DEF Keeps
    <3> QED BY <2>2, <3>1, <3>2, <3>3, KeepsOn
  <2>4. /\ u.clients = m_clients /\ u.mapped = Mapped /\ u.flags = flags /\ u.docking = {}
        /\ u.leaving = {} /\ u.pending = View.pending /\ u.docks = View.docks
        /\ u.orderly = View.orderly
    BY DEF Sight
  <2>5. u = Sight(View.clients, View.mapped, View.flags, {}, {}, View.pending, View.docks, View.orderly)
    BY <1>4
  <2> HIDE DEF s, u
  <2>6. Fits(s, View, {})
    <3>1. Placed(s, View)
      BY <1>1, <2>1 DEF Fits, Placed
    <3>2. Silent(x, View, s)
      BY <2>1 DEF Silent
    <3> QED BY <1>1, <3>1, <3>2, SilentFits
  <2>7. Fits(x', u, {})
    <3>1. x' = IF docking \in View.flags THEN XMap(XReparent(s, docking, Tray), docking)
               ELSE XReparent(s, docking, Tray)
      BY <1>4, <2>2
    <3>2. docking \in s.alive /\ docking \in s.heard
      BY <1>6, <2>1
    <3> QED BY <1>2, <1>4, <2>5, <2>6, <3>1, <3>2, EnterFits
  <2>8. UNCHANGED <<m_clients, clients_mapped, flags>>
    BY <1>6 DEF clients
  <2>9. Fits(x', View', {})
    <3>1. u.mapped = Mapped' /\ u.docking = {docking'} \ {None}
      BY <1>2, <2>4, <2>8 DEF Mapped
    <3> QED BY <1>2, <1>3, <1>4, <2>4, <2>7, <2>8, <3>1, NowFits
  <2>10. Room'
    <3>1. \A i \in m_clients \ {docking} : Going(x.events, i) => i \in m_clients' \ {docking'} /\ Going(x'.events, i)
      BY <1>2, <1>4, <1>5, <2>4, <2>7, <2>8 DEF Fits, Hears, Windows
    <3> QED BY <1>1, <1>2, <1>8, <2>8, <3>1, RoomKept
  <2>11. WithWindow' /\ Early'
    BY <1>1, <1>2, <1>3, <2>3, <2>8 DEF WithWindow, Early, Keeps
  <2> QED BY <2>9, <2>10, <2>11 DEF Embedded
<1>7. CASE /\ docking \notin x.alive
           /\ m_clients' = m_clients \ {docking}
           /\ clients_mapped' = clients_mapped \ {docking}
           /\ flags' = flags \ {docking} /\ UNCHANGED x
  <2> DEFINE u == Sight(m_clients', Mapped, flags', {}, {}, View.pending, View.docks, View.orderly)
  <2>1. /\ u.clients = m_clients \ {docking} /\ u.mapped = Mapped /\ u.flags = flags \ {docking}
        /\ u.docking = {} /\ u.leaving = {} /\ u.pending = View.pending /\ u.docks = View.docks
        /\ u.orderly = View.orderly
    BY <1>7 DEF Sight
  <2> HIDE DEF u
  <2>2. Fits(x, u, {})
    <3>1. Placed(x, u)
      BY <1>1, <1>4, <1>5, <2>1 DEF Fits, Placed
    <3>2. Sees(x, View, u)
      BY <1>1, <1>4, <1>5, <2>1 DEF Sees, Fits, Orderly
    <3> QED BY <1>1, <3>1, <3>2, SeesFits
  <2>3. clients_mapped' = clients_mapped /\ x' = x
    BY <1>5, <1>7
  <2>4. Fits(x', View', {})
    <3>1. u.mapped = Mapped' /\ u.docking = {docking'} \ {None} /\ u.clients = m_clients' /\ u.flags = flags'
      BY <1>2, <1>7, <2>1, <2>3 DEF Mapped
    <3> QED BY <1>2, <1>3, <1>4, <2>1, <2>2, <2>3, <3>1, NowFits
  <2>5. Room'
    <3>1. \A i \in m_clients \ {docking} : Going(x.events, i) => i \in m_clients' \ {docking'} /\ Going(x'.events, i)
      BY <1>2, <1>5, <1>7 DEF Windows
    <3> QED BY <1>1, <1>2, <1>8, <2>3, <3>1, RoomKept
  <2>6. WithWindow' /\ Early'
    BY <1>1, <1>2, <1>3, <1>5, <1>7, <2>3 DEF WithWindow, Early
  <2> QED BY <2>4, <2>5, <2>6 DEF Embedded
<1> QED
  BY <1>6, <1>7 DEF Setup

(* The worker refreshes the window: it will set the width that is right    *)
(* now, and does so, unless somebody is about to leave or a reconfigure()  *)
(* was refused.                                                            *)
LEMMA RefreshEmbedded ==
  ASSUME Windows, Inv, Embedded, Refresh \/ Clear
  PROVE  Embedded'
<1>1. Typed /\ Fits(x, View, {}) /\ Room /\ WithWindow /\ Early
  BY DEF Inv, Embedded
<1>6. UNCHANGED <<x, m_activated, m_othermanager, m_mapped, m_clients, clients_mapped, flags,
                  docking, withdrawn>>
  BY DEF Refresh, Clear, selection, Window, clients
<1>7. UNCHANGED configured_slots
  BY DEF Refresh, Clear, room
<1>8. /\ pc'["main"] = pc["main"] /\ pc["worker"] \in {"refresh", "clear"}
      /\ pc'["worker"] \in {"idle", "clear", "terminated"}
  BY <1>1 DEF Refresh, Clear, At, Goto, Typed, Threads
<1>2. /\ UNCHANGED <<x, m_activated, m_othermanager, m_mapped, m_clients, clients_mapped, flags,
                     configured_slots, docking, withdrawn>>
      /\ pc'["main"] = pc["main"]
      /\ pc["worker"] \notin {"activate", "track", "take"}
      /\ pc'["worker"] \notin {"activate", "track", "take"}
  BY <1>6, <1>7, <1>8
<1>3. View' = View /\ WithWindow' /\ Early'
  BY <1>1, <1>2 DEF View, Mapped, WithWindow, Early
<1>4. CASE Refresh
  <2>1. m_clients \cap clients_mapped = clients_mapped
    BY <1>1 DEF WithWindow
  <2>2. UNCHANGED <<configured_w, refused>>
    BY <1>4 DEF Refresh, room
  <2>3. EvenSoon'
    <3> SUFFICES ASSUME Held' PROVE (refresh.width = Cardinality(clients_mapped))'
      BY DEF EvenSoon
    <3>1. pc'["worker"] # "idle"
      BY DEF Held
    <3>2. ~Goto("worker", "idle")
      BY <1>1, <3>1 DEF Goto, Typed, Threads
    <3>3. refresh' = [clients |-> m_clients, width |-> mapped_clients(m_clients, clients_mapped)]
      BY <1>4, <3>2 DEF Refresh
    <3> QED BY <1>2, <2>1, <3>3 DEF mapped_clients
  <2>4. Room'
    BY <1>1, <1>2, <2>2, <2>3 DEF Room, Even
  <2> QED BY <1>1, <1>2, <1>3, <2>4 DEF Embedded
<1>5. CASE Clear
  <2> SUFFICES ASSUME ~refused' PROVE Room'
    BY <1>1, <1>2, <1>3 DEF Embedded, Room
  <2>1. /\ configured_w' = IF clients_mapped = {} THEN 0 ELSE refresh.width
        /\ refused' = refused /\ Held /\ ~Held'
    BY <1>1, <1>5 DEF Clear, At, Goto, Held, Typed, Threads
  <2>2. Cardinality({}) = 0
    BY FS_EmptySet
  <2>3. Even /\ EvenSoon => (Even /\ EvenSoon)'
    BY <1>2, <2>1, <2>2 DEF Even, EvenSoon
  <2> QED BY <1>1, <1>2, <2>1, <2>3 DEF Room
<1> QED
  BY <1>4, <1>5

(* In the beginning there is nothing to be seen.                           *)
LEMMA InitEmbedded ==
  ASSUME Windows, Init
  PROVE  Embedded
<1>1. x \in XStates
  BY InitInv DEF Inv, Typed
<1>2. /\ x.owner # Tray /\ x.events = <<>> /\ x.mapped = {} /\ x.inside = {} /\ x.heard = {}
      /\ m_clients = {} /\ clients_mapped = {} /\ flags = {} /\ ~m_mapped /\ m_mapped \in BOOLEAN
      /\ docking = None /\ pc["main"] = "idle" /\ pc["worker"] = "activate" /\ ~m_activated
      /\ m_othermanager = None /\ configured_slots = 0 /\ configured_w = 0
  BY DEF Init, Windows, None, Tray
<1>3. DOMAIN x.events = {}
  BY <1>2
<1>4. /\ View.clients = {} /\ View.mapped = {} /\ View.flags = {}
      /\ View.docking = {} /\ View.leaving = {} /\ View.pending = {}
  BY <1>2, <1>3, ViewFields DEF Mapped, Going
<1>5. Placed(x, View)
  BY <1>1, <1>2, <1>4 DEF Placed
<1>6. Hears(x, View)
  BY <1>2, <1>3, <1>4 DEF Hears, Told, Docks, OfTray
<1>7. Orderly(x, View, {})
  BY <1>2, <1>3, <1>4 DEF Orderly, Followed, Mapping
<1>8. Early /\ WithWindow
  BY <1>2, <1>3 DEF Early, WithWindow, Cleared
<1>9. Room
  <2>1. Cardinality({}) = 0
    BY FS_EmptySet
  <2> QED BY <1>2, <2>1 DEF Room, Even, EvenSoon, Held
<1> QED
  BY <1>5, <1>6, <1>7, <1>8, <1>9 DEF Embedded, Fits

(* Every step keeps it.                                                    *)
LEMMA EmbeddedKept ==
  ASSUME Windows, Inv, Embedded, [Next]_vars
  PROVE  Embedded'
<1>1. CASE MainStep
  BY <1>1, ActivateEmbedded, TrackEmbedded, TakeEmbedded, VerifyEmbedded, SetupEmbedded,
     LostEmbedded, HandlerEmbedded DEF MainStep, Threads
<1>2. CASE WorkerStep
  BY <1>2, ActivateEmbedded, TrackEmbedded, TakeEmbedded, VerifyEmbedded, VisibleEmbedded,
     RefreshEmbedded DEF WorkerStep, Threads
<1>3. CASE \E v \in BOOLEAN : SetVisible(v)
  BY <1>3, VisibleEmbedded
<1>4. CASE Environment
  <2>1. ASSUME NEW o \in Others, OtherTakes(o) \/ OtherReleases(o)
        PROVE  Embedded'
    BY <2>1, OthersEmbedded DEF OtherTakes, OtherReleases
  <2>2. ASSUME NEW w \in Icons \cup Others, Dies(w)
        PROVE  Embedded'
    BY <2>2, OthersEmbedded DEF Dies
  <2>3. ASSUME NEW i \in Icons, Asks(i) \/ Resizes(i) \/ UnmapsItself(i) \/ Leaves(i) \/ SetsFlag(i)
        PROVE  Embedded'
    BY <2>3, IconsActEmbedded
  <2> QED BY <1>4, <2>1, <2>2, <2>3, HappensEmbedded DEF Environment
<1>5. CASE UNCHANGED vars
  <2>1. UNCHANGED <<x, m_activated, m_othermanager, m_mapped, m_clients, clients_mapped, flags,
                    configured_slots, configured_w, pc, docking, withdrawn, refused, refresh>>
    BY <1>5 DEF vars, selection, clients, room
  <2>2. View' = View
    BY <2>1 DEF View, Mapped
  <2>3. Early' /\ WithWindow' /\ Room'
    BY <2>1 DEF Embedded, Early, WithWindow, Room, Even, EvenSoon, Held
  <2> QED BY <2>1, <2>2, <2>3 DEF Embedded
<1> QED
  BY <1>1, <1>2, <1>3, <1>4, <1>5 DEF Next

(* All that is known of the tray.                                          *)
Agreed == Inv /\ Embedded

(* It holds in the beginning ...                                           *)
LEMMA InitAgreed ==
  ASSUME Windows, Init
  PROVE  Agreed
BY InitInv, InitEmbedded DEF Agreed

(* ... and after every step.                                               *)
LEMMA AgreedKept ==
  ASSUME Windows, Agreed, [Next]_vars
  PROVE  Agreed'
BY InvKept, EmbeddedKept DEF Agreed

(* At rest everything has been said: what polybar sees is what is.         *)
LEMMA EmbeddedMirrored ==
  ASSUME Windows, Agreed
  PROVE  IconsMirrored
<1>0. Inv /\ Embedded
  BY DEF Agreed
<1> SUFFICES ASSUME AtRest
    PROVE  /\ m_clients = x.inside
           /\ clients_mapped = x.inside \cap x.mapped
           /\ m_mapped <=> Tray \in x.mapped
  BY DEF IconsMirrored
<1>1. x.events = <<>> /\ pc["main"] = "idle"
  BY DEF AtRest
<1>2. DOMAIN x.events = {}
  BY <1>1
<1>3. docking = None
  BY <1>0, <1>1 DEF Embedded, WithWindow
<1>4. /\ View.clients = m_clients /\ View.mapped = Mapped /\ View.docking = {} /\ View.leaving = {}
      /\ m_clients \subseteq Icons /\ Tray \notin Icons /\ clients_mapped \subseteq m_clients
      /\ m_mapped \in BOOLEAN
  BY <1>0, <1>3, ViewFields DEF Inv, Typed, Windows, Embedded, WithWindow
<1>5. /\ \A i \in m_clients \ x.inside : Going(x.events, i)
      /\ x.inside \subseteq m_clients
  BY <1>0, <1>4 DEF Embedded, Fits, Hears, Placed
<1>6. m_clients = x.inside
  BY <1>2, <1>5 DEF Going
<1>7. \A w \in Icons \cup {Tray} : w \in Mapped <=> w \in x.mapped
  BY <1>0, <1>2, <1>4 DEF Embedded, Fits, Hears, Told
<1>8. Tray \notin clients_mapped
  BY <1>4
<1>9. m_mapped <=> Tray \in x.mapped
  BY <1>7, <1>8 DEF Mapped
<1>10. clients_mapped = x.inside \cap x.mapped
  BY <1>4, <1>6, <1>7 DEF Mapped
<1> QED
  BY <1>6, <1>9, <1>10

(* ... and nobody is about to leave, so there is room.                     *)
LEMMA EmbeddedRoom ==
  ASSUME Windows, Agreed
  PROVE  RoomForIcons
<1>0. Inv /\ Embedded
  BY DEF Agreed
<1> SUFFICES ASSUME AtRest, ~refused
    PROVE  /\ Cardinality(clients_mapped) <= configured_slots
           /\ Cardinality(clients_mapped) <= configured_w \/ withdrawn
  BY DEF RoomForIcons
<1>1. DOMAIN x.events = {}
  BY DEF AtRest
<1>2. \A i : ~Going(x.events, i)
  BY <1>1 DEF Going
<1>3. clients_mapped \in SUBSET Icons
  BY <1>0 DEF Inv, Typed, Embedded, WithWindow
<1>4. Cardinality(clients_mapped) \in Nat
  BY <1>3, Counted
<1> QED
  BY <1>0, <1>2, <1>4 DEF Embedded, Room, Even

(* With any icons and any other managers, whatever they do and however     *)
(* late polybar hears of it: once everything is handled, its clients are   *)
(* the icons in its window, and their flags and its own say which of them  *)
(* are mapped.                                                             *)
THEOREM IconsAgreed == ASSUME Windows PROVE Spec => []IconsMirrored
<1>1. Init => Agreed
  BY InitAgreed
<1>2. Agreed /\ [Next]_vars => Agreed'
  BY AgreedKept
<1>3. Agreed => IconsMirrored
  BY EmbeddedMirrored
<1> QED
  BY <1>1, <1>2, <1>3, PTL DEF Spec

(* ... and the bar leaves room for every icon that is mapped, unless       *)
(* nothing was reconfigured since a reconfigure() was refused.             *)
THEOREM RoomMade == ASSUME Windows PROVE Spec => []RoomForIcons
<1>1. Init => Agreed
  BY InitAgreed
<1>2. Agreed /\ [Next]_vars => Agreed'
  BY AgreedKept
<1>3. Agreed => RoomForIcons
  BY EmbeddedRoom
<1> QED
  BY <1>1, <1>2, <1>3, PTL DEF Spec
=============================================================================
