---------------------------- MODULE ProvenParts ----------------------------
(***************************************************************************)
(* The parts of MCParts whose invariants are proved: each behaviour is one *)
(* of one part, in slots that parts share.  The proofs are for any values  *)
(* of the parts' constants; those of a part are in the names of its        *)
(* module, where its invariant is defined.                                 *)
(***************************************************************************)
EXTENDS Integers, FiniteSetTheorems, SequenceTheorems, TLAPS

CONSTANTS
  ScriptLines, RendererBars, RendererModules, RendererDraws, MpdChanges,
  DesktopWindows, DesktopNumber, DesktopSteps, ScreenLayouts, ScreenUndashed,
  ScreenBars, ScreenChanges, HoverBars, HoverAreas, HoverOps,
  BackgroundSetups, BackgroundPixmap, BackgroundBar, BackgroundEdge,
  BackgroundPlaces, BackgroundIcons, BackgroundOps, WindowSetups,
  WindowStacks, WindowOps, TitledWindows, TitleSteps, TrayIcons, OtherTrays,
  TrayOps, AlsaMixers, AlsaTop, AlsaInterval, AlsaOps, PulseSpecified,
  PulseTop, PulseStep, PulseIndex, PulseOps, NetConfigs, NetSystems, NetWord,
  NetOps, IpcClients, IpcRequests, IpcModules, IpcBuf, IpcStarts,
  BatteryConfigs, BatteryFull, BatteryOps, MeterCores, MeterWarn, MeterWord,
  MeterOps, BacklightScreens, BacklightOps, DateFormats, DateClock,
  DateClicks, KeyboardKeyboards, KeyboardConfigs, KeyboardTimes, KeyboardOps,
  I3Outputs, I3Bar, I3Ops

VARIABLES
  part,  \* the part of polybar that runs
  s1, s2, s3, s4, s5, s6, s7, s8, s9, s10, s11, s12, s13, s14, s15, s16, s17,
  s18, s19

slots ==
  <<s1, s2, s3, s4, s5, s6, s7, s8, s9, s10, s11, s12, s13, s14, s15, s16,
    s17, s18, s19>>

-----------------------------------------------------------------------------
(* Sequences.  What is in one to which an element is appended ...          *)
LEMMA HasAppend ==
  ASSUME NEW E, NEW q \in Seq(E), NEW e \in E, NEW P
  PROVE  /\ Append(q, e) \in Seq(E)
         /\ (\E i \in 1 .. Len(Append(q, e)) : Append(q, e)[i] \in P)
              <=> (\E i \in 1 .. Len(q) : q[i] \in P) \/ e \in P
<1>1. /\ Append(q, e) \in Seq(E) /\ Len(q) \in Nat /\ Len(Append(q, e)) = Len(q) + 1
      /\ \A i \in 1 .. Len(q) : Append(q, e)[i] = q[i]
      /\ Append(q, e)[Len(q) + 1] = e
  BY AppendProperties
<1>2. \A i \in 1 .. Len(q) + 1 : i \in 1 .. Len(q) \/ i = Len(q) + 1
  BY <1>1
<1>3. 1 .. Len(q) \subseteq 1 .. Len(q) + 1 /\ Len(q) + 1 \in 1 .. Len(q) + 1
  BY <1>1
<1> QED
  BY <1>1, <1>2, <1>3, Zenon

(* ... and in one from which the first is taken.                           *)
LEMMA HasTail ==
  ASSUME NEW E, NEW q \in Seq(E), q # <<>>, NEW P
  PROVE  /\ Tail(q) \in Seq(E) /\ Head(q) \in E
         /\ (\E i \in 1 .. Len(q) : q[i] \in P)
              <=> Head(q) \in P \/ \E i \in 1 .. Len(Tail(q)) : Tail(q)[i] \in P
<1>1. /\ Tail(q) \in Seq(E) /\ Head(q) \in E /\ Head(q) = q[1] /\ Len(q) \in Nat \ {0}
      /\ Len(Tail(q)) = Len(q) - 1
      /\ \A i \in 1 .. Len(Tail(q)) : Tail(q)[i] = q[i + 1]
  BY HeadTailProperties, EmptySeq
<1>2. ASSUME NEW i \in 1 .. Len(q), i # 1
      PROVE  i - 1 \in 1 .. Len(Tail(q)) /\ q[i] = Tail(q)[i - 1]
  BY <1>1, <1>2
<1>3. 1 \in 1 .. Len(q) /\ \A i \in 1 .. Len(Tail(q)) : i + 1 \in 1 .. Len(q)
  BY <1>1
<1> QED
  BY <1>1, <1>2, <1>3

(* A quotient lies between its bounds, ...                                 *)
LEMMA DivBounds ==
  ASSUME NEW a \in Int, NEW b \in Nat \ {0}
  PROVE  /\ a \div b \in Int
         /\ b * (a \div b) <= a /\ a < b * (a \div b) + b
  OBVIOUS

(* ... and what does is the quotient.                                      *)
LEMMA DivIs ==
  ASSUME NEW a \in Int, NEW b \in Nat \ {0}, NEW q \in Int, b * q <= a, a < b * q + b
  PROVE  a \div b = q
<1>1. /\ a \div b \in Int
      /\ b * (a \div b) <= a /\ a < b * (a \div b) + b
  BY DivBounds
<1> DEFINE p == a \div b
<1> HIDE DEF p
<1>2. p \in Int /\ b * p <= a /\ a < b * p + b
  BY <1>1 DEF p
<1>3. CASE p < q
  <2>1. b * (p + 1) <= b * q
    BY <1>2, <1>3
  <2> QED
    BY <2>1, <1>2
<1>4. CASE p > q
  <2>1. b * (q + 1) <= b * p
    BY <1>2, <1>4
  <2> QED
    BY <2>1, <1>2
<1> QED
  BY <1>2, <1>3, <1>4 DEF p

(* So is what is left.                                                     *)
LEMMA ModDiv ==
  ASSUME NEW a \in Int, NEW b \in Nat \ {0}
  PROVE  a % b = a - b * (a \div b)
  OBVIOUS

(* A remainder is the one that is less than the divisor.                    *)
LEMMA ModIs ==
  ASSUME NEW b \in Nat \ {0}, NEW q \in Int, NEW r \in 0 .. b - 1
  PROVE  (b * q + r) % b = r
<1> DEFINE a == b * q + r
<1>1. a \in Int /\ b * q <= a /\ a < b * q + b /\ a - b * q = r
  OBVIOUS
<1> HIDE DEF a
<1>2. a \div b = q
  BY <1>1, DivIs
<1>3. a % b = a - b * (a \div b)
  BY <1>1, ModDiv
<1>4. a % b = r
  BY <1>1, <1>2, <1>3
<1> QED
  BY <1>4 DEF a

(* Once around, or not at all.                                             *)
LEMMA ModTurn ==
  ASSUME NEW n \in Nat \ {0}, NEW x \in 0 .. 2 * n - 1
  PROVE  x % n = IF x < n THEN x ELSE x - n
<1> DEFINE q == IF x < n THEN 0 ELSE 1
           r == IF x < n THEN x ELSE x - n
<1>1. q \in Int /\ r \in 0 .. n - 1 /\ n * q + r = x
  BY DEF q, r
<1> HIDE DEF q
<1>2. (n * q + r) % n = r
  <2> HIDE DEF r
  <2> QED
    BY <1>1, ModIs
<1> QED
  BY <1>1, <1>2

(* Numbers that differ by a multiple have the same remainder, ...          *)
LEMMA ModEqual ==
  ASSUME NEW n \in Nat \ {0}, NEW x \in Int, NEW y \in Int, NEW k \in Int, x = y + n * k
  PROVE  x % n = y % n
<1> DEFINE q == y \div n
           r == y % n
<1>1. q \in Int /\ n * q <= y /\ y < n * q + n
  BY DivBounds
<1>2. r = y - n * q
  BY ModDiv
<1> HIDE DEF q, r
<1>3. r \in 0 .. n - 1 /\ q + k \in Int /\ x = n * (q + k) + r
  BY <1>1, <1>2
<1>4. (n * (q + k) + r) % n = r
  <2> DEFINE p == q + k
  <2>1. p \in Int
    BY <1>3
  <2> HIDE DEF p
  <2>2. (n * p + r) % n = r
    BY <1>3, <2>1, ModIs
  <2> QED
    BY <2>2 DEF p
<1> QED
  BY <1>3, <1>4 DEF r

(* ... so that it does not matter where remainders are taken.              *)
LEMMA ModWhole ==
  ASSUME NEW n \in Nat \ {0}, NEW x \in Int
  PROVE  x % n \in 0 .. n - 1 /\ \E k \in Int : x = (x % n) + n * k
<1> DEFINE q == x \div n
           r == x % n
<1>1. q \in Int /\ n * q <= x /\ x < n * q + n
  BY DivBounds
<1>2. r = x - n * q
  BY ModDiv
<1> HIDE DEF q, r
<1>3. r \in 0 .. n - 1 /\ x = r + n * q
  BY <1>1, <1>2
<1> QED
  BY <1>1, <1>3 DEF r

(* A remainder may be taken before adding or after it.                      *)
LEMMA ModPlus ==
  ASSUME NEW n \in Nat \ {0}, NEW x \in Int, NEW y \in Int
  PROVE  ((x % n) + y) % n = (x + y) % n /\ (y + (x % n)) % n = (x + y) % n
<1> DEFINE r == x % n
<1>0. r \in 0 .. n - 1 /\ \E k \in Int : x = r + n * k
  BY ModWhole
<1> HIDE DEF r
<1>1. PICK k \in Int : x = r + n * k
  BY <1>0
<1>2. x + y \in Int /\ r + y \in Int /\ x + y = (r + y) + n * k
  BY <1>0, <1>1
<1>3. (x + y) % n = (r + y) % n
  BY <1>2, ModEqual
<1>4. y + r = r + y
  BY <1>0
<1> QED
  BY <1>3, <1>4 DEF r

(* The difference of two readings is what was counted in between.          *)
LEMMA ModMinus ==
  ASSUME NEW n \in Nat \ {0}, NEW x \in Int, NEW t \in 0 .. n - 1
  PROVE  (((x + t) % n) - x) % n = t
<1> DEFINE r == (x + t) % n
<1>0. r \in 0 .. n - 1 /\ \E k \in Int : x + t = r + n * k
  <2> DEFINE s == x + t
  <2>1. s \in Int
    OBVIOUS
  <2> HIDE DEF s
  <2>2. s % n \in 0 .. n - 1 /\ \E k \in Int : s = (s % n) + n * k
    BY <2>1, ModWhole
  <2> QED
    BY <2>2 DEF s
<1> HIDE DEF r
<1>1. PICK k \in Int : x + t = r + n * k
  BY <1>0
<1>2. r - x \in Int /\ t \in Int /\ -k \in Int /\ r - x = t + n * (-k)
  BY <1>0, <1>1
<1>3. (r - x) % n = t % n
  BY <1>2, ModEqual
<1>4. t % n = t
  OBVIOUS
<1> QED
  BY <1>3, <1>4 DEF r

(* A function of the first numbers is a sequence.                          *)
LEMMA ListIs ==
  ASSUME NEW E, NEW n \in Nat, NEW f \in [1 .. n -> E]
  PROVE  f \in Seq(E)
  OBVIOUS

(* A sequence is as long as its domain.                                    *)
LEMMA LenIs ==
  ASSUME NEW f, NEW n \in Nat, f = [i \in 1 .. n |-> f[i]]
  PROVE  Len(f) = n
<1>1. \A i \in 1 .. n : f[i] \in {f[k] : k \in 1 .. n}
  OBVIOUS
<1>2. f \in Seq({f[k] : k \in 1 .. n})
  BY <1>1, IsASeq
<1> QED
  BY <1>2, LenProperties

(* Some natural numbers have a least one.                                  *)
LEMMA LeastNat ==
  ASSUME NEW S, S \subseteq Nat, S # {}
  PROVE  \E x \in S : \A y \in S : x <= y
<1> DEFINE R == OpToRel(<, Nat)
<1>1. IsWellFoundedOn(R, Nat)
  BY NatLessThanWellFounded
<1>2. R = {ss \in Nat \X Nat : ss[1] < ss[2]}
  BY DEF OpToRel
<1> HIDE DEF R
<1>3. PICK x \in S : \A y \in S : ~(<<y, x>> \in R)
  BY <1>1, WFMin
<1>4. \A y \in S : y \in Nat /\ x \in Nat /\ ~(y < x)
  BY <1>2, <1>3
<1> QED
  BY <1>4

(* What holds of 0 and goes on holds up to N, ...                          *)
LEMMA UpTo ==
  ASSUME NEW N \in Nat, NEW T, 0 \in T, \A n \in 1 .. N : n - 1 \in T => n \in T
  PROVE  0 .. N \subseteq T
<1> DEFINE Bad == (0 .. N) \ T
<1> SUFFICES ASSUME Bad # {} PROVE FALSE
  OBVIOUS
<1>1. Bad \subseteq Nat
  OBVIOUS
<1>2. PICK n \in Bad : \A m \in Bad : n <= m
  <2> HIDE DEF Bad
  <2> QED
    BY <1>1, LeastNat
<1>4. n # 0 /\ n \in 1 .. N /\ n - 1 \in 0 .. N
  BY <1>2
<1>5. n - 1 \notin Bad
  <2>1. ~(n <= n - 1)
    BY <1>4
  <2> HIDE DEF Bad
  <2> QED
    BY <1>2, <2>1
<1> QED
  BY <1>2, <1>4, <1>5

(* What G makes of one state after the other, ...                          *)
Goes(f, N, base, G) == f[0] = base /\ \A n \in 1 .. N : f[n] = G[<<f[n - 1], n>>]

(* ... can be written down.                                                *)
LEMMA StepsExist ==
  ASSUME NEW N \in Nat, NEW V, NEW base \in V, NEW G \in [V \X (1 .. N) -> V]
  PROVE  \E f \in [0 .. N -> V] : Goes(f, N, base, G)
<1> DEFINE Steps(k, f) == f[0] = base /\ \A n \in 1 .. k : f[n] = G[<<f[n - 1], n>>]
           T == {k \in 0 .. N : \E f \in [0 .. k -> V] : Steps(k, f)}
<1>1. 0 \in T
  <2>1. [n \in 0 .. 0 |-> base] \in [0 .. 0 -> V] /\ Steps(0, [n \in 0 .. 0 |-> base])
    OBVIOUS
  <2> HIDE DEF Steps
  <2> QED
    BY <2>1
<1>2. ASSUME NEW k \in 1 .. N, k - 1 \in T
      PROVE  k \in T
  <2>1. PICK f \in [0 .. k - 1 -> V] : Steps(k - 1, f)
    BY <1>2
  <2> DEFINE g == [n \in 0 .. k |-> IF n = k THEN G[<<f[k - 1], k>>] ELSE f[n]]
  <2>2. f[k - 1] \in V /\ G[<<f[k - 1], k>>] \in V
    OBVIOUS
  <2>3. g \in [0 .. k -> V]
    <3>1. \A n \in 0 .. k : n # k => n \in 0 .. k - 1
      OBVIOUS
    <3> QED
      BY <2>2, <3>1
  <2>4. \A n \in 0 .. k - 1 : g[n] = f[n] /\ n \in 0 .. k
    OBVIOUS
  <2>5. g[k] = G[<<f[k - 1], k>>]
    OBVIOUS
  <2> HIDE DEF g
  <2>6. g[0] = base
    BY <2>1, <2>4
  <2>7. ASSUME NEW n \in 1 .. k
        PROVE  g[n] = G[<<g[n - 1], n>>]
    <3>1. n - 1 \in 0 .. k - 1 /\ (n # k => n \in 1 .. k - 1 /\ n \in 0 .. k - 1)
      OBVIOUS
    <3>2. g[n - 1] = f[n - 1]
      BY <2>4, <3>1
    <3>3. CASE n = k
      BY <2>5, <3>2, <3>3
    <3>4. CASE n # k
      BY <2>1, <2>4, <3>1, <3>2, <3>4
    <3> QED
      BY <3>3, <3>4
  <2>8. Steps(k, g)
    BY <2>6, <2>7
  <2> HIDE DEF Steps
  <2> QED
    BY <2>3, <2>8
<1>3. 0 .. N \subseteq T
  <2> HIDE DEF T
  <2> QED
    BY <1>1, <1>2, UpTo
<1>4. N \in T
  <2> HIDE DEF T
  <2> QED
    BY <1>3
<1> QED
  BY <1>4 DEF Goes

(* Some of the first numbers have a greatest one.                          *)
LEMMA GreatestOf ==
  ASSUME NEW N \in Nat, NEW S, S \subseteq 1 .. N, S # {}
  PROVE  \E x \in S : \A y \in S : x >= y
<1> DEFINE T == {N - x : x \in S}
<1>1. T \subseteq Nat /\ T # {}
  <2>1. \A x \in S : N - x \in Nat
    OBVIOUS
  <2> QED
    BY <2>1
<1>2. PICK t \in T : \A u \in T : t <= u
  <2> HIDE DEF T
  <2> QED
    BY <1>1, LeastNat
<1>3. PICK x \in S : t = N - x
  BY <1>2
<1>4. ASSUME NEW y \in S
      PROVE  x >= y
  <2>1. N - y \in T /\ x \in Nat /\ y \in Nat
    OBVIOUS
  <2> HIDE DEF T
  <2>2. t <= N - y
    BY <1>2, <2>1
  <2> QED
    BY <1>3, <2>1, <2>2
<1> QED
  BY <1>4

(* What a list has.                                                        *)
Has(s) == {s[i] : i \in DOMAIN s}

(* A list without repetitions that is as long as another one, and has      *)
(* nothing else in it, has all of it.                                      *)
LEMMA SameLength ==
  ASSUME NEW E, NEW a \in Seq(E), NEW b \in Seq(E), Len(a) = Len(b),
         \A i, j \in DOMAIN a : a[i] = a[j] => i = j,
         Has(a) \subseteq Has(b)
  PROVE  Has(a) = Has(b)
<1> DEFINE A == {a[i] : i \in DOMAIN a}
           B == {b[i] : i \in DOMAIN b}
           n == Len(a)
<1>1. n \in Nat /\ DOMAIN a = 1 .. n /\ DOMAIN b = 1 .. n /\ a \in [1 .. n -> E] /\ b \in [1 .. n -> E]
  OBVIOUS
<1>2. a \in [1 .. n -> A] /\ b \in [1 .. n -> B]
  BY <1>1
<1>3. a \in Bijection(1 .. n, A)
  BY <1>1, <1>2 DEF Bijection, Injection, Surjection, IsInjective
<1>4. b \in Surjection(1 .. n, B)
  BY <1>1, <1>2 DEF Surjection
<1>5. A \subseteq B
  BY DEF Has
<1> HIDE DEF A, B, n
<1>6. IsFiniteSet(1 .. n) /\ Cardinality(1 .. n) = n
  BY <1>1, FS_Interval
<1>7. IsFiniteSet(A) /\ Cardinality(A) = n
  BY <1>3, <1>6, FS_Bijection DEF ExistsBijection
<1>8. IsFiniteSet(B) /\ Cardinality(B) <= n
  BY <1>4, <1>6, FS_Surjection
<1>9. Cardinality(A) <= Cardinality(B) /\ (Cardinality(B) = Cardinality(A) => B = A)
  BY <1>5, <1>8, FS_Subset
<1>10. Cardinality(B) \in Nat
  BY <1>8, FS_CardinalityType
<1>11. A = B
  BY <1>1, <1>7, <1>8, <1>9, <1>10
<1> QED
  BY <1>11 DEF A, B, Has

(* What is in one sequence after the other.                                *)
Some(q, P) == \E i \in 1 .. Len(q) : q[i] \in P

(* Something of a concatenation is of either part.                          *)
LEMMA HasConcat ==
  ASSUME NEW E, NEW q \in Seq(E), NEW r \in Seq(E), NEW P
  PROVE  /\ q \o r \in Seq(E)
         /\ Some(q \o r, P) <=> Some(q, P) \/ Some(r, P)
<1>1. /\ q \o r \in Seq(E) /\ Len(q) \in Nat /\ Len(r) \in Nat /\ Len(q \o r) = Len(q) + Len(r)
      /\ \A i \in 1 .. Len(q \o r) : (q \o r)[i] = IF i <= Len(q) THEN q[i] ELSE r[i - Len(q)]
  BY ConcatProperties, LenProperties
<1>2. ASSUME NEW i \in 1 .. Len(q)
      PROVE  i \in 1 .. Len(q \o r) /\ (q \o r)[i] = q[i]
  BY <1>1
<1>3. ASSUME NEW i \in 1 .. Len(r)
      PROVE  i + Len(q) \in 1 .. Len(q \o r) /\ (q \o r)[i + Len(q)] = r[i]
  BY <1>1
<1>4. ASSUME NEW i \in 1 .. Len(q \o r)
      PROVE  \/ i \in 1 .. Len(q) /\ (q \o r)[i] = q[i]
             \/ i - Len(q) \in 1 .. Len(r) /\ (q \o r)[i] = r[i - Len(q)]
  BY <1>1
<1> QED
  <2>1. ASSUME NEW i \in 1 .. Len(q \o r), (q \o r)[i] \in P
        PROVE  (\E j \in 1 .. Len(q) : q[j] \in P) \/ (\E j \in 1 .. Len(r) : r[j] \in P)
    BY <1>4, <2>1, Zenon
  <2>2. ASSUME NEW i \in 1 .. Len(q), q[i] \in P
        PROVE  \E j \in 1 .. Len(q \o r) : (q \o r)[j] \in P
    BY <1>2, <2>2, Zenon
  <2>3. ASSUME NEW i \in 1 .. Len(r), r[i] \in P
        PROVE  \E j \in 1 .. Len(q \o r) : (q \o r)[j] \in P
    BY <1>3, <2>3, Zenon
  <2> QED
    BY <1>1, <2>1, <2>2, <2>3, Zenon DEF Some

-----------------------------------------------------------------------------
(* Window.                                                                 *)
Window == INSTANCE Window WITH
  Setups <- WindowSetups, Stacks <- WindowStacks, MaxOps <- WindowOps,
  setup <- s1, pc <- s2, stack <- s3, mapped <- s4, iconic <- s5,
  hints <- s6, place <- s7, wm <- s8, managed <- s9, events <- s10,
  m_visible <- s11, told <- s12, closing <- s13, disconnected <- s14,
  hasty <- s15, shown <- s16, ops <- s17

(* At first there is no window.                                            *)
LEMMA WindowInitInv ==
  ASSUME Window!Init
  PROVE  Window!Inv
<1>1. Window!Typed
  <2>1. <<>> \in Seq({"state", "expose", "destroy", "delete"})
    OBVIOUS
  <2> QED
    BY <2>1 DEF Window!Init, Window!Typed
<1>2. s8 = <<>> /\ s8 \in Window!Moving /\ s8 \notin Window!Again
  BY DEF Window!Init, Window!Moving, Window!Again
<1> QED
  BY <1>1, <1>2 DEF Window!Init, Window!Inv, Window!MapsWhatIsVisible, Window!Tells,
     Window!Asks, Window!Exists, Window!Started

(* The requests to the manager: those that are made ...                    *)
LEMMA WindowTwo ==
  ASSUME NEW a, NEW b
  PROVE  <<a>> \o <<b>> = <<a, b>>
<1> DEFINE E == {a, b}
<1>1. <<a>> \in Seq(E) /\ <<b>> \in Seq(E) /\ <<a, b>> \in Seq(E)
  OBVIOUS
<1>2. Len(<<a>>) = 1 /\ Len(<<b>>) = 1 /\ Len(<<a, b>>) = 2
  OBVIOUS
<1>3. <<a>>[1] = a /\ <<b>>[1] = b /\ <<a, b>>[1] = a /\ <<a, b>>[2] = b
  OBVIOUS
<1>4. /\ <<a>> \o <<b>> \in Seq(E) /\ Len(<<a>> \o <<b>>) = 2
      /\ (<<a>> \o <<b>>)[1] = a /\ (<<a>> \o <<b>>)[2] = b
  BY <1>1, <1>2, <1>3, ConcatProperties
<1>5. \A i \in 1 .. 2 : i = 1 \/ i = 2
  OBVIOUS
<1> QED
  <2>1. \A i \in 1 .. Len(<<a>> \o <<b>>) : (<<a>> \o <<b>>)[i] = <<a, b>>[i]
    BY <1>2, <1>3, <1>4, <1>5
  <2> HIDE DEF E
  <2> QED
    BY <2>1, <1>1, <1>2, <1>4, SeqEqual

(* A sequence of three.                                                     *)
LEMMA WindowThree ==
  ASSUME NEW a, NEW b, NEW c
  PROVE  <<a>> \o <<b, c>> = <<a, b, c>>
<1> DEFINE E == {a, b, c}
<1>1. <<a>> \in Seq(E) /\ <<b, c>> \in Seq(E) /\ <<a, b, c>> \in Seq(E)
  OBVIOUS
<1>2. Len(<<a>>) = 1 /\ Len(<<b, c>>) = 2 /\ Len(<<a, b, c>>) = 3
  OBVIOUS
<1>3. /\ <<a>>[1] = a /\ <<b, c>>[1] = b /\ <<b, c>>[2] = c
      /\ <<a, b, c>>[1] = a /\ <<a, b, c>>[2] = b /\ <<a, b, c>>[3] = c
  OBVIOUS
<1>4. /\ <<a>> \o <<b, c>> \in Seq(E) /\ Len(<<a>> \o <<b, c>>) = 3 /\ (<<a>> \o <<b, c>>)[1] = a
      /\ (<<a>> \o <<b, c>>)[2] = b /\ (<<a>> \o <<b, c>>)[3] = c
  BY <1>1, <1>2, <1>3, ConcatProperties
<1>5. \A i \in 1 .. 3 : i = 1 \/ i = 2 \/ i = 3
  OBVIOUS
<1> QED
  <2>1. \A i \in 1 .. Len(<<a>> \o <<b, c>>) : (<<a>> \o <<b, c>>)[i] = <<a, b, c>>[i]
    BY <1>2, <1>3, <1>4, <1>5
  <2> HIDE DEF E
  <2> QED
    BY <2>1, <1>1, <1>2, <1>4, SeqEqual

(* The requests that may stand behind a move.                               *)
LEMMA WindowRequested ==
  /\ \A rs : rs = <<>> \/ rs = <<"map">> => "move" \in Window!Range(<<"move">> \o rs)
  /\ "move" \in Window!Range(<<"map", "move">>) /\ <<"move">> \o <<>> = <<"move">>
  /\ <<"move">> \o <<"map">> = <<"move", "map">>
<1>1. <<"move">> \o <<>> = <<"move">> /\ <<"move">> \o <<"map">> = <<"move", "map">>
  <2>1. <<"move">> \o <<>> = <<"move">>
    OBVIOUS
  <2> QED
    BY <2>1, WindowTwo
<1>2. "move" \in Window!Range(<<"move">>)
  <2>1. 1 \in DOMAIN <<"move">> /\ <<"move">>[1] = "move"
    OBVIOUS
  <2> QED
    BY <2>1 DEF Window!Range
<1>3. "move" \in Window!Range(<<"move", "map">>)
  <2>1. 1 \in DOMAIN <<"move", "map">> /\ <<"move", "map">>[1] = "move"
    OBVIOUS
  <2> QED
    BY <2>1 DEF Window!Range
<1>4. "move" \in Window!Range(<<"map", "move">>)
  <2>1. 2 \in DOMAIN <<"map", "move">> /\ <<"map", "move">>[2] = "move"
    OBVIOUS
  <2> QED
    BY <2>1 DEF Window!Range
<1> QED
  BY <1>1, <1>2, <1>3, <1>4

(* ... how they queue up and are taken, and which they are.                *)
LEMMA WindowQueued ==
  /\ <<>> \o <<"move">> = <<"move">> /\ <<>> \o <<>> = <<>> /\ <<"move">> \o <<>> = <<"move">>
  /\ <<>> \o <<"map", "move">> = <<"map", "move">> /\ <<>> \o <<"unmap">> = <<"unmap">>
  /\ <<"move">> \o <<"map", "move">> = <<"move", "map", "move">>
  /\ <<"move">> \o <<"unmap">> = <<"move", "unmap">>
  /\ <<>> \o <<"move", "map">> = <<"move", "map">>
<1>1. <<>> \o <<"move">> = <<"move">> /\ <<>> \o <<>> = <<>> /\ <<"move">> \o <<>> = <<"move">>
  OBVIOUS
<1>2. <<>> \o <<"map", "move">> = <<"map", "move">> /\ <<>> \o <<"unmap">> = <<"unmap">>
  OBVIOUS
<1>3. <<>> \o <<"move", "map">> = <<"move", "map">>
  OBVIOUS
<1> QED
  BY <1>1, <1>2, <1>3, WindowTwo, WindowThree

(* The first of the requests, and the others.                               *)
LEMMA WindowDequeued ==
  /\ Head(<<"move", "map", "move">>) = "move" /\ Tail(<<"move", "map", "move">>) = <<"map", "move">>
  /\ Head(<<"map", "move">>) = "map" /\ Tail(<<"map", "move">>) = <<"move">>
  /\ Head(<<"move", "map">>) = "move" /\ Tail(<<"move", "map">>) = <<"map">>
  /\ Head(<<"map">>) = "map" /\ Tail(<<"map">>) = <<>>
  /\ Head(<<"move", "unmap">>) = "move" /\ Tail(<<"move", "unmap">>) = <<"unmap">>
  /\ Head(<<"unmap">>) = "unmap" /\ Tail(<<"unmap">>) = <<>>
  /\ Head(<<"move">>) = "move" /\ Tail(<<"move">>) = <<>>
  OBVIOUS

(* The kinds of requests have nothing in common.                            *)
LEMMA WindowDistinct ==
  /\ \A s \in Window!First \cup Window!Again \cup Window!Unmapping : s # <<>> /\ s \notin Window!Moving
  /\ Window!First \cap Window!Again = {} /\ Window!First \cap Window!Unmapping = {} /\ Window!Again \cap Window!Unmapping = {}
  BY DEF Window!First, Window!Again, Window!Unmapping, Window!Moving

(* What is left of the requests, one of them taken.                        *)
LEMMA WindowTakenFirst ==
  ASSUME s8 \in Window!First
  PROVE  /\ s8 # <<>> /\ Head(s8) \in {"move", "map"}
         /\ Head(s8) = "move" => Tail(s8) \in Window!First
         /\ Head(s8) = "map" => Tail(s8) = <<"move">>
<1>1. CASE s8 = <<"move", "map", "move">>
  BY <1>1, WindowDequeued, WindowDistinct DEF Window!First
<1>2. CASE s8 = <<"map", "move">>
  BY <1>2, WindowDequeued, WindowDistinct DEF Window!First
<1> QED
  BY <1>1, <1>2 DEF Window!First

(* What is left of those that map the window again.                         *)
LEMMA WindowTakenAgain ==
  ASSUME s8 \in Window!Again
  PROVE  /\ s8 # <<>> /\ Head(s8) \in {"move", "map"}
         /\ Head(s8) = "move" => Tail(s8) \in Window!Again
         /\ Head(s8) = "map" => s8 = <<"map">> /\ Tail(s8) = <<>>
<1>1. CASE s8 = <<"move", "map">>
  BY <1>1, WindowDequeued, WindowDistinct DEF Window!Again
<1>2. CASE s8 = <<"map">>
  BY <1>2, WindowDequeued, WindowDistinct DEF Window!Again
<1> QED
  BY <1>1, <1>2 DEF Window!Again

(* What is left of those that end with the window unmapped.                 *)
LEMMA WindowTakenUnmapping ==
  ASSUME s8 \in Window!Unmapping
  PROVE  /\ s8 # <<>> /\ Head(s8) \in {"move", "unmap"}
         /\ Head(s8) = "move" => Tail(s8) \in Window!Unmapping
         /\ Head(s8) = "unmap" => s8 = <<"unmap">> /\ Tail(s8) = <<>>
<1>1. CASE s8 = <<"move", "unmap">>
  BY <1>1, WindowDequeued, WindowDistinct DEF Window!Unmapping
<1>2. CASE s8 = <<"unmap">>
  BY <1>2, WindowDequeued, WindowDistinct DEF Window!Unmapping
<1> QED
  BY <1>1, <1>2 DEF Window!Unmapping

(* What is left of a move.                                                  *)
LEMMA WindowTakenMoving ==
  ASSUME s8 \in Window!Moving, s8 # <<>>
  PROVE  Head(s8) = "move" /\ Tail(s8) = <<>> /\ s8 = <<"move">>
  BY WindowDequeued DEF Window!Moving

(* An event that follows tells of the state; one that does not, does not.  *)
LEMMA WindowFollowed ==
  ASSUME NEW e \in {"state", "expose", "destroy", "delete"}, Window!Typed, s10' = Append(s10, e)
  PROVE  /\ s10' \in Seq({"state", "expose", "destroy", "delete"})
         /\ Window!Coming' <=> Window!Coming \/ e = "state"
  BY HasAppend DEF Window!Typed, Window!Coming

(* An event that was handled changes nothing outside.                       *)
LEMMA WindowHandled ==
  ASSUME NEW e, Window!Typed, Window!Event(e)
  PROVE  /\ s10' \in Seq({"state", "expose", "destroy", "delete"})
         /\ e # "state" => (Window!Coming' <=> Window!Coming)
         /\ UNCHANGED <<s1, s2, Window!server, Window!wmanager, s11, s13, s15, s16, s17>>
<1>1. s10 \in Seq({"state", "expose", "destroy", "delete"}) /\ s10 # <<>>
  BY DEF Window!Typed, Window!Event
<1>2. s10' = Tail(s10) /\ Head(s10) = e
  BY DEF Window!Event
<1>3. UNCHANGED <<s1, s2, Window!server, Window!wmanager, s11, s13, s15, s16, s17>>
  BY DEF Window!Event
<1>4. Window!Coming <=> e = "state" \/ Window!Coming'
  <2>1. (\E i \in 1 .. Len(s10) : s10[i] \in {"state"})
         <=> Head(s10) \in {"state"} \/ \E i \in 1 .. Len(Tail(s10)) : Tail(s10)[i] \in {"state"}
    BY <1>1, HasTail
  <2> QED
    BY <1>2, <2>1 DEF Window!Coming
<1>5. s10' \in Seq({"state", "expose", "destroy", "delete"})
  BY <1>1, <1>2, HasTail
<1> QED
  BY <1>3, <1>4, <1>5


(* The worker creates the window, maps it, and says so.                    *)
LEMMA WindowCreateKeeps ==
  ASSUME Window!Inv, Window!Create
  PROVE  Window!Inv'
<1>1. s2 = "create" /\ s2' = "map" /\ ~Window!Exists /\ Window!Exists' /\ ~Window!Started /\ ~Window!Started'
  BY DEF Window!Create, Window!Exists, Window!Started
<1>2. /\ s6' = Window!WmHints /\ s4' = (IF s1.override THEN FALSE ELSE s4 /\ FALSE)
      /\ s8' = (IF s1.override THEN s8 ELSE s8 \o <<"move">>)
      /\ s7' = (IF s1.override THEN "asked" ELSE s7)
  <2>1. Window!Requests(<<"move">>, FALSE) /\ s6' = Window!WmHints
    BY WindowRequested DEF Window!Create, Window!Reconfigure
  <2>2. "move" \in Window!Range(<<"move">>)
    BY WindowRequested
  <2> QED
    BY <2>1, <2>2 DEF Window!Requests
<1>3. UNCHANGED <<s1, s5, s9, s10, s11, s12, s13, s15, s16>>
  BY DEF Window!Create, Window!main
<1>4. Window!Typed'
  BY <1>1, <1>2, <1>3 DEF Window!Inv, Window!Typed
<1>5. (s1.override => s8 = <<>> /\ ~s5)'
  BY <1>2, <1>3 DEF Window!Inv
<1>6. ASSUME ~s15', ~s13'
      PROVE  Window!MapsWhatIsVisible' /\ Window!Tells' /\ Window!Asks'
  <2>1. s8 = <<>> /\ ~s4 /\ s11
    BY <1>1, <1>3, <1>6 DEF Window!Inv, Window!MapsWhatIsVisible
  <2>2. s8' = IF s1.override THEN <<>> ELSE <<"move">>
    BY <1>2, <2>1, WindowQueued
  <2>3. s8' \in Window!Moving /\ s8' \notin Window!Again
    BY <2>2, WindowDistinct DEF Window!Moving
  <2>4. Window!MapsWhatIsVisible'
    BY <1>1, <1>2, <1>3, <2>1, <2>3 DEF Window!MapsWhatIsVisible
  <2>5. Window!Tells'
    BY <1>1 DEF Window!Tells
  <2>6. Window!Asks'
    BY <1>2, <2>2, <2>3 DEF Window!Asks
  <2> QED
    BY <2>4, <2>5, <2>6
<1> QED
  BY <1>3, <1>4, <1>5, <1>6 DEF Window!Inv

(* Mapping the window keeps the invariant.                                  *)
LEMMA WindowMapKeeps ==
  ASSUME Window!Inv, Window!Map
  PROVE  Window!Inv'
<1>1. s2 = "map" /\ s2' = "announce" /\ Window!Exists /\ Window!Exists' /\ ~Window!Started /\ Window!Started'
  BY DEF Window!Map, Window!Exists, Window!Started
<1>2. /\ s4' = (IF s1.override THEN TRUE ELSE s4 /\ (s1.override \/ s4))
      /\ s8' = (IF s1.override THEN s8 ELSE s8 \o <<"map", "move">>)
      /\ s7' = (IF s1.override THEN "asked" ELSE s7)
  <2>1. Window!Requests(<<"map", "move">>, s1.override \/ s4)
    BY DEF Window!Map
  <2> QED
    BY <2>1, WindowRequested DEF Window!Requests
<1>3. UNCHANGED <<s1, s5, s6, s9, s10, s11, s12, s13, s15, s16>>
  BY DEF Window!Map, Window!main
<1>4. Window!Typed'
  BY <1>1, <1>2, <1>3 DEF Window!Inv, Window!Typed
<1>5. (s1.override => s8 = <<>> /\ ~s5)'
  BY <1>2, <1>3 DEF Window!Inv
<1>6. ASSUME ~s15', ~s13'
      PROVE  Window!MapsWhatIsVisible' /\ Window!Tells' /\ Window!Asks'
  <2>1. s8 \in Window!Moving /\ ~s4 /\ s11 /\ s6 = Window!WmHints
    BY <1>1, <1>3, <1>6 DEF Window!Inv, Window!MapsWhatIsVisible
  <2>2. s1.override => s8' = <<>> /\ s4' /\ s7' = "asked"
    BY <1>2 DEF Window!Inv
  <2>3. ~s1.override => s8' \in Window!First /\ ~s4'
    BY <1>2, <2>1, WindowQueued DEF Window!First, Window!Moving
  <2>4. s8' \notin Window!Again
    BY <2>2, <2>3, WindowDistinct
  <2>5. Window!MapsWhatIsVisible'
    <3>1. CASE s1.override
      BY <1>1, <1>3, <2>1, <2>2, <3>1 DEF Window!MapsWhatIsVisible, Window!Moving,
         Window!Inv, Window!Typed
    <3>2. CASE ~s1.override
      BY <1>1, <1>3, <2>1, <2>3, <3>2 DEF Window!MapsWhatIsVisible
    <3> QED
      BY <3>1, <3>2
  <2>6. Window!Tells'
    BY <1>1 DEF Window!Tells
  <2>7. Window!Asks'
    BY <2>2, <2>3, <2>4 DEF Window!Asks
  <2> QED
    BY <2>5, <2>6, <2>7
<1> QED
  BY <1>3, <1>4, <1>5, <1>6 DEF Window!Inv

(* So does what is announced next.                                          *)
LEMMA WindowAnnounceKeeps ==
  ASSUME Window!Inv, Window!Announce
  PROVE  Window!Inv'
<1>1. s2 = "announce" /\ s2' = "done" /\ Window!Exists /\ Window!Exists' /\ Window!Started /\ Window!Started'
  BY DEF Window!Announce, Window!Exists, Window!Started
<1>2. s12' = Window!Viewable
  BY DEF Window!Announce
<1>3. UNCHANGED <<s1, s4, s5, s6, s7, s8, s9, s10, s11, s13, s15, s16>>
  BY DEF Window!Announce, Window!server, Window!wmanager
<1>4. Window!Typed'
  BY <1>1, <1>2, <1>3 DEF Window!Inv, Window!Typed, Window!Viewable
<1>5. ASSUME ~s15', ~s13'
      PROVE  Window!MapsWhatIsVisible' /\ Window!Tells' /\ Window!Asks'
  <2>1. Window!MapsWhatIsVisible'
    BY <1>1, <1>3, <1>5 DEF Window!Inv, Window!MapsWhatIsVisible
  <2>2. Window!Tells'
    BY <1>2, <1>3 DEF Window!Tells, Window!Viewable
  <2>3. Window!Asks'
    BY <1>1, <1>3, <1>5 DEF Window!Inv, Window!Asks
  <2> QED
    BY <2>1, <2>2, <2>3
<1> QED
  BY <1>3, <1>4, <1>5 DEF Window!Inv

(* The commands: nothing is hidden before it exists; once it does, it is   *)
(* hidden and shown again.                                                 *)
LEMMA WindowHideKeeps ==
  ASSUME Window!Inv, Window!Hide
  PROVE  Window!Inv'
<1>1. /\ s11 /\ s12' = FALSE /\ s11' = ~Window!Exists /\ ~s13
      /\ s15' = (s15 \/ (Window!Exists /\ ~s4))
      /\ UNCHANGED <<s1, s2, s5, s9, s13, s6, s10, s16>>
  BY DEF Window!Hide, Window!Command
<1>2. /\ ~Window!Exists => UNCHANGED <<s4, s8, s7>>
      /\ Window!Exists => Window!Requests(IF s4 THEN <<"unmap">> ELSE <<>>, FALSE)
  BY DEF Window!Hide
<1>3. Window!Exists' = Window!Exists /\ Window!Started' = Window!Started /\ Window!Coming' = Window!Coming
  BY <1>1 DEF Window!Exists, Window!Started, Window!Coming
<1>4. CASE ~Window!Exists
  <2>1. UNCHANGED <<s4, s8, s7>> /\ s11' /\ s15' = s15
    BY <1>1, <1>2, <1>4 DEF Window!Inv, Window!Typed
  <2>2. Window!Typed'
    BY <1>1, <2>1 DEF Window!Inv, Window!Typed
  <2>3. ASSUME ~s15'
        PROVE  Window!MapsWhatIsVisible' /\ Window!Tells' /\ Window!Asks'
    <3>1. Window!MapsWhatIsVisible /\ Window!Asks /\ s2 = "create"
      BY <1>1, <1>4, <2>1, <2>3 DEF Window!Inv, Window!Exists
    <3>2. Window!MapsWhatIsVisible'
      BY <1>1, <1>3, <1>4, <2>1, <3>1 DEF Window!MapsWhatIsVisible, Window!Started
    <3>3. Window!Tells'
      BY <1>1, <3>1 DEF Window!Tells
    <3>4. Window!Asks'
      BY <1>1, <1>3, <2>1, <3>1 DEF Window!Asks
    <3> QED
      BY <3>2, <3>3, <3>4
  <2> QED
    BY <1>1, <2>1, <2>2, <2>3 DEF Window!Inv
<1>5. CASE Window!Exists
  <2>1. /\ s1.override => s4' = FALSE /\ s8' = s8
        /\ ~s1.override => /\ s4' = (s4 /\ FALSE) /\ s7' = s7
                              /\ s8' = s8 \o (IF s4 THEN <<"unmap">> ELSE <<>>)
        /\ s7' \in {s7, "asked"} /\ ~s11'
    BY <1>1, <1>2, <1>5 DEF Window!Requests
  <2>2. Window!Typed'
    BY <1>1, <2>1 DEF Window!Inv, Window!Typed
  <2>3. (s1.override => s8 = <<>> /\ ~s5)'
    BY <1>1, <2>1 DEF Window!Inv
  <2>4. ASSUME ~s15'
        PROVE  Window!MapsWhatIsVisible' /\ Window!Tells' /\ Window!Asks'
    <3>1. ~s15 /\ s4 /\ Window!MapsWhatIsVisible /\ Window!Asks
      BY <1>1, <1>5, <2>4 DEF Window!Inv, Window!Typed
    <3>2. Window!Started /\ s8 \in Window!Moving
      BY <3>1, <1>1 DEF Window!MapsWhatIsVisible
    <3>3. s1.override => s8' = <<>> /\ ~s4'
      BY <2>1 DEF Window!Inv
    <3>4. ~s1.override => ~s4' /\ s8' \in Window!Unmapping
                              /\ (s8 = <<>> => s8' = <<"unmap">>) /\ (s8 # <<>> => s8' = <<"move", "unmap">>)
      <4>1. s8 = <<>> \/ s8 = <<"move">>
        BY <3>2 DEF Window!Moving
      <4>2. <<"move">> # <<>> /\ <<"unmap">> \in Window!Unmapping /\ <<"move", "unmap">> \in Window!Unmapping
        BY DEF Window!Unmapping
      <4> QED
        BY <2>1, <3>1, <4>1, <4>2, WindowQueued
    <3>5. Window!MapsWhatIsVisible'
      <4>1. CASE s1.override
        BY <1>1, <1>3, <2>1, <3>2, <3>3, <4>1 DEF Window!MapsWhatIsVisible,
           Window!Moving
      <4>2. CASE ~s1.override
        BY <1>1, <1>3, <2>1, <3>2, <3>4, <4>2 DEF Window!MapsWhatIsVisible
      <4> QED
        BY <4>1, <4>2
    <3>6. Window!Tells'
      BY <1>1, <3>3, <3>4 DEF Window!Tells, Window!Viewable
    <3>7. Window!Asks'
      <4>1. s8' \notin Window!Again
        BY <3>3, <3>4, WindowDistinct
      <4>2. s8 = <<>> => s7 = "asked" \/ (s1.placing /\ s16)
        BY <3>1, <1>5, WindowDistinct DEF Window!Asks
      <4> QED
        BY <1>1, <2>1, <3>3, <3>4, <4>1, <4>2, WindowDistinct DEF Window!Asks,
           Window!Inv
    <3> QED
      BY <3>5, <3>6, <3>7
  <2> QED
    BY <1>1, <2>2, <2>3, <2>4 DEF Window!Inv
<1> QED
  BY <1>4, <1>5

(* So does showing it again.                                                *)
LEMMA WindowShowKeeps ==
  ASSUME Window!Inv, Window!Show
  PROVE  Window!Inv'
<1>1. /\ ~s11 /\ s11' = TRUE /\ s12' = TRUE /\ ~s13 /\ s6' = Window!WmHints
      /\ s15' = (s15 \/ s8 # <<>>) /\ s16' = TRUE
      /\ UNCHANGED <<s1, s2, s5, s9, s13, s10>>
  BY DEF Window!Show, Window!Command, Window!Reconfigure
<1>2. /\ s8' = (IF s1.override THEN s8 ELSE s8 \o <<"move", "map">>)
      /\ s4' = (IF s1.override THEN TRUE ELSE s4 /\ (s1.override \/ s4))
      /\ s7' = (IF s1.override THEN "asked" ELSE s7)
  <2>1. Window!Requests(<<"move">> \o <<"map">>, s1.override \/ s4)
    BY DEF Window!Show, Window!Reconfigure
  <2>2. "move" \in Window!Range(<<"move">> \o <<"map">>) /\ <<"move">> \o <<"map">> = <<"move", "map">>
    BY WindowRequested
  <2> QED
    BY <2>1, <2>2 DEF Window!Requests
<1>3. Window!Exists' = Window!Exists /\ Window!Started' = Window!Started
  BY <1>1 DEF Window!Exists, Window!Started
<1>4. Window!Typed'
  BY <1>1, <1>2 DEF Window!Inv, Window!Typed
<1>5. (s1.override => s8 = <<>> /\ ~s5)'
  BY <1>1, <1>2 DEF Window!Inv
<1>6. ASSUME ~s15'
      PROVE  Window!MapsWhatIsVisible' /\ Window!Tells' /\ Window!Asks'
  <2>1. s8 = <<>> /\ Window!Started /\ ~s4
    <3>1. s8 = <<>> /\ Window!MapsWhatIsVisible
      BY <1>1, <1>6 DEF Window!Inv
    <3>2. s8 \notin Window!First \cup Window!Again \cup Window!Unmapping
      BY <3>1, WindowDistinct
    <3> QED
      BY <1>1, <3>1, <3>2 DEF Window!MapsWhatIsVisible
  <2>2. ~s1.override => s8' \in Window!Again /\ s8' = <<"move", "map">> /\ ~s4'
    BY <1>2, <2>1, WindowQueued DEF Window!Again
  <2>3. s1.override => s8' = <<>> /\ s4' /\ ~s5'
    BY <1>1, <1>2, <2>1 DEF Window!Inv
  <2>4. Window!MapsWhatIsVisible'
    <3>1. CASE s1.override
      BY <1>1, <1>2, <1>3, <2>1, <2>3, <3>1 DEF Window!MapsWhatIsVisible,
         Window!Moving
    <3>2. CASE ~s1.override
      BY <1>1, <1>3, <2>1, <2>2, <3>2 DEF Window!MapsWhatIsVisible
    <3> QED
      BY <3>1, <3>2
  <2>5. Window!Tells'
    BY <1>1, <2>2, <2>3 DEF Window!Tells, Window!Viewable
  <2>6. Window!Asks'
    BY <1>1, <1>2, <2>2 DEF Window!Asks
  <2> QED
    BY <2>4, <2>5, <2>6
<1> QED
  <2>1. ~s15' => ~s15 /\ s9' = Window!WmHints
    BY <1>1 DEF Window!Inv
  <2> QED
    BY <1>4, <1>5, <1>6, <2>1 DEF Window!Inv


(* The events.  The main thread looks again when the state has changed.    *)
LEMMA WindowHandleEventKeeps ==
  ASSUME Window!Inv, Window!HandleEvent
  PROVE  Window!Inv'
<1>1. PICK e : Window!Event(e) /\ (e = "state" => s12' = Window!Viewable)
                        /\ (e # "state" => s12' \in {s12, Window!Viewable})
  BY DEF Window!HandleEvent, Window!BroadcastVisibility, Window!HandleExpose,
     Window!Shutdown
<1>2. Window!Typed
  BY DEF Window!Inv
<1>3. /\ s10' \in Seq({"state", "expose", "destroy", "delete"})
      /\ e # "state" => (Window!Coming' <=> Window!Coming)
      /\ UNCHANGED <<s1, s2, s4, s5, s6, s7, s8, s9, s11, s13, s15, s16>>
  BY <1>1, <1>2, WindowHandled DEF Window!server, Window!wmanager
<1>4. Window!Exists' = Window!Exists /\ Window!Started' = Window!Started /\ Window!Viewable' = Window!Viewable
  BY <1>3 DEF Window!Exists, Window!Started, Window!Viewable
<1>5. Window!Typed'
  BY <1>1, <1>2, <1>3 DEF Window!Typed, Window!Viewable
<1>6. ASSUME ~s15', ~s13'
      PROVE  Window!MapsWhatIsVisible' /\ Window!Tells' /\ Window!Asks'
  <2>1. Window!MapsWhatIsVisible /\ Window!Tells /\ Window!Asks
    BY <1>3, <1>6 DEF Window!Inv
  <2>2. Window!MapsWhatIsVisible'
    BY <1>3, <1>4, <2>1 DEF Window!MapsWhatIsVisible
  <2>3. Window!Tells'
    BY <1>1, <1>3, <1>4, <2>1 DEF Window!Tells
  <2>4. Window!Asks'
    BY <1>3, <1>4, <2>1 DEF Window!Asks
  <2> QED
    BY <2>2, <2>3, <2>4
<1> QED
  BY <1>3, <1>5, <1>6 DEF Window!Inv

(* The manager serves the requests.                                        *)
LEMMA WindowManageKeeps ==
  ASSUME Window!Inv, Window!Manage
  PROVE  Window!Inv'
<1>1. /\ s8 # <<>> /\ Head(s8) = "map" /\ s8' = Tail(s8) /\ ~s13
      /\ s4' = TRUE /\ s5' = FALSE /\ s9' = s6
      /\ s7' = (IF s1.placing THEN "chosen" ELSE s7)
      /\ UNCHANGED <<s1, s2, s11, s12, s13, s15, s16, s6>>
  BY DEF Window!Manage, Window!Serves, Window!main
<1>2. s10' \in Seq({"state", "expose", "destroy", "delete"}) /\ Window!Coming'
  <2>1. Window!Typed /\ s10' = Append(s10, "state")
    BY DEF Window!Inv, Window!Manage
  <2> QED
    BY <2>1, WindowFollowed
<1>3. Window!Exists' = Window!Exists /\ Window!Started' = Window!Started
  BY <1>1 DEF Window!Exists, Window!Started
<1>4. Window!Typed'
  BY <1>1, <1>2 DEF Window!Inv, Window!Typed
<1>5. ~s1'.override
  BY <1>1 DEF Window!Inv
<1>6. ASSUME ~s15'
      PROVE  s9' = Window!WmHints /\ Window!MapsWhatIsVisible' /\ Window!Tells' /\ Window!Asks'
  <2>1. Window!MapsWhatIsVisible /\ Window!Asks /\ Window!Tells
    BY <1>1, <1>6 DEF Window!Inv
  <2>2. s8 \notin Window!Moving /\ s8 \notin Window!Unmapping
    BY <1>1, WindowTakenMoving, WindowTakenUnmapping
  <2>3. s8 \in Window!First \cup Window!Again /\ Window!Started /\ s11 /\ s6 = Window!WmHints
    BY <1>1, <2>1, <2>2 DEF Window!MapsWhatIsVisible, Window!Exists, Window!Started
  <2>4. /\ s8 \in Window!First => s8' = <<"move">>
        /\ s8 \in Window!Again => s8' = <<>> /\ s8 = <<"map">>
    BY <1>1, WindowTakenFirst, WindowTakenAgain
  <2>5. s8' \in Window!Moving /\ s8' \notin Window!Again
    BY <2>3, <2>4, WindowDistinct DEF Window!Moving
  <2>6. Window!MapsWhatIsVisible'
    BY <1>1, <1>3, <2>3, <2>5 DEF Window!MapsWhatIsVisible, Window!Inv, Window!Typed
  <2>7. Window!Tells'
    BY <1>2 DEF Window!Tells
  <2>8. Window!Asks'
    <3>1. CASE s8 \in Window!First
      BY <2>4, <2>5, <3>1 DEF Window!Asks
    <3>2. CASE s8 \in Window!Again
      <4>1. s16 /\ s8 = <<"map">> /\ s8 \notin Window!First
        BY <2>1, <2>4, <3>2, WindowDistinct DEF Window!Asks
      <4>2. <<"map">> \notin {<<"move", "map">>, <<"move", "unmap">>, <<"move">>}
        OBVIOUS
      <4>3. Window!Exists
        BY <2>3 DEF Window!Started, Window!Exists
      <4>4. s7 = "asked" \/ s1.placing
        BY <2>1, <4>1, <4>2, <4>3 DEF Window!Asks
      <4>5. s7' = "asked" \/ (s1'.placing /\ s16')
        BY <1>1, <4>1, <4>4
      <4> QED
        BY <2>5, <4>5 DEF Window!Asks
    <3> QED
      BY <2>3, <3>1, <3>2
  <2> QED
    BY <1>1, <2>3, <2>6, <2>7, <2>8
<1> QED
  BY <1>4, <1>5, <1>6 DEF Window!Inv

(* So does the manager that withdraws it.                                   *)
LEMMA WindowWithdrawKeeps ==
  ASSUME Window!Inv, Window!Withdraw
  PROVE  Window!Inv'
<1>1. /\ s8 # <<>> /\ Head(s8) = "unmap" /\ s8' = Tail(s8) /\ s6' = s6 \ {"state", "desktop"}
      /\ UNCHANGED <<s1, s2, s4, s5, s7, s9, s11, s12, s13, s15, s16>>
      /\ ~s13
  BY DEF Window!Withdraw, Window!Serves, Window!main
<1>2. s10' \in Seq({"state", "expose", "destroy", "delete"}) /\ Window!Coming'
  <2>1. Window!Typed /\ s10' = Append(s10, "state")
    BY DEF Window!Inv, Window!Withdraw
  <2> QED
    BY <2>1, WindowFollowed
<1>3. Window!Exists' = Window!Exists /\ Window!Started' = Window!Started
  BY <1>1 DEF Window!Exists, Window!Started
<1>4. Window!Typed'
  BY <1>1, <1>2 DEF Window!Inv, Window!Typed
<1>5. ~s1'.override
  BY <1>1 DEF Window!Inv
<1>6. ASSUME ~s15'
      PROVE  s9' = Window!WmHints /\ Window!MapsWhatIsVisible' /\ Window!Tells' /\ Window!Asks'
  <2>1. Window!MapsWhatIsVisible /\ Window!Asks /\ s9 = Window!WmHints
    BY <1>1, <1>6 DEF Window!Inv
  <2>2. s8 \notin Window!Moving /\ s8 \notin Window!First /\ s8 \notin Window!Again
    BY <1>1, WindowTakenMoving, WindowTakenFirst, WindowTakenAgain
  <2>3. s8 \in Window!Unmapping /\ Window!Started /\ ~s4 /\ ~s11
    BY <1>1, <2>1, <2>2 DEF Window!MapsWhatIsVisible, Window!Exists, Window!Started
  <2>4. s8' = <<>> /\ s8 = <<"unmap">>
    BY <1>1, <2>3, WindowTakenUnmapping
  <2>5. s8' \in Window!Moving /\ s8' \notin Window!Again
    BY <2>4, WindowDistinct DEF Window!Moving
  <2>6. Window!MapsWhatIsVisible'
    BY <1>1, <1>3, <2>3, <2>5 DEF Window!MapsWhatIsVisible, Window!Inv, Window!Typed
  <2>7. Window!Tells'
    BY <1>2 DEF Window!Tells
  <2>8. Window!Asks'
    <3>1. <<"unmap">> \notin {<<"move", "map">>, <<"move", "unmap">>, <<"move">>}
      OBVIOUS
    <3>2. Window!Exists
      BY <2>3 DEF Window!Started, Window!Exists
    <3>3. s7 = "asked" \/ (s1.placing /\ s16)
      BY <2>1, <2>2, <2>4, <3>1, <3>2 DEF Window!Asks
    <3> QED
      BY <1>1, <2>5, <3>3 DEF Window!Asks
  <2> QED
    BY <1>1, <2>1, <2>6, <2>7, <2>8
<1> QED
  BY <1>4, <1>5, <1>6 DEF Window!Inv

(* So does the manager that moves it.                                       *)
LEMMA WindowPlaceKeeps ==
  ASSUME Window!Inv, Window!Place
  PROVE  Window!Inv'
<1>1. /\ s8 # <<>> /\ Head(s8) = "move" /\ s8' = Tail(s8) /\ s7' = "asked" /\ ~s13
      /\ UNCHANGED <<s1, s2, s4, s5, s6, s9, s10, s11, s12, s13, s15, s16>>
  BY DEF Window!Place, Window!Serves, Window!main
<1>2. Window!Exists' = Window!Exists /\ Window!Started' = Window!Started /\ Window!Coming' = Window!Coming /\ Window!Viewable' = Window!Viewable
  BY <1>1 DEF Window!Exists, Window!Started, Window!Coming, Window!Viewable
<1>3. Window!Typed'
  BY <1>1 DEF Window!Inv, Window!Typed
<1>4. ~s1'.override
  BY <1>1 DEF Window!Inv
<1>5. /\ s8 \in Window!First => s8' \in Window!First
      /\ s8 \in Window!Again => s8' \in Window!Again
      /\ s8 \in Window!Unmapping => s8' \in Window!Unmapping
      /\ s8 \in Window!Moving => s8' = <<>>
  BY <1>1, WindowTakenFirst, WindowTakenAgain, WindowTakenUnmapping, WindowTakenMoving
<1>6. ASSUME ~s15'
      PROVE  s9' = Window!WmHints /\ Window!MapsWhatIsVisible' /\ Window!Tells' /\ Window!Asks'
  <2>1. Window!MapsWhatIsVisible /\ Window!Tells /\ Window!Asks /\ s9 = Window!WmHints
    BY <1>1, <1>6 DEF Window!Inv
  <2>2. <<>> \in Window!Moving /\ <<>> \notin Window!First \cup Window!Again \cup Window!Unmapping
    BY WindowDistinct DEF Window!Moving
  <2>3. Window!MapsWhatIsVisible'
    <3>1. CASE ~Window!Started /\ ~s4 /\ s11 /\ Window!Exists /\ s8 \in Window!Moving /\ s6 = Window!WmHints
      BY <1>1, <1>2, <1>5, <2>2, <3>1 DEF Window!MapsWhatIsVisible
    <3>2. CASE Window!Started /\ s8 \in Window!First \cup Window!Again /\ ~s4 /\ s11 /\ s6 = Window!WmHints
      BY <1>1, <1>2, <1>5, <3>2 DEF Window!MapsWhatIsVisible
    <3>3. CASE Window!Started /\ s8 \in Window!Unmapping /\ ~s4 /\ ~s11
      BY <1>1, <1>2, <1>5, <3>3 DEF Window!MapsWhatIsVisible
    <3>4. CASE Window!Started /\ s8 \in Window!Moving /\ s4 = s11
      BY <1>1, <1>2, <1>5, <2>2, <3>4 DEF Window!MapsWhatIsVisible
    <3> QED
      BY <1>1, <2>1, <3>1, <3>2, <3>3, <3>4 DEF Window!MapsWhatIsVisible
  <2>4. Window!Tells'
    BY <1>1, <1>2, <1>5, <2>1 DEF Window!Tells
  <2>5. Window!Asks'
    <3>1. s8' \in Window!Again => s8 \in Window!Again
      <4>1. s8 \in Window!First \cup Window!Again \cup Window!Unmapping \cup Window!Moving
        BY <1>1, <2>1 DEF Window!MapsWhatIsVisible
      <4> QED
        BY <1>5, <2>2, <4>1, WindowDistinct
    <3> QED
      BY <1>1, <2>1, <3>1 DEF Window!Asks
  <2> QED
    BY <1>1, <2>1, <2>3, <2>4, <2>5
<1> QED
  BY <1>3, <1>4, <1>6 DEF Window!Inv

(* Everybody else: what the manager iconifies or a window uncovers is told *)
(* of; a window that is closed is of no more interest.                     *)
LEMMA WindowOthersKeep ==
  ASSUME Window!Inv, Window!Iconify \/ Window!Open \/ Window!Uncover \/ UNCHANGED Window!vars
  PROVE  Window!Inv'
<1>1. UNCHANGED <<s1, s2, s4, s6, s7, s8, s9, s11, s12, s13, s15, s16>>
  BY DEF Window!Iconify, Window!Open, Window!Uncover, Window!Command, Window!vars,
     Window!server, Window!wmanager, Window!main
<1>2. /\ s5' = s5 \/ (~s1.override /\ s5' \in BOOLEAN /\ Window!Coming')
      /\ Window!Coming => Window!Coming'
      /\ s10' \in Seq({"state", "expose", "destroy", "delete"})
  <2>1. Window!Typed
    BY DEF Window!Inv
  <2>2. CASE Window!Iconify
    <3>1. s10' = Append(s10, "state") /\ s5' \in BOOLEAN /\ ~s1.override
      BY <2>2 DEF Window!Iconify
    <3> QED
      BY <2>1, <3>1, WindowFollowed
  <2>3. CASE Window!Uncover
    <3>1. s10' = Append(s10, "expose") /\ s5' = s5
      BY <2>3 DEF Window!Uncover, Window!Command
    <3> QED
      BY <2>1, <3>1, WindowFollowed
  <2>4. CASE Window!Open \/ UNCHANGED Window!vars
    BY <2>1, <2>4 DEF Window!Open, Window!Command, Window!vars, Window!Coming,
       Window!Typed, Window!server
  <2> QED
    BY <2>2, <2>3, <2>4
<1>3. Window!Exists' = Window!Exists /\ Window!Started' = Window!Started
  BY <1>1 DEF Window!Exists, Window!Started
<1>4. Window!Typed'
  BY <1>1, <1>2 DEF Window!Inv, Window!Typed
<1>5. (s1.override => s8 = <<>> /\ ~s5)'
  BY <1>1, <1>2 DEF Window!Inv
<1>6. ASSUME ~s15', ~s13'
      PROVE  Window!MapsWhatIsVisible' /\ Window!Tells' /\ Window!Asks'
  <2>1. Window!MapsWhatIsVisible /\ Window!Tells /\ Window!Asks
    BY <1>1, <1>6 DEF Window!Inv
  <2>2. Window!MapsWhatIsVisible'
    BY <1>1, <1>3, <2>1 DEF Window!MapsWhatIsVisible
  <2>3. Window!Tells'
    BY <1>1, <1>2, <2>1 DEF Window!Tells, Window!Viewable
  <2>4. Window!Asks'
    BY <1>1, <1>3, <2>1 DEF Window!Asks
  <2> QED
    BY <2>2, <2>3, <2>4
<1> QED
  BY <1>1, <1>4, <1>5, <1>6 DEF Window!Inv

(* So does its end.                                                         *)
LEMMA WindowCloseKeeps ==
  ASSUME Window!Inv, NEW type \in {"destroy", "delete"}, Window!Close(type)
  PROVE  Window!Inv'
<1>1. /\ s13' = TRUE /\ s4' = (s4 /\ type = "delete")
      /\ UNCHANGED <<s1, s2, s5, s6, s8, s9, s11, s12, s15, s16>>
  BY DEF Window!Close, Window!wmanager
<1>2. Window!Typed'
  <2>1. Window!Typed /\ s10' = Append(s10, type)
    BY DEF Window!Inv, Window!Close
  <2>2. s10' \in Seq({"state", "expose", "destroy", "delete"})
    BY <2>1, WindowFollowed
  <2> QED
    BY <1>1, <2>1, <2>2 DEF Window!Typed
<1> QED
  BY <1>1, <1>2 DEF Window!Inv

(* Each step keeps the invariant.                                           *)
LEMMA WindowInvKept ==
  ASSUME Window!Inv, [Window!Next]_(Window!vars)
  PROVE  Window!Inv'
<1>1. CASE Window!Create \/ Window!Map \/ Window!Announce
  BY <1>1, WindowCreateKeeps, WindowMapKeeps, WindowAnnounceKeeps
<1>2. CASE Window!Toggle
  BY <1>2, WindowHideKeeps, WindowShowKeeps DEF Window!Toggle
<1>3. CASE Window!HandleEvent
  BY <1>3, WindowHandleEventKeeps
<1>4. CASE Window!Manage \/ Window!Withdraw \/ Window!Place
  BY <1>4, WindowManageKeeps, WindowWithdrawKeeps, WindowPlaceKeeps
<1>5. CASE Window!Iconify \/ Window!Open \/ Window!Uncover \/ UNCHANGED Window!vars
  BY <1>5, WindowOthersKeep
<1>6. CASE \E type \in {"destroy", "delete"} : Window!Close(type)
  BY <1>6, WindowCloseKeeps
<1> QED
  BY <1>1, <1>2, <1>3, <1>4, <1>5, <1>6 DEF Window!Next

(* Everybody has done their part: no request and no event is left.         *)
LEMMA WindowInvSettles ==
  ASSUME Window!Inv
  PROVE  Window!VisibilityTold /\ Window!HintsKept /\ Window!PlacedAsAsked
<1>1. Window!HintsKept
  BY DEF Window!Inv, Window!HintsKept
<1>2. ASSUME Window!Settled
      PROVE  s4 = s11 /\ s12 = Window!Viewable /\ (s7 = "asked" \/ (s1.placing /\ s16))
  <2>1. s2 = "done" /\ s8 = <<>> /\ Window!MapsWhatIsVisible /\ Window!Tells /\ Window!Asks /\ Window!Exists /\ Window!Started
    BY <1>2 DEF Window!Settled, Window!Inv, Window!Exists, Window!Started
  <2>2. s8 \notin Window!First \cup Window!Again \cup Window!Unmapping
    BY <2>1, WindowDistinct
  <2>3. ~Window!Coming
    BY <1>2, EmptySeq DEF Window!Settled, Window!Coming
  <2>4. <<>> \notin {<<"move", "map">>, <<"move", "unmap">>, <<"move">>}
    OBVIOUS
  <2>5. s4 = s11
    BY <2>1, <2>2 DEF Window!MapsWhatIsVisible
  <2>6. s12 = Window!Viewable
    BY <2>1, <2>2, <2>3 DEF Window!Tells
  <2>7. s7 = "asked" \/ (s1.placing /\ s16)
    BY <2>1, <2>2, <2>4 DEF Window!Asks
  <2> QED
    BY <2>5, <2>6, <2>7
<1> QED
  BY <1>1, <1>2 DEF Window!VisibilityTold, Window!PlacedAsAsked

-----------------------------------------------------------------------------
(* Meters.                                                                 *)
Meters == INSTANCE Meters WITH
  Cores <- MeterCores, Warn <- MeterWarn, Word <- MeterWord,
  MaxOps <- MeterOps, times <- s1, online <- s2, readable <- s3,
  runner <- s4, m_cputimes <- s5, m_cputimes_prev <- s6, m_load <- s7,
  shown <- s8, spans <- s9, kept <- s10, ops <- s11

(* A processor has a number; counters turn round less than once.           *)
ASSUME MeterRange == Meters!Metered

(* The processors that are online can be put in order.                     *)
LEMMA MetersInOrder ==
  ASSUME NEW S \in SUBSET Nat, IsFiniteSet(S)
  PROVE  \E s \in [1 .. Cardinality(S) -> S] : \A i, j \in DOMAIN s : i < j => s[i] < s[j]
<1> DEFINE Sorted(s) == \A i, j \in DOMAIN s : i < j => s[i] < s[j]
           T == {n \in 0 .. Cardinality(S) : \A R \in SUBSET S : Cardinality(R) = n =>
                    \E s \in [1 .. n -> R] : Sorted(s)}
<1>1. Cardinality(S) \in Nat
  BY FS_CardinalityType
<1>2. 0 \in T
  <2>1. ASSUME NEW R \in SUBSET S, Cardinality(R) = 0
        PROVE  \E s \in [1 .. 0 -> R] : Sorted(s)
    <3>1. [i \in 1 .. 0 |-> 0] \in [1 .. 0 -> R] /\ Sorted([i \in 1 .. 0 |-> 0])
      OBVIOUS
    <3> HIDE DEF Sorted
    <3> QED
      BY <3>1
  <2> HIDE DEF Sorted
  <2> QED
    BY <1>1, <2>1
<1>3. ASSUME NEW n \in 1 .. Cardinality(S), n - 1 \in T
      PROVE  n \in T
  <2>1. ASSUME NEW R \in SUBSET S, Cardinality(R) = n
        PROVE  \E s \in [1 .. n -> R] : Sorted(s)
    <3>1. IsFiniteSet(R) /\ R \subseteq Nat /\ R # {}
      <4>1. IsFiniteSet(R) /\ R \subseteq Nat
        BY FS_Subset
      <4>2. R # {}
        BY <1>1, <2>1, FS_EmptySet
      <4> QED
        BY <4>1, <4>2
    <3>2. PICK x \in R : \A y \in R : x <= y
      BY <3>1, LeastNat
    <3> DEFINE Q == R \ {x}
    <3>3. Cardinality(Q) = n - 1 /\ Q \in SUBSET S
      BY <1>1, <2>1, <3>1, FS_RemoveElement
    <3>4. PICK q \in [1 .. n - 1 -> Q] : Sorted(q)
      <4> HIDE DEF Sorted, Q
      <4> QED
        BY <1>3, <3>3
    <3>5. \A i \in 1 .. n - 1 : x < q[i] /\ q[i] \in R
      <4>1. \A y \in Q : x < y /\ y \in R
        BY <3>1, <3>2
      <4> HIDE DEF Q, Sorted
      <4> QED
        BY <4>1
    <3> DEFINE s == [i \in 1 .. n |-> IF i = 1 THEN x ELSE q[i - 1]]
    <3>6. \A i \in 1 .. n : i = 1 \/ i - 1 \in 1 .. n - 1
      BY <1>1
    <3>7. s \in [1 .. n -> R]
      BY <3>5, <3>6
    <3>8. Sorted(s)
      <4> SUFFICES ASSUME NEW i \in 1 .. n, NEW j \in 1 .. n, i < j
                   PROVE  s[i] < s[j]
        OBVIOUS
      <4>1. j # 1 /\ j - 1 \in 1 .. n - 1 /\ s[j] = q[j - 1]
        BY <1>1
      <4>2. CASE i = 1
        BY <4>1, <4>2, <3>5
      <4>3. CASE i # 1
        <5>1. i - 1 \in 1 .. n - 1 /\ s[i] = q[i - 1] /\ i - 1 < j - 1
          BY <4>3, <1>1
        <5> HIDE DEF s
        <5> QED
          BY <4>1, <5>1, <3>4
      <4> QED
        BY <4>2, <4>3
    <3> HIDE DEF s, Sorted
    <3> QED
      BY <3>7, <3>8
  <2> HIDE DEF Sorted
  <2> QED
    BY <2>1
<1> HIDE DEF T
<1>4. 0 .. Cardinality(S) \subseteq T
  BY <1>1, <1>2, <1>3, UpTo
<1>5. Cardinality(S) \in T
  BY <1>1, <1>4
<1> QED
  BY <1>5 DEF T

(* What is counted in an instance of a module is counted as here.          *)
LEMMA MetersSameSizes ==
  /\ \A S : Meters!IsFiniteSet(S) <=> IsFiniteSet(S)
  /\ \A S : Meters!Cardinality(S) = Cardinality(S)
<1>1. \A S : Meters!IsFiniteSet(S) <=> IsFiniteSet(S)
  BY DEF Meters!IsFiniteSet, IsFiniteSet
<1>2. \A S : Meters!Cardinality(S) = Cardinality(S)
  BY DEF Meters!Cardinality, Cardinality
<1> QED
  BY <1>1, <1>2

(* So the lines are of processors.                                         *)
LEMMA MetersLinesOf ==
  ASSUME Meters!Metered, s2 \subseteq MeterCores
  PROVE  Meters!Lines \in [1 .. Cardinality(s2) -> MeterCores] /\ Cardinality(s2) \in Nat
<1>1. s2 \in SUBSET Nat /\ IsFiniteSet(s2)
  BY FS_Subset, MetersSameSizes DEF Meters!Metered
<1>2. Meters!Lines \in [1 .. Cardinality(s2) -> s2]
  BY <1>1, MetersInOrder, MetersSameSizes DEF Meters!Lines
<1> QED
  BY <1>1, <1>2, FS_CardinalityType

(* The difference of two readings is what was counted in between.          *)
LEMMA MetersDiffIs ==
  ASSUME NEW n \in Nat \ {0}, NEW x \in Int, NEW s \in 0 .. n - 1
  PROVE  ((x % n) - ((x - s) % n)) % n = s
<1> DEFINE p == (x - s) % n
<1>1. p \in 0 .. n - 1 /\ \E k \in Int : x - s = p + n * k
  <2> DEFINE y == x - s
  <2>1. y \in Int
    OBVIOUS
  <2> HIDE DEF y
  <2>2. y % n \in 0 .. n - 1 /\ \E k \in Int : y = (y % n) + n * k
    BY <2>1, ModWhole
  <2> QED
    BY <2>2 DEF y
<1> HIDE DEF p
<1>2. PICK k \in Int : x - s = p + n * k
  BY <1>1
<1>3. ((x % n) + (-p)) % n = (x + (-p)) % n
  <2>1. -p \in Int
    BY <1>1
  <2> QED
    BY <2>1, ModPlus
<1>4. x + (-p) \in Int /\ s \in Int /\ x + (-p) = s + n * k
  BY <1>1, <1>2
<1>5. (x + (-p)) % n = s % n
  BY <1>4, ModEqual
<1>6. s % n = s /\ (x % n) - p = (x % n) + (-p)
  <2>1. x % n \in Int /\ p \in Int
    BY <1>1, ModWhole
  <2> HIDE DEF p
  <2> QED
    BY <2>1
<1> QED
  BY <1>3, <1>5, <1>6 DEF p

(* A counter and what it has moved on by move on together.                 *)
LEMMA MetersOnTogether ==
  ASSUME NEW n \in Nat \ {0}, NEW x \in Int, NEW y \in Int
  PROVE  (((x + 1) % n) - (y + 1)) % n = (x - y) % n
<1>1. (((x + 1) % n) + (-(y + 1))) % n = ((x + 1) + (-(y + 1))) % n
  <2> DEFINE a == x + 1
             b == -(y + 1)
  <2>1. a \in Int /\ b \in Int
    OBVIOUS
  <2> HIDE DEF a, b
  <2>2. ((a % n) + b) % n = (a + b) % n
    BY <2>1, ModPlus
  <2> QED
    BY <2>2, Zenon DEF a, b
<1>2. (x + 1) + (-(y + 1)) = x - y
  OBVIOUS
<1>3. ((x + 1) % n) + (-(y + 1)) = ((x + 1) % n) - (y + 1)
  <2> DEFINE r == (x + 1) % n
  <2>1. r \in Int
    BY ModWhole
  <2> HIDE DEF r
  <2>2. r + (-(y + 1)) = r - (y + 1)
    BY <2>1
  <2> QED
    BY <2>2 DEF r
<1> QED
  BY <1>1, <1>2, <1>3

(* The load of a processor that has been busy and idle for so long.        *)
LEMMA MetersLoadIs ==
  ASSUME Meters!Metered, NEW b \in Int, NEW i \in 0 .. MeterWord - 1, NEW sb \in Nat, NEW si \in Nat, sb + si < MeterWord
  PROVE  LET diff == Meters!Minus((b + i) % MeterWord, ((b + i) - (sb + si)) % MeterWord)
             idle == Meters!Minus(i, (i - si) % MeterWord)
         IN (IF diff = 0 THEN 0 ELSE Meters!Cap((100 * Meters!Minus(diff, idle)) \div diff)) = Meters!Share([busy |-> sb, idle |-> si])
<1> DEFINE s == sb + si
<1>0. MeterWord \in Nat \ {0} /\ s \in 0 .. MeterWord - 1 /\ si \in 0 .. MeterWord - 1 /\ sb \in 0 .. MeterWord - 1 /\ b + i \in Int
  BY DEF Meters!Metered
<1>1. Meters!Minus((b + i) % MeterWord, ((b + i) - s) % MeterWord) = s
  <2> DEFINE x == b + i
  <2> HIDE DEF x, s
  <2>1. ((x % MeterWord) - ((x - s) % MeterWord)) % MeterWord = s
    BY <1>0, MetersDiffIs DEF x
  <2> QED
    BY <2>1, Zenon DEF Meters!Minus, x
<1>2. Meters!Minus(i, (i - si) % MeterWord) = si
  <2>1. ((i % MeterWord) - ((i - si) % MeterWord)) % MeterWord = si
    BY <1>0, MetersDiffIs
  <2>2. i % MeterWord = i
    BY <1>0
  <2> QED
    BY <2>1, <2>2 DEF Meters!Minus
<1>3. Meters!Minus(s, si) = sb
  <2>1. s - si = sb /\ sb % MeterWord = sb
    BY <1>0
  <2> QED
    BY <2>1 DEF Meters!Minus
<1>4. s # 0 => Meters!Cap((100 * sb) \div s) = (100 * sb) \div s
  <2> SUFFICES ASSUME s # 0
               PROVE  Meters!Cap((100 * sb) \div s) = (100 * sb) \div s
    OBVIOUS
  <2> DEFINE a == 100 * sb
             q == a \div s
  <2>1. a \in Int /\ 0 <= a /\ a <= 100 * s /\ s \in Nat \ {0}
    BY <1>0
  <2> HIDE DEF a, s
  <2>2. q \in Int /\ s * q <= a /\ a < s * q + s
    BY <2>1, DivBounds
  <2> HIDE DEF q
  <2>3. q >= 0
    <3> SUFFICES ASSUME q <= -1
                 PROVE  FALSE
      BY <2>2
    <3>1. s * (q + 1) <= 0
      BY <2>1, <2>2
    <3> QED
      BY <2>1, <2>2, <3>1
  <2>4. q <= 100
    <3> SUFFICES ASSUME q >= 101
                 PROVE  FALSE
      BY <2>2
    <3>1. s * q >= s * 101
      BY <2>1, <2>2
    <3> QED
      BY <2>1, <2>2, <3>1
  <2> QED
    BY <2>2, <2>3, <2>4 DEF Meters!Cap, q, a
<1>5. Meters!Share([busy |-> sb, idle |-> si]) = IF s = 0 THEN 0 ELSE (100 * sb) \div s
  BY DEF Meters!Share
<1> HIDE DEF s
<1> QED
  BY <1>1, <1>2, <1>3, <1>4, <1>5 DEF s

(* Nothing counted since, nothing to take off.                             *)
LEMMA MetersNothingSince ==
  ASSUME Meters!Metered, NEW b \in 0 .. MeterWord - 1, NEW i \in 0 .. MeterWord - 1
  PROVE  (i - 0) % MeterWord = i /\ ((b + i) - (0 + 0)) % MeterWord = (b + i) % MeterWord
<1>1. MeterWord \in Nat \ {0} /\ i - 0 = i /\ (b + i) - (0 + 0) = b + i
  BY DEF Meters!Metered
<1>2. i % MeterWord = i
  BY <1>1
<1> QED
  BY <1>1, <1>2

(* One more counted and one more counted since, the same is left.           *)
LEMMA MetersTotalOn ==
  ASSUME NEW n \in Nat \ {0}, NEW b \in Int, NEW i \in Int, NEW s \in Int
  PROVE  /\ ((((b + 1) % n) + i) - (s + 1)) % n = ((b + i) - s) % n
         /\ ((b + ((i + 1) % n)) - (s + 1)) % n = ((b + i) - s) % n
<1>1. ASSUME NEW x \in Int, NEW y \in Int
      PROVE  (((x + 1) % n) + (y - (s + 1))) % n = ((x + y) - s) % n
  <2> DEFINE a == x + 1
             c == y - (s + 1)
  <2>1. a \in Int /\ c \in Int /\ a + c = (x + y) - s
    OBVIOUS
  <2> HIDE DEF a, c
  <2>2. ((a % n) + c) % n = (a + c) % n
    BY <2>1, ModPlus
  <2>3. ((a % n) + c) % n = ((x + y) - s) % n
    BY <2>1, <2>2
  <2> QED
    BY <2>3, Zenon DEF a, c
<1> DEFINE q == (b + 1) % n
           r == (i + 1) % n
<1>2. q \in Int /\ r \in Int
  <2>1. \A x \in Int : x % n \in Int
    BY ModWhole
  <2> QED
    BY <2>1
<1>3. (q + (i - (s + 1))) % n = ((b + i) - s) % n
  BY <1>1
<1>4. (r + (b - (s + 1))) % n = ((i + b) - s) % n
  BY <1>1
<1> HIDE DEF q, r
<1>5. q + (i - (s + 1)) = (q + i) - (s + 1) /\ r + (b - (s + 1)) = (b + r) - (s + 1) /\ i + b = b + i
  BY <1>2
<1>6. ((q + i) - (s + 1)) % n = ((b + i) - s) % n /\ ((b + r) - (s + 1)) % n = ((b + i) - s) % n
  BY <1>3, <1>4, <1>5
<1> QED
  BY <1>6, Zenon DEF q, r

(* What is read is there at once.                                          *)
LEMMA MetersReadIs ==
  ASSUME Meters!Metered, Meters!Typed
  PROVE  /\ Meters!Lines \in [1 .. Cardinality(s2) -> MeterCores] /\ Cardinality(s2) \in Nat
         /\ s3 => /\ Meters!ReadValues = [i \in DOMAIN Meters!Lines |-> [idle |-> s1[Meters!Lines[i]].idle,
                                           total |-> (s1[Meters!Lines[i]].busy + s1[Meters!Lines[i]].idle) % MeterWord]]
                        /\ DOMAIN Meters!ReadValues = DOMAIN Meters!Lines
         /\ ~s3 => Meters!ReadValues = <<>>
<1>1. Meters!Lines \in [1 .. Cardinality(s2) -> MeterCores] /\ Cardinality(s2) \in Nat
  BY MetersLinesOf DEF Meters!Typed
<1> QED
  BY <1>1 DEF Meters!ReadValues

(* At the start nothing was counted since the first reading.                *)
LEMMA MetersInitInv ==
  ASSUME Meters!Metered, Meters!Init
  PROVE  Meters!Inv
<1>1. Meters!Typed
  <2>1. MeterWord - 1 \in 0 .. MeterWord - 1 /\ 0 \in 0 .. MeterWord - 1 /\ 0 \in Nat /\ 0 \in 0 .. MeterOps
    BY DEF Meters!Metered
  <2>2. /\ s1 \in [MeterCores -> [busy : 0 .. MeterWord - 1, idle : 0 .. MeterWord - 1]]
        /\ s9 \in [MeterCores -> [busy : Nat, idle : Nat]]
        /\ \A c \in MeterCores : s9[c].busy = 0 /\ s9[c].idle = 0
    BY <2>1 DEF Meters!Init, Meters!Zero
  <2> QED
    BY <2>1, <2>2 DEF Meters!Init, Meters!Typed
<1>2. Meters!Counted
  <2>1. /\ \A i \in DOMAIN Meters!Lines : Meters!Before(Meters!Lines[i]) = [idle |-> s1[Meters!Lines[i]].idle,
                                     total |-> (s1[Meters!Lines[i]].busy + s1[Meters!Lines[i]].idle) % MeterWord]
    <3> SUFFICES ASSUME NEW i \in DOMAIN Meters!Lines
                 PROVE  Meters!Before(Meters!Lines[i]) = [idle |-> s1[Meters!Lines[i]].idle,
                                     total |-> (s1[Meters!Lines[i]].busy + s1[Meters!Lines[i]].idle) % MeterWord]
      OBVIOUS
    <3> DEFINE c == Meters!Lines[i]
    <3>1. c \in MeterCores
      BY <1>1, MetersReadIs
    <3> HIDE DEF c
    <3>2. s9[c].busy = 0 /\ s9[c].idle = 0 /\ s1[c].busy \in 0 .. MeterWord - 1 /\ s1[c].idle \in 0 .. MeterWord - 1
      BY <1>1, <3>1 DEF Meters!Init, Meters!Zero, Meters!Typed
    <3>3. Meters!Before(c) = [idle |-> s1[c].idle, total |-> (s1[c].busy + s1[c].idle) % MeterWord]
      BY <3>2, MetersNothingSince DEF Meters!Before
    <3> QED
      BY <3>3 DEF c
  <2>2. s3 /\ s4 = "update" /\ s5 = Meters!ReadValues
    BY DEF Meters!Init
  <2>3. Meters!ReadValues = [i \in DOMAIN Meters!Lines |-> [idle |-> s1[Meters!Lines[i]].idle,
                                     total |-> (s1[Meters!Lines[i]].busy + s1[Meters!Lines[i]].idle) % MeterWord]]
    BY <1>1, <2>2, MetersReadIs
  <2> QED
    BY <2>1, <2>2, <2>3 DEF Meters!Counted
<1> QED
  BY <1>1, <1>2 DEF Meters!Init, Meters!Inv, Meters!Showing, Meters!LoadAsSpent

(* A reading that went well is compared with the one before.               *)
LEMMA MetersUpdateShows ==
  ASSUME Meters!Metered, Meters!Inv, Meters!Update, Meters!ReadValues # <<>>
  PROVE  Meters!Inv'
<1>1. /\ s4 = "update" /\ s4' = "show" /\ s5' = Meters!ReadValues /\ s3
      /\ s7' = [i \in DOMAIN Meters!ReadValues |-> Meters!GetLoad(i, Meters!ReadValues, s5)]
      /\ s10' = [now |-> TRUE, before |-> s10.now]
      /\ UNCHANGED <<s1, s2, s3, s9, s8, s11>>
  BY MetersReadIs DEF Meters!Update, Meters!system, Meters!Inv
<1>2. Meters!Typed'
  <2>1. s10' \in [now : BOOLEAN, before : BOOLEAN]
    BY <1>1 DEF Meters!Inv, Meters!Typed
  <2> QED
    BY <1>1, <2>1 DEF Meters!Inv, Meters!Typed
<1>3. Meters!Counted'
  BY <1>1 DEF Meters!Counted, Meters!ReadValues, Meters!Lines
<1>4. Meters!Showing'
  BY <1>1 DEF Meters!Showing
<1>5. Meters!LoadAsSpent'
  <2> SUFFICES ASSUME s10.now
               PROVE  s7' = [i \in DOMAIN Meters!Lines |-> Meters!Share(s9[Meters!Lines[i]])]
    BY <1>1 DEF Meters!LoadAsSpent, Meters!Lines
  <2>1. s5 = [i \in DOMAIN Meters!Lines |-> Meters!Before(Meters!Lines[i])]
    BY <1>1 DEF Meters!Inv, Meters!Counted
  <2>2. /\ Meters!Lines \in [1 .. Cardinality(s2) -> MeterCores] /\ Cardinality(s2) \in Nat
        /\ Meters!ReadValues = [i \in DOMAIN Meters!Lines |-> [idle |-> s1[Meters!Lines[i]].idle,
                           total |-> (s1[Meters!Lines[i]].busy + s1[Meters!Lines[i]].idle) % MeterWord]]
        /\ DOMAIN Meters!ReadValues = DOMAIN Meters!Lines
    BY <1>1, MetersReadIs DEF Meters!Inv
  <2> DEFINE n == Cardinality(s2)
  <2>3. Len(s5) = n
    <3>1. s5 = [i \in 1 .. n |-> s5[i]] /\ n \in Nat
      BY <2>1, <2>2
    <3> HIDE DEF n
    <3> QED
      BY <3>1, LenIs
  <2>4. ASSUME NEW i \in DOMAIN Meters!Lines
        PROVE  Meters!GetLoad(i, Meters!ReadValues, s5) = Meters!Share(s9[Meters!Lines[i]])
    <3> DEFINE c == Meters!Lines[i]
    <3>1. c \in MeterCores /\ i \in 1 .. n
      BY <2>2
    <3>2. /\ Meters!ReadValues[i].idle = s1[c].idle
          /\ Meters!ReadValues[i].total = (s1[c].busy + s1[c].idle) % MeterWord
          /\ s5[i].idle = (s1[c].idle - s9[c].idle) % MeterWord
          /\ s5[i].total = ((s1[c].busy + s1[c].idle) - (s9[c].busy + s9[c].idle)) % MeterWord
      BY <2>1, <2>2 DEF Meters!Before
    <3> HIDE DEF c
    <3>3. /\ s1[c].busy \in Int /\ s1[c].idle \in 0 .. MeterWord - 1
          /\ s9[c].busy \in Nat /\ s9[c].idle \in Nat
          /\ s9[c].busy + s9[c].idle < MeterWord
      <4>1. /\ s1[c] \in [busy : 0 .. MeterWord - 1, idle : 0 .. MeterWord - 1] /\ s9[c] \in [busy : Nat, idle : Nat]
            /\ s9[c].busy + s9[c].idle <= s11 /\ s11 \in 0 .. MeterOps
        BY <3>1 DEF Meters!Inv, Meters!Typed
      <4> QED
        BY <4>1 DEF Meters!Metered
    <3>4. Meters!Share([busy |-> s9[c].busy, idle |-> s9[c].idle]) = Meters!Share(s9[c])
      BY DEF Meters!Share
    <3>5. ~(i > Len(s5))
      BY <2>2, <2>3, <3>1
    <3> DEFINE Load(new, old, rest, before) ==
                 LET diff == Meters!Minus(new, old)
                     idle == Meters!Minus(rest, before)
                 IN IF diff = 0 THEN 0 ELSE Meters!Cap((100 * Meters!Minus(diff, idle)) \div diff)
    <3>6. Meters!GetLoad(i, Meters!ReadValues, s5)
            = Load(Meters!ReadValues[i].total, s5[i].total, Meters!ReadValues[i].idle, s5[i].idle)
      BY <3>5 DEF Meters!GetLoad
    <3>7. Load((s1[c].busy + s1[c].idle) % MeterWord,
               ((s1[c].busy + s1[c].idle) - (s9[c].busy + s9[c].idle)) % MeterWord,
               s1[c].idle, (s1[c].idle - s9[c].idle) % MeterWord)
            = Meters!Share([busy |-> s9[c].busy, idle |-> s9[c].idle])
      BY <3>3, MetersLoadIs
    <3> HIDE DEF Load
    <3>8. Meters!GetLoad(i, Meters!ReadValues, s5) = Meters!Share([busy |-> s9[c].busy, idle |-> s9[c].idle])
      BY <3>2, <3>6, <3>7, Zenon
    <3> QED
      BY <3>4, <3>8 DEF c
  <2> QED
    BY <1>1, <2>2, <2>4
<1> QED
  BY <1>2, <1>3, <1>4, <1>5 DEF Meters!Inv

(* A reading that failed leaves what is shown as it is.                     *)
LEMMA MetersUpdateFails ==
  ASSUME Meters!Metered, Meters!Inv, Meters!Update, Meters!ReadValues = <<>>
  PROVE  Meters!Inv'
<1>1. /\ s4 = "update" /\ s4' = "sleep" /\ s9' = Meters!Zero /\ s10' = [now |-> FALSE, before |-> s10.now]
      /\ UNCHANGED <<s1, s2, s3, s7, s8, s11>>
  BY DEF Meters!Update, Meters!system
<1>2. Meters!Typed'
  <2>1. s10' \in [now : BOOLEAN, before : BOOLEAN]
    BY <1>1 DEF Meters!Inv, Meters!Typed
  <2>2. s9' \in [MeterCores -> [busy : Nat, idle : Nat]] /\ \A c \in MeterCores : s9'[c].busy = 0 /\ s9'[c].idle = 0
    BY <1>1 DEF Meters!Zero
  <2>3. \A c \in MeterCores : s9'[c].busy + s9'[c].idle <= s11
    BY <2>2 DEF Meters!Inv, Meters!Typed
  <2> QED
    BY <1>1, <2>1, <2>2, <2>3 DEF Meters!Inv, Meters!Typed
<1> QED
  BY <1>1, <1>2 DEF Meters!Inv, Meters!Counted, Meters!Showing, Meters!LoadAsSpent

(* Showing what was read keeps the invariant.                               *)
LEMMA MetersBroadcastKeeps ==
  ASSUME Meters!Metered, Meters!Inv, Meters!Broadcast
  PROVE  Meters!Inv'
<1>1. /\ s4 = "show" /\ s4' = "sleep" /\ s9' = Meters!Zero
      /\ s8' = [format |-> Meters!Format(Meters!Total(s7)), load |-> s7]
      /\ UNCHANGED <<s1, s2, s3, s5, s7, s10, s11>>
  BY DEF Meters!Broadcast, Meters!system
<1>2. s9' \in [MeterCores -> [busy : Nat, idle : Nat]] /\ \A c \in MeterCores : s9'[c].busy = 0 /\ s9'[c].idle = 0
  BY <1>1 DEF Meters!Zero
<1>3. Meters!Typed'
  <2>1. \A c \in MeterCores : s9'[c].busy + s9'[c].idle <= s11
    BY <1>2 DEF Meters!Inv, Meters!Typed
  <2> QED
    BY <1>1, <1>2, <2>1 DEF Meters!Inv, Meters!Typed
<1>4. Meters!Counted'
  <2>1. s3 /\ s5 = Meters!ReadValues
    BY <1>1 DEF Meters!Inv, Meters!Counted
  <2>2. /\ Meters!Lines \in [1 .. Cardinality(s2) -> MeterCores]
        /\ Meters!ReadValues = [i \in DOMAIN Meters!Lines |-> [idle |-> s1[Meters!Lines[i]].idle,
                           total |-> (s1[Meters!Lines[i]].busy + s1[Meters!Lines[i]].idle) % MeterWord]]
    BY <2>1, MetersReadIs DEF Meters!Inv
  <2> DEFINE After(c) == [idle |-> (s1'[c].idle - s9'[c].idle) % MeterWord,
                          total |-> ((s1'[c].busy + s1'[c].idle) - (s9'[c].busy + s9'[c].idle)) % MeterWord]
  <2>3. ASSUME NEW c \in MeterCores
        PROVE  After(c) = [idle |-> s1[c].idle, total |-> (s1[c].busy + s1[c].idle) % MeterWord]
    <3>1. s1[c].busy \in 0 .. MeterWord - 1 /\ s1[c].idle \in 0 .. MeterWord - 1
      BY DEF Meters!Inv, Meters!Typed
    <3>2. After(c) = [idle |-> (s1[c].idle - 0) % MeterWord, total |-> ((s1[c].busy + s1[c].idle) - (0 + 0)) % MeterWord]
      BY <1>1, <1>2
    <3> QED
      BY <3>1, <3>2, MetersNothingSince
  <2>4. Meters!Lines' = Meters!Lines
    BY <1>1 DEF Meters!Lines
  <2>5. s5 = [i \in DOMAIN Meters!Lines |-> After(Meters!Lines[i])]
    <3> HIDE DEF After
    <3> QED
      BY <2>1, <2>2, <2>3
  <2> QED
    BY <1>1, <2>4, <2>5 DEF Meters!Counted, Meters!Before
<1> QED
  BY <1>1, <1>3, <1>4 DEF Meters!Inv, Meters!Showing, Meters!LoadAsSpent

(* A tick moves the counters and what was counted since on together.       *)
LEMMA MetersTickKeeps ==
  ASSUME Meters!Metered, Meters!Inv, Meters!System, Meters!Tick
  PROVE  Meters!Inv'
<1> DEFINE Add(t, busy) == [c \in MeterCores |-> IF c \notin s2 THEN t[c]
                              ELSE IF c \in busy THEN [t[c] EXCEPT !.busy = (@ + 1) % MeterWord]
                              ELSE [t[c] EXCEPT !.idle = (@ + 1) % MeterWord]]
<1>1. /\ UNCHANGED <<s2, s3, s10, s4, s5, s6, s7, s8>>
      /\ s4 = "sleep" /\ s11' = s11 + 1 /\ s11' \in 0 .. MeterOps
  BY DEF Meters!System, Meters!Tick, Meters!Inv, Meters!Typed, Meters!Metered
<1>2. PICK busy \in SUBSET s2 : s1' = Add(s1, busy) /\ s9' = Add(s9, busy)
  BY DEF Meters!Tick
<1> DEFINE After(c) == [idle |-> (s1'[c].idle - s9'[c].idle) % MeterWord,
                        total |-> ((s1'[c].busy + s1'[c].idle) - (s9'[c].busy + s9'[c].idle)) % MeterWord]
<1>3. ASSUME NEW c \in MeterCores
      PROVE  /\ s1'[c] \in [busy : 0 .. MeterWord - 1, idle : 0 .. MeterWord - 1]
             /\ s9'[c] \in [busy : Nat, idle : Nat]
             /\ s9'[c].busy + s9'[c].idle <= s11 + 1
             /\ After(c) = Meters!Before(c)
  <2>1. /\ s1[c] \in [busy : 0 .. MeterWord - 1, idle : 0 .. MeterWord - 1] /\ s9[c] \in [busy : Nat, idle : Nat]
        /\ s9[c].busy + s9[c].idle <= s11 /\ s11 \in Nat /\ s11 + 1 < MeterWord /\ MeterWord \in Nat \ {0}
    <3>1. s1[c] \in [busy : 0 .. MeterWord - 1, idle : 0 .. MeterWord - 1] /\ s9[c] \in [busy : Nat, idle : Nat]
      BY DEF Meters!Inv, Meters!Typed
    <3>2. s9[c].busy + s9[c].idle <= s11 /\ s11 \in 0 .. MeterOps
      BY DEF Meters!Inv, Meters!Typed
    <3> QED
      BY <1>1, <3>1, <3>2 DEF Meters!Metered
  <2> DEFINE b == s1[c].busy
             i == s1[c].idle
             sb == s9[c].busy
             si == s9[c].idle
  <2>2. /\ b \in 0 .. MeterWord - 1 /\ i \in 0 .. MeterWord - 1 /\ sb \in Nat /\ si \in Nat /\ sb + si <= s11
        /\ s1[c] = [busy |-> b, idle |-> i] /\ s9[c] = [busy |-> sb, idle |-> si]
    BY <2>1
  <2>3. CASE c \notin s2
    <3>1. s1'[c] = s1[c] /\ s9'[c] = s9[c]
      BY <1>2, <2>3
    <3> QED
      BY <2>1, <3>1 DEF Meters!Before
  <2>4. CASE c \in s2 /\ c \in busy
    <3>1. s1'[c] = [busy |-> (b + 1) % MeterWord, idle |-> i] /\ s9'[c] = [busy |-> (sb + 1) % MeterWord, idle |-> si]
      BY <1>2, <2>2, <2>4
    <3> HIDE DEF b, i, sb, si
    <3>2. (sb + 1) % MeterWord = sb + 1 /\ (b + 1) % MeterWord \in 0 .. MeterWord - 1
      BY <2>1, <2>2
    <3>3. ((((b + 1) % MeterWord) + i) - ((sb + si) + 1)) % MeterWord = ((b + i) - (sb + si)) % MeterWord
      <4> DEFINE s == sb + si
      <4>1. s \in Int /\ b \in Int /\ i \in Int
        BY <2>2
      <4> HIDE DEF s
      <4>2. /\ ((((b + 1) % MeterWord) + i) - (s + 1)) % MeterWord = ((b + i) - s) % MeterWord
            /\ ((b + ((i + 1) % MeterWord)) - (s + 1)) % MeterWord = ((b + i) - s) % MeterWord
        BY <2>1, <4>1, MetersTotalOn
      <4> QED
        BY <4>2, Zenon DEF s
    <3>4. (sb + 1) + si = (sb + si) + 1
      BY <2>2
    <3>5. After(c) = [idle |-> (i - si) % MeterWord, total |-> ((b + i) - (sb + si)) % MeterWord]
      BY <3>1, <3>2, <3>3, <3>4
    <3>6. Meters!Before(c) = [idle |-> (i - si) % MeterWord, total |-> ((b + i) - (sb + si)) % MeterWord]
      BY <2>2 DEF Meters!Before
    <3> HIDE DEF After
    <3>7. s9'[c] = [busy |-> sb + 1, idle |-> si] /\ sb + 1 \in Nat /\ (sb + 1) + si <= s11 + 1
      BY <2>1, <2>2, <3>1, <3>2
    <3> QED
      BY <2>2, <3>1, <3>2, <3>5, <3>6, <3>7
  <2>5. CASE c \in s2 /\ c \notin busy
    <3>1. s1'[c] = [busy |-> b, idle |-> (i + 1) % MeterWord] /\ s9'[c] = [busy |-> sb, idle |-> (si + 1) % MeterWord]
      BY <1>2, <2>2, <2>5
    <3> HIDE DEF b, i, sb, si
    <3>2. (si + 1) % MeterWord = si + 1 /\ (i + 1) % MeterWord \in 0 .. MeterWord - 1
      BY <2>1, <2>2
    <3>3. ((b + ((i + 1) % MeterWord)) - ((sb + si) + 1)) % MeterWord = ((b + i) - (sb + si)) % MeterWord
      <4> DEFINE s == sb + si
      <4>1. s \in Int /\ b \in Int /\ i \in Int
        BY <2>2
      <4> HIDE DEF s
      <4>2. /\ ((((b + 1) % MeterWord) + i) - (s + 1)) % MeterWord = ((b + i) - s) % MeterWord
            /\ ((b + ((i + 1) % MeterWord)) - (s + 1)) % MeterWord = ((b + i) - s) % MeterWord
        BY <2>1, <4>1, MetersTotalOn
      <4> QED
        BY <4>2, Zenon DEF s
    <3>4. sb + (si + 1) = (sb + si) + 1
      BY <2>2
    <3>5. (((i + 1) % MeterWord) - (si + 1)) % MeterWord = (i - si) % MeterWord
      BY <2>1, <2>2, MetersOnTogether
    <3>6. After(c) = [idle |-> (i - si) % MeterWord, total |-> ((b + i) - (sb + si)) % MeterWord]
      BY <3>1, <3>2, <3>3, <3>4, <3>5
    <3>7. Meters!Before(c) = [idle |-> (i - si) % MeterWord, total |-> ((b + i) - (sb + si)) % MeterWord]
      BY <2>2 DEF Meters!Before
    <3> HIDE DEF After
    <3>8. s9'[c] = [busy |-> sb, idle |-> si + 1] /\ si + 1 \in Nat /\ sb + (si + 1) <= s11 + 1
      BY <2>1, <2>2, <3>1, <3>2
    <3> QED
      BY <2>2, <3>1, <3>2, <3>6, <3>7, <3>8
  <2> QED
    BY <2>3, <2>4, <2>5
<1>4. s1' = [c \in MeterCores |-> s1'[c]] /\ s9' = [c \in MeterCores |-> s9'[c]]
  BY <1>2
<1> HIDE DEF Add, After
<1>5. Meters!Typed'
  BY <1>1, <1>3, <1>4 DEF Meters!Inv, Meters!Typed
<1>6. Meters!Counted'
  <2>1. Meters!Lines' = Meters!Lines /\ \A i \in DOMAIN Meters!Lines : Meters!Lines[i] \in MeterCores
    <3>1. Meters!Lines' = Meters!Lines
      BY <1>1 DEF Meters!Lines
    <3> QED
      BY <3>1, MetersReadIs DEF Meters!Inv
  <2>2. s10.now => s5 = [i \in DOMAIN Meters!Lines |-> After(Meters!Lines[i])]
    BY <1>1, <1>3, <2>1 DEF Meters!Inv, Meters!Counted
  <2> QED
    BY <1>1, <2>1, <2>2 DEF Meters!Counted, Meters!Before, After
<1> QED
  BY <1>1, <1>5, <1>6 DEF Meters!Inv, Meters!Showing, Meters!LoadAsSpent

(* So does what the system does between two readings.                       *)
LEMMA MetersSystemKeeps ==
  ASSUME Meters!Metered, Meters!Inv, Meters!System
  PROVE  Meters!Inv'
<1>1. /\ UNCHANGED <<s4, s5, s6, s7, s8>>
      /\ s4 = "sleep" /\ s11' = s11 + 1 /\ s11' \in 0 .. MeterOps /\ s11 \in Nat
  BY DEF Meters!System, Meters!Inv, Meters!Typed, Meters!Metered
<1>2. CASE Meters!Hotplug
  <2>1. /\ s2' \subseteq MeterCores /\ UNCHANGED <<s1, s3, s9>> /\ s10' = [s10 EXCEPT !.now = FALSE]
    BY <1>2 DEF Meters!Hotplug, Meters!Inv, Meters!Typed
  <2>2. s10' \in [now : BOOLEAN, before : BOOLEAN] /\ ~s10'.now
    BY <2>1 DEF Meters!Inv, Meters!Typed
  <2>3. \A c \in MeterCores : s9[c].busy + s9[c].idle <= s11 + 1
    <3> SUFFICES ASSUME NEW c \in MeterCores
                 PROVE  s9[c].busy + s9[c].idle <= s11 + 1
      OBVIOUS
    <3>1. s9[c] \in [busy : Nat, idle : Nat] /\ s9[c].busy + s9[c].idle <= s11
      BY DEF Meters!Inv, Meters!Typed
    <3> QED
      BY <1>1, <3>1
  <2> QED
    BY <1>1, <2>1, <2>2, <2>3 DEF Meters!Inv, Meters!Typed, Meters!Counted,
       Meters!Showing, Meters!LoadAsSpent
<1>3. CASE Meters!Unreadable
  <2>1. UNCHANGED <<s1, s2, s9, s10>> /\ s3' \in BOOLEAN
    BY <1>3 DEF Meters!Unreadable
  <2>2. \A c \in MeterCores : s9[c].busy + s9[c].idle <= s11 + 1
    <3> SUFFICES ASSUME NEW c \in MeterCores
                 PROVE  s9[c].busy + s9[c].idle <= s11 + 1
      OBVIOUS
    <3>1. s9[c] \in [busy : Nat, idle : Nat] /\ s9[c].busy + s9[c].idle <= s11
      BY DEF Meters!Inv, Meters!Typed
    <3> QED
      BY <1>1, <3>1
  <2>3. Meters!Typed'
    BY <1>1, <2>1, <2>2 DEF Meters!Inv, Meters!Typed
  <2>4. Meters!Counted'
    BY <1>1, <2>1 DEF Meters!Inv, Meters!Counted, Meters!Lines, Meters!Before
  <2> QED
    BY <1>1, <2>3, <2>4 DEF Meters!Inv, Meters!Showing, Meters!LoadAsSpent
<1> QED
  BY <1>2, <1>3, MetersTickKeeps DEF Meters!System

(* Each step keeps the invariant.                                           *)
LEMMA MetersInvKept ==
  ASSUME Meters!Metered, Meters!Inv, [Meters!Next]_(Meters!vars)
  PROVE  Meters!Inv'
<1>1. CASE Meters!Wake \/ UNCHANGED Meters!vars
  <2>1. /\ UNCHANGED <<s1, s2, s3, s5, s7, s8, s9, s10, s11>>
        /\ s4' = s4 \/ (s4 = "sleep" /\ s4' = "update")
    BY <1>1 DEF Meters!Wake, Meters!vars, Meters!system
  <2>2. Meters!Typed'
    BY <2>1 DEF Meters!Inv, Meters!Typed
  <2>3. Meters!Counted'
    <3>1. Meters!Lines' = Meters!Lines /\ Meters!ReadValues' = Meters!ReadValues
      BY <2>1 DEF Meters!Lines, Meters!ReadValues
    <3>2. [i \in DOMAIN Meters!Lines |-> Meters!Before(Meters!Lines[i])]' = [i \in DOMAIN Meters!Lines |-> Meters!Before(Meters!Lines[i])]
      BY <2>1, <3>1 DEF Meters!Before
    <3> QED
      BY <2>1, <3>1, <3>2 DEF Meters!Inv, Meters!Counted
  <2> QED
    BY <2>1, <2>2, <2>3 DEF Meters!Inv, Meters!Showing, Meters!LoadAsSpent,
       Meters!Lines
<1> QED
  BY <1>1, MetersUpdateShows, MetersUpdateFails, MetersBroadcastKeeps,
     MetersSystemKeeps DEF Meters!Next

(* A share of a whole that is not less is no more than all of it.          *)
LEMMA MetersPercentageIs ==
  ASSUME NEW max \in Nat \ {0}, NEW value \in 0 .. max
  PROVE  Meters!Percentage(value, max) \in 0 .. 100
<1> DEFINE a == 200 * value + max
           d == 2 * max
           q == a \div d
<1>1. a \in Nat /\ 2 * a <= 201 * d /\ d \in Nat \ {0}
  OBVIOUS
<1> HIDE DEF a, d
<1>2. q \in Int /\ d * q <= a /\ a < d * q + d
  BY <1>1, DivBounds
<1> HIDE DEF q
<1>3. q >= 0
  <2> SUFFICES ASSUME q <= -1
               PROVE  FALSE
    BY <1>2
  <2>1. d * (q + 1) <= 0
    BY <1>1, <1>2
  <2> QED
    BY <1>1, <1>2, <2>1
<1>4. q <= 100
  <2> SUFFICES ASSUME q >= 101
               PROVE  FALSE
    BY <1>2
  <2>1. d * q >= d * 101
    BY <1>1, <1>2
  <2> QED
    BY <1>1, <1>2, <2>1
<1> QED
  BY <1>2, <1>3, <1>4 DEF q, d, a, Meters!Percentage

(* A temperature is the nearest degree, but above it below zero.           *)
LEMMA MetersCelsiusIs ==
  ASSUME NEW n \in Int
  PROVE  /\ Meters!Celsius(n) \in Int
         /\ 1000 * Meters!Celsius(n) - n \in IF n < 0 THEN 0 .. 1499 ELSE -499 .. 500
         /\ n + 500 < 0 => /\ 1000 * Meters!Celsius(n) - n \in 500 .. 1499
                           /\ Meters!Celsius(n) <= 0
         /\ n + 500 >= 0 => /\ 1000 * Meters!Celsius(n) <= n + 500 /\ n + 500 < 1000 * Meters!Celsius(n) + 1000
                            /\ Meters!Celsius(n) >= 0
<1> DEFINE m == n + 500
<1>0. m \in Int /\ -m \in Int /\ n = m - 500
  OBVIOUS
<1>1. CASE m < 0
  <2> DEFINE q == (-m) \div 1000
  <2>1. q \in Int /\ 1000 * q <= -m /\ -m < 1000 * q + 1000
    <3> HIDE DEF m
    <3> QED
      BY <1>0, DivBounds
  <2>2. Meters!Celsius(n) = -q
    BY <1>1 DEF Meters!Celsius, Meters!Truncated
  <2> HIDE DEF q
  <2> HIDE DEF m
  <2> QED
    BY <1>0, <1>1, <2>1, <2>2
<1>2. CASE m >= 0
  <2> DEFINE q == m \div 1000
  <2>1. q \in Int /\ 1000 * q <= m /\ m < 1000 * q + 1000
    <3> HIDE DEF m
    <3> QED
      BY <1>0, DivBounds
  <2>2. Meters!Celsius(n) = q
    BY <1>2 DEF Meters!Celsius, Meters!Truncated
  <2> HIDE DEF q
  <2> HIDE DEF m
  <2>3. /\ q >= 0 /\ 1000 * q - n \in -499 .. 500
        /\ n < 0 => 1000 * q - n \in 0 .. 1499
    BY <1>0, <1>2, <2>1
  <2>4. 1000 * q <= n + 500 /\ n + 500 < 1000 * q + 1000 /\ ~(n + 500 < 0)
    BY <1>0, <1>2, <2>1
  <2> QED
    BY <2>1, <2>2, <2>3, <2>4
<1> QED
  BY <1>1, <1>2

(* A higher temperature is not shown as less degrees Celsius.               *)
LEMMA MetersCelsiusGrows ==
  ASSUME NEW n \in Int, NEW k \in Int, n < k
  PROVE  Meters!Celsius(n) <= Meters!Celsius(k)
<1> DEFINE p == Meters!Celsius(n)
           q == Meters!Celsius(k)
<1>1. /\ p \in Int /\ q \in Int
      /\ n + 500 < 0 => 1000 * p - n \in 500 .. 1499 /\ p <= 0
      /\ k + 500 < 0 => 1000 * q - k \in 500 .. 1499 /\ q <= 0
      /\ n + 500 >= 0 => 1000 * p <= n + 500 /\ n + 500 < 1000 * p + 1000 /\ p >= 0
      /\ k + 500 >= 0 => 1000 * q <= k + 500 /\ k + 500 < 1000 * q + 1000 /\ q >= 0
  BY MetersCelsiusIs
<1> HIDE DEF p, q
<1>2. p <= q
  BY <1>1
<1> QED
  BY <1>2 DEF p, q

(* Nor as less degrees Fahrenheit.                                          *)
LEMMA MetersFahrenheitGrows ==
  ASSUME NEW c \in Int, NEW d \in Int, c <= d
  PROVE  Meters!Fahrenheit(c) <= Meters!Fahrenheit(d)
<1> DEFINE p == (18 * c + 325) \div 10
           q == (18 * d + 325) \div 10
<1>1. /\ p \in Int /\ 10 * p <= 18 * c + 325 /\ 18 * c + 325 < 10 * p + 10
      /\ q \in Int /\ 10 * q <= 18 * d + 325 /\ 18 * d + 325 < 10 * q + 10
  BY DivBounds
<1> HIDE DEF p, q
<1>2. p <= q
  BY <1>1
<1> QED
  BY <1>2 DEF p, q, Meters!Fahrenheit

(* What is computed of memory and temperatures is right.                    *)
LEMMA MetersReadingsAreRight == Meters!Readings
<1>1. ASSUME NEW info, info.total \in Nat \ {0}
      PROVE  Meters!Shares(info)
  <2> SUFFICES ASSUME Meters!Available(info) \in 0 .. info.total
               PROVE  {Meters!MemoryFree(info), Meters!MemoryUsed(info)} \subseteq 0 .. 100
    BY DEF Meters!Shares
  <2>1. Meters!MemoryFree(info) \in 0 .. 100
    BY <1>1, MetersPercentageIs DEF Meters!MemoryFree
  <2> QED
    BY <2>1 DEF Meters!MemoryUsed
<1>2. ASSUME NEW n \in Int
      PROVE  1000 * Meters!Celsius(n) - n \in IF n < 0 THEN 0 .. 1499 ELSE -499 .. 500
  BY MetersCelsiusIs
<1>3. ASSUME NEW n \in Int, NEW k \in Int, n < k
      PROVE  Meters!Celsius(n) <= Meters!Celsius(k) /\ Meters!Fahrenheit(Meters!Celsius(n)) <= Meters!Fahrenheit(Meters!Celsius(k))
  BY <1>3, MetersCelsiusIs, MetersCelsiusGrows, MetersFahrenheitGrows
<1>4. Meters!Millidegrees \subseteq Int
  BY DEF Meters!Millidegrees
<1>5. ASSUME NEW total \in 1 .. 6, NEW available, NEW free, NEW cached, NEW shmem
      PROVE  Meters!Shares([total |-> total, available |-> available, free |-> free, buffers |-> 0,
                     cached |-> cached, reclaimable |-> 1, shmem |-> shmem])
  <2> DEFINE info == [total |-> total, available |-> available, free |-> free, buffers |-> 0,
                      cached |-> cached, reclaimable |-> 1, shmem |-> shmem]
  <2>1. info.total \in Nat \ {0}
    OBVIOUS
  <2> HIDE DEF info
  <2>2. Meters!Shares(info)
    BY <1>1, <2>1
  <2> QED
    BY <2>2 DEF info
<1>6. \A n \in Meters!Millidegrees :
         /\ 1000 * Meters!Celsius(n) - n \in IF n < 0 THEN 0 .. 1499 ELSE -499 .. 500
         /\ \A k \in Meters!Millidegrees : n < k => /\ Meters!Celsius(n) <= Meters!Celsius(k)
                                            /\ Meters!Fahrenheit(Meters!Celsius(n)) <= Meters!Fahrenheit(Meters!Celsius(k))
  BY <1>2, <1>3, <1>4
<1>7. \A total \in 1 .. 6, available \in -1 .. 6, free \in 0 .. 2, cached \in 0 .. 3, shmem \in 0 .. 2 :
         Meters!Shares([total |-> total, available |-> available, free |-> free, buffers |-> 0,
                 cached |-> cached, reclaimable |-> 1, shmem |-> shmem])
  BY <1>5
<1> QED
  BY <1>6, <1>7, Zenon DEF Meters!Readings

(* What is shown follows.                                                  *)
LEMMA MetersInvShows ==
  ASSUME Meters!Inv
  PROVE  Meters!LoadAsSpent /\ Meters!ShownAsRead
<1>1. s4 = "sleep" => s4 # "show"
  OBVIOUS
<1> QED
  BY <1>1 DEF Meters!Inv, Meters!Showing, Meters!ShownAsRead

-----------------------------------------------------------------------------
(* Screen.                                                                 *)
Screen == INSTANCE Screen WITH
  Layouts <- ScreenLayouts, Undashed <- ScreenUndashed,
  BarConfigs <- ScreenBars, MaxChanges <- ScreenChanges, layout <- s1,
  changes <- s2, randr15 <- s3, config <- s4, pc <- s5,
  events <- s6, m_monitors <- s7, m_sigraised <- s8, monitor <- s9,
  size <- s10, pos <- s11, strut <- s12, seen <- s13, missed <- s14

(* Monitors have names of their own, and lengths are numbers.              *)
ASSUME ScreenMonitors == Screen!Plausible

(* The names of some monitors, and those of the outputs that are listed.   *)
ScreenNamesOf(s) == {s[i].name : i \in DOMAIN s}
ScreenListedNames(l, c, n) == {l.outputs[i].name : i \in {j \in 1 .. n : Screen!Listed(l.outputs[j], c)}}
ScreenServerLists(l) == IF s3 THEN l.monitors ELSE <<>>

(* Adding an output adds its name, and no name twice: a monitor of the     *)
(* name is taken for the output, if the server has monitors.               *)
LEMMA ScreenAddedNamed ==
  ASSUME NEW l, NEW ms \in Seq(Screen!MonitorOf), NEW o \in Screen!Output
  PROVE  /\ Screen!AddOutput(l, ms, o) \in Seq(Screen!MonitorOf)
         /\ Screen!Named(ms) /\ (s3 \/ o.name \notin ScreenNamesOf(ms)) =>
              Screen!Named(Screen!AddOutput(l, ms, o)) /\ ScreenNamesOf(Screen!AddOutput(l, ms, o)) = ScreenNamesOf(ms) \cup {o.name}
<1> DEFINE r == Screen!AddOutput(l, ms, o)
           m == Screen!Monitor(o.id, o.name, o.name = l.primary, o)
<1>1. m \in Screen!MonitorOf /\ m.name = o.name
  BY DEF Screen!Monitor, Screen!MonitorOf, Screen!Output
<1>2. Len(ms) \in Nat /\ DOMAIN ms = 1 .. Len(ms) /\ \A i \in DOMAIN ms : ms[i] \in Screen!MonitorOf
  OBVIOUS
<1>3. CASE s3 /\ o.name \in ScreenNamesOf(ms)
  <2>1. r = [i \in DOMAIN ms |-> IF ms[i].name = o.name THEN [ms[i] EXCEPT !.output = o.id] ELSE ms[i]]
    BY <1>3 DEF Screen!AddOutput, ScreenNamesOf
  <2>2. ASSUME NEW i \in DOMAIN ms
        PROVE  r[i] \in Screen!MonitorOf /\ r[i].name = ms[i].name
    <3> DEFINE k == ms[i]
    <3>1. r[i] = IF k.name = o.name THEN [k EXCEPT !.output = o.id] ELSE k
      BY <2>1
    <3>2. k \in Screen!MonitorOf /\ o.id \in Nat
      BY <1>2 DEF Screen!Output
    <3> HIDE DEF k, r
    <3>3. [k EXCEPT !.output = o.id] \in Screen!MonitorOf /\ [k EXCEPT !.output = o.id].name = k.name
      BY <3>2 DEF Screen!MonitorOf
    <3>4. r[i] \in Screen!MonitorOf /\ r[i].name = k.name
      BY <3>1, <3>2, <3>3, Zenon
    <3> QED
      BY <3>4 DEF k
  <2>3. DOMAIN r = DOMAIN ms /\ r = [i \in 1 .. Len(ms) |-> r[i]]
    BY <1>2, <2>1
  <2> HIDE DEF r
  <2>4. r \in Seq(Screen!MonitorOf)
    <3>1. r \in [1 .. Len(ms) -> Screen!MonitorOf]
      BY <1>2, <2>2, <2>3
    <3> QED
      BY <1>2, <3>1, ListIs
  <2>5. ScreenNamesOf(r) = ScreenNamesOf(ms)
    BY <2>2, <2>3 DEF ScreenNamesOf
  <2>6. Screen!Named(ms) => Screen!Named(r)
    <3>1. DOMAIN r = DOMAIN ms /\ \A i \in DOMAIN ms : r[i].name = ms[i].name
      BY <2>2, <2>3
    <3> QED
      BY <3>1 DEF Screen!Named
  <2> QED
    BY <1>3, <2>4, <2>5, <2>6 DEF r
<1>4. CASE ~(s3 /\ o.name \in ScreenNamesOf(ms))
  <2>1. r = Append(ms, m)
    BY <1>4 DEF Screen!AddOutput, ScreenNamesOf
  <2> HIDE DEF m
  <2>2. /\ r \in Seq(Screen!MonitorOf) /\ Len(r) = Len(ms) + 1 /\ DOMAIN r = 1 .. Len(ms) + 1
        /\ \A i \in 1 .. Len(ms) : r[i] = ms[i]
        /\ r[Len(ms) + 1] = m
    BY <1>1, <2>1, AppendProperties
  <2> HIDE DEF r
  <2>3. \A i \in DOMAIN r : i \in DOMAIN ms \/ i = Len(ms) + 1
    BY <1>2, <2>2
  <2>4. DOMAIN ms \subseteq DOMAIN r /\ Len(ms) + 1 \in DOMAIN r
    BY <1>2, <2>2
  <2>5. ScreenNamesOf(r) = ScreenNamesOf(ms) \cup {o.name}
    BY <1>1, <1>2, <2>2, <2>3, <2>4 DEF ScreenNamesOf
  <2>6. Screen!Named(ms) /\ o.name \notin ScreenNamesOf(ms) => Screen!Named(r)
    BY <1>1, <1>2, <2>2, <2>3 DEF Screen!Named, ScreenNamesOf
  <2> QED
    BY <1>4, <2>2, <2>5, <2>6 DEF r
<1> QED
  BY <1>3, <1>4

(* The monitors after each output: what GetMonitors says of them.          *)
LEMMA ScreenListSteps ==
  ASSUME Screen!Plausible, NEW l \in ScreenLayouts, NEW c
  PROVE  \E f \in [0 .. Len(l.outputs) -> Seq(Screen!MonitorOf)] :
           /\ f[0] = ScreenServerLists(l) /\ Screen!GetMonitors(l, c) = f[Len(l.outputs)]
           /\ \A n \in 1 .. Len(l.outputs) :
                f[n] = IF Screen!Listed(l.outputs[n], c) THEN Screen!AddOutput(l, f[n - 1], l.outputs[n]) ELSE f[n - 1]
<1> DEFINE N == Len(l.outputs)
           V == Seq(Screen!MonitorOf)
           Step(ms, n) == IF Screen!Listed(l.outputs[n], c) THEN Screen!AddOutput(l, ms, l.outputs[n]) ELSE ms
           G == [p \in V \X (1 .. N) |-> Step(p[1], p[2])]
           Is(f) == f = [n \in 0 .. N |-> IF n = 0 THEN ScreenServerLists(l) ELSE Step(f[n - 1], n)]
           with == CHOOSE f : Is(f)
<1>1. N \in Nat /\ (\A n \in 1 .. N : l.outputs[n] \in Screen!Output) /\ ScreenServerLists(l) \in V
  BY DEF Screen!Plausible, ScreenServerLists
<1>2. Screen!GetMonitors(l, c) = with[N]
  BY DEF Screen!GetMonitors, ScreenServerLists
<1>3. ASSUME NEW ms \in V, NEW n \in 1 .. N
      PROVE  Step(ms, n) \in V
  BY <1>1, ScreenAddedNamed
<1>4. G \in [V \X (1 .. N) -> V]
  BY <1>3
<1>5. \A ms \in V, n \in 1 .. N : G[<<ms, n>>] = Step(ms, n)
  OBVIOUS
<1> HIDE DEF G, V, Step, N
<1>6. PICK f \in [0 .. N -> V] : f[0] = ScreenServerLists(l) /\ \A n \in 1 .. N : f[n] = G[<<f[n - 1], n>>]
  <2>1. PICK f \in [0 .. N -> V] : Goes(f, N, ScreenServerLists(l), G)
    BY <1>1, <1>4, StepsExist
  <2> QED
    BY <2>1 DEF Goes
<1>7. \A n \in 1 .. N : f[n] = Step(f[n - 1], n)
  <2>1. \A n \in 1 .. N : n - 1 \in 0 .. N
    BY <1>1
  <2> QED
    BY <1>5, <1>6, <2>1
<1>8. Is(f)
  <2>1. \A n \in 0 .. N : n # 0 => n \in 1 .. N
    BY <1>1
  <2> QED
    BY <1>6, <1>7, <2>1
<1>9. Is(with)
  <2> HIDE DEF Is
  <2> QED
    BY <1>8
<1> HIDE DEF with
<1>10. \A n \in 1 .. N : n \in 0 .. N /\ n # 0 /\ n - 1 \in 0 .. N
  BY <1>1
<1>11. with[0] = ScreenServerLists(l) /\ \A n \in 1 .. N : with[n] = Step(with[n - 1], n)
  BY <1>1, <1>9, <1>10
<1>12. \A n \in 0 .. N : with[n] = f[n]
  <2> DEFINE T == {n \in 0 .. N : with[n] = f[n]}
  <2>1. 0 \in T
    BY <1>1, <1>6, <1>11
  <2>2. \A n \in 1 .. N : n - 1 \in T => n \in T
    BY <1>7, <1>10, <1>11
  <2> HIDE DEF T
  <2>3. 0 .. N \subseteq T
    BY <1>1, <2>1, <2>2, UpTo
  <2> QED
    BY <2>3 DEF T
<1>13. Screen!GetMonitors(l, c) = f[N]
  BY <1>1, <1>2, <1>12
<1> QED
  BY <1>6, <1>7, <1>13 DEF N, V, Step

(* What get_monitors() returns: monitors of different names, those of the  *)
(* server and of the outputs that are listed.                              *)
LEMMA ScreenMonitorsListed ==
  ASSUME Screen!Plausible, NEW l \in ScreenLayouts, NEW c
  PROVE  /\ Screen!GetMonitors(l, c) \in Seq(Screen!MonitorOf) /\ Screen!Named(Screen!GetMonitors(l, c))
         /\ ScreenNamesOf(Screen!GetMonitors(l, c)) = ScreenNamesOf(ScreenServerLists(l)) \cup ScreenListedNames(l, c, Len(l.outputs))
<1> DEFINE N == Len(l.outputs)
<1>1. PICK f \in [0 .. N -> Seq(Screen!MonitorOf)] :
           /\ f[0] = ScreenServerLists(l) /\ Screen!GetMonitors(l, c) = f[N]
           /\ \A n \in 1 .. N :
                f[n] = IF Screen!Listed(l.outputs[n], c) THEN Screen!AddOutput(l, f[n - 1], l.outputs[n]) ELSE f[n - 1]
  BY ScreenListSteps
<1>2. N \in Nat /\ (\A n \in 1 .. N : l.outputs[n] \in Screen!Output) /\ DOMAIN l.outputs = 1 .. N /\ Screen!Named(l.outputs)
  BY DEF Screen!Plausible
<1>3. Screen!Named(ScreenServerLists(l)) /\ (~s3 => ScreenNamesOf(ScreenServerLists(l)) = {})
  <2>1. Screen!Named(<<>>) /\ ScreenNamesOf(<<>>) = {}
    BY DEF Screen!Named, ScreenNamesOf
  <2> QED
    BY <2>1 DEF ScreenServerLists, Screen!Plausible
<1> DEFINE Right(n) == Screen!Named(f[n]) /\ ScreenNamesOf(f[n]) = ScreenNamesOf(ScreenServerLists(l)) \cup ScreenListedNames(l, c, n)
           T == {n \in 0 .. N : Right(n)}
<1> HIDE DEF N
<1>4. 0 \in T
  BY <1>1, <1>2, <1>3 DEF ScreenListedNames
<1>5. ASSUME NEW n \in 1 .. N, n - 1 \in T
      PROVE  n \in T
  <2>1. /\ n \in 0 .. N /\ n - 1 \in 0 .. N /\ f[n - 1] \in Seq(Screen!MonitorOf) /\ Right(n - 1)
        /\ \A i \in 1 .. n : i \in 1 .. N /\ (i = n \/ i \in 1 .. n - 1)
        /\ \A i \in 1 .. n - 1 : i \in 1 .. n /\ i # n
        /\ n \in 1 .. n
    BY <1>1, <1>2, <1>5
  <2>2. CASE Screen!Listed(l.outputs[n], c)
    <3> DEFINE o == l.outputs[n]
    <3>1. f[n] = Screen!AddOutput(l, f[n - 1], o) /\ o \in Screen!Output
      BY <1>1, <1>2, <2>2
    <3>2. ScreenListedNames(l, c, n) = ScreenListedNames(l, c, n - 1) \cup {o.name}
      BY <2>1, <2>2 DEF ScreenListedNames
    <3>3. s3 \/ o.name \notin ScreenNamesOf(f[n - 1])
      <4>1. o.name \notin ScreenListedNames(l, c, n - 1)
        BY <1>2, <2>1 DEF ScreenListedNames, Screen!Named
      <4> QED
        BY <1>3, <2>1, <4>1
    <3> HIDE DEF o
    <3>4. Screen!Named(f[n]) /\ ScreenNamesOf(f[n]) = ScreenNamesOf(f[n - 1]) \cup {o.name}
      BY <2>1, <3>1, <3>3, ScreenAddedNamed
    <3> QED
      BY <2>1, <3>2, <3>4
  <2>3. CASE ~Screen!Listed(l.outputs[n], c)
    <3>1. f[n] = f[n - 1]
      BY <1>1, <2>3
    <3>2. ScreenListedNames(l, c, n) = ScreenListedNames(l, c, n - 1)
      BY <2>1, <2>3 DEF ScreenListedNames
    <3> QED
      BY <2>1, <3>1, <3>2
  <2> QED
    BY <2>2, <2>3
<1>6. N \in T
  <2> HIDE DEF T
  <2>1. 0 .. N \subseteq T
    BY <1>2, <1>4, <1>5, UpTo
  <2> QED
    BY <1>2, <2>1
<1>7. f[N] \in Seq(Screen!MonitorOf)
  BY <1>1, <1>2
<1> QED
  BY <1>1, <1>6, <1>7 DEF N

(* A clone of a clone is one.                                              *)
LEMMA ScreenCloneOfClone ==
  ASSUME NEW a \in Screen!MonitorOf, NEW b \in Screen!MonitorOf, NEW d \in Screen!MonitorOf, Screen!Clone(a, b), Screen!Clone(b, d)
  PROVE  Screen!Clone(a, d)
<1>1. Screen!Covers(a, d)
  <2>1. Screen!Covers(a, b) /\ Screen!Covers(b, d)
    BY DEF Screen!Clone
  <2> QED
    BY <2>1 DEF Screen!Covers, Screen!MonitorOf
<1> QED
  BY <1>1 DEF Screen!Clone

(* The monitors after each round of the purge.                             *)
LEMMA ScreenPurgeSteps ==
  ASSUME NEW ms \in Seq(Screen!MonitorOf)
  PROVE  \E f \in [0 .. Len(ms) -> Seq(Screen!MonitorOf)] :
           /\ f[0] = ms /\ \A n \in 1 .. Len(ms) : f[n] = Screen!PurgeInside(f[n - 1], n)
           /\ Screen!Purged(ms) = [i \in {j \in DOMAIN f[Len(ms)] : f[Len(ms)][j].w # 0} |-> f[Len(ms)][i]]
<1> DEFINE N == Len(ms)
           V == Seq(Screen!MonitorOf)
           G == [p \in V \X (1 .. N) |-> Screen!PurgeInside(p[1], p[2])]
           Is(f) == f = [n \in 0 .. N |-> IF n = 0 THEN ms ELSE Screen!PurgeInside(f[n - 1], n)]
           after == CHOOSE f : Is(f)
<1>1. N \in Nat
  OBVIOUS
<1>2. Screen!Purged(ms) = [i \in {j \in DOMAIN after[N] : after[N][j].w # 0} |-> after[N][i]]
  BY DEF Screen!Purged
<1>3. ASSUME NEW s \in V, NEW n \in 1 .. N
      PROVE  Screen!PurgeInside(s, n) \in V
  <2> DEFINE r == Screen!PurgeInside(s, n)
  <2>1. r = [j \in 1 .. Len(s) |-> IF n # j /\ Screen!Clone(s[n], s[j]) THEN [s[j] EXCEPT !.w = 0] ELSE s[j]]
    BY DEF Screen!PurgeInside
  <2>2. ASSUME NEW j \in 1 .. Len(s)
        PROVE  r[j] \in Screen!MonitorOf
    <3>1. s[j] \in Screen!MonitorOf
      OBVIOUS
    <3>2. [s[j] EXCEPT !.w = 0] \in Screen!MonitorOf
      BY <3>1 DEF Screen!MonitorOf
    <3>3. r[j] = [s[j] EXCEPT !.w = 0] \/ r[j] = s[j]
      BY <2>1
    <3> HIDE DEF r
    <3> QED
      BY <3>1, <3>2, <3>3
  <2>3. r = [j \in 1 .. Len(s) |-> r[j]] /\ Len(s) \in Nat
    BY <2>1
  <2> HIDE DEF r
  <2>4. r \in Seq(Screen!MonitorOf)
    BY <2>2, <2>3
  <2> QED
    BY <2>4 DEF r
<1>4. G \in [V \X (1 .. N) -> V]
  BY <1>3
<1>5. \A s \in V, n \in 1 .. N : G[<<s, n>>] = Screen!PurgeInside(s, n)
  OBVIOUS
<1>6. ms \in V
  OBVIOUS
<1> HIDE DEF G, V, N
<1>7. PICK f \in [0 .. N -> V] : f[0] = ms /\ \A n \in 1 .. N : f[n] = G[<<f[n - 1], n>>]
  <2>1. PICK f \in [0 .. N -> V] : Goes(f, N, ms, G)
    BY <1>1, <1>4, <1>6, StepsExist
  <2> QED
    BY <2>1 DEF Goes
<1>8. \A n \in 1 .. N : n \in 0 .. N /\ n # 0 /\ n - 1 \in 0 .. N
  BY <1>1
<1>9. \A n \in 1 .. N : f[n] = Screen!PurgeInside(f[n - 1], n)
  BY <1>5, <1>7, <1>8
<1>10. Is(f)
  <2>1. \A n \in 0 .. N : n # 0 => n \in 1 .. N
    BY <1>1
  <2> QED
    BY <1>7, <1>9, <2>1
<1>11. Is(after)
  <2> HIDE DEF Is
  <2> QED
    BY <1>10
<1> HIDE DEF after
<1>12. after[0] = ms /\ \A n \in 1 .. N : after[n] = Screen!PurgeInside(after[n - 1], n)
  BY <1>1, <1>8, <1>11
<1>13. \A n \in 0 .. N : after[n] = f[n]
  <2> DEFINE T == {n \in 0 .. N : after[n] = f[n]}
  <2>1. 0 \in T
    BY <1>1, <1>7, <1>12
  <2>2. \A n \in 1 .. N : n - 1 \in T => n \in T
    BY <1>8, <1>9, <1>12
  <2> HIDE DEF T
  <2>3. 0 .. N \subseteq T
    BY <1>1, <2>1, <2>2, UpTo
  <2> QED
    BY <2>3 DEF T
<1>14. after[N] = f[N]
  BY <1>1, <1>13
<1> QED
  BY <1>2, <1>7, <1>9, <1>14 DEF N, V

(* What is so after n rounds: a monitor that has lost its width is inside  *)
(* one that has not, and nothing is inside one of the first n.             *)
ScreenGone(ms, s) ==
  \A j \in DOMAIN ms :
    s[j] = ms[j] \/ (s[j].w = 0 /\ \E k \in DOMAIN ms : s[k].w # 0 /\ Screen!Clone(s[k], ms[j]))
ScreenCleared(s, n) == \A i \in 1 .. n, j \in DOMAIN s : i # j => ~Screen!Clone(s[i], s[j])

(* A round of the purge leaves no clone of the monitor it is at.            *)
LEMMA ScreenRoundClears ==
  ASSUME NEW ms \in Seq(Screen!MonitorOf), NEW s \in Seq(Screen!MonitorOf), NEW n \in DOMAIN ms, DOMAIN s = DOMAIN ms,
         ScreenGone(ms, s), ScreenCleared(s, n - 1)
  PROVE  /\ DOMAIN Screen!PurgeInside(s, n) = DOMAIN ms
         /\ ScreenGone(ms, Screen!PurgeInside(s, n)) /\ ScreenCleared(Screen!PurgeInside(s, n), n)
<1> DEFINE r == Screen!PurgeInside(s, n)
           D == DOMAIN ms
<1>1. DOMAIN r = D /\ \A j \in D : s[j] \in Screen!MonitorOf /\ ms[j] \in Screen!MonitorOf
  BY DEF Screen!PurgeInside
<1>2. ASSUME NEW j \in D
      PROVE  /\ n # j /\ Screen!Clone(s[n], s[j]) => r[j].w = 0
             /\ ~(n # j /\ Screen!Clone(s[n], s[j])) => r[j] = s[j]
  BY <1>1 DEF Screen!PurgeInside, Screen!MonitorOf
<1>3. \A a, b : Screen!Clone(a, b) => a.w # 0 /\ b.w # 0
  BY DEF Screen!Clone
<1> HIDE DEF r, D
<1>4. n \in D /\ r[n] = s[n] /\ \A j \in D : r[j] = s[j] \/ r[j].w = 0
  BY <1>2 DEF D
<1>5. ASSUME NEW j \in D
      PROVE  r[j] = ms[j] \/ (r[j].w = 0 /\ \E k \in D : r[k].w # 0 /\ Screen!Clone(r[k], ms[j]))
  <2>1. CASE s[j] = ms[j]
    <3>1. CASE n # j /\ Screen!Clone(s[n], s[j])
      BY <1>2, <1>3, <1>4, <2>1, <3>1
    <3>2. CASE ~(n # j /\ Screen!Clone(s[n], s[j]))
      <4>1. r[j] = s[j]
        BY <1>2, <3>2
      <4> QED
        BY <2>1, <4>1
    <3> QED
      BY <3>1, <3>2
  <2>2. CASE s[j] # ms[j]
    <3>1. PICK k \in D : s[j].w = 0 /\ s[k].w # 0 /\ Screen!Clone(s[k], ms[j])
      BY <2>2 DEF ScreenGone, D
    <3>2. r[j].w = 0
      BY <1>4, <3>1
    <3>3. CASE n # k /\ Screen!Clone(s[n], s[k])
      <4>1. Screen!Clone(s[n], ms[j])
        BY <1>1, <1>4, <3>1, <3>3, ScreenCloneOfClone
      <4> QED
        BY <1>3, <1>4, <3>2, <4>1
    <3>4. CASE ~(n # k /\ Screen!Clone(s[n], s[k]))
      BY <1>2, <3>1, <3>2, <3>4
    <3> QED
      BY <3>3, <3>4
  <2> QED
    BY <2>1, <2>2
<1>6. ASSUME NEW i \in 1 .. n, NEW j \in D, i # j, Screen!Clone(r[i], r[j])
      PROVE  FALSE
  <2>1. i \in D /\ n \in Nat /\ (i = n \/ i \in 1 .. n - 1)
    <3>1. D = 1 .. Len(ms) /\ Len(ms) \in Nat
      BY DEF D
    <3> QED
      BY <1>4, <3>1
  <2>2. r[i].w # 0 /\ r[j].w # 0
    BY <1>3, <1>6
  <2>3. r[i] = s[i] /\ r[j] = s[j]
    BY <1>4, <2>1, <2>2
  <2>4. CASE i = n
    BY <1>2, <1>6, <2>2, <2>3, <2>4
  <2>5. CASE i \in 1 .. n - 1
    BY <1>6, <2>3, <2>5 DEF ScreenCleared, D
  <2> QED
    BY <2>1, <2>4, <2>5
<1>7. ScreenGone(ms, r)
  BY <1>5 DEF ScreenGone, D
<1>8. ScreenCleared(r, n)
  BY <1>1, <1>6 DEF ScreenCleared
<1> QED
  BY <1>1, <1>7, <1>8 DEF r, D

(* So the purge of any list leaves no clone, and no monitor unseen.        *)
LEMMA ScreenPurgedRight ==
  ASSUME NEW ms \in Seq(Screen!MonitorOf)
  PROVE  /\ \A i, j \in DOMAIN Screen!Purged(ms) : i # j => ~Screen!Clone(Screen!Purged(ms)[i], Screen!Purged(ms)[j])
         /\ \A i \in DOMAIN ms :
              ms[i].w = 0 \/ \E j \in DOMAIN Screen!Purged(ms) : Screen!Purged(ms)[j] = ms[i] \/ Screen!Clone(Screen!Purged(ms)[j], ms[i])
<1> DEFINE N == Len(ms)
<1>1. PICK f \in [0 .. N -> Seq(Screen!MonitorOf)] :
           /\ f[0] = ms /\ \A n \in 1 .. N : f[n] = Screen!PurgeInside(f[n - 1], n)
           /\ Screen!Purged(ms) = [i \in {j \in DOMAIN f[N] : f[N][j].w # 0} |-> f[N][i]]
  BY ScreenPurgeSteps
<1>2. N \in Nat /\ DOMAIN ms = 1 .. N
  OBVIOUS
<1> HIDE DEF N
<1> DEFINE T == {n \in 0 .. N : DOMAIN f[n] = DOMAIN ms /\ ScreenGone(ms, f[n]) /\ ScreenCleared(f[n], n)}
<1>3. 0 \in T
  <2>1. f[0] = ms /\ 0 \in 0 .. N /\ 1 .. 0 = {}
    BY <1>1, <1>2
  <2>2. ScreenGone(ms, ms) /\ ScreenCleared(ms, 0)
    BY <2>1 DEF ScreenGone, ScreenCleared
  <2> QED
    BY <2>1, <2>2
<1>4. ASSUME NEW n \in 1 .. N, n - 1 \in T
      PROVE  n \in T
  <2>1. n \in 0 .. N /\ n - 1 \in 0 .. N /\ n \in DOMAIN ms /\ f[n - 1] \in Seq(Screen!MonitorOf)
    BY <1>1, <1>2
  <2>2. f[n] = Screen!PurgeInside(f[n - 1], n)
    BY <1>1
  <2> QED
    BY <1>4, <2>1, <2>2, ScreenRoundClears
<1>5. N \in T
  <2> HIDE DEF T
  <2>1. 0 .. N \subseteq T
    BY <1>2, <1>3, <1>4, UpTo
  <2> QED
    BY <1>2, <2>1
<1> DEFINE r == f[N]
           p == Screen!Purged(ms)
<1>6. /\ DOMAIN r = 1 .. N /\ ScreenGone(ms, r) /\ ScreenCleared(r, N)
      /\ p = [i \in {j \in 1 .. N : r[j].w # 0} |-> r[i]]
  BY <1>1, <1>2, <1>5
<1> HIDE DEF r, p
<1>7. DOMAIN p = {j \in 1 .. N : r[j].w # 0} /\ \A i \in DOMAIN p : i \in 1 .. N /\ p[i] = r[i]
  BY <1>6
<1>8. \A i, j \in DOMAIN p : i # j => ~Screen!Clone(p[i], p[j])
  BY <1>6, <1>7 DEF ScreenCleared
<1>9. ASSUME NEW i \in DOMAIN ms
      PROVE  ms[i].w = 0 \/ \E j \in DOMAIN p : p[j] = ms[i] \/ Screen!Clone(p[j], ms[i])
  <2>1. CASE r[i] = ms[i]
    BY <1>2, <1>7, <2>1
  <2>2. CASE r[i] # ms[i]
    <3>1. PICK k \in DOMAIN ms : r[k].w # 0 /\ Screen!Clone(r[k], ms[i])
      BY <1>6, <2>2 DEF ScreenGone
    <3> QED
      BY <1>2, <1>7, <3>1
  <2> QED
    BY <2>1, <2>2
<1> QED
  BY <1>8, <1>9 DEF p

(* match_monitor() finds an exact match if there is one, and when it must  *)
(* be exact nothing else.                                                  *)
LEMMA ScreenMatched ==
  ASSUME NEW ms \in Seq(Screen!MonitorOf), NEW name, NEW exact
  PROVE  /\ Screen!MatchMonitor(ms, name, exact) \in Screen!MonitorOf \cup {Screen!NoMonitor}
         /\ name \in ScreenNamesOf(ms) => Screen!MatchMonitor(ms, name, exact).name = name
         /\ exact => Screen!MatchMonitor(ms, name, exact) = Screen!NoMonitor \/ Screen!MatchMonitor(ms, name, exact).name = name
<1> DEFINE same == Screen!Matching(ms, name, TRUE)
           close == Screen!Matching(ms, name, FALSE)
           m == Screen!MatchMonitor(ms, name, exact)
<1>1. Len(ms) \in Nat /\ DOMAIN ms = 1 .. Len(ms) /\ \A i \in 1 .. Len(ms) : ms[i] \in Screen!MonitorOf
  OBVIOUS
<1>2. same \subseteq 1 .. Len(ms) /\ close \subseteq 1 .. Len(ms)
  BY <1>1 DEF Screen!Matching
<1>3. \A i \in same : ms[i].name = name
  BY DEF Screen!Matching, Screen!Matches
<1>4. name \in ScreenNamesOf(ms) => same # {}
  BY DEF Screen!Matching, Screen!Matches, ScreenNamesOf
<1>5. m = IF same # {} THEN ms[Screen!Min(same)]
          ELSE IF ~exact /\ close # {} THEN ms[Screen!Max(close)] ELSE Screen!NoMonitor
  BY DEF Screen!MatchMonitor
<1> HIDE DEF same, close, m
<1>6. same # {} => Screen!Min(same) \in same
  <2>1. ASSUME same # {}
        PROVE  \E x \in same : \A y \in same : x <= y
    <3>1. same \subseteq Nat
      BY <1>1, <1>2
    <3> QED
      BY <2>1, <3>1, LeastNat
  <2> QED
    BY <2>1 DEF Screen!Min
<1>7. close # {} => Screen!Max(close) \in close
  <2>1. ASSUME close # {}
        PROVE  \E x \in close : \A y \in close : x >= y
    BY <1>1, <1>2, <2>1, GreatestOf
  <2> QED
    BY <2>1 DEF Screen!Max
<1>8. CASE same # {}
  <2>1. m = ms[Screen!Min(same)] /\ Screen!Min(same) \in same
    BY <1>5, <1>6, <1>8
  <2> QED
    BY <1>1, <1>2, <1>3, <2>1 DEF m
<1>9. CASE same = {} /\ ~exact /\ close # {}
  <2>1. m = ms[Screen!Max(close)] /\ Screen!Max(close) \in close
    BY <1>5, <1>7, <1>9
  <2> QED
    BY <1>1, <1>2, <1>4, <1>9, <2>1 DEF m
<1>10. CASE same = {} /\ (exact \/ close = {})
  BY <1>4, <1>5, <1>10 DEF m
<1> QED
  BY <1>8, <1>9, <1>10

(* A share of a length, and pixels, are pixels.                            *)
LEMMA ScreenPixelsWhole ==
  ASSUME NEW v \in Screen!Length, NEW max \in Nat
  PROVE  Screen!Pixels(v, max) \in Int
<1>1. v.percent \in Nat /\ v.pixels \in Int
  BY DEF Screen!Length
<1>2. v.percent * max \in Int
  BY <1>1
<1> DEFINE a == v.percent * max
<1> HIDE DEF a
<1>3. a \div 100 \in Int
  BY <1>2, DivBounds DEF a
<1> QED
  BY <1>1, <1>3 DEF Screen!Pixels, a

(* The constructor of the bar.                                             *)
LEMMA ScreenBarMade ==
  ASSUME Screen!Plausible, s1 \in ScreenLayouts, s4 \in ScreenBars, Screen!MakeBar
  PROVE  Screen!MonitorMatched' /\ Screen!StrutsCoverBar'
<1> DEFINE monitors == Screen!GetMonitors(s1, s4.strict)
           now == Screen!GetMonitors(s1, TRUE)
           m == IF monitors = <<>> THEN Screen!NoMonitor ELSE Screen!Chosen(monitors)
           s == Screen!Size(m)
<1>1. UNCHANGED <<s1, s2, s4>> /\ s13' = Screen!Range(now)
  BY DEF Screen!MakeBar
<1>2. CASE s5' # "run"
  BY <1>2 DEF Screen!MonitorMatched, Screen!StrutsCoverBar
<1>3. CASE s5' = "run"
  <2>1. /\ m # Screen!NoMonitor /\ s9' = m /\ s10' = s
        /\ s11' = Screen!Pos(m, s) /\ s12' = Screen!Strut(m, s, Screen!Pos(m, s))
    BY <1>3 DEF Screen!MakeBar
  <2>2. /\ monitors \in Seq(Screen!MonitorOf) /\ now \in Seq(Screen!MonitorOf)
        /\ ScreenNamesOf(now) \subseteq ScreenNamesOf(monitors)
    <3>1. /\ monitors \in Seq(Screen!MonitorOf)
          /\ ScreenNamesOf(monitors) = ScreenNamesOf(ScreenServerLists(s1)) \cup ScreenListedNames(s1, s4.strict, Len(s1.outputs))
      BY ScreenMonitorsListed
    <3>2. /\ now \in Seq(Screen!MonitorOf)
          /\ ScreenNamesOf(now) = ScreenNamesOf(ScreenServerLists(s1)) \cup ScreenListedNames(s1, TRUE, Len(s1.outputs))
      BY ScreenMonitorsListed
    <3>3. ScreenListedNames(s1, TRUE, Len(s1.outputs)) \subseteq ScreenListedNames(s1, s4.strict, Len(s1.outputs))
      BY DEF ScreenListedNames, Screen!Listed
    <3> QED
      BY <3>1, <3>2, <3>3
  <2>3. m = Screen!Chosen(monitors)
    BY <2>1
  <2> HIDE DEF monitors, now, m, s
  <2> DEFINE wanted == Screen!MatchMonitor(monitors, Screen!MonitorName(monitors), s4.exact)
             fallback == Screen!MatchMonitor(monitors, s4.fallback, s4.exact)
  <2>4. m = IF wanted = Screen!NoMonitor /\ s4.fallback # Screen!None THEN fallback ELSE wanted
    BY <2>3 DEF Screen!Chosen
  <2>5. /\ wanted \in Screen!MonitorOf \cup {Screen!NoMonitor} /\ fallback \in Screen!MonitorOf \cup {Screen!NoMonitor}
        /\ Screen!MonitorName(monitors) \in ScreenNamesOf(monitors) => wanted.name = Screen!MonitorName(monitors)
        /\ s4.exact => wanted = Screen!NoMonitor \/ wanted.name = Screen!MonitorName(monitors)
        /\ s4.exact => fallback = Screen!NoMonitor \/ fallback.name = s4.fallback
    BY <2>2, ScreenMatched
  <2>6. s4.monitor # Screen!None => Screen!MonitorName(monitors) = s4.monitor
    BY DEF Screen!MonitorName
  <2> HIDE DEF wanted, fallback
  <2>7. m \in Screen!MonitorOf
    BY <2>1, <2>4, <2>5
  <2>8. Screen!MonitorMatched'
    <3>1. ASSUME s4.monitor # Screen!None, NEW x \in Screen!Range(now), x.name = s4.monitor
          PROVE  m.name = s4.monitor
      <4>1. s4.monitor \in ScreenNamesOf(monitors)
        <5>1. \E i \in DOMAIN now : x = now[i]
          BY <3>1 DEF Screen!Range
        <5>2. s4.monitor \in ScreenNamesOf(now)
          BY <3>1, <5>1 DEF ScreenNamesOf
        <5> QED
          BY <2>2, <5>2
      <4>2. wanted.name = s4.monitor
        <5>1. Screen!MonitorName(monitors) = s4.monitor
          BY <2>6, <3>1
        <5>2. Screen!MonitorName(monitors) \in ScreenNamesOf(monitors)
          BY <4>1, <5>1
        <5> QED
          BY <2>5, <5>1, <5>2
      <4>3. wanted # Screen!NoMonitor
        <5>1. Screen!NoMonitor.name = Screen!None
          BY DEF Screen!NoMonitor
        <5> QED
          BY <3>1, <4>2, <5>1
      <4> QED
        BY <2>4, <4>2, <4>3
    <3>2. ASSUME s4.monitor # Screen!None, s4.exact
          PROVE  m.name \in {s4.monitor, s4.fallback}
      BY <2>1, <2>4, <2>5, <2>6, <3>2
    <3> QED
      BY <1>1, <2>1, <3>1, <3>2 DEF Screen!MonitorMatched
  <2>9. Screen!StrutsCoverBar'
    <3> DEFINE px == Screen!Pixels(s4.x, m.w)
               py == Screen!Pixels(s4.y, m.h)
               p == Screen!Pos(m, s)
               t == Screen!Strut(m, s, p)
    <3>1. /\ m.x \in Int /\ m.y \in Int /\ m.w \in Nat /\ m.h \in Nat /\ s1.height \in Int
          /\ s4.strut_top \in Int /\ s4.strut_bottom \in Int /\ s4.border \in Int
          /\ s4.x \in Screen!Length /\ s4.y \in Screen!Length /\ s4.width \in Screen!Length /\ s4.height \in Screen!Length
      BY <2>7 DEF Screen!MonitorOf, Screen!Plausible
    <3>2. px \in Int /\ py \in Int /\ s.w \in Int /\ s.h \in Int
      <4>1. Screen!Pixels(s4.width, m.w) \in Int /\ Screen!Pixels(s4.height, m.h) \in Int
        BY <3>1, ScreenPixelsWhole
      <4>2. px \in Int /\ py \in Int
        BY <3>1, ScreenPixelsWhole
      <4>3. s.w = Screen!Pixels(s4.width, m.w) /\ s.h = Screen!Pixels(s4.height, m.h) + 2 * s4.border
        BY DEF s, Screen!Size
      <4> HIDE DEF px, py
      <4> QED
        BY <3>1, <4>1, <4>2, <4>3
    <3>3. /\ p.x = px + m.x
          /\ p.y = IF s4.bottom THEN m.y + m.h - s.h - py ELSE py + m.y
      BY DEF Screen!Pos
    <3> DEFINE below == s1.height - (m.y + m.h)
    <3>4. /\ t.first = p.x /\ t.last = p.x + (s.w + px) - 1
          /\ t.h = s.h + py + (IF s4.bottom THEN s4.strut_top ELSE s4.strut_bottom) +
                   (IF ~s4.bottom THEN m.y ELSE IF below > 0 THEN below ELSE 0)
      BY DEF Screen!Strut
    <3>5. Screen!Outward(m) => px >= 0 /\ s4.strut_top >= 0 /\ s4.strut_bottom >= 0
      BY DEF Screen!Outward
    <3>6. /\ s9' = m /\ s10' = s /\ s11' = p /\ s12' = t
          /\ s1' = s1 /\ s4' = s4
      BY <1>1, <2>1
    <3> HIDE DEF px, py, p, t
    <3>7. ASSUME Screen!Outward(m)
          PROVE  t.first <= p.x /\ p.x + s.w - 1 <= t.last
      BY <3>1, <3>2, <3>3, <3>4, <3>5, <3>7
    <3>8. ASSUME Screen!Outward(m), s4.bottom
          PROVE  s1.height - t.h <= p.y
      <4>1. CASE below > 0
        BY <3>1, <3>2, <3>3, <3>4, <3>5, <3>8, <4>1
      <4>2. CASE ~(below > 0)
        BY <3>1, <3>2, <3>3, <3>4, <3>5, <3>8, <4>2
      <4> QED
        BY <4>1, <4>2
    <3>9. ASSUME Screen!Outward(m), ~s4.bottom
          PROVE  p.y + s.h <= t.h
      BY <3>1, <3>2, <3>3, <3>4, <3>5, <3>9
    <3>10. Screen!Outward(s9)' => Screen!Outward(m)
      BY <3>6 DEF Screen!Outward
    <3> QED
      BY <3>6, <3>7, <3>8, <3>9, <3>10 DEF Screen!StrutsCoverBar
  <2> QED
    BY <2>8, <2>9
<1> QED
  BY <1>2, <1>3

(* A list that is as long as the screen's, with all that is in that one,   *)
(* is no change.                                                           *)
LEMMA ScreenUnchanged ==
  ASSUME Screen!Plausible, Screen!Looked, s5 # "look", ~Screen!HaveMonitorsChanged
  PROVE  Screen!Range(Screen!GetMonitors(s1, TRUE)) = Screen!Range(s7)
<1> DEFINE now == Screen!GetMonitors(s1, TRUE)
<1>1. PICK l \in ScreenLayouts : s7 = Screen!GetMonitors(l, TRUE)
  BY DEF Screen!Looked
<1>2. s7 \in Seq(Screen!MonitorOf) /\ Screen!Named(s7)
  BY <1>1, ScreenMonitorsListed
<1>3. now \in Seq(Screen!MonitorOf)
  BY ScreenMonitorsListed DEF Screen!Looked
<1>4. Len(now) = Len(s7) /\ Screen!Range(s7) \subseteq Screen!Range(now)
  BY DEF Screen!HaveMonitorsChanged
<1> HIDE DEF now
<1>5. Screen!Range(s7) = Has(s7) /\ Screen!Range(now) = Has(now)
  BY DEF Screen!Range, Has
<1>6. \A i, j \in DOMAIN s7 : s7[i] = s7[j] => i = j
  BY <1>2 DEF Screen!Named
<1>7. Has(s7) = Has(now)
  BY <1>2, <1>3, <1>4, <1>5, <1>6, SameLength
<1> QED
  BY <1>5, <1>7 DEF now

(* The screen starts in its invariant.                                      *)
LEMMA ScreenInitInv ==
  ASSUME Screen!Init
  PROVE  Screen!Inv
BY DEF Screen!Init, Screen!Inv, Screen!Looked, Screen!Watched, Screen!MonitorMatched,
   Screen!StrutsCoverBar

(* Each step keeps the invariant.                                           *)
LEMMA ScreenInvKept ==
  ASSUME Screen!Plausible, Screen!Inv, [Screen!Next]_(Screen!vars)
  PROVE  Screen!Inv'
<1> DEFINE now == Screen!GetMonitors(s1, TRUE)
<1>1. s3' = s3 /\ s4' = s4 /\ s4' \in ScreenBars
  BY DEF Screen!Next, Screen!ChangeLayout, Screen!Look, Screen!SelectInput,
     Screen!Mapped, Screen!MakeBar, Screen!HandleScreenChange, Screen!vars,
     Screen!Inv, Screen!Looked
<1>2. \A l : Screen!GetMonitors(l, TRUE)' = Screen!GetMonitors(l, TRUE)
  BY <1>1 DEF Screen!GetMonitors, Screen!AddOutput
<1>3. ASSUME s1' = s1
      PROVE  now' = now
  <2>1. PICK l : l = s1
    OBVIOUS
  <2>2. now' = Screen!GetMonitors(l, TRUE)'
    BY <1>3, <2>1
  <2>3. Screen!GetMonitors(l, TRUE)' = Screen!GetMonitors(l, TRUE)
    BY <1>2
  <2> QED
    BY <2>1, <2>2, <2>3
<1>4. s1' \in ScreenLayouts /\ s6' \in Nat /\ s2' \in Nat
  <2>1. s1 \in ScreenLayouts /\ s6 \in Nat /\ s2 \in Nat
    BY DEF Screen!Inv, Screen!Looked
  <2>2. CASE Screen!ChangeLayout
    BY <2>1, <2>2 DEF Screen!ChangeLayout
  <2>3. CASE ~Screen!ChangeLayout
    <3>1. UNCHANGED <<s1, s2>> /\ (s6' = s6 \/ s6' = 0 \/ (s6 > 0 /\ s6' = s6 - 1))
      BY <2>3 DEF Screen!Next, Screen!Look, Screen!SelectInput, Screen!Mapped,
         Screen!MakeBar, Screen!HandleScreenChange, Screen!vars
    <3> QED
      BY <2>1, <3>1
  <2> QED
    BY <2>2, <2>3
<1>5. Screen!Looked'
  <2>1. CASE Screen!Look
    <3>1. s7' = now /\ s1 \in ScreenLayouts
      BY <2>1 DEF Screen!Look, Screen!Inv, Screen!Looked
    <3> HIDE DEF now
    <3>2. \E l \in ScreenLayouts : s7' = Screen!GetMonitors(l, TRUE)
      BY <3>1 DEF now
    <3> QED
      BY <1>1, <1>2, <1>4, <3>2 DEF Screen!Looked
  <2>2. CASE ~Screen!Look
    <3>1. s7' = s7 /\ (s5' # "look" => s5 # "look")
      BY <2>2 DEF Screen!Next, Screen!ChangeLayout, Screen!SelectInput, Screen!Mapped,
         Screen!MakeBar, Screen!HandleScreenChange, Screen!vars
    <3> QED
      BY <1>1, <1>2, <1>4, <3>1 DEF Screen!Inv, Screen!Looked
  <2> QED
    BY <2>1, <2>2
<1>6. CASE Screen!ChangeLayout
  <2>1. UNCHANGED <<s4, s5, s7, s8, s9, s13>> /\ s2' # 0
    BY <1>6 DEF Screen!ChangeLayout, Screen!bar, Screen!Inv, Screen!Looked
  <2>2. Screen!Watched'
    <3>1. s5 \in {"select", "wait"} => s14'
      BY <1>6 DEF Screen!ChangeLayout
    <3>2. s5 \in {"bar", "run"} => s6' # 0
      BY <1>6 DEF Screen!ChangeLayout, Screen!Inv, Screen!Looked
    <3> QED
      BY <2>1, <3>1, <3>2 DEF Screen!Watched
  <2>3. Screen!MonitorMatched' /\ Screen!StrutsCoverBar'
    BY <2>1 DEF Screen!Inv, Screen!MonitorMatched, Screen!StrutsCoverBar
  <2> QED
    BY <1>5, <2>2, <2>3 DEF Screen!Inv
<1>7. CASE Screen!MakeBar
  <2>1. UNCHANGED <<s1, s6, s7, s8, s14>> /\ s5 = "bar" /\ s5' \in {"run", "failed"}
    BY <1>7 DEF Screen!MakeBar
  <2>2. Screen!Watched'
    BY <1>3, <2>1 DEF Screen!Inv, Screen!Watched
  <2>3. Screen!MonitorMatched' /\ Screen!StrutsCoverBar'
    BY <1>7, ScreenBarMade DEF Screen!Inv, Screen!Looked
  <2> QED
    BY <1>5, <2>2, <2>3 DEF Screen!Inv
<1>8. CASE Screen!Look \/ Screen!SelectInput \/ Screen!Mapped \/ Screen!HandleScreenChange \/ UNCHANGED Screen!vars
  <2>1. UNCHANGED <<s1, s4, s2, s9, s10, s11, s12, s13, s14>>
    BY <1>8 DEF Screen!Look, Screen!SelectInput, Screen!Mapped,
       Screen!HandleScreenChange, Screen!vars, Screen!bar
  <2>2. s5' = "run" => s5 = "run"
    BY <1>8 DEF Screen!Look, Screen!SelectInput, Screen!Mapped,
       Screen!HandleScreenChange, Screen!vars
  <2>3. Screen!MonitorMatched' /\ Screen!StrutsCoverBar'
    BY <2>1, <2>2 DEF Screen!Inv, Screen!MonitorMatched, Screen!StrutsCoverBar,
       Screen!Outward
  <2>4. now' = now
    BY <1>3, <2>1
  <2>5. Screen!Watched'
    <3> HIDE DEF now
    <3>1. CASE Screen!Look
      <4>1. s5' = "select" /\ s7' = now
        BY <3>1 DEF Screen!Look, now
      <4> QED
        BY <2>4, <4>1 DEF Screen!Watched, now
    <3>2. CASE Screen!SelectInput \/ UNCHANGED Screen!vars
      <4>1. UNCHANGED <<s7, s6, s8>> /\ (s5' = s5 \/ (s5 = "select" /\ s5' = "wait"))
        BY <3>2 DEF Screen!SelectInput, Screen!vars
      <4> QED
        BY <2>1, <2>4, <4>1 DEF Screen!Inv, Screen!Watched, now
    <3>3. CASE Screen!Mapped
      <4>1. s5 = "wait" /\ s5' = "bar" /\ s7' = s7
        BY <3>3 DEF Screen!Mapped
      <4>2. ~s14 => s7 = now
        BY <4>1 DEF Screen!Inv, Screen!Watched, now
      <4> QED
        BY <2>1, <2>4, <4>1, <4>2 DEF Screen!Watched, now
    <3>4. CASE Screen!HandleScreenChange
      <4>1. s5 = "run" /\ s5' = s5 /\ s7' = s7 /\ (~s8' => ~Screen!HaveMonitorsChanged)
        BY <3>4 DEF Screen!HandleScreenChange
      <4>2. ~s8' => Screen!Range(now) = Screen!Range(s7)
        BY <4>1, ScreenUnchanged DEF Screen!Inv, now
      <4> QED
        BY <2>4, <4>1, <4>2 DEF Screen!Watched, now
    <3> QED
      BY <1>8, <3>1, <3>2, <3>3, <3>4
  <2> QED
    BY <1>5, <2>3, <2>5 DEF Screen!Inv
<1> QED
  BY <1>6, <1>7, <1>8 DEF Screen!Next

(* What the invariant says.                                                *)
LEMMA ScreenInvHandled ==
  ASSUME Screen!Plausible, Screen!Inv
  PROVE  Screen!ScreenFollows /\ Screen!MonitorMatched /\ Screen!StrutsCoverBar /\ Screen!ClonesPurged
<1>1. Screen!ScreenFollows
  BY DEF Screen!Inv, Screen!Watched, Screen!ScreenFollows
<1>2. Screen!ClonesPurged
  <2> DEFINE all == Screen!GetMonitors(s1, FALSE)
  <2>1. all \in Seq(Screen!MonitorOf)
    BY ScreenMonitorsListed DEF Screen!Inv, Screen!Looked
  <2> HIDE DEF all
  <2>2. /\ \A i, j \in DOMAIN Screen!Purged(all) : i # j => ~Screen!Clone(Screen!Purged(all)[i], Screen!Purged(all)[j])
        /\ \A i \in DOMAIN all :
             all[i].w = 0 \/ \E j \in DOMAIN Screen!Purged(all) : Screen!Purged(all)[j] = all[i] \/ Screen!Clone(Screen!Purged(all)[j], all[i])
    BY <2>1, ScreenPurgedRight
  <2> QED
    BY <2>2 DEF Screen!ClonesPurged, all
<1> QED
  BY <1>1, <1>2 DEF Screen!Inv

-----------------------------------------------------------------------------
(* Backlight.                                                              *)
Backlight == INSTANCE Backlight WITH
  Screens <- BacklightScreens, MaxOps <- BacklightOps, screen <- s1,
  value <- s2, heard <- s3, listens <- s4, m_percentage <- s5,
  m_max_brightness <- s6, shown <- s7, missed <- s8, stepped <- s9,
  ops <- s10

(* A screen is of a kind that there is, with a range of values.            *)
ASSUME BacklightRanges == Backlight!Ranges

(* The first update is still to come.                                      *)
LEMMA BacklightInitInv ==
  ASSUME Backlight!Ranges, Backlight!Init
  PROVE  Backlight!Inv
<1>1. Backlight!Heard
  BY DEF Backlight!Init, Backlight!Heard
<1>2. s1 \in BacklightScreens /\ s1.max \in Nat /\ s2 = s1.max
  BY DEF Backlight!Ranges, Backlight!Init
<1>3. Backlight!Led
  BY <1>2 DEF Backlight!Init, Backlight!Led
<1> QED
  BY <1>1, <1>3 DEF Backlight!Inv

(* A value is either what it was, or heard, or missed.                     *)
LEMMA BacklightValueKeeps ==
  ASSUME Backlight!Heard, NEW v, Backlight!SetValue(v), UNCHANGED <<s1, s4, s7>>
  PROVE  Backlight!Heard'
<1>1. CASE v = s2
  BY <1>1 DEF Backlight!SetValue, Backlight!Heard, Backlight!Percentage
<1>2. CASE v # s2
  BY <1>2 DEF Backlight!SetValue, Backlight!Heard
<1> QED
  BY <1>1, <1>2

(* A step ends on the screen.                                              *)
LEMMA BacklightTargetThere ==
  ASSUME NEW by \in Int, NEW p \in Int, s6 \in Nat
  PROVE  Backlight!Target(by, p) \in 0 .. s6
<1> DEFINE q == Backlight!Cap(p + by, 0, 100)
           n == 2 * q * s6 + 100
           v == n \div 200
<1>1. q \in Int
  BY DEF Backlight!Cap
<1> HIDE DEF q
<1>2. n \in Int
  BY <1>1
<1>3. Backlight!Target(by, p) = Backlight!Cap(v, 0, s6)
  BY DEF Backlight!Target, Backlight!PercentageToValue, q
<1> HIDE DEF n
<1>4. v \in Int
  BY <1>2
<1> HIDE DEF v
<1> QED
  BY <1>3, <1>4 DEF Backlight!Cap

(* A percentage of a value is a number.                                    *)
LEMMA BacklightPercentageThere ==
  ASSUME Backlight!Ranges, s1 \in BacklightScreens, NEW v \in Int
  PROVE  Backlight!Percentage(v) \in Int
<1> DEFINE range == s1.max - s1.min
           n == 200 * (v - s1.min) + range
           m == 200 * v + s1.max
<1>1. s1.max \in Nat \ {0} /\ range \in Nat \ {0} /\ n \in Int /\ m \in Int
  BY DEF Backlight!Ranges
<1>2. Backlight!Percentage(v) = IF s1.kind = "sysfs" THEN m \div (2 * s1.max) ELSE Backlight!Nearest5(n \div (2 * range))
  BY DEF Backlight!Percentage
<1> HIDE DEF n, m, range
<1>3. m \div (2 * s1.max) \in Int /\ n \div (2 * range) \in Int
  BY <1>1, DivBounds
<1>4. \A k \in Int : Backlight!Nearest5(k) \in Int
  BY DEF Backlight!Nearest5
<1> QED
  BY <1>2, <1>3, <1>4

(* Every step keeps what is known of what is shown, ...                    *)
LEMMA BacklightHeardKept ==
  ASSUME Backlight!Heard, [Backlight!Next]_(Backlight!vars)
  PROVE  Backlight!Heard'
<1>1. CASE Backlight!Update
  BY <1>1 DEF Backlight!Update, Backlight!Heard, Backlight!Percentage
<1>2. CASE Backlight!Listen
  BY <1>2 DEF Backlight!Listen, Backlight!Heard, Backlight!Percentage
<1>3. ASSUME NEW by \in {5, -5}, Backlight!ChangeValue(by)
      PROVE  Backlight!Heard'
  <2>1. CASE Backlight!SetValue(Backlight!Target(by, s5))
    BY <1>3, <2>1, BacklightValueKeeps DEF Backlight!ChangeValue
  <2>2. CASE UNCHANGED <<s2, s3, s8>>
    BY <1>3, <2>2 DEF Backlight!ChangeValue, Backlight!Heard, Backlight!Percentage
  <2> QED
    BY <1>3, <2>1, <2>2 DEF Backlight!ChangeValue
<1>4. CASE Backlight!Elsewhere
  BY <1>4, BacklightValueKeeps DEF Backlight!Elsewhere
<1>5. CASE UNCHANGED Backlight!vars
  BY <1>5 DEF Backlight!vars, Backlight!Heard, Backlight!Percentage
<1> QED
  BY <1>1, <1>2, <1>3, <1>4, <1>5 DEF Backlight!Next

(* ... and what is known of where the value came from.                     *)
LEMMA BacklightLedKept ==
  ASSUME Backlight!Ranges, Backlight!Led, [Backlight!Next]_(Backlight!vars)
  PROVE  Backlight!Led'
<1>0. s1 \in BacklightScreens /\ s1.max \in Nat /\ s1.min \in Nat /\ s1.min < s1.max /\ s2 \in Int
  BY DEF Backlight!Ranges, Backlight!Led
<1>1. CASE Backlight!Update
  <2>1. Backlight!Percentage(s2) \in Int
    BY <1>0, BacklightPercentageThere
  <2>2. \A by, p : s9.from # -1 => Backlight!Target(by, p)' = Backlight!Target(by, p)
    BY <1>1 DEF Backlight!Update, Backlight!Led, Backlight!Target
  <2> QED
    BY <1>1, <2>1, <2>2 DEF Backlight!Update, Backlight!Led
<1>2. CASE Backlight!Listen
  BY <1>2 DEF Backlight!Listen, Backlight!Led, Backlight!Target
<1>3. ASSUME NEW by \in {5, -5}, Backlight!ChangeValue(by)
      PROVE  Backlight!Led'
  <2>1. CASE Backlight!SetValue(Backlight!Target(by, s5))
        /\ s9' = [from |-> IF s7 = -1 THEN -1 ELSE s2, by |-> by, percentage |-> s5]
    <3>1. /\ UNCHANGED <<s1, s5, s6, s7>> /\ s2' = Backlight!Target(by, s5)
      BY <1>3, <2>1 DEF Backlight!ChangeValue, Backlight!SetValue
    <3>2. s2' \in 0 .. s6
      BY <1>0, <3>1, BacklightTargetThere DEF Backlight!Led
    <3>3. Backlight!Target(by, s5)' = Backlight!Target(by, s5)
      BY <3>1 DEF Backlight!Target
    <3> QED
      BY <1>0, <2>1, <3>1, <3>2, <3>3 DEF Backlight!Led
  <2>2. CASE UNCHANGED s2 /\ s9' = [s9 EXCEPT !.from = -1]
    BY <1>3, <2>2 DEF Backlight!ChangeValue, Backlight!Led
  <2> QED
    BY <1>3, <2>1, <2>2 DEF Backlight!ChangeValue
<1>4. CASE Backlight!Elsewhere
  <2>1. s2' \in {s1.min, (s1.min + s1.max) \div 2, s1.max}
    BY <1>4 DEF Backlight!Elsewhere, Backlight!SetValue
  <2>2. s2' \in 0 .. s1.max
    BY <1>0, <2>1
  <2> QED
    BY <1>4, <2>2 DEF Backlight!Elsewhere, Backlight!Led
<1>5. CASE UNCHANGED Backlight!vars
  BY <1>5 DEF Backlight!vars, Backlight!Led, Backlight!Target
<1> QED
  BY <1>1, <1>2, <1>3, <1>4, <1>5 DEF Backlight!Next

(* Each step keeps the invariant.                                           *)
LEMMA BacklightInvKept ==
  ASSUME Backlight!Ranges, Backlight!Inv, [Backlight!Next]_(Backlight!vars)
  PROVE  Backlight!Inv'
  BY BacklightHeardKept, BacklightLedKept DEF Backlight!Inv

(* What it says of a bar that could hear.                                  *)
LEMMA BacklightInvShown ==
  ASSUME Backlight!Inv
  PROVE  Backlight!ShownAsHeard
  BY DEF Backlight!Inv, Backlight!Heard, Backlight!ShownAsHeard

(* A share of a screen with a dozen values, five per cent on or back, is   *)
(* another value.                                                          *)
LEMMA BacklightShareMoves ==
  ASSUME NEW max \in Nat, max >= 12, NEW from \in 0 .. max
  PROVE  LET p == (200 * from + max) \div (2 * max)
             up == Backlight!PercentageToValue(Backlight!Cap(p + 5, 0, 100), max)
             down == Backlight!PercentageToValue(Backlight!Cap(p - 5, 0, 100), max)
         IN (up > from \/ up = max) /\ (down < from \/ down = 0)
<1> DEFINE p == (200 * from + max) \div (2 * max)
<1>1. p \in Int /\ 2 * (p * max) <= 200 * from + max /\ 200 * from + max < 2 * (p * max) + 2 * max
  <2>1. 2 * max \in Nat \ {0} /\ 200 * from + max \in Int
    OBVIOUS
  <2>2. p \in Int /\ (2 * max) * p <= 200 * from + max /\ 200 * from + max < (2 * max) * p + 2 * max
    BY <2>1, DivBounds
  <2> HIDE DEF p
  <2> QED
    BY <2>2
<1> HIDE DEF p
<1>2. p >= 0 /\ p <= 100
  <2>1. CASE p < 0
    <3>1. (p + 1) * max <= 0
      BY <1>1, <2>1
    <3> QED
      BY <1>1, <3>1
  <2>2. CASE p > 100
    <3>1. p * max >= 101 * max
      BY <1>1, <2>2
    <3> QED
      BY <1>1, <3>1
  <2> QED
    BY <1>1, <2>1, <2>2
<1>3. ASSUME NEW q \in Int, NEW v \in Int, v = (2 * q * max + 100) \div 200
      PROVE  200 * v <= 2 * (q * max) + 100 /\ 2 * (q * max) + 100 < 200 * v + 200
  <2> DEFINE n == 2 * q * max + 100
  <2>1. n \in Int /\ n = 2 * (q * max) + 100
    OBVIOUS
  <2> HIDE DEF n
  <2>2. v = n \div 200
    BY <1>3 DEF n
  <2> QED
    BY <2>1, <2>2
<1>4. ASSUME NEW q \in Int
      PROVE  (2 * q * max + 100) \div 200 \in Int
  <2>1. 2 * q * max + 100 \in Int
    OBVIOUS
  <2> QED
    BY <2>1, DivBounds
<1>5. Backlight!PercentageToValue(Backlight!Cap(p + 5, 0, 100), max) > from \/ Backlight!PercentageToValue(Backlight!Cap(p + 5, 0, 100), max) = max
  <2> DEFINE q == Backlight!Cap(p + 5, 0, 100)
             v == (2 * q * max + 100) \div 200
  <2>1. q = IF p > 95 THEN 100 ELSE p + 5
    BY <1>1, <1>2 DEF Backlight!Cap
  <2>2. q \in Int /\ v \in Int
    BY <1>1, <1>4, <2>1
  <2>3. Backlight!PercentageToValue(q, max) = Backlight!Cap(v, 0, max)
    BY DEF Backlight!PercentageToValue
  <2>4. 200 * v <= 2 * (q * max) + 100 /\ 2 * (q * max) + 100 < 200 * v + 200
    BY <1>3, <2>2
  <2> HIDE DEF v, q
  <2>5. v > from \/ v >= max
    <3>1. CASE p > 95
      BY <2>1, <2>2, <2>4, <3>1
    <3>2. CASE p <= 95
      <4>1. q * max = p * max + 5 * max
        BY <1>1, <2>1, <3>2
      <4> QED
        BY <1>1, <2>2, <2>4, <4>1
    <3> QED
      BY <1>1, <3>1, <3>2
  <2> QED
    BY <2>2, <2>3, <2>5 DEF Backlight!Cap, q
<1>6. Backlight!PercentageToValue(Backlight!Cap(p - 5, 0, 100), max) < from \/ Backlight!PercentageToValue(Backlight!Cap(p - 5, 0, 100), max) = 0
  <2> DEFINE q == Backlight!Cap(p - 5, 0, 100)
             v == (2 * q * max + 100) \div 200
  <2>1. q = IF p < 5 THEN 0 ELSE p - 5
    BY <1>1, <1>2 DEF Backlight!Cap
  <2>2. q \in Int /\ v \in Int
    BY <1>1, <1>4, <2>1
  <2>3. Backlight!PercentageToValue(q, max) = Backlight!Cap(v, 0, max)
    BY DEF Backlight!PercentageToValue
  <2>4. 200 * v <= 2 * (q * max) + 100 /\ 2 * (q * max) + 100 < 200 * v + 200
    BY <1>3, <2>2
  <2> HIDE DEF v, q
  <2>5. v < from \/ v <= 0
    <3>1. CASE p < 5
      BY <2>1, <2>2, <2>4, <3>1
    <3>2. CASE p >= 5
      <4>1. q * max = p * max - 5 * max
        BY <1>1, <2>1, <3>2
      <4> QED
        BY <1>1, <2>2, <2>4, <4>1
    <3> QED
      BY <1>1, <3>1, <3>2
  <2> QED
    BY <2>2, <2>3, <2>5 DEF Backlight!Cap, q
<1> QED
  BY <1>5, <1>6 DEF p

(* So is one of the steps of an output whose range twenty divides.         *)
LEMMA BacklightTwentiethMoves ==
  ASSUME NEW m \in Nat \ {0}, NEW k \in 0 .. 20
  PROVE  LET max == 20 * m
             p == Backlight!Nearest5((200 * (m * k) + max) \div (2 * max))
             up == Backlight!PercentageToValue(Backlight!Cap(p + 5, 0, 100), max)
             down == Backlight!PercentageToValue(Backlight!Cap(p - 5, 0, 100), max)
         IN (up > m * k \/ up = max) /\ (down < m * k \/ down = 0)
<1> DEFINE max == 20 * m
<1>1. (200 * (m * k) + max) \div (2 * max) = 5 * k
  <2>1. /\ 200 * (m * k) + max \in Int /\ 2 * max \in Nat \ {0} /\ 5 * k \in Int
        /\ (2 * max) * (5 * k) = 200 * (m * k)
    OBVIOUS
  <2> DEFINE n == 200 * (m * k) + max
             d == 2 * max
             q == 5 * k
  <2>2. n \in Int /\ d \in Nat \ {0} /\ q \in Int /\ d * q <= n /\ n < d * q + d
    BY <2>1
  <2> HIDE DEF n, d, q
  <2>3. n \div d = q
    BY <2>2, DivIs
  <2> QED
    BY <2>3 DEF n, d, q
<1>2. Backlight!Nearest5(5 * k) = 5 * k
  BY DEF Backlight!Nearest5
<1>3. ASSUME NEW j \in 0 .. 20
      PROVE  Backlight!PercentageToValue(5 * j, max) = m * j
  <2>1. m * j \in Nat /\ m * j <= 20 * m /\ 2 * (5 * j) * max + 100 = 200 * (m * j) + 100
    OBVIOUS
  <2>2. (2 * (5 * j) * max + 100) \div 200 = m * j
    <3> DEFINE n == 2 * (5 * j) * max + 100
               v == m * j
    <3>1. v \in Int /\ n = 200 * v + 100
      BY <2>1
    <3> HIDE DEF n, v
    <3>2. n \div 200 = v
      BY <3>1
    <3> QED
      BY <3>2 DEF n, v
  <2> QED
    BY <2>1, <2>2 DEF Backlight!PercentageToValue, Backlight!Cap
<1>4. Backlight!Cap(5 * k + 5, 0, 100) = 5 * (IF k = 20 THEN 20 ELSE k + 1)
  BY DEF Backlight!Cap
<1>5. Backlight!Cap(5 * k - 5, 0, 100) = 5 * (IF k = 0 THEN 0 ELSE k - 1)
  BY DEF Backlight!Cap
<1>6. /\ k # 20 => m * (k + 1) > m * k
      /\ k # 0 => m * (k - 1) < m * k
  OBVIOUS
<1>7. LET up == Backlight!PercentageToValue(Backlight!Cap(5 * k + 5, 0, 100), max) IN up > m * k \/ up = max
  <2>1. CASE k = 20
    BY <1>3, <1>4, <2>1
  <2>2. CASE k # 20
    BY <1>3, <1>4, <1>6, <2>2
  <2> QED
    BY <2>1, <2>2
<1>8. LET down == Backlight!PercentageToValue(Backlight!Cap(5 * k - 5, 0, 100), max) IN down < m * k \/ down = 0
  <2>1. CASE k = 0
    BY <1>3, <1>5, <2>1
  <2>2. CASE k # 0
    BY <1>3, <1>5, <1>6, <2>2
  <2> QED
    BY <2>1, <2>2
<1> QED
  BY <1>1, <1>2, <1>7, <1>8

(* What the invariant says of a step.                                      *)
LEMMA BacklightInvMoves ==
  ASSUME Backlight!Ranges, Backlight!Inv
  PROVE  Backlight!StepMoves
<1> DEFINE from == s9.from
           max == s1.max
<1>1. SUFFICES ASSUME from # -1, s1.min = 0, s9.percentage = Backlight!Percentage(from), max >= 12,
                      s1.kind = "randr" => max % 20 = 0 /\ (100 * from) % (5 * max) = 0
               PROVE  IF s9.by > 0 THEN s2 > from \/ s2 = max ELSE s2 < from \/ s2 = 0
  BY DEF Backlight!StepMoves
<1>2. /\ max \in Nat /\ from \in 0 .. max /\ s9.by \in {5, -5} /\ s6 = max
      /\ s2 = Backlight!Target(s9.by, s9.percentage)
  BY <1>1 DEF Backlight!Inv, Backlight!Led, Backlight!Ranges
<1>3. SUFFICES LET p == Backlight!Percentage(from)
                   up == Backlight!PercentageToValue(Backlight!Cap(p + 5, 0, 100), max)
                   down == Backlight!PercentageToValue(Backlight!Cap(p - 5, 0, 100), max)
               IN (up > from \/ up = max) /\ (down < from \/ down = 0)
  <2>1. CASE s9.by = 5
    BY <1>1, <1>2, <1>3, <2>1 DEF Backlight!Target
  <2>2. CASE s9.by = -5
    <3>1. Backlight!Percentage(from) + (-5) = Backlight!Percentage(from) - 5
      BY <1>2, BacklightPercentageThere DEF Backlight!Inv, Backlight!Led
    <3> QED
      BY <1>1, <1>2, <1>3, <2>2, <3>1 DEF Backlight!Target
  <2> QED
    BY <1>2, <2>1, <2>2
<1>4. CASE s1.kind = "sysfs"
  <2>1. Backlight!Percentage(from) = (200 * from + max) \div (2 * max)
    BY <1>4 DEF Backlight!Percentage
  <2> HIDE DEF from, max
  <2> QED
    BY <1>1, <1>2, <2>1, BacklightShareMoves
<1>5. CASE s1.kind # "sysfs" /\ max % 20 = 0 /\ (100 * from) % (5 * max) = 0
  <2> DEFINE m == max \div 20
             k == (100 * from) \div (5 * max)
  <2>0. Backlight!Percentage(from) = Backlight!Nearest5((200 * from + max) \div (2 * max))
    <3>1. from - s1.min = from /\ max - s1.min = max
      BY <1>1, <1>2
    <3> HIDE DEF from, max
    <3>2. Backlight!Percentage(from) = Backlight!Nearest5((200 * (from - s1.min) + (max - s1.min)) \div (2 * (max - s1.min)))
      BY <1>5 DEF Backlight!Percentage, max
    <3> QED
      BY <3>1, <3>2
  <2> HIDE DEF from, max
  <2>1. m \in Nat \ {0} /\ max = 20 * m
    BY <1>1, <1>2, <1>5
  <2>2. k \in Int /\ 100 * from = (5 * max) * k
    BY <1>1, <1>2, <1>5
  <2> HIDE DEF m, k
  <2>3. from = m * k
    BY <1>2, <2>1, <2>2
  <2>4. k \in 0 .. 20
    <3>1. CASE k < 0
      BY <1>2, <2>1, <2>2, <2>3, <3>1
    <3>2. CASE k > 20
      <4>1. m * k >= m * 21
        BY <2>1, <2>2, <3>2
      <4> QED
        BY <1>2, <2>1, <2>3, <4>1
    <3> QED
      BY <2>2, <3>1, <3>2
  <2>5. Backlight!Percentage(from) = Backlight!Nearest5((200 * (m * k) + 20 * m) \div (2 * (20 * m)))
    BY <2>0, <2>1, <2>3
  <2>6. LET p == Backlight!Nearest5((200 * (m * k) + 20 * m) \div (2 * (20 * m)))
            up == Backlight!PercentageToValue(Backlight!Cap(p + 5, 0, 100), 20 * m)
            down == Backlight!PercentageToValue(Backlight!Cap(p - 5, 0, 100), 20 * m)
        IN (up > m * k \/ up = 20 * m) /\ (down < m * k \/ down = 0)
    BY <2>1, <2>4, BacklightTwentiethMoves
  <2> QED
    BY <2>1, <2>3, <2>5, <2>6
<1> QED
  BY <1>1, <1>2, <1>4, <1>5 DEF Backlight!Inv, Backlight!Led, Backlight!Ranges

-----------------------------------------------------------------------------
(* Net.                                                                    *)
Net == INSTANCE Net WITH
  Configs <- NetConfigs, Systems <- NetSystems, Word <- NetWord,
  MaxOps <- NetOps, conf <- s1, system <- s2, bytes <- s3,
  since <- s4, runner <- s5, current <- s6, previous <- s7,
  ip <- s8, m_essid <- s9, m_signal <- s10, m_connected <- s11,
  m_packetloss <- s12, m_counter <- s13, shown <- s14, last <- s15,
  queried <- s16, traffic <- s17, age <- s18, ops <- s19

(* A wireless interface that is up has joined an access point.             *)
ASSUME NetDrivers == Net!Plausible

(* What a loop has found at its end is the last that counts, or what there *)
(* was before.                                                             *)
LEMMA NetLastFoundIs ==
  ASSUME NEW n \in Nat, NEW counts, counts \subseteq 1 .. n, NEW value, NEW before
  PROVE  Net!LastFound(n, counts, value, before) = IF counts = {} THEN before ELSE value[Net!Max(counts)]
<1> DEFINE upto(k) == counts \cap 1 .. k
           Is(f) == f = [k \in 0 .. n |-> IF k = 0 THEN before ELSE IF k \in counts THEN value[k] ELSE f[k - 1]]
           with == CHOOSE f : Is(f)
           found == [k \in 0 .. n |-> IF upto(k) = {} THEN before ELSE value[Net!Max(upto(k))]]
<1>1. \A k \in 1 .. n : k \in 0 .. n /\ k - 1 \in 0 .. n /\ k # 0
  OBVIOUS
<1>2. ASSUME NEW k \in 1 .. n, k \in counts
      PROVE  found[k] = value[k]
  <2>1. k \in upto(k) /\ \A i \in upto(k) : i \in Nat /\ k >= i
    BY <1>2
  <2> HIDE DEF upto
  <2>2. Net!Max(upto(k)) = k
    <3>1. k \in Nat /\ \A x \in upto(k) : (\A y \in upto(k) : x >= y) => x = k
      BY <2>1
    <3> QED
      BY <2>1, <3>1 DEF Net!Max
  <2> QED
    BY <1>1, <2>1, <2>2
<1>3. ASSUME NEW k \in 1 .. n, k \notin counts
      PROVE  found[k] = found[k - 1]
  <2>1. upto(k) = upto(k - 1)
    BY <1>3
  <2> HIDE DEF upto
  <2> QED
    BY <1>1, <2>1
<1>4. found[0] = before
  <2>1. upto(0) = {} /\ 0 \in 0 .. n
    OBVIOUS
  <2> HIDE DEF upto
  <2> QED
    BY <2>1
<1>5. Is(found)
  <2>1. \A k \in 0 .. n : found[k] = IF k = 0 THEN before ELSE IF k \in counts THEN value[k] ELSE found[k - 1]
    <3>1. \A k \in 0 .. n : k = 0 \/ k \in 1 .. n
      OBVIOUS
    <3> HIDE DEF found
    <3> QED
      BY <1>2, <1>3, <1>4, <3>1
  <2>2. found = [k \in 0 .. n |-> found[k]]
    OBVIOUS
  <2> HIDE DEF found
  <2> QED
    BY <2>1, <2>2
<1>6. Is(with)
  <2> HIDE DEF Is
  <2> QED
    BY <1>5
<1>7. Net!LastFound(n, counts, value, before) = with[n]
  BY DEF Net!LastFound
<1> HIDE DEF with
<1>8. with[0] = before /\ \A k \in 1 .. n : with[k] = IF k \in counts THEN value[k] ELSE with[k - 1]
  BY <1>1, <1>6
<1>9. with[n] = found[n]
  <2> DEFINE T == {k \in 0 .. n : with[k] = found[k]}
  <2> HIDE DEF found
  <2>1. 0 \in T
    BY <1>4, <1>8
  <2>2. \A k \in 1 .. n : k - 1 \in T => k \in T
    BY <1>1, <1>2, <1>3, <1>8
  <2> HIDE DEF T
  <2>3. 0 .. n \subseteq T
    BY <2>1, <2>2, UpTo
  <2> QED
    BY <2>3 DEF T
<1>10. upto(n) = counts /\ n \in 0 .. n
  <2>1. \A S : counts \subseteq S => counts \cap S = counts
    OBVIOUS
  <2>2. n \in 0 .. n /\ upto(n) = counts \cap 1 .. n
    OBVIOUS
  <2> QED
    BY <2>1, <2>2
<1> HIDE DEF upto
<1>11. found[n] = IF upto(n) = {} THEN before ELSE value[Net!Max(upto(n))]
  BY <1>10
<1> HIDE DEF found
<1> QED
  BY <1>7, <1>9, <1>10, <1>11

(* What the addresses of the interface are.                                *)
LEMMA NetAddressIs ==
  ASSUME NEW addrs, addrs \in Seq(Net!Range(addrs)), NEW family
  PROVE  LET own == {i \in DOMAIN addrs : Net!Counts(addrs[i], family)}
         IN Net!Address(addrs, family) = IF own = {} THEN Net!NO_IP ELSE addrs[Net!Max(own)].addr
<1> DEFINE own == {i \in DOMAIN addrs : Net!Counts(addrs[i], family)}
           value == [i \in DOMAIN addrs |-> addrs[i].addr]
           n == Len(addrs)
<1>1. n \in Nat /\ DOMAIN addrs = 1 .. n /\ own \subseteq 1 .. n
  OBVIOUS
<1>2. Net!Address(addrs, family) = Net!LastFound(n, own, value, Net!NO_IP)
  BY DEF Net!Address
<1>3. own # {} => Net!Max(own) \in own
  <2> HIDE DEF own, n
  <2>1. ASSUME own # {} PROVE \E x \in own : \A y \in own : x >= y
    BY <1>1, <2>1, GreatestOf
  <2> QED
    BY <2>1 DEF Net!Max
<1>4. own # {} => value[Net!Max(own)] = addrs[Net!Max(own)].addr
  <2>1. own \subseteq DOMAIN addrs
    OBVIOUS
  <2> HIDE DEF own
  <2> QED
    BY <1>3, <2>1
<1> HIDE DEF own, value, n
<1>5. Net!LastFound(n, own, value, Net!NO_IP) = IF own = {} THEN Net!NO_IP ELSE value[Net!Max(own)]
  BY <1>1, NetLastFoundIs
<1> QED
  BY <1>2, <1>4, <1>5 DEF own

(* Nothing has been queried at first.                                      *)
LEMMA NetInitInv ==
  ASSUME Net!Plausible, Net!Init
  PROVE  Net!Inv
<1>1. Net!Counted
  <2>1. NetWord - 2 \in 0 .. NetWord - 1 /\ 0 \in 0 .. NetWord - 1
    BY DEF Net!Plausible
  <2>2. s16 \in BOOLEAN \X BOOLEAN /\ ~s16[1] /\ ~s16[2]
    BY DEF Net!Init
  <2>3. s3 = [own |-> s3.own, other |-> s3.other] /\ s3.own = NetWord - 2 /\ s3.other = 0
    BY DEF Net!Init
  <2>4. s4 = 0 /\ s17 = 0 /\ s6 = 0 /\ s7 = 0
    BY DEF Net!Init
  <2> QED
    BY <2>1, <2>2, <2>3, <2>4 DEF Net!Counted
<1>2. Net!Published
  BY DEF Net!Init, Net!Published
<1>3. Net!ConnectedToSomething
  BY DEF Net!Init, Net!ConnectedToSomething
<1>4. Net!Pinging
  <2>1. s1.ping \in Nat
    BY DEF Net!Init, Net!Plausible
  <2>2. s13 = -1 /\ s18 = 0
    BY DEF Net!Init
  <2>3. s1.ping > 0 => -1 \in -1 .. s1.ping /\ -1 < s1.ping
    BY <2>1
  <2> QED
    BY <2>2, <2>3 DEF Net!Pinging
<1> QED
  BY <1>1, <1>2, <1>3, <1>4 DEF Net!Init, Net!Inv

(* Traffic moves the counters on.                                          *)
LEMMA NetTrafficCounted ==
  ASSUME Net!Plausible, Net!Counted, Net!Environment
  PROVE  Net!Counted'
<1>1. NetWord \in Nat \ {0}
  BY DEF Net!Plausible
<1>2. UNCHANGED <<s1, s6, s7, s17, s16>>
  BY DEF Net!Environment, Net!status, Net!history
<1>3. CASE UNCHANGED <<s3, s4>>
  BY <1>2, <1>3 DEF Net!Counted, Net!Received
<1>4. ASSUME NEW i \in {"own", "other"}, s3' = [s3 EXCEPT ![i] = (@ + 3) % NetWord],
             s4' = IF s1.accumulate \/ s3'.own # s3.own THEN s4 + 3 ELSE s4
      PROVE  Net!Counted'
  <2> DEFINE o == s3.own
             p == s3.other
  <2>1. /\ o \in 0 .. NetWord - 1 /\ p \in 0 .. NetWord - 1 /\ o \in Int /\ p \in Int /\ s4 \in Nat /\ s6 \in Int
        /\ s3 = [own |-> o, other |-> p]
    BY <1>1 DEF Net!Counted
  <2>2. /\ s3' = [own |-> s3'.own, other |-> s3'.other]
        /\ i = "own" => s3'.own = (o + 3) % NetWord /\ s3'.other = p
        /\ i = "other" => s3'.own = o /\ s3'.other = (p + 3) % NetWord
    BY <1>4, <2>1
  <2> HIDE DEF o, p
  <2>3. (o + 3) % NetWord \in 0 .. NetWord - 1 /\ (p + 3) % NetWord \in 0 .. NetWord - 1
    <3>1. o + 3 \in Int /\ p + 3 \in Int
      BY <2>1
    <3> DEFINE a == o + 3
               b == p + 3
    <3>2. a \in Int /\ b \in Int
      BY <3>1
    <3> HIDE DEF a, b
    <3>3. a % NetWord \in 0 .. NetWord - 1 /\ b % NetWord \in 0 .. NetWord - 1
      BY <1>1, <3>2, ModWhole
    <3> QED
      BY <3>3 DEF a, b
  <2>4. s3'.own \in 0 .. NetWord - 1 /\ s3'.other \in 0 .. NetWord - 1 /\ s4' \in Nat
    BY <1>4, <2>1, <2>2, <2>3
  <2>5. s16[2] => Net!Received' = (s6 + s4)' % NetWord
    <3> SUFFICES ASSUME s16[2]
                 PROVE  Net!Received' = (s6 + s4') % NetWord
      BY <1>2
    <3>1. Net!Received = (s6 + s4) % NetWord
      BY DEF Net!Counted
    <3>2. CASE s1.accumulate
      <4>1. Net!Received = (o + p) % NetWord /\ Net!Received' = (s3'.own + s3'.other) % NetWord
        BY <1>2, <3>2 DEF Net!Received, o, p
      <4>2. Net!Received' = ((o + p) + 3) % NetWord
        <5>1. CASE i = "own"
          <6>1. (((o + 3) % NetWord) + p) % NetWord = ((o + 3) + p) % NetWord
            <7> DEFINE a == o + 3
            <7>1. a \in Int
              BY <2>1
            <7> HIDE DEF a
            <7>2. ((a % NetWord) + p) % NetWord = (a + p) % NetWord
              BY <1>1, <2>1, <7>1, ModPlus
            <7> QED
              BY <7>2 DEF a
          <6>2. (o + 3) + p = (o + p) + 3
            BY <2>1
          <6>3. s3'.own = (o + 3) % NetWord /\ s3'.other = p
            BY <2>2, <5>1
          <6>4. Net!Received' = (((o + 3) % NetWord) + p) % NetWord
            BY <4>1, <6>3, Zenon
          <6>5. Net!Received' = ((o + 3) + p) % NetWord
            BY <6>1, <6>4, Zenon
          <6> QED
            BY <6>2, <6>5, Zenon
        <5>2. CASE i = "other"
          <6>1. (o + ((p + 3) % NetWord)) % NetWord = ((p + 3) + o) % NetWord
            <7> DEFINE a == p + 3
            <7>1. a \in Int
              BY <2>1
            <7> HIDE DEF a
            <7>2. (o + (a % NetWord)) % NetWord = (a + o) % NetWord
              BY <1>1, <2>1, <7>1, ModPlus
            <7> QED
              BY <7>2 DEF a
          <6>2. (p + 3) + o = (o + p) + 3
            BY <2>1
          <6>3. s3'.own = o /\ s3'.other = (p + 3) % NetWord
            BY <2>2, <5>2
          <6>4. Net!Received' = (o + ((p + 3) % NetWord)) % NetWord
            BY <4>1, <6>3, Zenon
          <6>5. Net!Received' = ((p + 3) + o) % NetWord
            BY <6>1, <6>4, Zenon
          <6> QED
            BY <6>2, <6>5, Zenon
        <5> QED
          BY <5>1, <5>2
      <4>3. ((o + p) + 3) % NetWord = (((o + p) % NetWord) + 3) % NetWord
        <5> DEFINE a == o + p
        <5>1. a \in Int /\ 3 \in Int
          BY <2>1
        <5> HIDE DEF a
        <5>2. ((a % NetWord) + 3) % NetWord = (a + 3) % NetWord
          BY <1>1, <5>1, ModPlus
        <5> QED
          BY <5>2 DEF a
      <4>4. (((s6 + s4) % NetWord) + 3) % NetWord = ((s6 + s4) + 3) % NetWord
        <5> DEFINE a == s6 + s4
        <5>1. a \in Int /\ 3 \in Int
          BY <2>1
        <5> HIDE DEF a
        <5>2. ((a % NetWord) + 3) % NetWord = (a + 3) % NetWord
          BY <1>1, <5>1, ModPlus
        <5> QED
          BY <5>2 DEF a
      <4>5. (s6 + s4) + 3 = s6 + s4'
        BY <1>4, <2>1, <3>2
      <4> QED
        BY <3>1, <4>1, <4>2, <4>3, <4>4, <4>5
    <3>3. CASE ~s1.accumulate
      <4>1. Net!Received = o /\ Net!Received' = s3'.own
        BY <1>2, <3>3 DEF Net!Received, o
      <4>2. CASE s3'.own = o
        BY <1>4, <3>1, <3>3, <4>1, <4>2 DEF o
      <4>3. CASE s3'.own # o
        <5>1. s3'.own = (o + 3) % NetWord /\ s4' = s4 + 3
          BY <1>4, <2>2, <3>3, <4>3 DEF o
        <5>2. (((s6 + s4) % NetWord) + 3) % NetWord = ((s6 + s4) + 3) % NetWord
          <6> DEFINE a == s6 + s4
          <6>1. a \in Int /\ 3 \in Int
            BY <2>1
          <6> HIDE DEF a
          <6>2. ((a % NetWord) + 3) % NetWord = (a + 3) % NetWord
            BY <1>1, <6>1, ModPlus
          <6> QED
            BY <6>2 DEF a
        <5>3. (s6 + s4) + 3 = s6 + s4'
          BY <2>1, <5>1
        <5> QED
          BY <3>1, <4>1, <5>1, <5>2, <5>3
      <4> QED
        BY <4>2, <4>3
    <3> QED
      BY <3>2, <3>3
  <2> QED
    BY <1>2, <2>2, <2>4, <2>5 DEF Net!Counted
<1> QED
  BY <1>3, <1>4 DEF Net!Environment

(* What is read is what a counter holds.                                   *)
LEMMA NetReceivedThere ==
  ASSUME Net!Plausible, Net!Counted
  PROVE  Net!Received \in 0 .. NetWord - 1
<1> DEFINE a == s3.own + s3.other
<1>1. a \in Int /\ s3.own \in 0 .. NetWord - 1
  BY DEF Net!Plausible, Net!Counted
<1>2. Net!Received = IF s1.accumulate THEN a % NetWord ELSE s3.own
  BY DEF Net!Received
<1> HIDE DEF a
<1>3. a % NetWord \in 0 .. NetWord - 1
  BY <1>1, ModWhole DEF Net!Plausible
<1> QED
  BY <1>1, <1>2, <1>3

(* A query takes what has been counted.                                    *)
LEMMA NetQueryCounted ==
  ASSUME Net!Plausible, Net!Counted, Net!Query
  PROVE  Net!Counted'
<1>1. /\ s7' = s6 /\ s6' = Net!Received /\ s4' = 0 /\ s17' = s4
      /\ s16' = <<s16[2], TRUE>> /\ UNCHANGED <<s1, s3>>
  BY DEF Net!Query
<1>2. NetWord \in Nat \ {0} /\ s16[2] \in BOOLEAN
  BY DEF Net!Plausible, Net!Counted
<1>3. Net!Received \in 0 .. NetWord - 1
  BY NetReceivedThere
<1>4. Net!Received' = Net!Received
  BY <1>1 DEF Net!Received
<1> DEFINE a == Net!Received
<1>5. a \in 0 .. NetWord - 1 /\ s6' = a /\ Net!Received' = a
  BY <1>1, <1>3, <1>4
<1> HIDE DEF a
<1>6. Net!Received' = (s6' + s4') % NetWord
  <2>1. a % NetWord = a /\ a + 0 = a
    BY <1>2, <1>5
  <2> QED
    BY <1>1, <1>5, <2>1
<1>7. s16[2] => s6' = (s7' + s17') % NetWord
  BY <1>1 DEF Net!Counted
<1>8. s16' \in BOOLEAN \X BOOLEAN /\ s16'[1] = s16[2] /\ s16'[2] = TRUE
  BY <1>1, <1>2
<1>9. s3' = s3 /\ s4' \in Nat /\ s17' \in Nat /\ s6' \in Int /\ s7' \in Int
  BY <1>1, <1>2, <1>3 DEF Net!Counted
<1> QED
  BY <1>6, <1>7, <1>8, <1>9 DEF Net!Counted

(* Each step keeps the counters and what was counted since together.        *)
LEMMA NetCountedKept ==
  ASSUME Net!Plausible, Net!Counted, [Net!Next]_(Net!vars)
  PROVE  Net!Counted'
<1>1. CASE Net!QueryFails
  <2>1. /\ s7' = s6 /\ s4' = 0 /\ s17' = s4 /\ s16' = <<s16[2], FALSE>>
        /\ s3' = s3 /\ s6' = IF s2.calls THEN Net!Received ELSE 0
    BY <1>1 DEF Net!QueryFails
  <2>2. Net!Received \in 0 .. NetWord - 1 /\ NetWord \in Nat
    BY NetReceivedThere DEF Net!Plausible
  <2>3. s6' \in Int
    BY <2>1, <2>2
  <2>4. s16' \in BOOLEAN \X BOOLEAN /\ ~s16'[2]
    BY <2>1 DEF Net!Counted
  <2> QED
    BY <2>1, <2>3, <2>4 DEF Net!Counted
<1>2. CASE Net!Query
  BY <1>2, NetQueryCounted
<1>3. CASE Net!Ping
  BY <1>3 DEF Net!Ping, Net!Counted, Net!Received, Net!status
<1>4. CASE Net!Publish
  BY <1>4 DEF Net!Publish, Net!Counted, Net!Received, Net!status, Net!history
<1>5. CASE Net!Wake
  BY <1>5 DEF Net!Wake, Net!Counted, Net!Received, Net!status, Net!history
<1>6. CASE Net!Subthread
  BY <1>6 DEF Net!Subthread, Net!Counted, Net!Received, Net!status, Net!history
<1>7. CASE Net!Environment
  BY <1>7, NetTrafficCounted
<1>8. CASE UNCHANGED Net!vars
  BY <1>8 DEF Net!vars, Net!Counted, Net!Received
<1> QED
  BY <1>1, <1>2, <1>3, <1>4, <1>5, <1>6, <1>7, <1>8 DEF Net!Next

(* What is shown is what was queried.                                      *)
LEMMA NetPublishedKept ==
  ASSUME Net!Published, [Net!Next]_(Net!vars)
  PROVE  Net!Published'
<1>1. CASE Net!QueryFails
  BY <1>1 DEF Net!QueryFails, Net!Published
<1>2. CASE Net!Query
  <2>1. s5' # "sleep" /\ s14' = s14 /\ s8' = Net!Ip(s2.addrs) /\ s15' = s2
    BY <1>2 DEF Net!Query
  <2>2. s8' = Net!Ip(s15.addrs)'
    BY <2>1 DEF Net!Ip, Net!Address
  <2> QED
    BY <2>1, <2>2 DEF Net!Published
<1>3. CASE Net!Ping
  BY <1>3 DEF Net!Ping, Net!Published, Net!Ip, Net!Address, Net!status
<1>4. CASE Net!Publish
  BY <1>4 DEF Net!Publish, Net!Published, Net!Ip, Net!Address, Net!Format, Net!status,
     Net!history
<1>5. CASE Net!Wake
  BY <1>5 DEF Net!Wake, Net!Published, Net!Ip, Net!Address, Net!status, Net!history
<1>6. CASE Net!Subthread
  BY <1>6 DEF Net!Subthread, Net!Published, Net!Ip, Net!Address, Net!Format,
     Net!status, Net!history
<1>7. CASE Net!Environment
  BY <1>7 DEF Net!Environment, Net!Published, Net!Ip, Net!Address, Net!Format,
     Net!status, Net!history
<1>8. CASE UNCHANGED Net!vars
  BY <1>8 DEF Net!vars, Net!Published, Net!Ip, Net!Address, Net!Format
<1> QED
  BY <1>1, <1>2, <1>3, <1>4, <1>5, <1>6, <1>7, <1>8 DEF Net!Next

(* Who is connected has joined something, ...                              *)
LEMMA NetConnectedKept ==
  ASSUME Net!Plausible, s2 \in NetSystems, Net!ConnectedToSomething, [Net!Next]_(Net!vars)
  PROVE  Net!ConnectedToSomething'
<1>1. CASE Net!QueryFails
  BY <1>1 DEF Net!QueryFails, Net!ConnectedToSomething
<1>2. CASE Net!Query
  <2> SUFFICES ASSUME s11', s1.type = "wireless"
               PROVE  IF s1.built = "iw" THEN s2.essid # "" ELSE Net!Associated(s2) \/ s2.operstate = "unknown"
    BY <1>2 DEF Net!Query, Net!ConnectedToSomething, Net!Associated
  <2>1. s2.wireless /\ Net!QueryWireless /\ Net!Connected
    BY <1>2 DEF Net!Query, Net!Queryable
  <2>2. Net!TestInterface /\ s9' # ""
    BY <2>1 DEF Net!Connected, Net!WirelessConnected
  <2>3. CASE s1.built = "iw"
    BY <2>1, <2>2, <2>3 DEF Net!QueryWireless
  <2>4. CASE s1.built # "iw"
    BY <2>1, <2>2, <2>4 DEF Net!TestInterface, Net!Plausible
  <2> QED
    BY <2>3, <2>4
<1>3. CASE Net!Ping
  BY <1>3 DEF Net!Ping, Net!ConnectedToSomething, Net!Associated
<1>4. CASE Net!Publish
  BY <1>4 DEF Net!Publish, Net!ConnectedToSomething, Net!Associated, Net!history
<1>5. CASE Net!Wake
  BY <1>5 DEF Net!Wake, Net!ConnectedToSomething, Net!Associated, Net!history
<1>6. CASE Net!Subthread
  BY <1>6 DEF Net!Subthread, Net!ConnectedToSomething, Net!Associated, Net!history
<1>7. CASE Net!Environment
  BY <1>7 DEF Net!Environment, Net!ConnectedToSomething, Net!Associated, Net!history
<1>8. CASE UNCHANGED Net!vars
  BY <1>8 DEF Net!vars, Net!ConnectedToSomething, Net!Associated
<1> QED
  BY <1>1, <1>2, <1>3, <1>4, <1>5, <1>6, <1>7, <1>8 DEF Net!Next

(* ... and pings when it is time.                                          *)
LEMMA NetPingingKept ==
  ASSUME Net!Plausible, s1 \in NetConfigs, Net!Pinging, [Net!Next]_(Net!vars)
  PROVE  Net!Pinging'
<1>0. s1.ping \in Nat
  BY DEF Net!Plausible
<1>1. CASE Net!QueryFails
  BY <1>1 DEF Net!QueryFails, Net!Pinging
<1>2. CASE Net!Query
  <2> SUFFICES ASSUME s1.ping > 0
               PROVE  Net!Pinging'
    BY <1>2 DEF Net!Query, Net!Pinging
  <2>1. s1' = s1 /\ s5 = "update" /\ s13 \in -1 .. s1.ping - 1
    BY <1>0, <1>2 DEF Net!Query, Net!Pinging
  <2>2. CASE s13 = -1
    BY <1>0, <1>2, <2>1, <2>2 DEF Net!Query, Net!Pinging
  <2>3. CASE s13 # -1 /\ s11'
    <3>1. s13' = s13 + 1 /\ s18' = s18 + 1 /\ s18 = s13
      BY <1>2, <2>3 DEF Net!Query, Net!Pinging
    <3>2. s5' = IF Net!PingsAt(s13 + 1) THEN "ping" ELSE "publish"
      BY <1>2, <2>3 DEF Net!Query
    <3> DEFINE n == s13 + 1
               p == s1.ping
    <3>3. n \in 1 .. p /\ p \in Nat \ {0}
      BY <1>0, <2>1, <2>3
    <3> HIDE DEF n, p
    <3>4. n % p = 0 => n = p
      <4>1. n \in 0 .. 2 * p - 1
        BY <3>3
      <4>2. n % p = IF n < p THEN n ELSE n - p
        BY <3>3, <4>1, ModTurn
      <4> QED
        BY <3>3, <4>2
    <3>5. n = p => p % p = 0
      BY <3>3
    <3>6. s5' # "ping" => n < p
      BY <3>2, <3>3, <3>5 DEF Net!PingsAt, n, p
    <3> QED
      BY <2>1, <3>1, <3>3, <3>6 DEF Net!Pinging, n, p
  <2>4. CASE s13 # -1 /\ ~s11'
    BY <1>0, <1>2, <2>1, <2>4 DEF Net!Query, Net!Pinging
  <2> QED
    BY <2>2, <2>3, <2>4
<1>3. CASE Net!Ping
  BY <1>0, <1>3 DEF Net!Ping, Net!Pinging
<1>4. CASE Net!Publish
  BY <1>4 DEF Net!Publish, Net!Pinging, Net!history
<1>5. CASE Net!Wake
  BY <1>5 DEF Net!Wake, Net!Pinging, Net!history
<1>6. CASE Net!Subthread
  BY <1>6 DEF Net!Subthread, Net!Pinging, Net!history
<1>7. CASE Net!Environment
  BY <1>7 DEF Net!Environment, Net!Pinging, Net!history
<1>8. CASE UNCHANGED Net!vars
  BY <1>8 DEF Net!vars, Net!Pinging
<1> QED
  BY <1>1, <1>2, <1>3, <1>4, <1>5, <1>6, <1>7, <1>8 DEF Net!Next

(* Each step keeps the invariant.                                           *)
LEMMA NetInvKept ==
  ASSUME Net!Plausible, Net!Inv, [Net!Next]_(Net!vars)
  PROVE  Net!Inv'
<1>1. s1' = s1 /\ s2' \in NetSystems /\ s15' \in NetSystems
  BY DEF Net!Inv, Net!Next, Net!QueryFails, Net!Query, Net!Ping, Net!Publish,
     Net!Wake, Net!Subthread, Net!Environment, Net!vars, Net!history
<1> QED
  BY <1>1, NetCountedKept, NetPublishedKept, NetConnectedKept, NetPingingKept DEF
     Net!Inv

(* What that says of what is shown.                                        *)
LEMMA NetInvShown ==
  ASSUME Net!Plausible, Net!Inv
  PROVE  Net!ShownAsQueried /\ Net!ConnectedToSomething /\ Net!PingsRecent
<1>1. Net!ShownAsQueried
  <2> SUFFICES ASSUME s5 = "sleep", s16[2]
               PROVE  /\ s14.format = Net!Format /\ s14.essid = s9
                      /\ s16[1] /\ s17 < NetWord => s14.rate = s17
                      /\ \A f \in {"inet", "inet6"} :
                           LET own == {i \in DOMAIN s15.addrs : Net!Counts(s15.addrs[i], f)}
                           IN s14.ip[f] = IF own = {} THEN Net!NO_IP ELSE s15.addrs[Net!Max(own)].addr
    BY DEF Net!ShownAsQueried, Net!Counts
  <2>1. s14.format = Net!Format /\ s14.essid = s9 /\ s14.ip = Net!Ip(s15.addrs)
        /\ s14.rate = (s6 - s7) % NetWord
    BY DEF Net!Inv, Net!Published
  <2>2. s16[1] /\ s17 < NetWord => s14.rate = s17
    <3>1. NetWord \in Nat \ {0} /\ s7 \in Int /\ s17 \in Nat
      BY DEF Net!Plausible, Net!Inv, Net!Counted
    <3>2. s16[1] => s6 = (s7 + s17) % NetWord
      BY DEF Net!Inv, Net!Counted
    <3>3. s17 < NetWord => s17 \in 0 .. NetWord - 1
      BY <3>1
    <3> DEFINE r == s6
    <3> HIDE DEF r
    <3>4. s17 < NetWord => (((s7 + s17) % NetWord) - s7) % NetWord = s17
      BY <3>1, <3>3, ModMinus
    <3> QED
      BY <2>1, <3>2, <3>4, Zenon
  <2>3. ASSUME NEW f \in {"inet", "inet6"}
        PROVE  s14.ip[f] = Net!Address(s15.addrs, f)
    BY <2>1, <2>3 DEF Net!Ip
  <2>4. s15.addrs \in Seq(Net!Range(s15.addrs))
    BY DEF Net!Plausible, Net!Inv
  <2> QED
    BY <2>1, <2>2, <2>3, <2>4, NetAddressIs
<1>2. Net!PingsRecent
  <2>1. s1.ping \in Nat
    BY DEF Net!Plausible, Net!Inv
  <2> QED
    BY <2>1 DEF Net!Inv, Net!Pinging, Net!PingsRecent
<1> QED
  BY <1>1, <1>2 DEF Net!Inv

-----------------------------------------------------------------------------
(* Keyboard.                                                               *)
Keyboard == INSTANCE Keyboard WITH
  Keyboards <- KeyboardKeyboards, Configs <- KeyboardConfigs,
  TimeWidth <- KeyboardTimes, MaxOps <- KeyboardOps, conf <- s1,
  server <- s2, events <- s3, time <- s4, m_keyboard <- s5,
  timers <- s6, worker <- s7, updates <- s8, seen <- s9,
  m_layout <- s10, m_indicators <- s11, crossed <- s12, mixed <- s13,
  raced <- s14, missed <- s15, switched <- s16, ops <- s17

(* A keyboard has groups, and time goes on in numbers.                     *)
ASSUME KeyboardGroups == Keyboard!Grouped

(* What is queued of a kind of event, when one is appended ...             *)
LEMMA KeyboardSendTells ==
  ASSUME Keyboard!Grouped, Keyboard!Numbered, NEW type \in Keyboard!Types, NEW g \in Nat, Keyboard!Send(type, g)
  PROVE  /\ s4' \in Nat /\ s3' \in Seq(Keyboard!Event)
         /\ s3' = Append(s3, [type |-> type, group |-> g, time |-> s4'])
         /\ \A types : Keyboard!Queued(types)' <=> Keyboard!Queued(types) \/ type \in types
<1> DEFINE e == [type |-> type, group |-> g, time |-> s4']
<1>1. PICK d \in 0 .. 1 : s4' = (s4 + d) % KeyboardTimes /\ s3' = Append(s3, e)
  BY DEF Keyboard!Send
<1>2. s4' \in Nat
  BY <1>1 DEF Keyboard!Numbered, Keyboard!Grouped
<1>3. e \in Keyboard!Event /\ e.type = type /\ s3 \in Seq(Keyboard!Event)
  BY <1>2 DEF Keyboard!Event, Keyboard!Numbered
<1> HIDE DEF e
<1>4. s3' \in Seq(Keyboard!Event)
  BY <1>1, <1>3, HasAppend
<1>5. ASSUME NEW types
      PROVE  Keyboard!Queued(types)' <=> Keyboard!Queued(types) \/ type \in types
  <2> DEFINE P == {x \in Keyboard!Event : x.type \in types}
  <2>1. e \in P <=> type \in types
    BY <1>3
  <2> HIDE DEF P
  <2>2. (\E i \in 1 .. Len(Append(s3, e)) : Append(s3, e)[i] \in P)
          <=> (\E i \in 1 .. Len(s3) : s3[i] \in P) \/ e \in P
    BY <1>3, HasAppend
  <2> QED
    BY <1>1, <2>1, <2>2 DEF Keyboard!Queued, P
<1> QED
  BY <1>1, <1>2, <1>4, <1>5 DEF e

(* ... and the first is taken.                                             *)
LEMMA KeyboardTakeTells ==
  ASSUME Keyboard!Numbered, s3 # <<>>, s3' = Tail(s3)
  PROVE  /\ Head(s3) \in Keyboard!Event /\ s3' \in Seq(Keyboard!Event)
         /\ \A types : Keyboard!Queued(types) <=> Head(s3).type \in types \/ Keyboard!Queued(types)'
<1>1. s3 \in Seq(Keyboard!Event)
  BY DEF Keyboard!Numbered
<1>2. Tail(s3) \in Seq(Keyboard!Event) /\ Head(s3) \in Keyboard!Event
  BY <1>1, HasTail
<1>3. ASSUME NEW types
      PROVE  Keyboard!Queued(types) <=> Head(s3).type \in types \/ Keyboard!Queued(types)'
  <2> DEFINE P == {x \in Keyboard!Event : x.type \in types}
  <2>1. Head(s3) \in P <=> Head(s3).type \in types
    BY <1>2
  <2> HIDE DEF P
  <2>2. (\E i \in 1 .. Len(s3) : s3[i] \in P)
          <=> Head(s3) \in P \/ \E i \in 1 .. Len(Tail(s3)) : Tail(s3)[i] \in P
    BY <1>1, HasTail
  <2> QED
    BY <2>1, <2>2 DEF Keyboard!Queued, P
<1> QED
  BY <1>2, <1>3

(* An event about the group is true of it until the next one.              *)
LEMMA KeyboardSendSays ==
  ASSUME Keyboard!Grouped, Keyboard!Numbered, Keyboard!LastSays, NEW type \in Keyboard!Types, NEW g \in Nat, Keyboard!Send(type, g),
         type = "state" => s2'.group = g, type = "indicator" => s2'.group = s2.group
  PROVE  Keyboard!LastSays'
<1> DEFINE e == [type |-> type, group |-> g, time |-> s4']
           n == Len(s3)
<1>1. s3' = Append(s3, e) /\ s3 \in Seq(Keyboard!Event) /\ n \in Nat
  BY KeyboardSendTells DEF Keyboard!Numbered
<1>2. e.type = type /\ e.group = g
  OBVIOUS
<1> HIDE DEF e
<1>3. Len(s3') = n + 1 /\ s3'[n + 1] = e /\ \A i \in 1 .. n : s3'[i] = s3[i]
  BY <1>1, AppendProperties
<1> SUFFICES ASSUME NEW i \in 1 .. n + 1, s3'[i].type = "state", Keyboard!LastOfGroup(i)'
             PROVE  s3'[i].group = s2'.group
  BY <1>3 DEF Keyboard!LastSays
<1> HIDE DEF n
<1>4. CASE i = n + 1
  BY <1>2, <1>3, <1>4
<1>5. CASE i # n + 1
  <2>1. i \in 1 .. n /\ n + 1 \in i + 1 .. n + 1
    BY <1>1, <1>5
  <2>2. type = "indicator"
    BY <1>2, <1>3, <2>1 DEF Keyboard!LastOfGroup
  <2>3. Keyboard!LastOfGroup(i)
    <3> SUFFICES ASSUME NEW j \in i + 1 .. n
                 PROVE  s3[j].type = "indicator"
      BY DEF Keyboard!LastOfGroup, n
    <3>1. j \in i + 1 .. n + 1 /\ j \in 1 .. n
      BY <1>1, <2>1
    <3> QED
      BY <1>3, <3>1 DEF Keyboard!LastOfGroup
  <2>4. s3[i].type = "state" /\ s3'[i].group = s3[i].group
    BY <1>3, <2>1
  <2> QED
    BY <2>1, <2>2, <2>3, <2>4 DEF Keyboard!LastSays, n
<1> QED
  BY <1>4, <1>5

(* An event that is taken tells the group unless another one follows.       *)
LEMMA KeyboardTakeSays ==
  ASSUME Keyboard!Numbered, Keyboard!LastSays, s3 # <<>>, s3' = Tail(s3), UNCHANGED s2
  PROVE  /\ Keyboard!LastSays'
         /\ Head(s3).type = "state" /\ ~Keyboard!Queued({"state", "new keyboard"})' => Head(s3).group = s2.group
<1> DEFINE n == Len(s3)
<1>1. s3 \in Seq(Keyboard!Event) /\ n \in Nat \ {0} /\ \A i \in 1 .. n : s3[i] \in Keyboard!Event
  BY EmptySeq DEF Keyboard!Numbered
<1>2. /\ Len(s3') = n - 1 /\ Head(s3) = s3[1]
      /\ \A i \in 1 .. n - 1 : s3'[i] = s3[i + 1]
  BY <1>1, HeadTailProperties
<1> HIDE DEF n
<1>3. Keyboard!LastSays'
  <2> SUFFICES ASSUME NEW i \in 1 .. n - 1, s3'[i].type = "state", Keyboard!LastOfGroup(i)'
               PROVE  s3'[i].group = s2.group
    BY <1>2 DEF Keyboard!LastSays
  <2>1. i + 1 \in 1 .. n /\ s3'[i] = s3[i + 1]
    BY <1>1, <1>2
  <2>2. Keyboard!LastOfGroup(i + 1)
    <3> SUFFICES ASSUME NEW j \in (i + 1) + 1 .. n
                 PROVE  s3[j].type = "indicator"
      BY DEF Keyboard!LastOfGroup, n
    <3>1. j - 1 \in i + 1 .. n - 1 /\ j - 1 \in 1 .. n - 1 /\ (j - 1) + 1 = j
      BY <1>1
    <3>2. s3'[j - 1].type = "indicator"
      BY <1>2, <3>1 DEF Keyboard!LastOfGroup
    <3> QED
      BY <1>2, <3>1, <3>2
  <2> QED
    BY <2>1, <2>2 DEF Keyboard!LastSays, n
<1>4. ASSUME Head(s3).type = "state", ~Keyboard!Queued({"state", "new keyboard"})'
      PROVE  Head(s3).group = s2.group
  <2>1. Keyboard!LastOfGroup(1)
    <3> SUFFICES ASSUME NEW j \in 1 + 1 .. n
                 PROVE  s3[j].type = "indicator"
      BY DEF Keyboard!LastOfGroup, n
    <3>1. j - 1 \in 1 .. n - 1 /\ s3'[j - 1] = s3[j] /\ s3[j] \in Keyboard!Event
      <4>1. j - 1 \in 1 .. n - 1 /\ (j - 1) + 1 = j /\ j \in 1 .. n
        BY <1>1
      <4> QED
        BY <1>1, <1>2, <4>1
    <3>2. s3[j].type \notin {"state", "new keyboard"}
      BY <1>2, <1>4, <3>1 DEF Keyboard!Queued
    <3> QED
      BY <3>1, <3>2 DEF Keyboard!Event, Keyboard!Types
  <2>2. 1 \in 1 .. n
    BY <1>1
  <2> QED
    BY <1>2, <1>4, <2>1, <2>2 DEF Keyboard!LastSays, n
<1> QED
  BY <1>3, <1>4

(* Each group has a layout.                                                *)
LEMMA KeyboardLayoutsOfKeyboard ==
  ASSUME NEW k, Len(k.groups) \in Nat
  PROVE  Len(Keyboard!Layouts(k)) = Len(k.groups)
BY DEF Keyboard!Layouts

(* A keyboard that is asked says what the server has.                      *)
LEMMA KeyboardQueryNumbered ==
  ASSUME Keyboard!Grouped, Keyboard!GroupOfKeyboard
  PROVE  /\ Keyboard!Query.layouts = Keyboard!Layouts(s2.keyboard) /\ Keyboard!Query.masks = s2.keyboard.modifiers
         /\ Keyboard!Query.current = s2.group /\ Keyboard!Query.on = s2.locks
         /\ Keyboard!Query = [layouts |-> Keyboard!Query.layouts, current |-> Keyboard!Query.current, masks |-> Keyboard!Query.masks, on |-> Keyboard!Query.on]
         /\ Keyboard!Query.current \in Nat /\ Len(Keyboard!Query.layouts) \in Nat
<1> DEFINE k == s2.keyboard
<1>1. Len(k.groups) \in Nat
  BY DEF Keyboard!Grouped, Keyboard!GroupOfKeyboard
<1>2. Len(Keyboard!Layouts(k)) = Len(k.groups)
  BY <1>1 DEF Keyboard!Layouts
<1>3. /\ Keyboard!Query.layouts = Keyboard!Layouts(k) /\ Keyboard!Query.masks = k.modifiers
      /\ Keyboard!Query.current = s2.group /\ Keyboard!Query.on = s2.locks
  BY DEF Keyboard!Query
<1>4. Keyboard!Query = [layouts |-> Keyboard!Query.layouts, current |-> Keyboard!Query.current, masks |-> Keyboard!Query.masks, on |-> Keyboard!Query.on]
  BY DEF Keyboard!Query
<1> QED
  BY <1>1, <1>2, <1>3, <1>4 DEF Keyboard!GroupOfKeyboard

(* The group after this one.                                               *)
LEMMA KeyboardNextIsNext ==
  ASSUME NEW n \in Nat \ {0}, NEW g \in 0 .. n - 1
  PROVE  Keyboard!NextOf(g, n) = (g + 1) % n /\ Keyboard!NextOf(g, n) < n
<1>1. CASE g + 1 >= n
  <2>1. g + 1 = n /\ n % n = 0
    BY <1>1
  <2> QED
    BY <1>1, <2>1 DEF Keyboard!NextOf
<1>2. CASE ~(g + 1 >= n)
  <2>1. (g + 1) % n = g + 1 /\ g + 1 < n
    BY <1>2
  <2> QED
    BY <1>2, <2>1 DEF Keyboard!NextOf
<1> QED
  BY <1>1, <1>2

(* Handling an event: what was queued of it is known, or was denied.       *)
LEMMA KeyboardHandleFollows ==
  ASSUME Keyboard!Grouped, Keyboard!GroupOfKeyboard, Keyboard!Numbered, Keyboard!Clicked, Keyboard!Follows, Keyboard!LastSays, Keyboard!HandleEvent
  PROVE  Keyboard!Numbered' /\ Keyboard!Clicked' /\ Keyboard!Follows' /\ Keyboard!LastSays'
<1> DEFINE e == Head(s3)
           told == [s7 EXCEPT !.told = s5'.current]
<1>1. s3 # <<>> /\ s3' = Tail(s3) /\ UNCHANGED <<s2, s4>>
  BY DEF Keyboard!HandleEvent
<1>2. /\ e \in Keyboard!Event /\ s3' \in Seq(Keyboard!Event)
      /\ \A types : Keyboard!Queued(types) <=> e.type \in types \/ Keyboard!Queued(types)'
  BY <1>1, KeyboardTakeTells
<1>3. Keyboard!LastSays' /\ (e.type = "state" /\ ~Keyboard!Queued({"state", "new keyboard"})' => e.group = s2.group)
  BY <1>1, KeyboardTakeSays
<1>4. e.type \in {"new keyboard", "state", "indicator"} /\ e.group \in Nat
  BY <1>2 DEF Keyboard!Types, Keyboard!Event
<1>5. \/ UNCHANGED <<s5, s7, s14>> /\ s15' = s15 \cup {e.type}
      \/ /\ e.type = "new keyboard" /\ s5' = Keyboard!Query /\ s15' = s15 \ Keyboard!Types
         /\ s14' = FALSE /\ s7' = IF s7.step = "no" THEN s7 ELSE told
      \/ /\ e.type = "state" /\ s5' = [s5 EXCEPT !.current = e.group] /\ s15' = s15 \ {e.type}
         /\ s14' = FALSE /\ s7' = IF s7.step = "no" THEN s7 ELSE told
      \/ /\ e.type = "indicator" /\ s5' = Keyboard!SetLocks(s5) /\ s15' = s15 \ {e.type}
         /\ UNCHANGED <<s7, s14>>
  <2>1. CASE ~Keyboard!Allowed(e.type, e.time)
    BY <2>1 DEF Keyboard!HandleEvent
  <2>2. CASE Keyboard!Allowed(e.type, e.time)
    <3>1. CASE e.type = "new keyboard"
      BY <2>2, <3>1 DEF Keyboard!HandleEvent, Keyboard!Handled
    <3>2. CASE e.type = "state"
      BY <2>2, <3>2 DEF Keyboard!HandleEvent, Keyboard!Handled
    <3>3. CASE e.type = "indicator"
      BY <2>2, <3>3 DEF Keyboard!HandleEvent, Keyboard!Handled
    <3> QED
      BY <1>4, <3>1, <3>2, <3>3
  <2> QED
    BY <2>1, <2>2
<1> HIDE DEF e
<1>6. CASE UNCHANGED <<s5, s7, s14>> /\ s15' = s15 \cup {e.type}
  <2>1. ASSUME NEW types, Keyboard!Tells(types)
        PROVE  Keyboard!Tells(types)'
    BY <1>2, <1>6, <2>1 DEF Keyboard!Tells
  <2>2. Keyboard!Follows'
    BY <1>1, <1>6, <2>1 DEF Keyboard!Follows, Keyboard!Late
  <2>3. Keyboard!Clicked'
    BY <1>1, <1>6, <2>1 DEF Keyboard!Clicked, Keyboard!NoAction, Keyboard!Action,
       Keyboard!NextOf
  <2> QED
    BY <1>1, <1>2, <1>3, <1>6, <2>2, <2>3 DEF Keyboard!Numbered
<1>7. CASE /\ s14' = FALSE /\ s7' = IF s7.step = "no" THEN s7 ELSE told
           /\ \/ e.type = "new keyboard" /\ s5' = Keyboard!Query
              \/ e.type = "state" /\ s5' = [s5 EXCEPT !.current = e.group] /\ s15' = s15 \ {e.type}
  <2>1. ASSUME s5'.current \in Nat,
               \/ Len(s5'.layouts) = Len(s2.keyboard.groups)
               \/ Len(s5'.layouts) = Len(s5.layouts)
        PROVE  Keyboard!Clicked'
    <3>1. CASE s7.step = "no"
      <4>1. s7 = Keyboard!NoAction /\ s7' = Keyboard!NoAction
        BY <1>7, <3>1 DEF Keyboard!Clicked
      <4>2. s7'.step = "no" /\ s7'.told = -1 /\ s7'.group \in Nat
            /\ s7' = Keyboard!Action(s7'.step, s7'.group, s7'.from, s7'.told)
        BY <4>1 DEF Keyboard!NoAction, Keyboard!Action
      <4> QED
        BY <1>7, <4>1, <4>2 DEF Keyboard!Clicked, Keyboard!Steps, Keyboard!NoAction,
           Keyboard!Action
    <3>2. CASE s7.step # "no"
      <4>1. s7' = Keyboard!Action(s7.step, s7.group, s7.from, s5'.current)
        BY <1>7, <3>2 DEF Keyboard!Clicked, Keyboard!Action
      <4>2. s7'.step = s7.step /\ s7'.group = s7.group /\ s7'.from = s7.from
            /\ s7'.told = s5'.current
        BY <4>1 DEF Keyboard!Action
      <4>3. s5'.current # -1
        BY <2>1
      <4> HIDE DEF told
      <4> QED
        BY <1>1, <1>7, <2>1, <3>2, <4>1, <4>2, <4>3 DEF Keyboard!Clicked,
           Keyboard!NextOf
    <3> QED
      BY <3>1, <3>2
  <2>2. CASE e.type = "new keyboard" /\ s5' = Keyboard!Query
    <3>1. /\ s5'.layouts = Keyboard!Layouts(s2.keyboard) /\ s5'.masks = s2.keyboard.modifiers
          /\ s5'.current = s2.group /\ s5'.on = s2.locks
          /\ s5' = [layouts |-> s5'.layouts, current |-> s5'.current,
                            masks |-> s5'.masks, on |-> s5'.on]
          /\ s5'.current \in Nat /\ Len(s5'.layouts) \in Nat
      BY <2>2, KeyboardQueryNumbered
    <3>2. Keyboard!Layouts(s2.keyboard)' = Keyboard!Layouts(s2.keyboard)
      BY <1>1
    <3>3. Keyboard!Follows'
      BY <1>1, <3>1, <3>2 DEF Keyboard!Follows
    <3>4. Len(s2.keyboard.groups) \in Nat
      BY DEF Keyboard!Grouped, Keyboard!GroupOfKeyboard
    <3>5. Keyboard!Clicked'
      BY <2>1, <3>1, <3>4, KeyboardLayoutsOfKeyboard
    <3> QED
      BY <1>1, <1>2, <1>3, <3>1, <3>3, <3>5 DEF Keyboard!Numbered
  <2>3. CASE e.type = "state" /\ s5' = [s5 EXCEPT !.current = e.group] /\ s15' = s15 \ {e.type}
    <3>1. /\ s5' = [layouts |-> s5.layouts, current |-> e.group,
                            masks |-> s5.masks, on |-> s5.on]
      BY <2>3 DEF Keyboard!Numbered
    <3>2. ASSUME NEW types, Keyboard!Tells(types), "state" \notin types
          PROVE  Keyboard!Tells(types)'
      BY <1>2, <2>3, <3>2 DEF Keyboard!Tells
    <3>3. Keyboard!Tells({"state", "new keyboard"})' \/ s5'.current = s2.group
      BY <1>3, <2>3, <3>1 DEF Keyboard!Tells
    <3>4. /\ Keyboard!Tells({"new keyboard"}) => Keyboard!Tells({"new keyboard"})'
          /\ Keyboard!Tells({"indicator", "new keyboard"}) => Keyboard!Tells({"indicator", "new keyboard"})'
      BY <3>2
    <3>5. Keyboard!Follows'
      BY <1>1, <3>1, <3>3, <3>4 DEF Keyboard!Follows
    <3>6. Keyboard!Clicked'
      BY <1>4, <2>1, <3>1
    <3> QED
      BY <1>1, <1>2, <1>3, <1>4, <3>1, <3>5, <3>6 DEF Keyboard!Numbered
  <2> QED
    BY <1>7, <2>2, <2>3
<1>8. CASE e.type = "indicator" /\ s5' = Keyboard!SetLocks(s5) /\ s15' = s15 \ {e.type} /\ UNCHANGED <<s7, s14>>
  <2>1. /\ s5' = [layouts |-> s5.layouts, current |-> s5.current,
                          masks |-> s5.masks, on |-> {l \in s2.locks : l \in s5.masks}]
    BY <1>8 DEF Keyboard!Numbered, Keyboard!SetLocks
  <2>2. ASSUME NEW types, Keyboard!Tells(types), "indicator" \notin types
        PROVE  Keyboard!Tells(types)'
    BY <1>2, <1>8, <2>2 DEF Keyboard!Tells
  <2>3. /\ Keyboard!Tells({"new keyboard"}) => Keyboard!Tells({"new keyboard"})'
        /\ Keyboard!Tells({"state", "new keyboard"}) => Keyboard!Tells({"state", "new keyboard"})'
    BY <2>2
  <2>4. /\ s5'.layouts = s5.layouts /\ s5'.current = s5.current
        /\ s5'.masks = s5.masks
        /\ \A l \in s5.masks : l \in s5'.on <=> l \in s2.locks
    BY <2>1
  <2>5. s7' = s7 /\ s14' = s14 /\ s2' = s2
    BY <1>1, <1>8
  <2>6. Keyboard!Follows'
    <3>1. \/ Keyboard!Tells({"new keyboard"})'
          \/ /\ s5'.layouts = Keyboard!Layouts(s2.keyboard)
             /\ s5'.masks = s2.keyboard.modifiers
      BY <2>3, <2>4 DEF Keyboard!Follows
    <3>2. Keyboard!Tells({"state", "new keyboard"})' \/ s14 \/ s5'.current = s2.group \/ Keyboard!Late'
      BY <2>3, <2>4, <2>5 DEF Keyboard!Follows, Keyboard!Late
    <3> QED
      BY <2>4, <2>5, <3>1, <3>2 DEF Keyboard!Follows
  <2>7. Keyboard!Clicked'
    BY <2>3, <2>4, <2>5 DEF Keyboard!Clicked, Keyboard!NoAction, Keyboard!Action,
       Keyboard!NextOf
  <2> QED
    BY <1>1, <1>2, <1>3, <2>1, <2>6, <2>7 DEF Keyboard!Numbered
<1> QED
  BY <1>5, <1>6, <1>7, <1>8

(* A click is taken: the group after the one the module knows ...          *)
LEMMA KeyboardActionFollows ==
  ASSUME Keyboard!Grouped, Keyboard!GroupOfKeyboard, Keyboard!Numbered, Keyboard!Clicked, Keyboard!Follows, Keyboard!ActionSwitch
  PROVE  Keyboard!Clicked' /\ Keyboard!Follows'
<1> DEFINE from == IF Keyboard!InStep THEN s2.group ELSE -1
<1>1. /\ s7' = Keyboard!Action("size", s5.current + 1, from, -1) /\ s7.step = "no"
      /\ UNCHANGED <<s2, s3, s15, s5, s14>>
  BY DEF Keyboard!ActionSwitch, Keyboard!SwitchOnly
<1>2. s7'.step = "size" /\ s7'.group = s5.current + 1 /\ s7'.from = from /\ s7'.told = -1
      /\ s7' = Keyboard!Action(s7'.step, s7'.group, s7'.from, s7'.told)
  BY <1>1 DEF Keyboard!Action
<1>3. s7'.group \in Nat
  BY <1>2 DEF Keyboard!Numbered
<1>4. from # -1 => /\ from = s2.group /\ s7'.group = s2.group + 1
                   /\ Len(s5.layouts) = Len(s2.keyboard.groups)
  BY <1>2 DEF Keyboard!InStep
<1>5. Keyboard!Clicked'
  BY <1>1, <1>2, <1>3, <1>4 DEF Keyboard!Clicked, Keyboard!Steps
<1>6. \A types : Keyboard!Tells(types)' <=> Keyboard!Tells(types)
  BY <1>1 DEF Keyboard!Tells, Keyboard!Queued
<1>7. Keyboard!Follows'
  BY <1>1, <1>2, <1>6 DEF Keyboard!Follows, Keyboard!Late
<1> QED
  BY <1>5, <1>7

(* ... or the first, of the keyboard that it knows ...                     *)
LEMMA KeyboardWrapFollows ==
  ASSUME Keyboard!Grouped, Keyboard!GroupOfKeyboard, Keyboard!Numbered, Keyboard!Clicked, Keyboard!Follows, Keyboard!SwitchWrap
  PROVE  Keyboard!Clicked' /\ Keyboard!Follows'
<1> DEFINE n == Len(s2.keyboard.groups)
           m == Len(s5.layouts)
           g == s7.group
           h == IF g >= m THEN 0 ELSE g
<1>1. /\ s7' = [s7 EXCEPT !.step = "request", !.group = h] /\ s7.step = "size"
      /\ UNCHANGED <<s2, s3, s15, s5, s14>>
  BY DEF Keyboard!SwitchWrap, Keyboard!SwitchOnly
<1>2. s7' = Keyboard!Action("request", h, s7.from, s7.told)
  BY <1>1 DEF Keyboard!Clicked, Keyboard!Action
<1>3. s7'.step = "request" /\ s7'.group = h /\ s7'.from = s7.from /\ s7'.told = s7.told
  BY <1>2 DEF Keyboard!Action
<1>4. \A types : Keyboard!Tells(types)' <=> Keyboard!Tells(types)
  BY <1>1 DEF Keyboard!Tells, Keyboard!Queued
<1>5. n \in Nat \ {0} /\ m \in Nat /\ g \in Nat
  BY DEF Keyboard!Grouped, Keyboard!GroupOfKeyboard, Keyboard!Numbered,
     Keyboard!Clicked
<1>6. Keyboard!Tells({"new keyboard"}) \/ m = n
  BY <1>5, KeyboardLayoutsOfKeyboard DEF Keyboard!Follows
<1>7. /\ s7.from # -1 => s7.from = s2.group /\ g = s2.group + 1 /\ m = n
      /\ s7.told # -1 => s7.told = s5.current /\ ~s14
  BY <1>1 DEF Keyboard!Clicked
<1> HIDE DEF n, m, g
<1>8. h \in Nat /\ (m = n => h < n)
  <2>1. CASE g >= m
    BY <1>5, <2>1
  <2>2. CASE ~(g >= m)
    BY <1>5, <2>2
  <2> QED
    BY <2>1, <2>2
<1>9. s7.from # -1 => h = Keyboard!NextOf(s2.group, n)
  BY <1>7 DEF Keyboard!NextOf
<1>10. Keyboard!Clicked'
  <2>1. s7'.told = -1 => Keyboard!Tells({"new keyboard"})' \/ s7'.group < Len(s2'.keyboard.groups)
    BY <1>1, <1>3, <1>4, <1>6, <1>8 DEF n
  <2>2. s7'.from # -1 => /\ s7'.from = s2'.group
                             /\ s7'.group = Keyboard!NextOf(s2'.group, Len(s2'.keyboard.groups))
    BY <1>1, <1>3, <1>7, <1>9 DEF n
  <2>3. s7'.told # -1 => s7'.told = s5'.current /\ ~s14'
    BY <1>1, <1>3, <1>7
  <2> HIDE DEF h
  <2> QED
    BY <1>2, <1>3, <1>8, <2>1, <2>2, <2>3 DEF Keyboard!Clicked, Keyboard!Steps,
       Keyboard!NextOf
<1>11. Keyboard!Follows'
  BY <1>1, <1>3, <1>4 DEF Keyboard!Follows, Keyboard!Late
<1> QED
  BY <1>10, <1>11

(* ... is what the server is asked for ...                                 *)
LEMMA KeyboardRequestFollows ==
  ASSUME Keyboard!Grouped, Keyboard!GroupOfKeyboard, Keyboard!Numbered, Keyboard!Clicked, Keyboard!Follows, Keyboard!LastSays, Keyboard!SwitchRequest
  PROVE  Keyboard!GroupOfKeyboard' /\ Keyboard!Numbered' /\ Keyboard!Clicked' /\ Keyboard!Follows' /\ Keyboard!LastSays' /\ Keyboard!SwitchMoves'
<1> DEFINE n == Len(s2.keyboard.groups)
           g == IF s7.group < n THEN s7.group ELSE 0
<1>1. /\ s2' = [s2 EXCEPT !.group = g] /\ UNCHANGED <<s15, s5, s14>>
      /\ s16' = [from |-> s7.from, to |-> g, of |-> n]
      /\ s7.step \in {"request", "late"}
      /\ s7' = IF s7.step = "late" THEN Keyboard!NoAction ELSE [s7 EXCEPT !.step = "set"]
      /\ IF g = s2.group THEN UNCHANGED <<s3, s4>> ELSE Keyboard!Send("state", g)
  BY DEF Keyboard!SwitchRequest, Keyboard!SwitchOnly
<1>2. n \in Nat \ {0} /\ s2.group \in 0 .. n - 1 /\ s7.group \in Nat
  BY DEF Keyboard!Grouped, Keyboard!GroupOfKeyboard, Keyboard!Clicked
<1>3. g \in 0 .. n - 1 /\ g \in Nat
  BY <1>2
<1>4. s7.from # -1 => s7.from = s2.group /\ s7.group = Keyboard!NextOf(s2.group, n)
  BY <1>1 DEF Keyboard!Clicked
<1> HIDE DEF n
<1>5. s7.from # -1 => s7.from = s2.group /\ g = (s7.from + 1) % n
  BY <1>2, <1>4, KeyboardNextIsNext
<1>6. s7.step = "request" /\ s7.told = -1 => g = s7.group \/ Keyboard!Tells({"new keyboard"})
  BY DEF Keyboard!Clicked, n
<1>7. Keyboard!Late => s5.current = g
  BY DEF Keyboard!Late, n
<1> HIDE DEF g
<1>8. s2' = [keyboard |-> s2.keyboard, group |-> g, locks |-> s2.locks]
  BY <1>1 DEF Keyboard!GroupOfKeyboard
<1>9. Keyboard!GroupOfKeyboard' /\ Keyboard!SwitchMoves'
  <2>1. Keyboard!SwitchMoves'
    BY <1>1, <1>5 DEF Keyboard!SwitchMoves
  <2> QED
    BY <1>3, <1>8, <2>1 DEF Keyboard!GroupOfKeyboard, n
<1>10. Keyboard!Tells({"new keyboard"}) => Keyboard!Tells({"state", "new keyboard"})
  BY DEF Keyboard!Tells, Keyboard!Queued
<1>11. /\ Keyboard!Numbered' /\ Keyboard!LastSays' /\ \A types : Keyboard!Tells(types) => Keyboard!Tells(types)'
       /\ Keyboard!Tells({"state", "new keyboard"})' \/ g = s2.group
  <2>1. CASE g = s2.group
    <3>1. UNCHANGED <<s3, s4>> /\ s2'.group = s2.group
      BY <1>1, <1>8, <2>1
    <3>2. Keyboard!LastSays'
      BY <3>1 DEF Keyboard!LastSays, Keyboard!LastOfGroup
    <3>3. \A types : Keyboard!Tells(types)' <=> Keyboard!Tells(types)
      BY <1>1, <3>1 DEF Keyboard!Tells, Keyboard!Queued
    <3> QED
      BY <1>1, <2>1, <3>1, <3>2, <3>3 DEF Keyboard!Numbered
  <2>2. CASE g # s2.group
    <3>1. Keyboard!Send("state", g) /\ "state" \in Keyboard!Types
      BY <1>1, <2>2 DEF Keyboard!Types
    <3>2. /\ s4' \in Nat /\ s3' \in Seq(Keyboard!Event)
          /\ \A types : Keyboard!Queued(types)' <=> Keyboard!Queued(types) \/ "state" \in types
      BY <1>3, <3>1, KeyboardSendTells
    <3>3. Keyboard!LastSays'
      BY <1>3, <1>8, <3>1, KeyboardSendSays
    <3>4. Keyboard!Tells({"state", "new keyboard"})' /\ \A types : Keyboard!Tells(types) => Keyboard!Tells(types)'
      BY <1>1, <3>2 DEF Keyboard!Tells
    <3> QED
      BY <1>1, <3>2, <3>3, <3>4 DEF Keyboard!Numbered
  <2> QED
    BY <2>1, <2>2
<1>12. Keyboard!Follows'
  BY <1>1, <1>7, <1>8, <1>11 DEF Keyboard!Follows
<1>13. CASE s7.step = "late"
  <2>1. s7' = Keyboard!NoAction
    BY <1>1, <1>13
  <2>2. s7'.step = "no" /\ s7'.told = -1 /\ s7'.group \in Nat
        /\ s7' = Keyboard!Action(s7'.step, s7'.group, s7'.from, s7'.told)
    BY <2>1 DEF Keyboard!NoAction, Keyboard!Action
  <2>3. Keyboard!Clicked'
    BY <2>1, <2>2 DEF Keyboard!Clicked, Keyboard!Steps, Keyboard!NoAction,
       Keyboard!Action
  <2> QED
    BY <1>9, <1>11, <1>12, <2>3
<1>14. CASE s7.step = "request"
  <2>1. s7' = Keyboard!Action("set", s7.group, s7.from, s7.told)
    BY <1>1, <1>14 DEF Keyboard!Clicked, Keyboard!Action
  <2>2. s7'.step = "set" /\ s7'.group = s7.group /\ s7'.told = s7.told
        /\ s7' = Keyboard!Action(s7'.step, s7'.group, s7'.from, s7'.told)
    BY <2>1 DEF Keyboard!Action
  <2>3. /\ s7.told # -1 => s7.told = s5.current /\ ~s14
        /\ s7.told = -1 => Keyboard!Tells({"new keyboard"}) \/ s7.group < n
    BY <1>14 DEF Keyboard!Clicked, n
  <2>4. s7'.told = -1 => Keyboard!Tells({"new keyboard"})' \/ s7'.group < Len(s2'.keyboard.groups)
    BY <1>8, <1>11, <2>2, <2>3 DEF n
  <2>5. s7'.told = -1 => Keyboard!Tells({"state", "new keyboard"})' \/ s7'.group = s2'.group
    BY <1>6, <1>8, <1>10, <1>11, <1>14, <2>2
  <2>6. Keyboard!Clicked'
    BY <1>1, <1>2, <2>2, <2>3, <2>4, <2>5 DEF Keyboard!Clicked, Keyboard!Steps
  <2> QED
    BY <1>9, <1>11, <1>12, <2>6
<1> QED
  BY <1>1, <1>13, <1>14

(* ... and what the module sets.                                           *)
LEMMA KeyboardSetFollows ==
  ASSUME Keyboard!Grouped, Keyboard!GroupOfKeyboard, Keyboard!Numbered, Keyboard!Clicked, Keyboard!Follows, Keyboard!SwitchSet
  PROVE  Keyboard!Numbered' /\ Keyboard!Clicked' /\ Keyboard!Follows'
<1> DEFINE g == s7.group
<1>1. /\ s5' = [s5 EXCEPT !.current = g] /\ s7.step \in {"request", "set"}
      /\ s7' = IF s7.step = "set" THEN Keyboard!NoAction ELSE [s7 EXCEPT !.step = "late"]
      /\ s14' = (s7.told \notin {-1, g}) /\ UNCHANGED <<s2, s3, s4, s15>>
  BY DEF Keyboard!SwitchSet
<1>2. s5' = [layouts |-> s5.layouts, current |-> g, masks |-> s5.masks, on |-> s5.on]
  BY <1>1 DEF Keyboard!Numbered
<1>3. g \in Nat /\ (s7.told # -1 => s7.told = s5.current /\ ~s14)
  BY <1>1 DEF Keyboard!Clicked
<1>4. Keyboard!Numbered'
  BY <1>1, <1>2, <1>3 DEF Keyboard!Numbered
<1>5. \A types : Keyboard!Tells(types)' <=> Keyboard!Tells(types)
  BY <1>1 DEF Keyboard!Tells, Keyboard!Queued
<1>6. Keyboard!Tells({"new keyboard"}) => Keyboard!Tells({"state", "new keyboard"})
  BY DEF Keyboard!Tells, Keyboard!Queued
<1>7. ~s14' /\ s7.told # -1 => Keyboard!Tells({"state", "new keyboard"}) \/ g = s2.group
  BY <1>1, <1>3 DEF Keyboard!Follows, Keyboard!Late
<1> HIDE DEF g
<1>8. CASE s7.step = "set"
  <2>1. s7' = Keyboard!NoAction
    BY <1>1, <1>8
  <2>2. s7'.step = "no" /\ s7'.told = -1 /\ s7'.group \in Nat
        /\ s7' = Keyboard!Action(s7'.step, s7'.group, s7'.from, s7'.told)
    BY <2>1 DEF Keyboard!NoAction, Keyboard!Action
  <2>3. Keyboard!Clicked'
    BY <2>1, <2>2 DEF Keyboard!Clicked, Keyboard!Steps, Keyboard!NoAction,
       Keyboard!Action
  <2>4. s7.told = -1 => Keyboard!Tells({"state", "new keyboard"}) \/ g = s2.group
    BY <1>8 DEF Keyboard!Clicked, g
  <2>5. s14' \/ Keyboard!Tells({"state", "new keyboard"}) \/ g = s2.group
    BY <1>7, <2>4
  <2>6. Keyboard!Follows'
    BY <1>1, <1>2, <1>5, <2>5 DEF Keyboard!Follows
  <2> QED
    BY <1>4, <2>3, <2>6
<1>9. CASE s7.step = "request"
  <2>1. s7' = Keyboard!Action("late", g, s7.from, s7.told)
    BY <1>1, <1>9 DEF Keyboard!Clicked, Keyboard!Action, g
  <2>2. s7'.step = "late" /\ s7'.group = g /\ s7'.from = s7.from
        /\ s7' = Keyboard!Action(s7'.step, s7'.group, s7'.from, s7'.told)
    BY <2>1 DEF Keyboard!Action
  <2>3. /\ s7.told = -1 => Keyboard!Tells({"new keyboard"}) \/ g < Len(s2.keyboard.groups)
        /\ s7.from # -1 => s7.from = s2.group /\ g = Keyboard!NextOf(s2.group, Len(s2.keyboard.groups))
    BY <1>9 DEF Keyboard!Clicked, g
  <2>4. Keyboard!Clicked'
    BY <1>1, <1>3, <2>2, <2>3 DEF Keyboard!Clicked, Keyboard!Steps, Keyboard!NextOf
  <2>5. s14' \/ Keyboard!Tells({"state", "new keyboard"}) \/ g = s2.group \/ g < Len(s2.keyboard.groups)
    BY <1>6, <1>7, <2>3
  <2>6. Keyboard!Follows'
    BY <1>1, <1>2, <1>5, <2>2, <2>5 DEF Keyboard!Follows, Keyboard!Late
  <2> QED
    BY <1>4, <2>4, <2>6
<1> QED
  BY <1>1, <1>8, <1>9

(* Of what happens elsewhere an event is queued.                           *)
LEMMA KeyboardElsewhereFollows ==
  ASSUME Keyboard!Grouped, Keyboard!GroupOfKeyboard, Keyboard!Numbered, Keyboard!Clicked, Keyboard!Follows, Keyboard!LastSays, Keyboard!Elsewhere
  PROVE  Keyboard!GroupOfKeyboard' /\ Keyboard!Numbered' /\ Keyboard!Clicked' /\ Keyboard!Follows' /\ Keyboard!LastSays'
<1>1. UNCHANGED <<s5, s15, s14>> /\ s7' = [s7 EXCEPT !.from = -1]
  BY DEF Keyboard!Elsewhere, Keyboard!SwitchOnly
<1>2. ASSUME NEW type \in Keyboard!Types, NEW g \in Nat, Keyboard!Send(type, g), Keyboard!GroupOfKeyboard',
             s2' = [keyboard |-> s2'.keyboard, group |-> s2'.group, locks |-> s2'.locks],
             type # "new keyboard" => s2'.keyboard = s2.keyboard,
             type = "state" => s2'.group = g,
             type = "indicator" => s2'.group = s2.group,
             type = "state" => s2'.locks = s2.locks
      PROVE  Keyboard!GroupOfKeyboard' /\ Keyboard!Numbered' /\ Keyboard!Clicked' /\ Keyboard!Follows' /\ Keyboard!LastSays'
  <2>1. /\ s4' \in Nat /\ s3' \in Seq(Keyboard!Event)
        /\ \A types : Keyboard!Queued(types)' <=> Keyboard!Queued(types) \/ type \in types
    BY <1>2, KeyboardSendTells
  <2>2. \A types : Keyboard!Tells(types)' <=> Keyboard!Tells(types) \/ type \in types
    BY <1>1, <2>1 DEF Keyboard!Tells
  <2>3. Keyboard!LastSays'
    BY <1>2, KeyboardSendSays
  <2>4. type \in {"state", "indicator", "new keyboard"}
    BY DEF Keyboard!Types
  <2>5. s7' = Keyboard!Action(s7.step, s7.group, -1, s7.told)
    BY <1>1 DEF Keyboard!Clicked, Keyboard!Action
  <2>6. s7'.step = s7.step /\ s7'.group = s7.group /\ s7'.from = -1 /\ s7'.told = s7.told
    BY <2>5 DEF Keyboard!Action
  <2>7. Keyboard!Follows'
    BY <1>1, <1>2, <2>2, <2>4, <2>6 DEF Keyboard!Follows, Keyboard!Late
  <2>8. s7.step = "no" => s7' = Keyboard!NoAction
    BY <1>1 DEF Keyboard!Clicked, Keyboard!NoAction, Keyboard!Action
  <2>9. Keyboard!Clicked'
    BY <1>1, <1>2, <2>2, <2>4, <2>5, <2>6, <2>8 DEF Keyboard!Clicked
  <2> QED
    BY <1>1, <1>2, <2>1, <2>3, <2>7, <2>9 DEF Keyboard!Numbered
<1>3. "state" \in Keyboard!Types /\ "indicator" \in Keyboard!Types /\ "new keyboard" \in Keyboard!Types /\ 0 \in Nat
  BY DEF Keyboard!Types
<1>4. ASSUME NEW h \in 0 .. Len(s2.keyboard.groups) - 1, s2' = [s2 EXCEPT !.group = h], Keyboard!Send("state", h)
      PROVE  Keyboard!GroupOfKeyboard' /\ Keyboard!Numbered' /\ Keyboard!Clicked' /\ Keyboard!Follows' /\ Keyboard!LastSays'
  <2>1. h \in Nat
    BY DEF Keyboard!GroupOfKeyboard, Keyboard!Grouped
  <2>2. s2' = [keyboard |-> s2.keyboard, group |-> h, locks |-> s2.locks]
    BY <1>4 DEF Keyboard!GroupOfKeyboard
  <2>3. Keyboard!GroupOfKeyboard'
    BY <1>4, <2>2 DEF Keyboard!GroupOfKeyboard
  <2> QED
    BY <1>2, <1>3, <1>4, <2>1, <2>2, <2>3
<1>5. ASSUME NEW on, s2' = [s2 EXCEPT !.locks = on], Keyboard!Send("indicator", 0)
      PROVE  Keyboard!GroupOfKeyboard' /\ Keyboard!Numbered' /\ Keyboard!Clicked' /\ Keyboard!Follows' /\ Keyboard!LastSays'
  <2>1. s2' = [keyboard |-> s2.keyboard, group |-> s2.group, locks |-> on]
    BY <1>5 DEF Keyboard!GroupOfKeyboard
  <2>2. Keyboard!GroupOfKeyboard'
    BY <2>1 DEF Keyboard!GroupOfKeyboard
  <2> QED
    BY <1>2, <1>3, <1>5, <2>1, <2>2
<1>6. ASSUME NEW k \in KeyboardKeyboards, s2' = [s2 EXCEPT !.keyboard = k, !.group = 0], Keyboard!Send("new keyboard", 0)
      PROVE  Keyboard!GroupOfKeyboard' /\ Keyboard!Numbered' /\ Keyboard!Clicked' /\ Keyboard!Follows' /\ Keyboard!LastSays'
  <2>1. s2' = [keyboard |-> k, group |-> 0, locks |-> s2.locks]
    BY <1>6 DEF Keyboard!GroupOfKeyboard
  <2>2. Len(k.groups) \in Nat \ {0}
    BY DEF Keyboard!Grouped
  <2>3. 0 \in 0 .. Len(k.groups) - 1
    BY <2>2
  <2>4. Keyboard!GroupOfKeyboard'
    BY <2>1, <2>3 DEF Keyboard!GroupOfKeyboard
  <2> QED
    BY <1>2, <1>3, <1>6, <2>1, <2>4
<1> QED
  BY <1>4, <1>5, <1>6 DEF Keyboard!Elsewhere

(* What is shown is brought up to date with each update.                   *)
LEMMA KeyboardLabelledKept ==
  ASSUME Keyboard!Labelled, [Keyboard!Next]_(Keyboard!vars)
  PROVE  Keyboard!Labelled'
<1>1. s1' = s1
  BY DEF Keyboard!Next, Keyboard!UpdateRead, Keyboard!UpdateFill, Keyboard!UpdateOnly,
     Keyboard!HandleEvent, Keyboard!Switch, Keyboard!ActionSwitch,
     Keyboard!SwitchWrap, Keyboard!SwitchRequest, Keyboard!SwitchSet,
     Keyboard!SwitchOnly, Keyboard!Elsewhere, Keyboard!vars
<1>2. ASSUME NEW t \in Keyboard!Threads, s8' = [s8 EXCEPT ![t] = "read"], UNCHANGED s9
      PROVE  Keyboard!Labelled'
  <2>1. s8' \in [Keyboard!Threads -> {"no", "read", "fill"}] /\ s8'[t] = "read"
    BY <1>2 DEF Keyboard!Labelled
  <2>2. s9' = [u \in Keyboard!Threads |-> s9'[u]]
    BY <1>2 DEF Keyboard!Labelled
  <2> QED
    BY <2>1, <2>2 DEF Keyboard!Labelled
<1>3. ASSUME UNCHANGED <<s5, s10, s11, s12, s13, s8, s9>>
      PROVE  Keyboard!Labelled'
  <2>1. Keyboard!Reading' = Keyboard!Reading
    BY <1>1, <1>3 DEF Keyboard!Reading, Keyboard!LayoutTokens, Keyboard!Indicators,
       Keyboard!Indicator, Keyboard!Listed, Keyboard!GroupName, Keyboard!LayoutName
  <2> QED
    BY <1>3, <2>1 DEF Keyboard!Labelled
<1>4. ASSUME NEW t \in Keyboard!Threads, Keyboard!UpdateRead(t)
      PROVE  Keyboard!Labelled'
  <2>1. /\ s8' = [s8 EXCEPT ![t] = "fill"] /\ s9' = [s9 EXCEPT ![t] = Keyboard!Reading]
        /\ \A u \in Keyboard!Threads \ {t} : s8[u] = "fill" => u \in s12'
        /\ UNCHANGED s5
    BY <1>4 DEF Keyboard!UpdateRead, Keyboard!UpdateOnly, Keyboard!Reading
  <2>2. Keyboard!Reading' = Keyboard!Reading
    BY <1>1, <2>1 DEF Keyboard!Reading, Keyboard!LayoutTokens, Keyboard!Indicators,
       Keyboard!Indicator, Keyboard!Listed, Keyboard!GroupName, Keyboard!LayoutName
  <2>3. /\ s8' \in [Keyboard!Threads -> {"no", "read", "fill"}] /\ s8'[t] = "fill"
        /\ \A u \in Keyboard!Threads \ {t} : s8'[u] = s8[u]
    BY <2>1 DEF Keyboard!Labelled
  <2>4. /\ s9' = [u \in Keyboard!Threads |-> s9'[u]] /\ s9'[t] = Keyboard!Reading
        /\ \A u \in Keyboard!Threads \ {t} : s9'[u] = s9[u]
    BY <2>1 DEF Keyboard!Labelled
  <2>5. ASSUME NEW u \in Keyboard!Threads, s8'[u] = "fill", u \notin s12'
        PROVE  s9'[u] = Keyboard!Reading' \/ \E v \in Keyboard!Threads : s8'[v] = "read"
    <3>1. CASE u = t
      BY <2>2, <2>4, <3>1
    <3>2. CASE u # t
      BY <2>1, <2>3, <2>5, <3>2
    <3> QED
      BY <3>1, <3>2
  <2> QED
    BY <2>3, <2>4, <2>5 DEF Keyboard!Labelled
<1>5. ASSUME NEW t \in Keyboard!Threads, Keyboard!UpdateFill(t)
      PROVE  Keyboard!Labelled'
  <2>1. /\ s8[t] = "fill" /\ s8' = [s8 EXCEPT ![t] = "no"] /\ s9' = [s9 EXCEPT ![t] = Keyboard!Nothing]
        /\ s12' = s12 \ {t} /\ s13' = (t \in s12) /\ UNCHANGED s5
        /\ t \notin s12 => s10' = s9[t].layout /\ s11' = s9[t].locks
    BY <1>5 DEF Keyboard!UpdateFill, Keyboard!UpdateOnly
  <2>2. Keyboard!Reading' = Keyboard!Reading
    BY <1>1, <2>1 DEF Keyboard!Reading, Keyboard!LayoutTokens, Keyboard!Indicators,
       Keyboard!Indicator, Keyboard!Listed, Keyboard!GroupName, Keyboard!LayoutName
  <2>3. /\ s8' \in [Keyboard!Threads -> {"no", "read", "fill"}] /\ s8'[t] = "no"
        /\ \A u \in Keyboard!Threads \ {t} : s8'[u] = s8[u]
    BY <2>1 DEF Keyboard!Labelled
  <2>4. /\ s9' = [u \in Keyboard!Threads |-> s9'[u]]
        /\ \A u \in Keyboard!Threads \ {t} : s9'[u] = s9[u]
    BY <2>1 DEF Keyboard!Labelled
  <2>5. (\E v \in Keyboard!Threads : s8[v] = "read") => \E v \in Keyboard!Threads : s8'[v] = "read"
    BY <2>1, <2>3
  <2>6. ASSUME NEW u \in Keyboard!Threads, s8'[u] = "fill", u \notin s12'
        PROVE  s9'[u] = Keyboard!Reading' \/ \E v \in Keyboard!Threads : s8'[v] = "read"
    <3>1. u # t /\ s8[u] = "fill" /\ u \notin s12
      BY <2>1, <2>3, <2>6
    <3> QED
      BY <2>2, <2>4, <2>5, <3>1 DEF Keyboard!Labelled
  <2>7. ASSUME ~s13', \A v \in Keyboard!Threads : s8'[v] = "no"
        PROVE  s10' = Keyboard!Reading'.layout /\ s11' = Keyboard!Reading'.locks
    <3>1. t \notin s12
      BY <2>1, <2>7
    <3>2. s9[t] = Keyboard!Reading
      BY <2>1, <2>5, <2>7, <3>1 DEF Keyboard!Labelled
    <3> QED
      BY <2>1, <2>2, <3>1, <3>2
  <2> QED
    BY <2>3, <2>4, <2>6, <2>7 DEF Keyboard!Labelled
<1>6. CASE Keyboard!HandleEvent
  <2>1. UNCHANGED <<Keyboard!label, s9>> /\ (s8' = [s8 EXCEPT !["main"] = "read"] \/ UNCHANGED <<s5, s8>>)
    BY <1>6 DEF Keyboard!HandleEvent
  <2> QED
    BY <1>2, <1>3, <2>1 DEF Keyboard!Threads, Keyboard!label
<1>7. CASE Keyboard!Switch
  <2>1. CASE Keyboard!SwitchSet
    BY <1>2, <2>1 DEF Keyboard!SwitchSet, Keyboard!Threads
  <2>2. CASE Keyboard!ActionSwitch \/ Keyboard!SwitchWrap \/ Keyboard!SwitchRequest
    BY <1>3, <2>2 DEF Keyboard!ActionSwitch, Keyboard!SwitchWrap,
       Keyboard!SwitchRequest, Keyboard!SwitchOnly, Keyboard!label
  <2> QED
    BY <1>7, <2>1, <2>2 DEF Keyboard!Switch
<1>8. CASE Keyboard!Elsewhere \/ UNCHANGED Keyboard!vars
  BY <1>3, <1>8 DEF Keyboard!Elsewhere, Keyboard!SwitchOnly, Keyboard!label,
     Keyboard!vars
<1> QED
  BY <1>4, <1>5, <1>6, <1>7, <1>8 DEF Keyboard!Next

(* At first the module knows the keyboard, and nothing is queued.          *)
LEMMA KeyboardInitInv ==
  ASSUME Keyboard!Grouped, Keyboard!Init
  PROVE  Keyboard!Inv
<1>1. PICK k \in KeyboardKeyboards : s2 = [keyboard |-> k, group |-> 0, locks |-> {}]
  BY DEF Keyboard!Init
<1>2. Len(k.groups) \in Nat \ {0}
  BY DEF Keyboard!Grouped
<1>3. Keyboard!GroupOfKeyboard
  BY <1>1, <1>2 DEF Keyboard!GroupOfKeyboard
<1>4. Keyboard!SwitchMoves
  BY DEF Keyboard!Init, Keyboard!SwitchMoves, Keyboard!NoSwitch
<1>5. /\ s5.layouts = Keyboard!Layouts(s2.keyboard) /\ s5.masks = s2.keyboard.modifiers
      /\ s5.current = s2.group /\ s5.on = s2.locks
      /\ s5 = [layouts |-> s5.layouts, current |-> s5.current,
                       masks |-> s5.masks, on |-> s5.on]
      /\ s5.current \in Nat /\ Len(s5.layouts) \in Nat
  BY <1>3, KeyboardQueryNumbered DEF Keyboard!Init
<1>6. /\ s4 = 0 /\ s3 = <<>> /\ s7 = Keyboard!NoAction /\ s14 = FALSE
      /\ s8 = [t \in Keyboard!Threads |-> IF t = "starter" THEN "read" ELSE "no"]
      /\ s9 = [t \in Keyboard!Threads |-> Keyboard!Nothing]
  BY DEF Keyboard!Init
<1>7. s3 \in Seq(Keyboard!Event) /\ Len(s3) = 0
  BY <1>6, EmptySeq
<1>8. Keyboard!Numbered /\ Keyboard!Follows
  BY <1>5, <1>6, <1>7 DEF Keyboard!Numbered, Keyboard!Follows
<1>9. Keyboard!LastSays
  BY <1>7 DEF Keyboard!LastSays
<1>10. Keyboard!Labelled
  <2>1. "starter" \in Keyboard!Threads /\ s8["starter"] = "read"
    BY <1>6 DEF Keyboard!Threads
  <2> QED
    BY <1>6, <2>1 DEF Keyboard!Labelled
<1>11. Keyboard!Clicked
  BY <1>6 DEF Keyboard!Clicked, Keyboard!NoAction, Keyboard!Action, Keyboard!Steps
<1> QED
  BY <1>3, <1>4, <1>8, <1>9, <1>10, <1>11 DEF Keyboard!Inv

(* Each step keeps the invariant.                                           *)
LEMMA KeyboardInvKept ==
  ASSUME Keyboard!Grouped, Keyboard!Inv, [Keyboard!Next]_(Keyboard!vars)
  PROVE  Keyboard!Inv'
<1>1. Keyboard!Labelled'
  BY KeyboardLabelledKept DEF Keyboard!Inv
<1>2. ASSUME UNCHANGED <<s2, s16>>
      PROVE  Keyboard!GroupOfKeyboard' /\ Keyboard!SwitchMoves'
  BY <1>2 DEF Keyboard!Inv, Keyboard!GroupOfKeyboard, Keyboard!SwitchMoves
<1>3. CASE Keyboard!HandleEvent
  BY <1>1, <1>2, <1>3, KeyboardHandleFollows DEF Keyboard!Inv, Keyboard!HandleEvent
<1>4. ASSUME UNCHANGED <<s2, s5, s3, s4>>
      PROVE  Keyboard!Numbered' /\ Keyboard!LastSays'
  BY <1>4 DEF Keyboard!Inv, Keyboard!Numbered, Keyboard!LastSays, Keyboard!LastOfGroup
<1>5. CASE Keyboard!ActionSwitch
  <2>1. s16' = Keyboard!NoSwitch /\ UNCHANGED <<s2, s5, s3, s4>>
    BY <1>5 DEF Keyboard!ActionSwitch, Keyboard!SwitchOnly
  <2>2. Keyboard!GroupOfKeyboard' /\ Keyboard!SwitchMoves'
    BY <2>1 DEF Keyboard!Inv, Keyboard!GroupOfKeyboard, Keyboard!SwitchMoves,
       Keyboard!NoSwitch
  <2> QED
    BY <1>1, <1>4, <1>5, <2>1, <2>2, KeyboardActionFollows DEF Keyboard!Inv
<1>6. CASE Keyboard!SwitchWrap
  <2>1. UNCHANGED <<s2, s5, s3, s4, s16>>
    BY <1>6 DEF Keyboard!SwitchWrap, Keyboard!SwitchOnly
  <2> QED
    BY <1>1, <1>2, <1>4, <1>6, <2>1, KeyboardWrapFollows DEF Keyboard!Inv
<1>7. CASE Keyboard!SwitchRequest
  BY <1>1, <1>7, KeyboardRequestFollows DEF Keyboard!Inv
<1>8. CASE Keyboard!SwitchSet
  <2>1. UNCHANGED <<s2, s3, s16>>
    BY <1>8 DEF Keyboard!SwitchSet
  <2>2. Keyboard!LastSays'
    BY <2>1 DEF Keyboard!Inv, Keyboard!LastSays, Keyboard!LastOfGroup
  <2> QED
    BY <1>1, <1>2, <1>8, <2>1, <2>2, KeyboardSetFollows DEF Keyboard!Inv
<1>9. CASE Keyboard!Elsewhere
  <2>1. Keyboard!SwitchMoves'
    BY <1>9 DEF Keyboard!Inv, Keyboard!Elsewhere, Keyboard!SwitchMoves
  <2> QED
    BY <1>1, <1>9, <2>1, KeyboardElsewhereFollows DEF Keyboard!Inv
<1>10. CASE (\E t \in Keyboard!Threads : Keyboard!UpdateRead(t) \/ Keyboard!UpdateFill(t)) \/ UNCHANGED Keyboard!vars
  <2>1. UNCHANGED <<s2, s5, s3, s4, s7, s14, s16, s15>>
    BY <1>10 DEF Keyboard!UpdateRead, Keyboard!UpdateFill, Keyboard!UpdateOnly,
       Keyboard!vars
  <2>2. \A types : Keyboard!Tells(types)' <=> Keyboard!Tells(types)
    BY <2>1 DEF Keyboard!Tells, Keyboard!Queued
  <2>3. Keyboard!Follows'
    BY <2>1, <2>2 DEF Keyboard!Inv, Keyboard!Follows, Keyboard!Late
  <2>4. Keyboard!Clicked'
    BY <2>1, <2>2 DEF Keyboard!Inv, Keyboard!Clicked, Keyboard!NoAction,
       Keyboard!Action, Keyboard!NextOf
  <2> QED
    BY <1>1, <1>2, <1>4, <2>1, <2>3, <2>4 DEF Keyboard!Inv
<1> QED
  BY <1>3, <1>5, <1>6, <1>7, <1>8, <1>9, <1>10 DEF Keyboard!Next, Keyboard!Switch

(* With no event queued, the label is that of the server.                  *)
LEMMA KeyboardInvFollows ==
  ASSUME Keyboard!Grouped, Keyboard!Inv
  PROVE  Keyboard!LayoutFollows /\ Keyboard!LocksFollow
<1>1. ASSUME Keyboard!Idle, NEW types, s15 \cap types = {}
      PROVE  ~Keyboard!Tells(types)
  <2>1. Len(s3) = 0
    BY <1>1, EmptySeq DEF Keyboard!Idle
  <2> QED
    BY <1>1, <2>1 DEF Keyboard!Tells, Keyboard!Queued
<1>2. ASSUME Keyboard!Idle, ~s14, s15 \cap {"state", "new keyboard"} = {}
      PROVE  s10[3] = s2.group /\ s10[1] = s2.keyboard.groups[s2.group + 1]
  <2> DEFINE k == s2.keyboard
             g == s2.group
  <2>1. ~Keyboard!Tells({"new keyboard"}) /\ ~Keyboard!Tells({"state", "new keyboard"})
    BY <1>1, <1>2
  <2>2. s5.layouts = Keyboard!Layouts(k) /\ s5.current = g
    BY <1>2, <2>1 DEF Keyboard!Inv, Keyboard!Follows, Keyboard!Idle, Keyboard!Late
  <2>3. s10 = Keyboard!LayoutTokens(s5)
    BY <1>2 DEF Keyboard!Inv, Keyboard!Labelled, Keyboard!Idle, Keyboard!Reading
  <2>4. s10[1] = Keyboard!GroupName(s5, g) /\ s10[3] = g
    BY <2>2, <2>3 DEF Keyboard!LayoutTokens
  <2>5. Len(k.groups) \in Nat \ {0} /\ g \in 0 .. Len(k.groups) - 1
    BY DEF Keyboard!Inv, Keyboard!GroupOfKeyboard, Keyboard!Grouped
  <2>6. Len(Keyboard!Layouts(k)) = Len(k.groups) /\ \A i \in 1 .. Len(k.groups) : Keyboard!Layouts(k)[i].name = k.groups[i]
    BY <2>5 DEF Keyboard!Layouts
  <2> HIDE DEF g, k
  <2>7. g < Len(k.groups) /\ g + 1 \in 1 .. Len(k.groups)
    BY <2>5
  <2>8. Keyboard!GroupName(s5, g) = k.groups[g + 1]
    BY <2>2, <2>6, <2>7 DEF Keyboard!GroupName
  <2> QED
    BY <2>4, <2>8 DEF g, k
<1>3. ASSUME Keyboard!Idle, s15 \cap {"indicator", "new keyboard"} = {}
      PROVE  /\ DOMAIN s11 = Keyboard!Listed(s1)
             /\ \A l \in DOMAIN s11 \cap s2.keyboard.modifiers :
                  s11[l].label[2] <=> l \in s2.locks
  <2>1. ~Keyboard!Tells({"new keyboard"}) /\ ~Keyboard!Tells({"indicator", "new keyboard"})
    BY <1>1, <1>3
  <2>2. /\ s5.masks = s2.keyboard.modifiers
        /\ \A l \in s5.masks : l \in s5.on <=> l \in s2.locks
    BY <2>1 DEF Keyboard!Inv, Keyboard!Follows
  <2>3. s11 = Keyboard!Indicators(s1, s5)
    BY <1>3 DEF Keyboard!Inv, Keyboard!Labelled, Keyboard!Idle, Keyboard!Reading
  <2>4. /\ DOMAIN s11 = Keyboard!Listed(s1)
        /\ \A l \in DOMAIN s11 : s11[l] = Keyboard!Indicator(s1, s5, l)
    BY <2>3 DEF Keyboard!Indicators
  <2>5. ASSUME NEW l
        PROVE  Keyboard!Indicator(s1, s5, l).label[2] <=> l \in s5.on
    BY DEF Keyboard!Indicator
  <2> QED
    BY <2>2, <2>4, <2>5
<1> QED
  BY <1>2, <1>3 DEF Keyboard!LayoutFollows, Keyboard!LocksFollow

-----------------------------------------------------------------------------
(* Alsa.                                                                   *)
Alsa == INSTANCE Alsa WITH
  Configurations <- AlsaMixers, Top <- AlsaTop,
  Interval <- AlsaInterval, MaxOps <- AlsaOps, m_mixer <- s1,
  hw <- s2, plugged <- s3, m_cache <- s4, unread <- s5, jacks <- s6,
  m_volume <- s7, m_muted <- s8, m_headphones <- s9, runner <- s10,
  action <- s11, ops <- s12, was <- s13

(* At first nothing has been read of a card that is as its handles say.    *)
LEMMA AlsaInitFollowing ==
  ASSUME Alsa!Init
  PROVE  Alsa!Following
BY DEF Alsa!Init, Alsa!Following, Alsa!Cached, Alsa!Updated

(* A poll ends an update that knew less; the next one starts from nothing. *)
LEMMA AlsaPollKeeps ==
  ASSUME Alsa!Following, Alsa!Poll \/ Alsa!Update
  PROVE  Alsa!Following'
<1>1. CASE Alsa!Poll
  BY <1>1 DEF Alsa!Poll, Alsa!JackEvent, Alsa!Following, Alsa!Cached, Alsa!Updated
<1>2. CASE Alsa!Update
  <2>1. Alsa!Cached'
    BY <1>2 DEF Alsa!Update, Alsa!Following, Alsa!Cached
  <2>2. Alsa!Updated'
    BY <1>2 DEF Alsa!Update, Alsa!Updated
  <2>3. s6' \in Nat
    BY <1>2 DEF Alsa!Update, Alsa!Following
  <2> QED
    BY <2>1, <2>2, <2>3 DEF Alsa!Following
<1> QED
  BY <1>1, <1>2

(* Each mixer that is heard is multiplied with what came before.           *)
LEMMA AlsaUpdateKeeps ==
  ASSUME Alsa!Following, Alsa!UpdateMaster \/ Alsa!UpdateHeadphone \/ Alsa!UpdateSpeaker
  PROVE  Alsa!Following'
<1>1. UNCHANGED <<s1, s2, s3, s4, s5, s6>>
  BY DEF Alsa!UpdateMaster, Alsa!UpdateHeadphone, Alsa!UpdateSpeaker, Alsa!handles
<1>2. Alsa!Cached'
  BY <1>1 DEF Alsa!Following, Alsa!Cached
<1>3. ASSUME s5 = {}, s6 = 0
      PROVE  Alsa!Updated'
  <2>1. \A m \in s1 : s4[m] = s2[m]
    BY <1>3 DEF Alsa!Following, Alsa!Cached
  <2>2. \A v, m : Alsa!By(v, m)' = Alsa!By(v, m) /\ Alsa!Quiet(m)' = Alsa!Quiet(m)
    BY <1>1 DEF Alsa!By, Alsa!Quiet, Alsa!Heard, Alsa!Times, Alsa!Percent
  <2>3. Alsa!Updated
    BY <1>3 DEF Alsa!Following
  <2>4. CASE Alsa!UpdateMaster
    <3>1. /\ s10 = "master" /\ s10' = "headphone" /\ s9' = s9
          /\ s7' = Alsa!By(s7, "MASTER") /\ s8' = (s8 \/ Alsa!Quiet("MASTER"))
      BY <2>1, <2>3, <2>4 DEF Alsa!UpdateMaster, Alsa!Query, Alsa!By, Alsa!Quiet,
         Alsa!Heard, Alsa!Updated
    <3>2. Alsa!By(100, "MASTER")' = Alsa!By(100, "MASTER") /\ Alsa!Quiet("MASTER")' = Alsa!Quiet("MASTER")
      BY <2>2
    <3>3. s7 = 100 /\ s8 = FALSE /\ s9 = FALSE
      BY <2>3, <3>1 DEF Alsa!Updated
    <3>4. s8' = Alsa!Quiet("MASTER")
      BY <3>1, <3>3 DEF Alsa!Quiet
    <3>5. s7' = Alsa!By(100, "MASTER")' /\ s8' = Alsa!Quiet("MASTER")'
      BY <3>1, <3>2, <3>3, <3>4
    <3> QED
      BY <3>1, <3>3, <3>5 DEF Alsa!Updated
  <2>5. CASE Alsa!UpdateHeadphone
    <3>1. /\ s10 = "headphone" /\ s10' = "speaker" /\ s9' = Alsa!DevicePlugged
          /\ s7' = Alsa!By(s7, "HEADPHONE") /\ s8' = (s8 \/ Alsa!Quiet("HEADPHONE"))
      BY <2>1, <2>3, <2>5 DEF Alsa!UpdateHeadphone, Alsa!DevicePlugged, Alsa!Query,
         Alsa!By, Alsa!Quiet, Alsa!Heard, Alsa!Updated
    <3>2. Alsa!DevicePlugged' = Alsa!DevicePlugged
      BY <1>1 DEF Alsa!DevicePlugged
    <3> QED
      BY <2>2, <2>3, <3>1, <3>2 DEF Alsa!Updated
  <2>6. CASE Alsa!UpdateSpeaker
    <3>1. /\ s10 = "speaker" /\ s10' = "poll" /\ s9' = s9
          /\ s7' = Alsa!By(s7, "SPEAKER") /\ s8' = (s8 \/ Alsa!Quiet("SPEAKER"))
      BY <2>1, <2>3, <2>6 DEF Alsa!UpdateSpeaker, Alsa!DevicePlugged, Alsa!Query,
         Alsa!By, Alsa!Quiet, Alsa!Heard, Alsa!Updated
    <3>2. Alsa!DevicePlugged' = Alsa!DevicePlugged /\ Alsa!Loudness' = Alsa!Loudness
      BY <1>1, <2>2 DEF Alsa!DevicePlugged, Alsa!Loudness
    <3> QED
      BY <2>2, <2>3, <3>1, <3>2 DEF Alsa!Updated, Alsa!Loudness
  <2> QED
    BY <2>4, <2>5, <2>6
<1> QED
  BY <1>1, <1>2, <1>3 DEF Alsa!Following

(* An action changes nothing, or leaves an event.                          *)
LEMMA AlsaSetKeeps ==
  ASSUME Alsa!Following, NEW m, NEW e, Alsa!Set(m, e),
         UNCHANGED <<s1, s3, s4, s6, Alsa!module>>
  PROVE  Alsa!Following'
<1>1. UNCHANGED <<s1, s3, s4, s6, s7, s8, s9, s10>>
  BY DEF Alsa!module
<1>2. Alsa!Cached'
  BY <1>1 DEF Alsa!Set, Alsa!Following, Alsa!Cached
<1>3. CASE e = s2[m]
  <2>1. s2' = s2 /\ s5' = s5
    BY <1>3 DEF Alsa!Set, Alsa!Following, Alsa!Cached
  <2>2. \A v, k : Alsa!By(v, k)' = Alsa!By(v, k) /\ Alsa!Quiet(k)' = Alsa!Quiet(k)
    BY <1>1, <2>1 DEF Alsa!By, Alsa!Quiet, Alsa!Heard, Alsa!Times, Alsa!Percent
  <2>3. Alsa!Updated' = Alsa!Updated
    BY <1>1, <2>1, <2>2 DEF Alsa!Updated, Alsa!DevicePlugged, Alsa!Loudness
  <2> QED
    BY <1>1, <1>2, <2>1, <2>3 DEF Alsa!Following
<1>4. CASE e # s2[m]
  BY <1>2, <1>4 DEF Alsa!Set, Alsa!Following
<1> QED
  BY <1>3, <1>4

(* So does whoever else changes the card or the jack.                      *)
LEMMA AlsaElsewhereKeeps ==
  ASSUME Alsa!Following, Alsa!Elsewhere
  PROVE  Alsa!Following'
<1>1. UNCHANGED <<s1, s4, s7, s8, s9, s10>>
  BY DEF Alsa!Elsewhere, Alsa!module
<1>2. CASE UNCHANGED <<s3, s6>>
  <2>1. PICK m \in s1 : s2' = [s2 EXCEPT ![m].on = ~@] /\ s5' = s5 \cup {m}
    BY <1>2 DEF Alsa!Elsewhere, Alsa!Following
  <2>2. s2' = [k \in s1 |-> s2'[k]]
    BY <2>1 DEF Alsa!Following, Alsa!Cached
  <2>3. Alsa!Cached'
    BY <1>1, <2>1, <2>2 DEF Alsa!Following, Alsa!Cached
  <2> QED
    BY <1>2, <2>1, <2>3 DEF Alsa!Following
<1>3. CASE UNCHANGED <<s2, s5>> /\ s6' = s6 + 1
  BY <1>1, <1>3 DEF Alsa!Following, Alsa!Cached
<1> QED
  BY <1>2, <1>3 DEF Alsa!Elsewhere

(* Every step keeps it, ...                                                *)
LEMMA AlsaFollowingKept ==
  ASSUME Alsa!Following, [Alsa!Next]_(Alsa!vars)
  PROVE  Alsa!Following'
<1>1. CASE Alsa!RunnerStep
  BY <1>1, AlsaPollKeeps, AlsaUpdateKeeps DEF Alsa!RunnerStep
<1>2. ASSUME NEW is, Alsa!Begin(is)
      PROVE  Alsa!Following'
  BY <1>2 DEF Alsa!Begin, Alsa!handles, Alsa!module, Alsa!Following, Alsa!Cached,
     Alsa!Updated, Alsa!By, Alsa!Quiet, Alsa!Heard, Alsa!Times, Alsa!Percent,
     Alsa!Loudness, Alsa!DevicePlugged
<1>3. CASE Alsa!ToggleNext \/ Alsa!ChangeNext
  BY <1>3, AlsaSetKeeps DEF Alsa!ToggleNext, Alsa!ChangeNext
<1>4. CASE Alsa!Elsewhere
  BY <1>4, AlsaElsewhereKeeps
<1>5. CASE UNCHANGED Alsa!vars
  BY <1>5 DEF Alsa!vars, Alsa!Following, Alsa!Cached, Alsa!Updated, Alsa!By,
     Alsa!Quiet, Alsa!Heard, Alsa!Times, Alsa!Percent, Alsa!Loudness,
     Alsa!DevicePlugged
<1> QED
  BY <1>1, <1>2, <1>3, <1>4, <1>5 DEF Alsa!Next, Alsa!ActionStep

(* What it says of a module that has read everything.                      *)
LEMMA AlsaFollowingShows ==
  ASSUME Alsa!Following
  PROVE  Alsa!ShowsHeard
<1>1. Alsa!Heard \subseteq {"MASTER", "HEADPHONE", "SPEAKER"}
  BY DEF Alsa!Heard
<1>2. Alsa!Silenced = (Alsa!Quiet("MASTER") \/ Alsa!Quiet("HEADPHONE") \/ Alsa!Quiet("SPEAKER"))
  BY <1>1 DEF Alsa!Silenced, Alsa!Quiet
<1> QED
  BY <1>2 DEF Alsa!Following, Alsa!Updated, Alsa!Settled, Alsa!ShowsHeard,
     Alsa!DevicePlugged

(* ... and what is known of the mixers' switches, ...                      *)
LEMMA AlsaSettableKept ==
  ASSUME Alsa!Cached, Alsa!Settable, [Alsa!Next]_(Alsa!vars)
  PROVE  Alsa!Settable'
<1>1. CASE Alsa!RunnerStep
  <2>1. UNCHANGED <<s1, s2, s11>>
    BY <1>1 DEF Alsa!RunnerStep, Alsa!Poll, Alsa!Update, Alsa!UpdateMaster,
       Alsa!UpdateHeadphone, Alsa!UpdateSpeaker
  <2>2. s8' \in BOOLEAN
    BY <1>1 DEF Alsa!RunnerStep, Alsa!Poll, Alsa!Update, Alsa!UpdateMaster,
       Alsa!UpdateHeadphone, Alsa!UpdateSpeaker, Alsa!Query, Alsa!Settable
  <2> QED
    BY <2>1, <2>2 DEF Alsa!Settable, Alsa!Formed
<1>2. ASSUME NEW is, Alsa!Begin(is)
      PROVE  Alsa!Settable'
  <2>1. /\ UNCHANGED <<s1, s2, s8>> /\ "MASTER" \in s1
        /\ s11' = [is |-> is, todo |-> Alsa!Mixers, own |-> s2]
    BY <1>2 DEF Alsa!Begin, Alsa!module
  <2>2. \E m \in s1 : Alsa!Mixers \in {<<"MASTER", m>>, <<m>>}
    BY <2>1 DEF Alsa!Mixers
  <2> QED
    BY <2>1, <2>2 DEF Alsa!Settable, Alsa!Formed, Alsa!Cached
<1>3. ASSUME NEW m \in s1, NEW e, Alsa!Set(m, e), m = Head(s11.todo), Alsa!Formed(e), s11 # Alsa!NoAction,
             UNCHANGED <<s1, s8>>
      PROVE  Alsa!Settable'
  <2>1. s2' = [s2 EXCEPT ![m] = e] /\ \A k \in s1 : Alsa!Formed(s2'[k])
    BY <1>3 DEF Alsa!Set, Alsa!Settable, Alsa!Cached
  <2>2. CASE s11' = Alsa!NoAction
    <3>1. s11' = [is |-> s11'.is, todo |-> s11'.todo, own |-> s11'.own]
      BY <2>2 DEF Alsa!NoAction
    <3> QED
      BY <1>3, <2>1, <2>2, <3>1 DEF Alsa!Settable, Alsa!NoAction, Alsa!Formed
  <2>3. CASE Len(s11.todo) # 1 /\ s11' = [s11 EXCEPT !.todo = Tail(@), !.own[m] = e]
    <3> DEFINE left == Tail(s11.todo)
               owned == [s11.own EXCEPT ![m] = e]
    <3>1. s11' = [s11 EXCEPT !.todo = left, !.own = owned]
      BY <2>3
    <3>2. owned = [k \in s1 |-> owned[k]] /\ \A k \in s1 : Alsa!Formed(owned[k])
      BY <1>3 DEF Alsa!Settable
    <3>3. "MASTER" \in s1 /\ \E k \in s1 : left \in {<<"MASTER", k>>, <<k>>}
      <4>1. PICK k \in s1 : s11.todo \in {<<"MASTER", k>>, <<k>>}
        BY <1>3 DEF Alsa!Settable
      <4>2. Len(<<k>>) = 1 /\ Tail(<<"MASTER", k>>) = <<k>>
        OBVIOUS
      <4>3. left = <<k>>
        BY <2>3, <4>1, <4>2
      <4> QED
        BY <1>3, <4>3 DEF Alsa!Settable
    <3> HIDE DEF left, owned
    <3>4. s11' = [is |-> s11.is, todo |-> left, own |-> owned]
      BY <3>1 DEF Alsa!Settable
    <3> QED
      BY <1>3, <2>1, <3>2, <3>3, <3>4 DEF Alsa!Settable, Alsa!Formed
  <2> QED
    BY <1>3, <2>2, <2>3 DEF Alsa!Set
<1>4. ASSUME s11 # Alsa!NoAction
      PROVE  Head(s11.todo) \in s1 /\ Alsa!Formed(s11.own[Head(s11.todo)]) /\ Alsa!Switch \in BOOLEAN
  <2>1. Head(s11.todo) \in s1 /\ "MASTER" \in s1
    BY <1>4 DEF Alsa!Settable
  <2> QED
    BY <1>4, <2>1 DEF Alsa!Settable, Alsa!Switch, Alsa!Formed
<1>5. CASE Alsa!ToggleNext
  <2> DEFINE m == Head(s11.todo)
             e == [s11.own[m] EXCEPT !.on = Alsa!Switch]
  <2>1. s11 # Alsa!NoAction /\ Alsa!Set(m, e) /\ UNCHANGED <<s1, s8>>
    BY <1>5 DEF Alsa!ToggleNext, Alsa!module, Alsa!NoAction
  <2>2. m \in s1 /\ Alsa!Formed(e)
    BY <1>4, <2>1 DEF Alsa!Formed
  <2> HIDE DEF e
  <2> QED
    BY <1>3, <2>1, <2>2
<1>6. CASE Alsa!ChangeNext
  <2> DEFINE m == Head(s11.todo)
             e == s11.own[m]
             step == IF s11.is = "inc" THEN AlsaInterval ELSE -AlsaInterval
             f == IF e.on THEN [e EXCEPT !.vol = Alsa!Stepped(@, step, AlsaTop)] ELSE e
  <2>1. s11 # Alsa!NoAction /\ Alsa!Set(m, f) /\ UNCHANGED <<s1, s8>>
    BY <1>6 DEF Alsa!ChangeNext, Alsa!module, Alsa!NoAction
  <2>2. m \in s1 /\ Alsa!Formed(e)
    BY <1>4, <2>1
  <2>3. Alsa!Formed(f)
    <3> HIDE DEF e
    <3> QED
      BY <2>2 DEF Alsa!Formed
  <2> HIDE DEF f
  <2> QED
    BY <1>3, <2>1, <2>2, <2>3
<1>7. CASE Alsa!Elsewhere
  <2>1. UNCHANGED <<s1, s8, s11>>
    BY <1>7 DEF Alsa!Elsewhere, Alsa!module
  <2>2. CASE \E m \in s1 : s2' = [s2 EXCEPT ![m].on = ~@]
    <3>1. PICK m \in s1 : s2' = [s2 EXCEPT ![m].on = ~@]
      BY <2>2
    <3> DEFINE e == [s2[m] EXCEPT !.on = ~@]
    <3>2. s2' = [s2 EXCEPT ![m] = e] /\ Alsa!Formed(e)
      BY <3>1 DEF Alsa!Settable, Alsa!Formed
    <3> HIDE DEF e
    <3>3. \A k \in s1 : Alsa!Formed(s2'[k])
      BY <3>2 DEF Alsa!Settable, Alsa!Cached
    <3> QED
      BY <2>1, <3>3 DEF Alsa!Settable, Alsa!Formed
  <2>3. CASE UNCHANGED s2
    BY <2>1, <2>3 DEF Alsa!Settable, Alsa!Formed
  <2> QED
    BY <1>7, <2>2, <2>3 DEF Alsa!Elsewhere
<1>8. CASE UNCHANGED Alsa!vars
  BY <1>8 DEF Alsa!vars, Alsa!Settable, Alsa!Formed
<1> QED
  BY <1>1, <1>2, <1>5, <1>6, <1>7, <1>8 DEF Alsa!Next, Alsa!ActionStep

(* ... and a toggle that nothing crosses goes on.                          *)
LEMMA AlsaTogglingKept ==
  ASSUME Alsa!Following, Alsa!Settable, Alsa!Toggling, [Alsa!Next]_(Alsa!vars)
  PROVE  Alsa!Toggling'
<1> USE DEF Alsa!Toggling
<1>1. Alsa!Silenced = \E m \in Alsa!Heard : ~s2[m].on
  BY DEF Alsa!Silenced
<1>2. ASSUME UNCHANGED <<s1, s2, s3>>
      PROVE  Alsa!Silenced' = Alsa!Silenced /\ Alsa!DevicePlugged' = Alsa!DevicePlugged /\ Alsa!Heard' = Alsa!Heard
  BY <1>2 DEF Alsa!Silenced, Alsa!Heard, Alsa!DevicePlugged
<1>3. CASE Alsa!Poll
  <2>1. UNCHANGED <<s1, s2, s3, s8, s9, s11, s13>> /\ s10' = "update"
    BY <1>3 DEF Alsa!Poll
  <2> QED
    BY <1>2, <2>1 DEF Alsa!Undisturbed, Alsa!Begun, Alsa!HalfDone, Alsa!Mixers,
       Alsa!Other
<1>4. CASE Alsa!Update \/ Alsa!UpdateMaster \/ Alsa!UpdateHeadphone \/ Alsa!UpdateSpeaker
  <2>1. UNCHANGED <<s1, s2, s3, s11>> /\ (s13' # "unknown" => s13' = s13 /\ s11 = Alsa!NoAction)
    <3>1. CASE Alsa!Update
      BY <3>1 DEF Alsa!Update, Alsa!Undisturbed
    <3>2. CASE Alsa!UpdateMaster \/ Alsa!UpdateHeadphone \/ Alsa!UpdateSpeaker
      BY <3>2 DEF Alsa!UpdateMaster, Alsa!UpdateHeadphone, Alsa!UpdateSpeaker,
         Alsa!Undisturbed
    <3> QED
      BY <1>4, <3>1, <3>2
  <2> QED
    BY <1>2, <2>1
<1>5. ASSUME NEW is, Alsa!Begin(is)
      PROVE  Alsa!Toggling'
  <2>1. /\ UNCHANGED <<s1, s2, s3, s8, s9, s10>> /\ "MASTER" \in s1
        /\ s11' = [is |-> is, todo |-> Alsa!Mixers, own |-> s2]
        /\ s13' = IF is # "toggle" \/ ~Alsa!Settled THEN "unknown" ELSE IF Alsa!Silenced THEN "muted" ELSE "loud"
    BY <1>5 DEF Alsa!Begin, Alsa!module
  <2>2. CASE is = "toggle" /\ Alsa!Settled
    <3>1. s10 = "poll" /\ s8 = Alsa!Silenced /\ s9 = Alsa!DevicePlugged
      BY <2>2, AlsaFollowingShows DEF Alsa!ShowsHeard, Alsa!Settled,
         Alsa!DevicePlugged
    <3>2. Alsa!Silenced \in BOOLEAN
      BY DEF Alsa!Silenced
    <3>3. s13' \in {"muted", "loud"} /\ Alsa!Silenced = (s13' = "muted") /\ s11' # Alsa!NoAction
      BY <2>1, <2>2, <3>2 DEF Alsa!NoAction
    <3>4. Alsa!Undisturbed'
      BY <1>2, <2>1, <2>2, <3>1, <3>3 DEF Alsa!Undisturbed
    <3>5. Alsa!Begun'
      BY <1>2, <2>1, <3>3 DEF Alsa!Begun, Alsa!Mixers, Alsa!Other
    <3> QED
      BY <3>3, <3>4, <3>5
  <2> QED
    BY <2>1, <2>2
<1>6. CASE Alsa!ToggleNext
  <2>1. CASE s13 = "unknown"
    BY <1>6, <2>1 DEF Alsa!ToggleNext
  <2>2. CASE s13 # "unknown"
    <3> DEFINE m == Head(s11.todo)
               e == [s11.own[m] EXCEPT !.on = Alsa!Switch]
    <3>1. /\ s11 # Alsa!NoAction /\ Alsa!Undisturbed /\ (Alsa!Begun \/ Alsa!HalfDone) /\ s13 \in {"muted", "loud"}
          /\ UNCHANGED <<s1, s3, s8, s9, s10, s13>>
          /\ s2' = [s2 EXCEPT ![m] = e]
          /\ s11' = IF Len(s11.todo) = 1 THEN Alsa!NoAction ELSE [s11 EXCEPT !.todo = Tail(@), !.own[m] = e]
      BY <1>6, <2>2 DEF Alsa!ToggleNext, Alsa!module, Alsa!NoAction, Alsa!Set
    <3>2. m \in s1 /\ "MASTER" \in s1 /\ Alsa!Formed(s11.own[m]) /\ Alsa!Formed(s2["MASTER"])
      BY <3>1 DEF Alsa!Settable
    <3>3. e.on = Alsa!Switch /\ s2'[m] = e /\ \A k \in s1 \ {m} : s2'[k] = s2[k]
      BY <3>1, <3>2 DEF Alsa!Formed, Alsa!Following, Alsa!Cached
    <3> HIDE DEF e
    <3>4. Alsa!Heard = s1 \cap {"MASTER", Alsa!Other} /\ Alsa!Heard' = Alsa!Heard /\ Alsa!Other' = Alsa!Other /\ Alsa!DevicePlugged' = Alsa!DevicePlugged
      BY <3>1 DEF Alsa!Undisturbed, Alsa!Heard, Alsa!Other, Alsa!DevicePlugged
    <3>5. CASE Alsa!Begun
      <4>1. m = "MASTER" /\ Alsa!Switch = (s13 = "muted")
        <5>1. m = "MASTER" /\ s11.own = s2 /\ Alsa!Silenced = (s13 = "muted")
          BY <3>5 DEF Alsa!Begun, Alsa!Mixers
        <5>2. s13 = "loud" => s2["MASTER"].on
          BY <1>1, <3>1, <3>2, <3>4, <5>1
        <5> QED
          BY <3>1, <3>2, <5>1, <5>2 DEF Alsa!Switch, Alsa!Undisturbed, Alsa!Formed
      <4>2. s2'["MASTER"].on = (s13 = "muted")
        BY <3>3, <4>1
      <4>3. CASE Alsa!Other \notin s1
        <5>1. s11' = Alsa!NoAction
          BY <3>1, <3>5, <4>3 DEF Alsa!Begun, Alsa!Mixers
        <5>2. Alsa!Heard' = {"MASTER"}
          BY <3>2, <3>4, <4>3
        <5>3. Alsa!Silenced' = ~s2'["MASTER"].on
          BY <5>2 DEF Alsa!Silenced
        <5> QED
          BY <3>1, <4>2, <5>1, <5>3
      <4>4. CASE Alsa!Other \in s1
        <5> DEFINE left == Tail(s11.todo)
                   owned == [s11.own EXCEPT ![m] = e]
        <5>1. s11.todo = <<"MASTER", Alsa!Other>>
          BY <3>5, <4>4 DEF Alsa!Begun, Alsa!Mixers
        <5>2. s11' = [s11 EXCEPT !.todo = left, !.own = owned] /\ left = <<Alsa!Other>>
          BY <3>1, <5>1
        <5>3. owned["MASTER"] = e
          BY <3>2, <3>5, <4>1 DEF Alsa!Begun, Alsa!Following, Alsa!Cached
        <5> HIDE DEF left, owned
        <5>4. s11' = [is |-> s11.is, todo |-> left, own |-> owned]
          BY <5>2 DEF Alsa!Settable
        <5>5. s11' # Alsa!NoAction
          BY <3>1, <5>4 DEF Alsa!NoAction, Alsa!Undisturbed
        <5>6. Alsa!HalfDone'
          BY <3>1, <3>3, <3>4, <4>1, <4>2, <4>4, <5>2, <5>3, <5>4 DEF Alsa!HalfDone
        <5>7. Alsa!Undisturbed'
          BY <3>1, <3>4, <5>4 DEF Alsa!Undisturbed
        <5> QED
          BY <3>1, <5>5, <5>6, <5>7
      <4> QED
        BY <4>3, <4>4
    <3>6. CASE Alsa!HalfDone
      <4>1. m = Alsa!Other /\ s11' = Alsa!NoAction /\ Alsa!Other \in s1 /\ Alsa!Other # "MASTER"
        BY <3>1, <3>6 DEF Alsa!HalfDone, Alsa!Other
      <4>2. Alsa!Switch = TRUE
        BY <3>1, <3>6 DEF Alsa!HalfDone, Alsa!Switch, Alsa!Undisturbed
      <4>3. s2'[Alsa!Other].on /\ s2'["MASTER"] = s2["MASTER"] /\ Alsa!Heard' = {"MASTER", Alsa!Other}
        BY <3>2, <3>3, <3>4, <4>1, <4>2
      <4>4. Alsa!Silenced' = ~s2'["MASTER"].on
        BY <4>3 DEF Alsa!Silenced
      <4> QED
        BY <3>1, <3>6, <4>1, <4>3, <4>4 DEF Alsa!HalfDone
    <3> QED
      BY <3>1, <3>5, <3>6
  <2> QED
    BY <2>1, <2>2
<1>7. CASE Alsa!ChangeNext
  BY <1>7 DEF Alsa!ChangeNext, Alsa!Undisturbed, Alsa!NoAction
<1>8. CASE Alsa!Elsewhere
  BY <1>8 DEF Alsa!Elsewhere
<1>9. CASE UNCHANGED Alsa!vars
  BY <1>2, <1>9 DEF Alsa!vars, Alsa!Undisturbed, Alsa!Begun, Alsa!HalfDone,
     Alsa!Mixers, Alsa!Other
<1> QED
  BY <1>3, <1>4, <1>5, <1>6, <1>7, <1>8, <1>9 DEF Alsa!Next, Alsa!RunnerStep,
     Alsa!ActionStep

(* Together they are the invariant.                                        *)
LEMMA AlsaInitInv ==
  ASSUME Alsa!Init
  PROVE  Alsa!Inv
<1>1. Alsa!Settable
  <2>1. s2 \in [s1 -> Alsa!Elements] /\ s11 = Alsa!NoAction /\ s8 = FALSE
    BY DEF Alsa!Init
  <2> QED
    BY <2>1 DEF Alsa!Settable, Alsa!Elements, Alsa!Formed, Alsa!NoAction
<1>2. Alsa!Toggling
  BY DEF Alsa!Init, Alsa!Toggling
<1> QED
  BY <1>1, <1>2, AlsaInitFollowing DEF Alsa!Inv

(* Each step keeps the invariant.                                           *)
LEMMA AlsaInvKept ==
  ASSUME Alsa!Inv, [Alsa!Next]_(Alsa!vars)
  PROVE  Alsa!Inv'
  BY AlsaFollowingKept, AlsaSettableKept, AlsaTogglingKept DEF Alsa!Inv,
     Alsa!Following

(* The invariant says what is shown and what a toggle does.                 *)
LEMMA AlsaInvShows ==
  ASSUME Alsa!Inv
  PROVE  Alsa!ShowsHeard /\ Alsa!ToggleTurns
  BY AlsaFollowingShows DEF Alsa!Inv, Alsa!Toggling, Alsa!ToggleTurns

(* A step of at least one raw volume moves a mixer up or down.             *)
LEMMA AlsaStepTurns ==
  ASSUME NEW top \in 1 .. 99, NEW step \in Nat, step * top >= 100, NEW from \in 0 .. top
  PROVE  /\ from < top => Alsa!Stepped(from, step, top) > from
         /\ from > 0 => Alsa!Stepped(from, -step, top) < from
<1> DEFINE p == Alsa!Percent(from, top)
<1>1. p \in Int /\ 2 * (p * top) <= 200 * from + top /\ 200 * from + top < 2 * (p * top) + 2 * top
  <2>1. 2 * top \in Nat \ {0} /\ 200 * from + top \in Int
    OBVIOUS
  <2>2. p \in Int /\ (2 * top) * p <= 200 * from + top /\ 200 * from + top < (2 * top) * p + 2 * top
    BY <2>1, DivBounds DEF Alsa!Percent
  <2> HIDE DEF p
  <2> QED
    BY <2>2
<1> HIDE DEF p
<1>2. p >= 0 /\ p <= 100
  <2>1. CASE p < 0
    <3>1. (p + 1) * top <= 0
      BY <1>1, <2>1
    <3> QED
      BY <1>1, <3>1
  <2>2. CASE p > 100
    <3>1. p * top >= 101 * top
      BY <1>1, <2>2
    <3> QED
      BY <1>1, <3>1
  <2> QED
    BY <1>1, <2>1, <2>2
<1>3. ASSUME NEW q \in Int, NEW k \in Int, 2 * q * top + 100 = k
      PROVE  \E v \in Int : /\ Alsa!PercentToValue(q, top) = Alsa!Cap(v, 0, top)
                            /\ 200 * v <= k /\ k < 200 * v + 200
  <2>1. Alsa!PercentToValue(q, top) = Alsa!Cap(k \div 200, 0, top)
    BY <1>3 DEF Alsa!PercentToValue
  <2> QED
    BY <1>3, <2>1
<1>4. ASSUME from < top
      PROVE  Alsa!Stepped(from, step, top) > from
  <2> DEFINE q == Alsa!Cap(p + step, 0, 100)
  <2>1. q = IF p + step > 100 THEN 100 ELSE p + step
    BY <1>1, <1>2 DEF Alsa!Cap
  <2> HIDE DEF q
  <2>2. q \in Int /\ 2 * q * top + 100 \in Int
    BY <1>1, <2>1
  <2>3. PICK v \in Int : /\ Alsa!PercentToValue(q, top) = Alsa!Cap(v, 0, top)
                         /\ 200 * v <= 2 * q * top + 100 /\ 2 * q * top + 100 < 200 * v + 200
    BY <1>3, <2>2
  <2>4. v > from
    <3>1. CASE q = 100
      BY <1>4, <2>3, <3>1
    <3>2. CASE q = p + step
      <4>1. q * top = p * top + step * top
        BY <1>1, <3>2
      <4> QED
        BY <1>1, <2>2, <2>3, <4>1
    <3> QED
      BY <2>1, <3>1, <3>2
  <2>5. Alsa!PercentToValue(q, top) > from
    BY <1>4, <2>3, <2>4 DEF Alsa!Cap
  <2> QED
    BY <1>4, <2>5 DEF Alsa!Stepped, p, q
<1>5. ASSUME from > 0
      PROVE  Alsa!Stepped(from, -step, top) < from
  <2> DEFINE q == Alsa!Cap(p + (-step), 0, 100)
  <2>1. q = IF p - step < 0 THEN 0 ELSE p - step
    BY <1>1, <1>2 DEF Alsa!Cap
  <2> HIDE DEF q
  <2>2. q \in Int /\ 2 * q * top + 100 \in Int
    BY <1>1, <2>1
  <2>3. PICK v \in Int : /\ Alsa!PercentToValue(q, top) = Alsa!Cap(v, 0, top)
                         /\ 200 * v <= 2 * q * top + 100 /\ 2 * q * top + 100 < 200 * v + 200
    BY <1>3, <2>2
  <2>4. v < from
    <3>1. CASE q = 0
      BY <1>5, <2>3, <3>1
    <3>2. CASE q = p - step
      <4>1. q * top = p * top - step * top
        BY <1>1, <3>2
      <4> QED
        BY <1>1, <2>2, <2>3, <4>1
    <3> QED
      BY <2>1, <3>1, <3>2
  <2>5. Alsa!PercentToValue(q, top) < from
    BY <1>5, <2>3, <2>4 DEF Alsa!Cap
  <2> QED
    BY <1>5, <2>5 DEF Alsa!Stepped, p, q
<1> QED
  BY <1>4, <1>5

(* A step of at least one raw volume moves a mixer that has room.           *)
LEMMA AlsaStepsMove == Alsa!StepMoves
<1> SUFFICES ASSUME NEW top \in 1 .. 20, NEW step \in {1, 2, 5, 7, 10, 33, 50}, step * top >= 100,
                    NEW raw \in 0 .. top - 1
             PROVE  Alsa!Stepped(raw, step, top) > raw /\ Alsa!Stepped(raw + 1, -step, top) < raw + 1
  BY DEF Alsa!StepMoves
<1>1. /\ top \in 1 .. 99 /\ step \in Nat /\ raw \in 0 .. top /\ raw + 1 \in 0 .. top
      /\ raw < top /\ raw + 1 > 0
  OBVIOUS
<1> QED
  BY <1>1, AlsaStepTurns

-----------------------------------------------------------------------------
(* I3.                                                                     *)
I3 == INSTANCE I3 WITH
  Outputs <- I3Outputs, BarOutput <- I3Bar, MaxOps <- I3Ops,
  conf <- s1, i3 <- s2, stream <- s3, socket <- s4, rpc <- s5,
  m_workspaces <- s6, m_mode <- s7, shown <- s8, stopper <- s9,
  m_enabled <- s10, scroll <- s11, scrolled <- s12, gap <- s13,
  ops <- s14

(* The bar has an output, and an output workspaces.                        *)
ASSUME I3Layout == I3!Layout

(* The last mode among events, after one more ...                          *)
LEMMA I3LastModeAppend ==
  ASSUME NEW q \in Seq({"workspace"} \cup I3!Modes), NEW mode \in I3!Modes, NEW m \in I3!Modes
  PROVE  /\ I3!LastMode(q, mode) => I3!LastMode(Append(q, "workspace"), mode)
         /\ I3!LastMode(Append(q, m), m)
<1> DEFINE E == {"workspace"} \cup I3!Modes
<1>1. ASSUME NEW e \in E
      PROVE  /\ Len(q) \in Nat /\ Len(Append(q, e)) = Len(q) + 1
             /\ \A i \in 1 .. Len(q) : Append(q, e)[i] = q[i]
             /\ Append(q, e)[Len(q) + 1] = e
  BY AppendProperties
<1>2. I3!LastMode(q, mode) => I3!LastMode(Append(q, "workspace"), mode)
  <2> DEFINE r == Append(q, "workspace")
  <2>1. /\ Len(q) \in Nat /\ Len(r) = Len(q) + 1 /\ r[Len(q) + 1] = "workspace"
        /\ \A i \in 1 .. Len(q) : r[i] = q[i]
    BY <1>1
  <2> HIDE DEF r
  <2>2. I3!LastMode(q, mode) => I3!LastMode(r, mode)
    BY <2>1 DEF I3!LastMode
  <2> QED
    BY <2>2 DEF r
<1>3. I3!LastMode(Append(q, m), m)
  <2> DEFINE r == Append(q, m)
  <2>1. Len(q) \in Nat /\ Len(r) = Len(q) + 1 /\ r[Len(q) + 1] = m /\ m # "workspace"
    BY <1>1 DEF I3!Modes, I3!DEFAULT_MODE
  <2> HIDE DEF r
  <2>2. I3!LastMode(r, m)
    BY <2>1 DEF I3!LastMode
  <2> QED
    BY <2>2 DEF r
<1> QED
  BY <1>2, <1>3

(* ... and after the first is read.                                        *)
LEMMA I3LastModeTail ==
  ASSUME NEW q \in Seq({"workspace"} \cup I3!Modes), q # <<>>, NEW mode, I3!LastMode(q, mode)
  PROVE  /\ I3!LastMode(Tail(q), mode)
         /\ \/ Head(q) \in {"workspace", mode}
            \/ \E n \in 1 .. Len(Tail(q)) : Tail(q)[n] \in I3!Modes
<1>1. /\ Tail(q) \in Seq({"workspace"} \cup I3!Modes) /\ Head(q) = q[1] /\ Len(q) \in Nat \ {0}
      /\ Len(Tail(q)) = Len(q) - 1
      /\ \A i \in 1 .. Len(Tail(q)) : Tail(q)[i] = q[i + 1]
  BY HeadTailProperties, EmptySeq
<1>2. \A i \in 1 .. Len(Tail(q)) : Tail(q)[i] \in {"workspace"} \cup I3!Modes
  BY <1>1, ElementOfSeq
<1> DEFINE r == Tail(q)
<1> HIDE DEF r
<1>3. /\ Len(q) \in Nat \ {0} /\ Len(r) = Len(q) - 1
      /\ \A i \in 1 .. Len(r) : r[i] = q[i + 1] /\ r[i] \in {"workspace"} \cup I3!Modes
  BY <1>1, <1>2 DEF r
<1>4. \A k \in 1 .. Len(q) : k > 1 => k - 1 \in 1 .. Len(r) /\ q[k] = r[k - 1]
  BY <1>3
<1>5. I3!LastMode(r, mode)
  <2> SUFFICES ASSUME NEW n \in 1 .. Len(r)
               PROVE  r[n] \in {"workspace", mode} \/ \E k \in 1 .. Len(r) : k > n /\ r[k] # "workspace"
    BY DEF I3!LastMode
  <2>1. n + 1 \in 1 .. Len(q) /\ r[n] = q[n + 1]
    BY <1>3
  <2>2. CASE q[n + 1] \in {"workspace", mode}
    BY <2>1, <2>2
  <2>3. CASE \E k \in 1 .. Len(q) : k > n + 1 /\ q[k] # "workspace"
    <3>1. PICK k \in 1 .. Len(q) : k > n + 1 /\ q[k] # "workspace"
      BY <2>3
    <3>2. k - 1 \in 1 .. Len(r) /\ k - 1 > n /\ r[k - 1] # "workspace"
      BY <3>1, <1>4
    <3> QED
      BY <3>2
  <2> QED
    BY <2>1, <2>2, <2>3 DEF I3!LastMode
<1>6. q[1] \in {"workspace", mode} \/ \E n \in 1 .. Len(r) : r[n] \in I3!Modes
  <2>1. CASE \E k \in 1 .. Len(q) : k > 1 /\ q[k] # "workspace"
    <3>1. PICK k \in 1 .. Len(q) : k > 1 /\ q[k] # "workspace"
      BY <2>1
    <3>2. k - 1 \in 1 .. Len(r) /\ r[k - 1] \in I3!Modes
      BY <3>1, <1>3, <1>4
    <3> QED
      BY <3>2
  <2> QED
    BY <2>1, <1>3 DEF I3!LastMode
<1> QED
  BY <1>1, <1>5, <1>6 DEF r

(* What is shown first was asked for just before.                          *)
LEMMA I3InitFollowing ==
  ASSUME I3!Init
  PROVE  I3!Following
<1>1. s3 = <<>> /\ Len(<<>>) = 0 /\ <<>> \in Seq({"workspace"} \cup I3!Modes)
  BY EmptySeq DEF I3!Init
<1>2. I3!Told
  <2>1. I3!LastMode(s3, s2.mode)
    BY <1>1 DEF I3!LastMode
  <2>2. s7 = s2.mode
    BY DEF I3!Init, I3!Started
  <2> QED
    BY <1>1, <2>1, <2>2 DEF I3!Told
<1>3. I3!Answered
  BY DEF I3!Init, I3!Answered, I3!Due
<1> QED
  BY <1>2, <1>3 DEF I3!Init, I3!Started, I3!Following, I3!Modes

(* What the module asks for is not a matter of the mode.                   *)
LEMMA I3AskedAgain ==
  ASSUME UNCHANGED <<s1, s2>>
  PROVE  I3!Asked' = I3!Asked
BY DEF I3!Asked, I3!GetWorkspaces, I3!OutputWorkspaces, I3!Name

(* The runner reads an event, opens the socket again, or shows what i3     *)
(* answers.                                                                *)
LEMMA I3RunnerKeeps ==
  ASSUME I3!Following, I3!RunnerStep
  PROVE  I3!Following'
<1>1. UNCHANGED <<s1, s2>> /\ I3!Asked' = I3!Asked
  BY I3AskedAgain DEF I3!RunnerStep, I3!Update, I3!ReadEvent, I3!Reconnect, I3!Idle,
     I3!Halt
<1>2. CASE I3!Update
  <2>1. UNCHANGED <<s3, s4, s7>> /\ s13 \ {"workspace"} \subseteq s13'
    BY <1>2 DEF I3!Update
  <2>2. I3!Told'
    BY <1>1, <1>2, <2>1 DEF I3!Update, I3!Following, I3!Told, I3!LastMode
  <2>3. I3!Answered'
    <3>1. CASE s2.up
      <4>1. /\ s5' = "idle" /\ s7' = s7
            /\ s6' = I3!Labels(I3!Asked) /\ s8' = [workspaces |-> s6', mode |-> s7]
        BY <1>2, <3>1 DEF I3!Update
      <4>2. I3!Labels(I3!Asked)' = I3!Labels(I3!Asked)
        BY <1>1 DEF I3!Labels, I3!State
      <4> QED
        BY <4>1, <4>2 DEF I3!Answered, I3!Due
    <3>2. CASE ~s2.up
      BY <1>2, <3>2 DEF I3!Update, I3!Answered, I3!Due
    <3> QED
      BY <3>1, <3>2
  <2> QED
    BY <1>1, <2>2, <2>3 DEF I3!Following
<1>3. CASE I3!ReadEvent
  <2>1. /\ s3 # <<>> /\ s3' = Tail(s3) /\ s4' = s4
        /\ s7' = IF Head(s3) = "workspace" THEN s7 ELSE Head(s3)
        /\ s13' = IF Head(s3) # "workspace" /\ s4 = "open" THEN s13 \ {"mode"} ELSE s13
    BY <1>3 DEF I3!ReadEvent
  <2>2. /\ Tail(s3) \in Seq({"workspace"} \cup I3!Modes) /\ Head(s3) \in {"workspace"} \cup I3!Modes
        /\ (\E i \in 1 .. Len(s3) : s3[i] \in I3!Modes)
             <=> Head(s3) \in I3!Modes \/ \E i \in 1 .. Len(Tail(s3)) : Tail(s3)[i] \in I3!Modes
    BY <2>1, HasTail DEF I3!Following, I3!Told
  <2>3. I3!LastMode(s3, s2.mode) =>
          /\ I3!LastMode(Tail(s3), s2.mode)
          /\ \/ Head(s3) \in {"workspace", s2.mode}
             \/ \E n \in 1 .. Len(Tail(s3)) : Tail(s3)[n] \in I3!Modes
    BY <2>1, I3LastModeTail DEF I3!Following, I3!Told
  <2>4. "workspace" \notin I3!Modes
    BY DEF I3!Modes, I3!DEFAULT_MODE
  <2> DEFINE later == \E n \in 1 .. Len(Tail(s3)) : Tail(s3)[n] \in I3!Modes
             known == I3!LastMode(s3, s2.mode)
  <2>5. s4' = "open" \/ "mode" \notin s13' => known
    BY <2>1 DEF I3!Following, I3!Told
  <2>6. "mode" \notin s13' => s7' = s2.mode \/ later
    <3> HIDE DEF later
    <3>1. CASE Head(s3) = "workspace"
      <4>1. "mode" \notin s13 => s7 = s2.mode \/ later
        BY <2>2, <2>4, <3>1 DEF I3!Following, I3!Told, later
      <4> QED
        BY <2>1, <3>1, <4>1
    <3>2. CASE Head(s3) # "workspace"
      BY <2>1, <2>3, <2>5, <3>2 DEF later
    <3> QED
      BY <3>1, <3>2
  <2>7. I3!Told'
    BY <1>1, <2>1, <2>2, <2>3, <2>5, <2>6 DEF I3!Told, I3!LastMode, I3!Modes,
       I3!DEFAULT_MODE
  <2>8. I3!Answered'
    BY <1>3 DEF I3!ReadEvent, I3!Answered, I3!Due
  <2> QED
    BY <1>1, <2>7, <2>8 DEF I3!Following
<1>4. CASE I3!Reconnect
  <2>1. UNCHANGED <<s3, s7, s13>>
    BY <1>4 DEF I3!Reconnect
  <2>2. I3!LastMode(s3, s2.mode)
    BY <1>4 DEF I3!Reconnect, I3!LastMode
  <2>3. I3!Told'
    BY <1>1, <2>1, <2>2 DEF I3!Following, I3!Told, I3!LastMode
  <2>4. I3!Answered'
    BY <1>1, <1>4, <2>1 DEF I3!Reconnect, I3!Following, I3!Answered, I3!Due
  <2> QED
    BY <1>1, <2>3, <2>4 DEF I3!Following
<1>5. CASE I3!Idle \/ I3!Halt
  <2>1. UNCHANGED <<s3, s7, s8, s13>> /\ (s4' = "open" => s4 = "open")
    BY <1>5 DEF I3!Idle, I3!Halt
  <2>2. I3!Told'
    BY <1>1, <2>1 DEF I3!Following, I3!Told, I3!LastMode
  <2>3. I3!Answered'
    BY <1>1, <1>5, <2>1 DEF I3!Idle, I3!Halt, I3!Following, I3!Answered, I3!Due
  <2> QED
    BY <1>1, <2>2, <2>3 DEF I3!Following
<1> QED
  BY <1>2, <1>3, <1>4, <1>5 DEF I3!RunnerStep

(* i3 tells what changes in it to a socket that is open.                   *)
LEMMA I3TellKeeps ==
  ASSUME I3!Following, UNCHANGED <<s1, s4, s5, s7, s8>>,
         NEW new, NEW event \in {"workspace"} \cup I3!Modes, I3!Tell(new, event),
         new = [up |-> new.up, focus |-> new.focus, visible |-> new.visible, urgent |-> new.urgent,
                mode |-> new.mode],
         \/ event = "workspace" /\ new.mode = s2.mode
         \/ event \in I3!Modes /\ event = new.mode /\ <<new.focus, new.visible, new.urgent>> = <<s2.focus, s2.visible, s2.urgent>>
  PROVE  I3!Following'
<1> DEFINE E == {"workspace"} \cup I3!Modes
<1>1. s2' = new /\ s2'.mode \in I3!Modes /\ "workspace" \notin I3!Modes
  BY DEF I3!Tell, I3!Following, I3!Modes, I3!DEFAULT_MODE
<1>2. s3 \in Seq(E)
  BY DEF I3!Following, I3!Told
<1>3. CASE s4 = "open"
  <2>1. s3' = Append(s3, event) /\ s13' = s13 /\ I3!LastMode(s3, s2.mode)
    BY <1>3 DEF I3!Tell, I3!Following, I3!Told
  <2>2. s3' \in Seq(E) /\ s3' # <<>>
        /\ ((\E n \in 1 .. Len(s3') : s3'[n] \in I3!Modes)
              <=> (\E n \in 1 .. Len(s3) : s3[n] \in I3!Modes) \/ event \in I3!Modes)
    BY <1>2, <2>1, HasAppend, AppendProperties
  <2>3. I3!LastMode(s3', s2'.mode)
    <3>1. CASE event = "workspace" /\ new.mode = s2.mode
      BY <1>1, <1>2, <2>1, <3>1, I3LastModeAppend DEF I3!Following
    <3>2. CASE event = new.mode
      BY <1>1, <1>2, <2>1, <3>2, I3LastModeAppend DEF I3!Following
    <3> QED
      BY <3>1, <3>2
  <2>4. I3!Told'
    <3>1. "mode" \notin s13' => s7' = s2'.mode \/ \E n \in 1 .. Len(s3') : s3'[n] \in I3!Modes
      BY <1>1, <2>1, <2>2 DEF I3!Following, I3!Told
    <3> QED
      BY <2>2, <2>3, <3>1 DEF I3!Told, I3!LastMode, I3!Modes, I3!DEFAULT_MODE
  <2>5. I3!Answered'
    BY <2>2 DEF I3!Following, I3!Answered, I3!Due
  <2> QED
    BY <1>1, <2>4, <2>5 DEF I3!Following
<1>4. CASE s4 # "open"
  <2>1. /\ s3' = s3
        /\ s13' = s13 \cup {IF event = "workspace" THEN event ELSE "mode"}
    BY <1>4 DEF I3!Tell
  <2>2. I3!Told'
    BY <1>1, <1>4, <2>1 DEF I3!Following, I3!Told, I3!LastMode, I3!Modes,
       I3!DEFAULT_MODE
  <2>3. I3!Answered'
    <3>1. CASE event = "workspace"
      BY <2>1, <3>1 DEF I3!Following, I3!Answered, I3!Due
    <3>2. CASE event # "workspace"
      <4>1. I3!GetWorkspaces' = I3!GetWorkspaces
        BY <1>1, <3>2 DEF I3!GetWorkspaces, I3!OutputWorkspaces, I3!Name
      <4>2. I3!Asked' = I3!Asked
        BY <4>1 DEF I3!Asked
      <4> QED
        BY <2>1, <4>2 DEF I3!Following, I3!Answered, I3!Due
    <3> QED
      BY <3>1, <3>2
  <2> QED
    BY <1>1, <2>2, <2>3 DEF I3!Following
<1> QED
  BY <1>3, <1>4

(* The focus moves within the fields of i3, and leaves its mode alone.     *)
LEMMA I3FocusForm ==
  ASSUME NEW s, NEW o, NEW i,
         s = [up |-> s.up, focus |-> s.focus, visible |-> s.visible, urgent |-> s.urgent, mode |-> s.mode]
  PROVE  /\ I3!Focus(s, o, i).mode = s.mode
         /\ I3!Focus(s, o, i) =
              [up |-> I3!Focus(s, o, i).up, focus |-> I3!Focus(s, o, i).focus, visible |-> I3!Focus(s, o, i).visible,
               urgent |-> I3!Focus(s, o, i).urgent, mode |-> I3!Focus(s, o, i).mode]
<1> DEFINE seen == [s.visible EXCEPT ![o] = i]
           left == s.urgent \ {I3!Name(o, i)}
<1>1. I3!Focus(s, o, i) = [s EXCEPT !.focus = o, !.visible = seen, !.urgent = left]
  BY DEF I3!Focus
<1> HIDE DEF seen, left
<1> QED
  BY <1>1

(* Commands of the module, and what others do.                             *)
LEMMA I3CommandKeeps ==
  ASSUME I3!Following,
         \/ I3!SendCommands
         \/ \E o \in DOMAIN I3Outputs : \E i \in DOMAIN I3Outputs[o].workspaces : I3!ActionFocus(o, i)
         \/ I3!Elsewhere
  PROVE  I3!Following'
<1> DEFINE Formed(s) == s = [up |-> s.up, focus |-> s.focus, visible |-> s.visible, urgent |-> s.urgent, mode |-> s.mode]
<1>0. UNCHANGED <<s1, s4, s5, s7, s8>> /\ Formed(s2) /\ s2.mode \in I3!Modes
  BY DEF I3!SendCommands, I3!ActionFocus, I3!Elsewhere, I3!Following
<1>1. ASSUME NEW new, I3!Tell(new, "workspace"), Formed(new), new.mode = s2.mode
      PROVE  I3!Following'
  BY <1>0, <1>1, I3TellKeeps
<1>2. CASE I3!SendCommands
  <2>1. CASE UNCHANGED <<s2, s13, s3>>
    <3>1. I3!Asked' = I3!Asked
      BY <1>0, <2>1, I3AskedAgain
    <3> QED
      BY <1>0, <2>1, <3>1 DEF I3!Following, I3!Told, I3!LastMode, I3!Answered, I3!Due
  <2>2. CASE I3!Tell(I3!OnOutput(I3!From, s11.next), "workspace")
    <3> DEFINE from == I3!From
    <3>1. Formed(from) /\ from.mode = s2.mode
      BY <1>0, I3FocusForm DEF I3!From
    <3>2. PICK o, i : I3!OnOutput(from, s11.next) = I3!Focus(from, o, i)
      BY DEF I3!OnOutput
    <3>3. Formed(I3!Focus(from, o, i)) /\ I3!Focus(from, o, i).mode = s2.mode
      BY <3>1, I3FocusForm
    <3> HIDE DEF from
    <3>4. I3!Tell(I3!Focus(from, o, i), "workspace")
      BY <2>2, <3>2 DEF from
    <3> HIDE DEF Formed
    <3> QED
      BY <1>1, <3>3, <3>4
  <2> QED
    BY <1>2, <2>1, <2>2 DEF I3!SendCommands
<1>3. ASSUME NEW o, NEW i, I3!ActionFocus(o, i)
      PROVE  I3!Following'
  <2>1. I3!Tell(I3!Focus(s2, o, i), "workspace")
    BY <1>3 DEF I3!ActionFocus
  <2>2. Formed(I3!Focus(s2, o, i)) /\ I3!Focus(s2, o, i).mode = s2.mode
    BY <1>0, I3FocusForm
  <2> HIDE DEF Formed
  <2> QED
    BY <1>1, <2>1, <2>2
<1>4. CASE I3!Elsewhere
  <2>1. CASE \E o \in DOMAIN I3Outputs : I3!Tell(I3!Focus(s2, o, Len(I3Outputs[o].workspaces)), "workspace")
    <3>1. PICK o \in DOMAIN I3Outputs : I3!Tell(I3!Focus(s2, o, Len(I3Outputs[o].workspaces)), "workspace")
      BY <2>1
    <3>2. Formed(I3!Focus(s2, o, Len(I3Outputs[o].workspaces)))
          /\ I3!Focus(s2, o, Len(I3Outputs[o].workspaces)).mode = s2.mode
      BY <1>0, I3FocusForm
    <3> HIDE DEF Formed
    <3> QED
      BY <1>1, <3>1, <3>2
  <2>2. CASE I3!Tell([s2 EXCEPT !.urgent = I3!Names], "workspace")
    <3> DEFINE new == [s2 EXCEPT !.urgent = I3!Names]
    <3>1. Formed(new) /\ new.mode = s2.mode
      BY <1>0
    <3> HIDE DEF Formed, new
    <3> QED
      BY <1>1, <2>2, <3>1 DEF new
  <2>3. ASSUME NEW mode \in {I3!DEFAULT_MODE, "resize"}, I3!Tell([s2 EXCEPT !.mode = mode], mode)
        PROVE  I3!Following'
    <3> DEFINE new == [s2 EXCEPT !.mode = mode]
    <3>1. Formed(new) /\ mode = new.mode
          /\ <<new.focus, new.visible, new.urgent>> = <<s2.focus, s2.visible, s2.urgent>>
      BY <1>0
    <3>2. mode \in {"workspace"} \cup I3!Modes /\ mode \in I3!Modes
      BY DEF I3!Modes
    <3> HIDE DEF new
    <3>3. I3!Tell(new, mode)
      BY <2>3 DEF new
    <3> QED
      BY <1>0, <3>1, <3>2, <3>3, I3TellKeeps
  <2> QED
    BY <1>4, <2>1, <2>2, <2>3 DEF I3!Elsewhere
<1> QED
  BY <1>2, <1>3, <1>4

(* Every step keeps it, ...                                                *)
LEMMA I3FollowingKept ==
  ASSUME I3!Following, [I3!Next]_(I3!vars)
  PROVE  I3!Following'
<1>1. CASE I3!RunnerStep
  BY <1>1, I3RunnerKeeps
<1>2. CASE \/ I3!SendCommands \/ I3!Elsewhere
           \/ \E o \in DOMAIN I3Outputs : \E i \in DOMAIN I3Outputs[o].workspaces : I3!ActionFocus(o, i)
  BY <1>2, I3CommandKeeps
<1>3. CASE I3!StopStep \/ (\E next \in BOOLEAN : I3!ActionScroll(next)) \/ UNCHANGED I3!vars
  <2>1. UNCHANGED <<s1, s2, s3, s5, s7, s8, s13>> /\ (s4' = "open" => s4 = "open")
    BY <1>3 DEF I3!StopStep, I3!Shutdown, I3!Disable, I3!Lock, I3!ActionScroll,
       I3!vars
  <2>2. I3!Asked' = I3!Asked
    BY <2>1, I3AskedAgain
  <2> QED
    BY <2>1, <2>2 DEF I3!Following, I3!Told, I3!LastMode, I3!Answered, I3!Due
<1>4. CASE I3!Restart
  <2>1. /\ UNCHANGED <<s1, s3, s5, s7, s8>>
        /\ s4' = "closed" /\ s13' = {"workspace", "mode"}
        /\ s2' = IF s2.up THEN [s2 EXCEPT !.up = FALSE] ELSE I3!Started
    BY <1>4 DEF I3!Restart
  <2>2. s2' = [up |-> s2'.up, focus |-> s2'.focus, visible |-> s2'.visible, urgent |-> s2'.urgent, mode |-> s2'.mode]
        /\ s2'.mode \in I3!Modes
    BY <2>1 DEF I3!Following, I3!Started, I3!Modes
  <2> QED
    BY <2>1, <2>2 DEF I3!Following, I3!Told, I3!Answered, I3!Due
<1> QED
  BY <1>1, <1>2, <1>3, <1>4 DEF I3!Next

(* When there is nothing to read, nothing is due.                          *)
LEMMA I3FollowingShown ==
  ASSUME I3!Following
  PROVE  I3!ShownAsAnswered
<1>1. s3 = <<>> => 1 .. Len(s3) = {}
  OBVIOUS
<1> QED
  BY <1>1 DEF I3!Following, I3!Told, I3!Answered, I3!Due, I3!ShownAsAnswered

(* A workspace that is focused is one of its output.                       *)
LEMMA I3FocusPlaced ==
  ASSUME NEW s, I3!Placed(s), NEW o \in DOMAIN I3Outputs, NEW i \in DOMAIN I3Outputs[o].workspaces,
         s = [up |-> s.up, focus |-> s.focus, visible |-> s.visible, urgent |-> s.urgent, mode |-> s.mode]
  PROVE  /\ I3!Placed(I3!Focus(s, o, i)) /\ I3!Focus(s, o, i).focus = o /\ I3!Focus(s, o, i).visible[o] = i
         /\ \A k \in DOMAIN I3Outputs \ {o} : I3!Focus(s, o, i).visible[k] = s.visible[k]
<1> DEFINE seen == [s.visible EXCEPT ![o] = i]
           left == s.urgent \ {I3!Name(o, i)}
<1>1. I3!Focus(s, o, i) = [s EXCEPT !.focus = o, !.visible = seen, !.urgent = left]
  BY DEF I3!Focus
<1>2. DOMAIN seen = DOMAIN s.visible /\ seen[o] = i /\ \A k \in DOMAIN I3Outputs \ {o} : seen[k] = s.visible[k]
  BY DEF I3!Placed
<1> HIDE DEF seen, left
<1>3. I3!Focus(s, o, i).focus = o /\ I3!Focus(s, o, i).visible = seen
  BY <1>1
<1> QED
  BY <1>2, <1>3 DEF I3!Placed

(* The next one on the output that is focused, or the one before.          *)
LEMMA I3NextPlaced ==
  ASSUME I3!Layout, NEW s, I3!Placed(s), NEW next \in BOOLEAN,
         s = [up |-> s.up, focus |-> s.focus, visible |-> s.visible, urgent |-> s.urgent, mode |-> s.mode]
  PROVE  /\ I3!NextOn(s, next) \in DOMAIN I3Outputs[s.focus].workspaces
         /\ I3!OnOutput(s, next) = I3!Focus(s, s.focus, I3!NextOn(s, next))
<1> DEFINE v == s.visible[s.focus]
           n == Len(I3Outputs[s.focus].workspaces)
           to == I3!NextOn(s, next)
<1>1. n \in Nat \ {0} /\ DOMAIN I3Outputs[s.focus].workspaces = 1 .. n /\ v \in 1 .. n
  BY DEF I3!Layout, I3!Placed
<1>2. /\ I3!OnOutput(s, next) = I3!Focus(s, s.focus, IF next THEN (v % n) + 1 ELSE ((v + n - 2) % n) + 1)
      /\ to = IF next THEN (IF v = n THEN 1 ELSE v + 1) ELSE (IF v = 1 THEN n ELSE v - 1)
  BY DEF I3!OnOutput, I3!NextOn
<1> HIDE DEF v, n, to
<1>3. v % n = IF v = n THEN 0 ELSE v
  BY <1>1, ModTurn
<1>4. (v + n - 2) % n = IF v = 1 THEN n - 1 ELSE v - 2
  <2>1. CASE v = 1
    <3>1. v + n - 2 \in 0 .. 2 * n - 1 /\ v + n - 2 = n - 1
      BY <1>1, <2>1
    <3> QED
      BY <1>1, <2>1, <3>1, ModTurn
  <2>2. CASE v # 1
    <3>1. v + n - 2 \in 0 .. 2 * n - 1 /\ ~(v + n - 2 < n) /\ v + n - 2 - n = v - 2
      BY <1>1, <2>2
    <3> QED
      BY <1>1, <2>2, <3>1, ModTurn
  <2> QED
    BY <2>1, <2>2
<1>5. to \in 1 .. n /\ to = IF next THEN (v % n) + 1 ELSE ((v + n - 2) % n) + 1
  <2>1. CASE next
    BY <1>1, <1>2, <1>3, <2>1
  <2>2. CASE ~next
    BY <1>1, <1>2, <1>4, <2>2
  <2> QED
    BY <2>1, <2>2
<1> QED
  BY <1>1, <1>2, <1>5 DEF to

(* What a scroll has i3 do, from a workspace of the bar's output.          *)
LEMMA I3ScrollPlaced ==
  ASSUME I3!Layout, I3!Following, I3!Placed(s2), I3!Scrolling, s11.on
  PROVE  /\ I3!Placed(I3!From) /\ (~s11.focused => I3!From.focus = I3Bar /\ I3!From.visible[I3Bar] = s11.current)
         /\ \A o \in DOMAIN I3Outputs \ {I3Bar} : I3!From.visible[o] = s2.visible[o]
         /\ I3!Placed(I3!OnOutput(I3!From, s11.next)) /\ I3!OnOutput(I3!From, s11.next).focus = I3!From.focus
         /\ \A o \in DOMAIN I3Outputs \ {I3!From.focus} : I3!OnOutput(I3!From, s11.next).visible[o] = I3!From.visible[o]
         /\ I3!OnOutput(I3!From, s11.next).visible[I3!From.focus] = I3!NextOn(I3!From, s11.next)
<1> DEFINE Shaped(s) == s = [up |-> s.up, focus |-> s.focus, visible |-> s.visible, urgent |-> s.urgent, mode |-> s.mode]
           to == I3!NextOn(I3!From, s11.next)
<1>1. Shaped(s2) /\ I3Bar \in DOMAIN I3Outputs
  BY DEF I3!Following, I3!Layout
<1>2. /\ I3!Placed(I3!From) /\ Shaped(I3!From)
      /\ ~s11.focused => I3!From.focus = I3Bar /\ I3!From.visible[I3Bar] = s11.current
      /\ \A o \in DOMAIN I3Outputs \ {I3Bar} : I3!From.visible[o] = s2.visible[o]
  <2>1. CASE s11.focused
    BY <1>1, <2>1 DEF I3!From
  <2>2. CASE ~s11.focused
    <3> DEFINE new == I3!Focus(s2, I3Bar, s11.current)
    <3>1. Shaped(new)
      BY <1>1, I3FocusForm
    <3>2. /\ I3!Placed(new) /\ new.focus = I3Bar /\ new.visible[I3Bar] = s11.current
          /\ \A o \in DOMAIN I3Outputs \ {I3Bar} : new.visible[o] = s2.visible[o]
      BY <1>1, I3FocusPlaced DEF I3!Scrolling
    <3> HIDE DEF new, Shaped
    <3>3. I3!From = new
      BY <2>2 DEF new, I3!From
    <3> QED
      BY <2>2, <3>1, <3>2, <3>3
  <2> QED
    BY <2>1, <2>2
<1>3. I3!From.focus \in DOMAIN I3Outputs
  BY <1>2 DEF I3!Placed
<1>4. to \in DOMAIN I3Outputs[I3!From.focus].workspaces /\ I3!OnOutput(I3!From, s11.next) = I3!Focus(I3!From, I3!From.focus, to)
  BY <1>2, I3NextPlaced DEF I3!Scrolling
<1>5. /\ I3!Placed(I3!Focus(I3!From, I3!From.focus, to)) /\ I3!Focus(I3!From, I3!From.focus, to).focus = I3!From.focus
      /\ I3!Focus(I3!From, I3!From.focus, to).visible[I3!From.focus] = to
      /\ \A k \in DOMAIN I3Outputs \ {I3!From.focus} : I3!Focus(I3!From, I3!From.focus, to).visible[k] = I3!From.visible[k]
  BY <1>2, <1>3, <1>4, I3FocusPlaced
<1> QED
  BY <1>2, <1>4, <1>5

(* Each command leaves i3 with a workspace on every output, ...            *)
LEMMA I3PlacedKept ==
  ASSUME I3!Layout, I3!Following, I3!Placed(s2), I3!Scrolling, [I3!Next]_(I3!vars)
  PROVE  I3!Placed(s2')
<1>0. s2 = [up |-> s2.up, focus |-> s2.focus, visible |-> s2.visible, urgent |-> s2.urgent, mode |-> s2.mode]
  BY DEF I3!Following
<1>1. CASE I3!SendCommands
  <2>1. CASE UNCHANGED s2
    BY <2>1
  <2>2. CASE I3!Tell(I3!OnOutput(I3!From, s11.next), "workspace")
    BY <1>1, <2>2, I3ScrollPlaced DEF I3!SendCommands, I3!Tell
  <2> QED
    BY <1>1, <2>1, <2>2 DEF I3!SendCommands
<1>2. ASSUME NEW o \in DOMAIN I3Outputs, NEW i \in DOMAIN I3Outputs[o].workspaces, s2' = I3!Focus(s2, o, i)
      PROVE  I3!Placed(s2')
  BY <1>0, <1>2, I3FocusPlaced
<1>3. ASSUME NEW o \in DOMAIN I3Outputs, NEW i \in DOMAIN I3Outputs[o].workspaces, I3!ActionFocus(o, i)
      PROVE  I3!Placed(s2')
  BY <1>2, <1>3 DEF I3!ActionFocus, I3!Tell
<1>4. CASE I3!Elsewhere
  <2>1. CASE \E o \in DOMAIN I3Outputs : s2' = I3!Focus(s2, o, Len(I3Outputs[o].workspaces))
    <3>1. \A o \in DOMAIN I3Outputs : Len(I3Outputs[o].workspaces) \in DOMAIN I3Outputs[o].workspaces
      BY DEF I3!Layout
    <3> QED
      BY <1>2, <2>1, <3>1
  <2>2. CASE s2' = [s2 EXCEPT !.urgent = I3!Names] \/ \E mode \in {I3!DEFAULT_MODE, "resize"} : s2' = [s2 EXCEPT !.mode = mode]
    BY <1>0, <2>2 DEF I3!Placed
  <2> QED
    BY <1>4, <2>1, <2>2 DEF I3!Elsewhere, I3!Tell
<1>5. CASE I3!Restart
  <2>1. CASE s2' = [s2 EXCEPT !.up = FALSE]
    BY <1>0, <2>1 DEF I3!Placed
  <2>2. CASE s2' = I3!Started
    <3>1. \A o \in DOMAIN I3Outputs : 1 \in DOMAIN I3Outputs[o].workspaces
      BY DEF I3!Layout
    <3> QED
      BY <2>2, <3>1 DEF I3!Placed, I3!Started, I3!Layout
  <2> QED
    BY <1>5, <2>1, <2>2 DEF I3!Restart
<1>6. CASE I3!RunnerStep \/ I3!StopStep \/ (\E next \in BOOLEAN : I3!ActionScroll(next)) \/ UNCHANGED I3!vars
  <2>1. UNCHANGED s2
    BY <1>6 DEF I3!RunnerStep, I3!Update, I3!ReadEvent, I3!Reconnect, I3!Idle,
       I3!Halt, I3!StopStep, I3!Shutdown, I3!Disable, I3!Lock, I3!ActionScroll,
       I3!vars
  <2> QED
    BY <2>1
<1> QED
  BY <1>1, <1>3, <1>4, <1>5, <1>6 DEF I3!Next

(* ... and a scroll that nothing crosses turns as the wheel did.           *)
LEMMA I3ScrollingKept ==
  ASSUME I3!Layout, I3!Following, I3!Placed(s2), I3!Scrolling, [I3!Next]_(I3!vars)
  PROVE  I3!Scrolling'
<1>0. s1' = s1 /\ s1.wrap \in BOOLEAN
  BY DEF I3!Scrolling, I3!Next, I3!RunnerStep, I3!Update, I3!ReadEvent, I3!Reconnect,
     I3!Idle, I3!Halt, I3!StopStep, I3!Shutdown, I3!Disable, I3!Lock, I3!ActionScroll,
     I3!ActionFocus, I3!SendCommands, I3!Elsewhere, I3!Restart, I3!vars
<1>1. ASSUME UNCHANGED <<s11, s12>>
      PROVE  I3!Scrolling'
  BY <1>0, <1>1 DEF I3!Scrolling, I3!ScrollTurns, I3!Turns
<1>2. ASSUME UNCHANGED s11, s12' = I3!NoScroll
      PROVE  I3!Scrolling'
  BY <1>0, <1>2 DEF I3!Scrolling, I3!ScrollTurns, I3!NoScroll
<1>3. ASSUME NEW next \in BOOLEAN, I3!ActionScroll(next)
      PROVE  I3!Scrolling'
  <2> DEFINE ws == I3!OutputWorkspaces(I3Bar)
             v == s2.visible[I3Bar]
             current == CHOOSE n \in DOMAIN ws : ws[n].visible
  <2>1. /\ DOMAIN ws = DOMAIN I3Outputs[I3Bar].workspaces
        /\ \A n \in DOMAIN ws : ws[n].visible = (v = n) /\ ws[n].focused = (v = n /\ s2.focus = I3Bar)
    BY DEF I3!OutputWorkspaces
  <2>2. v \in DOMAIN ws
    BY <2>1 DEF I3!Placed, I3!Layout
  <2>3. current = v
    BY <2>1, <2>2
  <2>4. Len(ws) = Len(I3Outputs[I3Bar].workspaces)
    <3> DEFINE n == Len(I3Outputs[I3Bar].workspaces)
    <3>1. n \in Nat /\ DOMAIN I3Outputs[I3Bar].workspaces = 1 .. n
      BY DEF I3!Layout
    <3>2. ws = [i \in 1 .. n |-> ws[i]]
      BY <3>1 DEF I3!OutputWorkspaces
    <3> HIDE DEF ws, n
    <3>3. Len(ws) = n
      BY <3>1, <3>2, LenIs
    <3> QED
      BY <3>3 DEF n
  <2>5. /\ s11' = [on |-> TRUE, next |-> next, go |-> s1.wrap \/ current # (IF next THEN Len(ws) ELSE 1),
                      current |-> current, focused |-> ws[current].focused]
        /\ s12' = [of |-> "begun", was |-> s2, after |-> s2, next |-> next] /\ s2.up
    BY <1>3 DEF I3!ActionScroll
  <2>6. ws[current].focused = (s2.focus = I3Bar)
    BY <2>1, <2>2, <2>3
  <2> HIDE DEF ws, current, v
  <2>7. s11'.go = (s1.wrap \/ v # (IF next THEN Len(I3Outputs[I3Bar].workspaces) ELSE 1))
    BY <2>3, <2>4, <2>5
  <2>8. /\ s11'.on = TRUE /\ s11'.next = next /\ s11'.current = v /\ s11'.focused = (s2.focus = I3Bar)
        /\ s12'.of = "begun" /\ s12'.was = s2 /\ s12'.next = next
        /\ s12' = [of |-> s12'.of, was |-> s12'.was, after |-> s12'.after, next |-> s12'.next]
    BY <2>3, <2>5, <2>6
  <2>9. s2' = s2 /\ s11'.go = (s1'.wrap \/ s2.visible[I3Bar] # (IF next THEN Len(I3Outputs[I3Bar].workspaces) ELSE 1))
    BY <1>0, <1>3, <2>7 DEF I3!ActionScroll, v
  <2>10. v \in DOMAIN I3Outputs[I3Bar].workspaces
    BY <2>1, <2>2
  <2> QED
    BY <1>0, <2>5, <2>8, <2>9, <2>10 DEF I3!Scrolling, I3!ScrollTurns, I3!Turns, v
<1>4. CASE I3!SendCommands
  <2>1. s11.on /\ s11' = I3!AtRest
    BY <1>4 DEF I3!SendCommands
  <2>2. CASE ~(s12.of = "begun" /\ s12.was = s2)
    <3>1. s12' = I3!NoScroll
      BY <1>4, <2>2 DEF I3!SendCommands
    <3> QED
      BY <1>0, <2>1, <3>1 DEF I3!Scrolling, I3!ScrollTurns, I3!NoScroll, I3!AtRest
  <2>3. CASE s12.of = "begun" /\ s12.was = s2
    <3> DEFINE n == Len(I3Outputs[I3Bar].workspaces)
               v == s2.visible[I3Bar]
               next == s12.next
               to == v + (IF next THEN 1 ELSE -1)
    <3>1. /\ s12' = [s12 EXCEPT !.of = "done", !.after = s2']
          /\ s2' = IF s11.go THEN I3!OnOutput(I3!From, next) ELSE s2
      <4>1. s2.up /\ s11.next = next
        BY <2>3 DEF I3!Scrolling
      <4> QED
        BY <1>4, <2>3, <4>1 DEF I3!SendCommands, I3!Tell
    <3>2. s12' = [of |-> "done", was |-> s2, after |-> s2', next |-> next]
      BY <2>3, <3>1 DEF I3!Scrolling
    <3>3. /\ next \in BOOLEAN /\ s11.next = next /\ s11.current = v /\ s11.focused = (s2.focus = I3Bar)
          /\ s11.go = (s1.wrap \/ v # (IF next THEN n ELSE 1))
      BY <2>3 DEF I3!Scrolling, I3!Turns
    <3>4. n \in Nat \ {0} /\ v \in 1 .. n /\ I3Bar \in DOMAIN I3Outputs
      BY DEF I3!Layout, I3!Placed
    <3>5. I3!ScrollTurns'
      <4>1. I3!From.focus = I3Bar /\ I3!From.visible[I3Bar] = v
        BY <2>1, <3>3, I3ScrollPlaced DEF I3!From
      <4>2. ASSUME s11.go
            PROVE  /\ s2'.focus = I3Bar /\ s2'.visible[I3Bar] = I3!NextOn(I3!From, next)
                   /\ \A o \in DOMAIN I3Outputs \ {I3Bar} : s2'.visible[o] = s2.visible[o]
        BY <2>1, <3>1, <3>3, <4>1, <4>2, I3ScrollPlaced
      <4>3. I3!NextOn(I3!From, next) = IF next THEN (IF v = n THEN 1 ELSE v + 1) ELSE (IF v = 1 THEN n ELSE v - 1)
        BY <4>1 DEF I3!NextOn
      <4>4. to \in Int /\ (to \in 1 .. n <=> v # (IF next THEN n ELSE 1)) /\ (to = 0 <=> ~next /\ v = 1)
        <5> HIDE DEF n, v
        <5>1. CASE next
          BY <3>4, <5>1
        <5>2. CASE ~next
          BY <3>4, <5>2
        <5> QED
          BY <5>1, <5>2
      <4> HIDE DEF n, v, to
      <4>5. /\ \A o \in DOMAIN I3Outputs \ {I3Bar} : s2'.visible[o] = s2.visible[o]
            /\ to \in 1 .. n => s2'.visible[I3Bar] = to /\ s2'.focus = I3Bar
            /\ to \notin 1 .. n =>
                 IF s1.wrap THEN s2'.visible[I3Bar] = (IF to = 0 THEN n ELSE 1) ELSE s2' = s2
        <5>1. CASE s11.go
          <6>1. CASE v = IF next THEN n ELSE 1
            BY <3>3, <4>2, <4>3, <4>4, <5>1, <6>1
          <6>2. CASE v # IF next THEN n ELSE 1
            BY <3>3, <4>2, <4>3, <4>4, <5>1, <6>2 DEF to
          <6> QED
            BY <6>1, <6>2
        <5>2. CASE ~s11.go
          BY <3>1, <3>3, <4>4, <5>2
        <5> QED
          BY <5>1, <5>2
      <4> QED
        BY <1>0, <3>2, <4>5 DEF I3!ScrollTurns, n, v, to
    <3> QED
      BY <1>0, <2>1, <3>2, <3>5 DEF I3!Scrolling, I3!AtRest
  <2> QED
    BY <2>2, <2>3
<1>5. CASE I3!RunnerStep \/ I3!StopStep \/ UNCHANGED I3!vars
  <2>1. UNCHANGED <<s11, s12>>
    BY <1>5 DEF I3!RunnerStep, I3!Update, I3!ReadEvent, I3!Reconnect, I3!Idle,
       I3!Halt, I3!StopStep, I3!Shutdown, I3!Disable, I3!Lock, I3!vars
  <2> QED
    BY <1>1, <2>1
<1>6. CASE I3!Elsewhere \/ I3!Restart \/ \E o \in DOMAIN I3Outputs : \E i \in DOMAIN I3Outputs[o].workspaces : I3!ActionFocus(o, i)
  <2>1. UNCHANGED s11 /\ s12' = I3!NoScroll
    BY <1>6 DEF I3!Elsewhere, I3!Restart, I3!ActionFocus
  <2> QED
    BY <1>2, <2>1
<1> QED
  BY <1>3, <1>4, <1>5, <1>6 DEF I3!Next

(* Together they are the invariant.                                        *)
LEMMA I3InitInv ==
  ASSUME I3!Layout, I3!Init
  PROVE  I3!Inv
<1>1. \A o \in DOMAIN I3Outputs : 1 \in DOMAIN I3Outputs[o].workspaces
  BY DEF I3!Layout
<1>2. I3!Placed(s2)
  BY <1>1 DEF I3!Init, I3!Started, I3!Placed, I3!Layout
<1>3. I3!Scrolling
  <2>1. /\ s1.wrap \in BOOLEAN /\ s11.on = FALSE /\ s11.next = TRUE
        /\ s12 = [of |-> "none", was |-> I3!Started, after |-> I3!Started, next |-> TRUE]
    <3>1. s1.wrap \in BOOLEAN
      <4>1. PICK pin \in BOOLEAN : s1 = [pin |-> pin, show_urgent |-> pin, indexsort |-> TRUE, wrap |-> ~pin]
        BY DEF I3!Init
      <4>2. CASE pin
        BY <4>1, <4>2
      <4>3. CASE ~pin
        BY <4>1, <4>3
      <4> QED
        BY <4>2, <4>3
    <3>2. s11 = [on |-> FALSE, next |-> TRUE, go |-> FALSE, current |-> 1, focused |-> FALSE]
      BY DEF I3!Init, I3!AtRest
    <3>3. s12 = [of |-> "none", was |-> I3!Started, after |-> I3!Started, next |-> TRUE]
      BY DEF I3!Init, I3!NoScroll
    <3> QED
      BY <3>1, <3>2, <3>3
  <2> HIDE DEF I3!Started
  <2>2. s12.of = "none" /\ s12.was = I3!Started /\ s12.after = I3!Started /\ s12.next = TRUE
    BY <2>1
  <2>3. I3!ScrollTurns
    BY <2>2 DEF I3!ScrollTurns
  <2> QED
    BY <2>1, <2>2, <2>3 DEF I3!Scrolling
<1> QED
  BY <1>2, <1>3, I3InitFollowing DEF I3!Inv

(* Each step keeps the invariant.                                           *)
LEMMA I3InvKept ==
  ASSUME I3!Layout, I3!Inv, [I3!Next]_(I3!vars)
  PROVE  I3!Inv'
  BY I3FollowingKept, I3PlacedKept, I3ScrollingKept DEF I3!Inv, I3!Placed

(* The invariant says what is shown and where a scroll goes.                *)
LEMMA I3InvShown ==
  ASSUME I3!Inv
  PROVE  I3!ShownAsAnswered /\ I3!ScrollTurns
  BY I3FollowingShown DEF I3!Inv, I3!Scrolling

-----------------------------------------------------------------------------
(* Background.                                                             *)
Background == INSTANCE Background WITH
  Setups <- BackgroundSetups, PixmapWidth <- BackgroundPixmap,
  BarWidth <- BackgroundBar, RightEdge <- BackgroundEdge,
  Places <- BackgroundPlaces, MaxIcons <- BackgroundIcons,
  MaxOps <- BackgroundOps, setup <- s1, started <- s2, props <- s3,
  alive <- s4, place <- s5, events <- s6, m_slices <- s7,
  m_attached <- s8, surface <- s9, m_bg_slice <- s10, m_mapped <- s11,
  clients <- s12, drawn <- s13, tray_drawn <- s14, update <- s15,
  ops <- s16

(* The bar and the tray begin on the screen, and have a width.             *)
ASSUME BackgroundMeasures == Background!Measured

(* A slice that is filled shows the wallpaper behind it.                   *)
LEMMA BackgroundFillRight ==
  ASSUME Background!Measured, NEW s, s5[Background!Window(s)] \in Nat,
         NEW c, Len(c) \in Nat, DOMAIN c = 1 .. Len(c)
  PROVE  LET f == Background!Fill(c, s5[Background!Window(s)])
         IN Background!Right(s, f) /\ Len(f) \in Nat /\ DOMAIN f = 1 .. Len(f)
<1> DEFINE x == s5[Background!Window(s)]
           n == Len(c)
           src == Background!Cap(x, 0, BackgroundPixmap)
           w == Background!Cap(n, 0, BackgroundPixmap - src)
           f == [i \in 1 .. n |-> IF i <= w THEN <<Background!RootPixmap, src + i>> ELSE c[i]]
<1>1. Background!Fill(c, x) = f
  BY DEF Background!Fill
<1>2. BackgroundPixmap \in Nat /\ n \in Nat /\ x \in Nat
  BY DEF Background!Measured
<1>3. ASSUME NEW i \in 1 .. n, x + i <= BackgroundPixmap
      PROVE  i <= w /\ src = x
  <2> HIDE DEF x, n
  <2>1. src = x
    BY <1>2, <1>3 DEF Background!Cap
  <2>2. w = IF n > BackgroundPixmap - x THEN BackgroundPixmap - x ELSE n
    <3> HIDE DEF src
    <3> QED
      BY <1>2, <1>3, <2>1 DEF Background!Cap
  <2> HIDE DEF w
  <2> QED
    BY <1>2, <1>3, <2>1, <2>2
<1>4. ASSUME NEW i \in 1 .. n, x + i <= BackgroundPixmap
      PROVE  f[i] = <<Background!RootPixmap, x + i>>
  <2> HIDE DEF src, w, x
  <2> QED
    BY <1>3, <1>4
<1>5. Len(f) = n /\ DOMAIN f = 1 .. n
  <2>1. f = [i \in 1 .. n |-> f[i]]
    OBVIOUS
  <2> HIDE DEF f, n
  <2> QED
    BY <1>2, <2>1, LenIs
<1> HIDE DEF f, src, w
<1> QED
  BY <1>1, <1>2, <1>4, <1>5 DEF Background!Right

(* Black ones are slices.                                                  *)
LEMMA BackgroundBlackIs ==
  ASSUME NEW w \in Nat
  PROVE  Len(Background!Black(w)) = w /\ DOMAIN Background!Black(w) = 1 .. w
<1>1. Background!Black(w) = [i \in 1 .. w |-> Background!Black(w)[i]]
  BY DEF Background!Black
<1> QED
  BY <1>1, LenIs DEF Background!Black

BackgroundSlices(contents, n) ==
  /\ contents = [s \in 0 .. n |-> contents[s]]
  /\ \A s \in 0 .. n : Len(contents[s]) \in Nat /\ DOMAIN contents[s] = 1 .. Len(contents[s])

(* What fetch_root_pixmap() keeps, of slices whose holders are known.      *)
LEMMA BackgroundFetched ==
  ASSUME Background!Measured, s5 \in [{"bar", "tray"} -> Nat], NEW n \in Nat,
         NEW slices, NEW contents, BackgroundSlices(contents, n), NEW held, NEW attached,
         Background!Fetch(slices, contents, held, attached)
  PROVE  /\ BackgroundSlices(s9', n)
         /\ slices \cap ({0} \cup held) \subseteq s7'
         /\ attached /\ slices \cap ({0} \cup held) # {} => s8'
         /\ Background!RootPixmap # 0 => \A s \in 0 .. n : s \in slices /\ s \in {0} \cup held => Background!Right(s, s9'[s])
<1>1. \A s : s5[Background!Window(s)] \in Nat
  BY DEF Background!Window
<1>2. CASE Background!RootPixmap = 0
  BY <1>2 DEF Background!Fetch
<1>3. CASE Background!RootPixmap # 0
  <2> DEFINE kept == slices \cap ({0} \cup held)
  <2>1. /\ s7' = kept /\ s8' = (attached /\ kept # {})
        /\ s9' = [s \in 0 .. n |-> IF s \in kept THEN Background!Fill(contents[s], s5[Background!Window(s)]) ELSE contents[s]]
    BY <1>3 DEF Background!Fetch, BackgroundSlices
  <2> HIDE DEF kept
  <2>2. ASSUME NEW s \in 0 .. n
        PROVE  /\ Len(s9'[s]) \in Nat /\ DOMAIN s9'[s] = 1 .. Len(s9'[s])
               /\ s \in kept => Background!Right(s, s9'[s])
    <3>1. Len(contents[s]) \in Nat /\ DOMAIN contents[s] = 1 .. Len(contents[s])
      BY DEF BackgroundSlices
    <3>2. CASE s \in kept
      <4>1. s9'[s] = Background!Fill(contents[s], s5[Background!Window(s)])
        BY <2>1, <3>2
      <4> QED
        BY <1>1, <3>1, <4>1, BackgroundFillRight
    <3>3. CASE s \notin kept
      <4>1. s9'[s] = contents[s]
        BY <2>1, <3>3
      <4> QED
        BY <3>1, <3>3, <4>1
    <3> QED
      BY <3>2, <3>3
  <2>3. BackgroundSlices(s9', n)
    BY <2>1, <2>2 DEF BackgroundSlices
  <2> QED
    BY <2>1, <2>2, <2>3 DEF kept
<1> QED
  BY <1>2, <1>3

(* What observe() returns is listed, unless it has no width.               *)
LEMMA BackgroundObserved ==
  ASSUME Background!Measured, Background!Typed, NEW slice \in Nat, NEW w \in Nat, NEW held, NEW n \in Nat,
         0 .. n = 0 .. s10 \cup {slice}, Background!Observe(slice, w, held)
  PROVE  /\ BackgroundSlices(s9', n) /\ s8'
         /\ w > 0 => slice \in s7' /\ (Background!RootPixmap # 0 => Background!Right(slice, s9'[slice]))
         /\ \A s \in (0 .. n) \ {slice} : s \in s7 /\ s \in {0} \cup held => s \in s7'
         /\ \A s \in (0 .. n) \ {slice} : Background!RootPixmap # 0 /\ Background!Right(s, s9[s]) => Background!Right(s, s9'[s])
<1> DEFINE contents == [s \in 0 .. n |-> IF s = slice THEN Background!Black(w) ELSE s9[s]]
<1>1. contents = [s \in DOMAIN s9 \cup {slice} |-> IF s = slice THEN Background!Black(w) ELSE s9[s]]
  BY DEF Background!Typed
<1>2. /\ \A s \in (0 .. n) \ {slice} : contents[s] = s9[s] /\ s \in 0 .. s10
      /\ slice \in 0 .. n /\ contents[slice] = Background!Black(w)
      /\ contents = [s \in 0 .. n |-> contents[s]]
  OBVIOUS
<1>3. BackgroundSlices(contents, n)
  <2> HIDE DEF contents
  <2>1. \A s \in (0 .. n) \ {slice} : Len(contents[s]) \in Nat /\ DOMAIN contents[s] = 1 .. Len(contents[s])
    BY <1>2 DEF Background!Typed
  <2>2. Len(contents[slice]) \in Nat /\ DOMAIN contents[slice] = 1 .. Len(contents[slice])
    BY <1>2, BackgroundBlackIs
  <2> QED
    BY <1>2, <2>1, <2>2 DEF BackgroundSlices
<1>4. CASE w = 0
  <2>1. s7' = s7 /\ s9' = contents /\ s8' = TRUE
    BY <1>1, <1>4 DEF Background!Observe
  <2> HIDE DEF contents
  <2> QED
    BY <1>2, <1>3, <1>4, <2>1
<1>5. CASE w # 0
  <2>1. Background!Fetch(s7 \cup {slice}, contents, held \cup {slice}, TRUE)
    BY <1>1, <1>5 DEF Background!Observe
  <2> HIDE DEF contents
  <2>2. /\ BackgroundSlices(s9', n)
        /\ (s7 \cup {slice}) \cap ({0} \cup (held \cup {slice})) \subseteq s7'
        /\ (s7 \cup {slice}) \cap ({0} \cup (held \cup {slice})) # {} => s8'
        /\ Background!RootPixmap # 0 => \A s \in 0 .. n : s \in s7 \cup {slice} /\ s \in {0} \cup (held \cup {slice}) => Background!Right(s, s9'[s])
    <3> DEFINE listed == s7 \cup {slice}
               holders == held \cup {slice}
    <3>1. s5 \in [{"bar", "tray"} -> Nat] /\ Background!Fetch(listed, contents, holders, TRUE)
      BY <2>1 DEF Background!Typed
    <3> HIDE DEF listed, holders
    <3>2. /\ BackgroundSlices(s9', n)
          /\ listed \cap ({0} \cup holders) \subseteq s7'
          /\ TRUE /\ listed \cap ({0} \cup holders) # {} => s8'
          /\ Background!RootPixmap # 0 => \A s \in 0 .. n : s \in listed /\ s \in {0} \cup holders => Background!Right(s, s9'[s])
      BY <1>3, <3>1, BackgroundFetched
    <3> QED
      BY <3>2 DEF listed, holders
  <2>3. ASSUME NEW s \in (0 .. n) \ {slice}, Background!RootPixmap # 0, Background!Right(s, s9[s])
        PROVE  Background!Right(s, s9'[s])
    <3>1. CASE s \in s7 /\ s \in {0} \cup held
      BY <2>2, <2>3, <3>1
    <3>2. CASE ~(s \in s7 /\ s \in {0} \cup held)
      <4>1. s9'[s] = contents[s]
        BY <2>1, <2>3, <3>2, <1>2 DEF Background!Fetch
      <4> QED
        BY <1>2, <2>3, <4>1
    <3> QED
      BY <3>1, <3>2
  <2> QED
    BY <1>2, <2>2, <2>3
<1> QED
  BY <1>4, <1>5

(* Nothing the manager has not heard of is left, and nothing is held.      *)
LEMMA BackgroundInitInv ==
  ASSUME Background!Measured, Background!Init
  PROVE  Background!Inv
<1>1. Background!Typed
  <2>1. s5 \in [{"bar", "tray"} -> Nat]
    BY DEF Background!Init, Background!Measured
  <2>2. Len(Background!Black(BackgroundBar)) \in Nat /\ DOMAIN Background!Black(BackgroundBar) = 1 .. Len(Background!Black(BackgroundBar))
    BY BackgroundBlackIs DEF Background!Measured
  <2>3. {0} = 0 .. 0
    OBVIOUS
  <2>4. s9 = [s \in 0 .. 0 |-> Background!Black(BackgroundBar)] /\ s10 = 0
    BY <2>3 DEF Background!Init
  <2>5. \A s \in 0 .. 0 : s9[s] = Background!Black(BackgroundBar)
    BY <2>4
  <2>6. s9 = [s \in 0 .. 0 |-> s9[s]]
    BY <2>4
  <2>7. s12 \in 0 .. BackgroundIcons /\ s6 \in Seq({"property", "configure", "map", "unmap"})
    BY DEF Background!Init, Background!Measured
  <2>8. \A s \in 0 .. 0 : Len(s9[s]) \in Nat /\ DOMAIN s9[s] = 1 .. Len(s9[s])
    <3>1. Len(Background!Black(BackgroundBar)) = BackgroundBar
      BY BackgroundBlackIs DEF Background!Measured
    <3> QED
      BY <2>2, <2>5
  <2>9. /\ s1 \in BackgroundSetups /\ s2 \in BOOLEAN /\ s11 \in BOOLEAN
        /\ s12 = 0
    BY DEF Background!Init
  <2>10. s10 \in Nat /\ ~(s12 > 0)
    BY <2>4, <2>9
  <2> QED
    BY <2>1, <2>4, <2>6, <2>7, <2>8, <2>9, <2>10 DEF Background!Typed
<1>2. Background!Held = {}
  BY DEF Background!Init, Background!Held
<1> QED
  BY <1>1, <1>2 DEF Background!Init, Background!Inv, Background!SlicesListed,
     Background!Filled, Background!Current

(* Events that are told of, and those that are handled.                    *)
LEMMA BackgroundNotified ==
  ASSUME Background!Typed, NEW e \in {"property", "configure", "map", "unmap"}, s6' = Append(s6, e)
  PROVE  /\ s6' \in Seq({"property", "configure", "map", "unmap"})
         /\ Background!Told' <=> Background!Told /\ e \notin Background!Moving
<1> DEFINE E == {"property", "configure", "map", "unmap"}
<1>1. s6 \in Seq(E) /\ e \in E
  BY DEF Background!Typed
<1> HIDE DEF E
<1>2. /\ Append(s6, e) \in Seq(E)
      /\ (\E i \in 1 .. Len(Append(s6, e)) : Append(s6, e)[i] \in Background!Moving)
           <=> (\E i \in 1 .. Len(s6) : s6[i] \in Background!Moving) \/ e \in Background!Moving
  BY <1>1, HasAppend
<1>3. Background!Told' <=> \A i \in 1 .. Len(s6') : s6'[i] \notin Background!Moving
  BY DEF Background!Told, Background!Moving
<1> QED
  BY <1>2, <1>3 DEF E, Background!Told

(* An event that was handled is off the queue, and told what it is of.      *)
LEMMA BackgroundHandled ==
  ASSUME Background!Typed, NEW type, Background!Handles(type)
  PROVE  /\ s6' \in Seq({"property", "configure", "map", "unmap"})
         /\ Background!Told' /\ type \notin Background!Moving => Background!Told
<1> DEFINE E == {"property", "configure", "map", "unmap"}
<1>1. s6 \in Seq(E) /\ s6 # <<>> /\ Head(s6) = type /\ s6' = Tail(s6)
  BY DEF Background!Typed, Background!Handles
<1> HIDE DEF E
<1>2. /\ Tail(s6) \in Seq(E)
      /\ (\E i \in 1 .. Len(s6) : s6[i] \in Background!Moving)
           <=> Head(s6) \in Background!Moving \/ \E i \in 1 .. Len(Tail(s6)) : Tail(s6)[i] \in Background!Moving
  BY <1>1, HasTail
<1>3. Background!Told' <=> \A i \in 1 .. Len(s6') : s6'[i] \notin Background!Moving
  BY DEF Background!Told, Background!Moving
<1> QED
  BY <1>1, <1>2, <1>3 DEF E, Background!Told

(* The bar starts, ...                                                     *)
LEMMA BackgroundStartKeeps ==
  ASSUME Background!Measured, Background!Inv, Background!Start
  PROVE  Background!Inv'
<1> USE DEF Background!Inv, Background!server, Background!tray
<1>1. s1.bar \in BOOLEAN /\ BackgroundBar \in Nat /\ BackgroundBar > 0
  BY DEF Background!Measured, Background!Typed
<1>2. s12 = 0 /\ Background!RootPixmap' = Background!RootPixmap /\ Background!Told' = Background!Told
  BY DEF Background!Start, Background!Typed, Background!RootPixmap, Background!Told
<1>3. \A s, c : Background!Right(s, c)' <=> Background!Right(s, c)'
  OBVIOUS
<1>4. CASE s1.bar
  <2>1. Background!Observe(0, BackgroundBar, {s10}) /\ 0 .. s10 = 0 .. s10 \cup {0} /\ s10 \in Nat
    BY <1>4 DEF Background!Start, Background!Typed
  <2>2. /\ BackgroundSlices(s9', s10) /\ s8'
        /\ 0 \in s7' /\ (Background!RootPixmap # 0 => Background!Right(0, s9'[0]))
    BY <1>1, <2>1, BackgroundObserved
  <2>3. Background!Held' = {0}
    BY <1>2, <1>4 DEF Background!Start, Background!Held
  <2>4. Background!Typed'
    BY <1>2, <2>2 DEF Background!Typed, Background!Start, BackgroundSlices,
       Background!Observe, Background!Fetch
  <2>5. Background!Right(0, s9'[0]) => Background!Right(0, s9[0])'
    BY <1>2 DEF Background!Start, Background!Right, Background!Window
  <2> QED
    BY <1>2, <2>2, <2>3, <2>4, <2>5 DEF Background!Start, Background!SlicesListed,
       Background!Filled, Background!Current
<1>5. CASE ~s1.bar
  <2>1. Background!Held' = {}
    BY <1>2, <1>5 DEF Background!Start, Background!Held
  <2>2. Background!Typed'
    BY <1>5 DEF Background!Typed, Background!Start
  <2> QED
    BY <1>2, <1>5, <2>1, <2>2 DEF Background!Start, Background!SlicesListed,
       Background!Filled, Background!Current
<1> QED
  BY <1>4, <1>5

(* ... the tray changes, ...                                               *)
LEMMA BackgroundReconfigureKeeps ==
  ASSUME Background!Measured, Background!Inv, NEW n \in 0 .. BackgroundIcons, Background!Reconfigure(n)
  PROVE  Background!Inv'
<1> DEFINE new == s10 + 1
           E == {"property", "configure", "map", "unmap"}
           a == IF n = 0 /\ s11 THEN <<"unmap">> ELSE <<>>
           b == IF n > 0 /\ ~s11 THEN <<"map">> ELSE <<>>
           c == IF s5' # s5 THEN <<"configure">> ELSE <<>>
<1>1. /\ s2 /\ s1.tray /\ s12' = n /\ s10' = new
      /\ Background!Observe(new, n, {s10})
      /\ s5' = IF n = 0 THEN s5 ELSE [s5 EXCEPT !["tray"] = BackgroundEdge - n]
      /\ s6' = s6 \o a \o b \o c
      /\ s14' = Background!Painted(new, s9', s11, n, s14)
      /\ s15' = TRUE
      /\ UNCHANGED <<s1, s2, s3, s4, s11, s13>>
  BY Zenon DEF Background!Reconfigure
<1>2. /\ n \in Nat /\ s10 \in Nat /\ new \in Nat /\ new > 0 /\ 0 .. new = 0 .. s10 \cup {new}
      /\ new \notin 0 .. s10 /\ 0 \in 0 .. s10 /\ s10 \in 0 .. new
  BY DEF Background!Inv, Background!Typed, Background!Measured
<1>3. s5' \in [{"bar", "tray"} -> Nat]
  BY <1>1 DEF Background!Inv, Background!Typed, Background!Measured
<1>4. s6' \in Seq(E) /\ (Background!Told' => Background!Told /\ s5' = s5)
  <2>1. a \in Seq(E) /\ b \in Seq(E) /\ c \in Seq(E) /\ s6 \in Seq(E)
    <3>1. <<>> \in Seq(E) /\ <<"unmap">> \in Seq(E) /\ <<"map">> \in Seq(E) /\ <<"configure">> \in Seq(E)
      OBVIOUS
    <3>2. s6 \in Seq(E)
      BY DEF Background!Inv, Background!Typed
    <3> HIDE DEF E
    <3> QED
      BY <3>1, <3>2, Zenon
  <2>2. s5' # s5 => Some(c, Background!Moving)
    <3>1. s5' # s5 => Len(c) = 1 /\ c[1] \in Background!Moving
      BY DEF Background!Moving
    <3> QED
      BY <3>1 DEF Some
  <2> HIDE DEF a, b, c, E
  <2>3. s6 \o a \in Seq(E) /\ (Some(s6 \o a, Background!Moving) <=> Some(s6, Background!Moving) \/ Some(a, Background!Moving))
    BY <2>1, HasConcat
  <2>4. /\ s6 \o a \o b \in Seq(E)
        /\ Some(s6 \o a \o b, Background!Moving) <=> Some(s6 \o a, Background!Moving) \/ Some(b, Background!Moving)
    BY <2>1, <2>3, HasConcat
  <2>5. /\ s6 \o a \o b \o c \in Seq(E)
        /\ Some(s6 \o a \o b \o c, Background!Moving) <=> Some(s6 \o a \o b, Background!Moving) \/ Some(c, Background!Moving)
    BY <2>1, <2>4, HasConcat
  <2>6. (Background!Told <=> ~Some(s6, Background!Moving)) /\ (Background!Told' <=> ~Some(s6', Background!Moving))
    BY DEF Background!Told, Background!Moving, Some
  <2> QED
    BY <1>1, <2>2, <2>3, <2>4, <2>5, <2>6
<1> HIDE DEF a, b, c, new
<1>5. /\ BackgroundSlices(s9', new) /\ s8'
      /\ n > 0 => new \in s7' /\ (Background!RootPixmap # 0 => Background!Right(new, s9'[new]))
      /\ \A s \in (0 .. new) \ {new} : s \in s7 /\ s \in {0} \cup {s10} => s \in s7'
      /\ \A s \in (0 .. new) \ {new} : Background!RootPixmap # 0 /\ Background!Right(s, s9[s]) => Background!Right(s, s9'[s])
  BY <1>1, <1>2, BackgroundObserved DEF Background!Inv
<1>6. Background!Typed'
  <2>1. /\ s12' \in 0 .. BackgroundIcons
        /\ s1' \in BackgroundSetups /\ s2' \in BOOLEAN /\ s11' \in BOOLEAN
    BY <1>1 DEF Background!Inv, Background!Typed
  <2>2. s12' > 0 => s2' /\ s1'.tray /\ s10' > 0
    BY <1>1, <1>2
  <2> QED
    BY <1>1, <1>2, <1>3, <1>4, <1>5, <2>1, <2>2 DEF Background!Typed,
       BackgroundSlices, E
<1>7. Background!Held' = (IF s1.bar THEN {0} ELSE {}) \cup (IF n > 0 THEN {new} ELSE {})
  BY <1>1 DEF Background!Held
<1>8. Background!SlicesListed'
  <2>1. s1.bar => 0 \in s7
    BY <1>1 DEF Background!Inv, Background!SlicesListed, Background!Held
  <2>2. s1.bar => 0 \in s7'
    BY <1>2, <1>5, <2>1
  <2> QED
    BY <1>5, <1>7, <2>2 DEF Background!SlicesListed
<1>9. Background!Filled'
  <2> SUFFICES ASSUME Background!RootPixmap' # 0, Background!Told', NEW s \in Background!Held'
               PROVE  Background!Right(s, s9[s])'
    BY DEF Background!Filled
  <2>1. Background!RootPixmap' = Background!RootPixmap /\ s5' = s5 /\ Background!Told
    BY <1>1, <1>4 DEF Background!RootPixmap
  <2>2. Background!Right(s, s9'[s]) => Background!Right(s, s9[s])'
    BY <2>1 DEF Background!Right, Background!Window
  <2>3. CASE s = new
    BY <1>5, <1>7, <2>1, <2>2, <2>3, <1>2
  <2>4. CASE s # new
    <3>1. s = 0 /\ s1.bar
      BY <1>7, <2>4
    <3>2. Background!Right(s, s9[s])
      BY <1>1, <2>1, <3>1 DEF Background!Inv, Background!Filled, Background!Held
    <3> QED
      BY <1>2, <1>5, <2>1, <2>2, <2>4, <3>1, <3>2
  <2> QED
    BY <2>3, <2>4
<1>10. Background!Current'
  BY <1>1 DEF Background!Current, Background!Painted
<1> QED
  BY <1>6, <1>8, <1>9, <1>10 DEF Background!Inv

(* ... what has changed is read again, ...                                 *)
LEMMA BackgroundRefreshKeeps ==
  ASSUME Background!Measured, Background!Inv, NEW type, Background!Handles(type), NEW listens, Background!Refresh(listens),
         UNCHANGED s11, s8 => listens
  PROVE  Background!Inv'
<1>1. /\ UNCHANGED <<s1, s2, s3, s4, s5, s10, s12, s13, s11>>
      /\ s6' \in Seq({"property", "configure", "map", "unmap"})
      /\ Background!Held' = Background!Held /\ Background!RootPixmap' = Background!RootPixmap
  BY BackgroundHandled DEF Background!Inv, Background!Handles, Background!server,
     Background!Held, Background!RootPixmap
<1>2. \A s, d : Background!Right(s, d)' <=> Background!Right(s, d)'
  OBVIOUS
<1>3. Background!Held \subseteq 0 .. s10 /\ Background!Held \subseteq {0} \cup {s10}
  BY DEF Background!Inv, Background!Typed, Background!Held
<1>4. CASE listens /\ s7 # {}
  <2>1. /\ Background!Fetch(s7, s9, {s10}, s8) /\ s15' = TRUE
        /\ s14' = IF s10 = 0 THEN s14
                         ELSE Background!Painted(s10, s9', s11, s12, s14)
    BY <1>1, <1>4, Zenon DEF Background!Refresh
  <2>2. BackgroundSlices(s9, s10) /\ s10 \in Nat /\ s5 \in [{"bar", "tray"} -> Nat]
    BY DEF Background!Inv, Background!Typed, BackgroundSlices
  <2>3. /\ BackgroundSlices(s9', s10)
        /\ s7 \cap ({0} \cup {s10}) \subseteq s7'
        /\ s8 /\ s7 \cap ({0} \cup {s10}) # {} => s8'
        /\ Background!RootPixmap # 0 => \A s \in 0 .. s10 : s \in s7 /\ s \in {0} \cup {s10} => Background!Right(s, s9'[s])
    BY <2>1, <2>2, BackgroundFetched
  <2>4. Background!Held \subseteq s7 /\ (Background!Held # {} => s8)
    BY DEF Background!Inv, Background!SlicesListed
  <2>5. Background!SlicesListed'
    BY <1>1, <1>3, <2>3, <2>4 DEF Background!SlicesListed
  <2>6. Background!RootPixmap # 0 => \A s \in Background!Held : Background!Right(s, s9'[s])
    BY <1>3, <2>3, <2>4
  <2>7. Background!Filled'
    <3>1. \A s : Background!Right(s, s9'[s]) => Background!Right(s, s9[s])'
      BY <1>1 DEF Background!Right, Background!Window
    <3> QED
      BY <1>1, <2>6, <3>1 DEF Background!Filled
  <2>8. Background!Current'
    BY <1>1, <2>1 DEF Background!Inv, Background!Typed, Background!Current,
       Background!Painted
  <2>9. Background!Typed'
    BY <1>1, <2>3 DEF Background!Inv, Background!Typed, BackgroundSlices
  <2> QED
    BY <2>5, <2>7, <2>8, <2>9 DEF Background!Inv
<1>5. CASE ~(listens /\ s7 # {})
  <2>1. UNCHANGED <<s7, s9, s8, s14, s15>>
    BY <1>5, Zenon DEF Background!Refresh
  <2>2. Background!Held = {}
    BY <1>5 DEF Background!Inv, Background!SlicesListed
  <2>3. Background!Typed'
    BY <1>1, <2>1 DEF Background!Inv, Background!Typed
  <2> QED
    BY <1>1, <2>1, <2>2, <2>3 DEF Background!Inv, Background!SlicesListed,
       Background!Filled, Background!Current
<1> QED
  BY <1>4, <1>5

(* ... and so on.                                                          *)
LEMMA BackgroundInvKept ==
  ASSUME Background!Measured, Background!Inv, [Background!Next]_(Background!vars)
  PROVE  Background!Inv'
<1>1. CASE Background!Start
  BY <1>1, BackgroundStartKeeps
<1>2. CASE \E n \in 0 .. BackgroundIcons : Background!Reconfigure(n)
  BY <1>2, BackgroundReconfigureKeeps
<1>3. CASE Background!PropertyNotify
  BY <1>3, BackgroundRefreshKeeps DEF Background!PropertyNotify
<1>4. CASE Background!ConfigureNotify
  BY <1>4, BackgroundRefreshKeeps DEF Background!ConfigureNotify
<1>5. CASE Background!MapNotify \/ Background!UnmapNotify
  <2>1. PICK type \in {"map", "unmap"} : Background!Handles(type)
    BY <1>5 DEF Background!MapNotify, Background!UnmapNotify
  <2>2. /\ UNCHANGED <<s1, s2, s3, s4, s5, s10, s12, s13, s7, s9, s8, s15>>
        /\ s6' \in Seq({"property", "configure", "map", "unmap"}) /\ (Background!Told' => Background!Told)
        /\ Background!Held' = Background!Held /\ Background!RootPixmap' = Background!RootPixmap /\ s11' \in BOOLEAN
    BY <1>5, <2>1, BackgroundHandled DEF Background!Inv, Background!Handles,
       Background!server, Background!Held, Background!RootPixmap,
       Background!MapNotify, Background!UnmapNotify, Background!Moving
  <2>3. Background!Typed'
    BY <2>2 DEF Background!Inv, Background!Typed
  <2>4. Background!Filled'
    BY <2>2 DEF Background!Inv, Background!Filled, Background!Right, Background!Window
  <2>5. Background!Current'
    BY <1>5, <2>2 DEF Background!Inv, Background!Typed, Background!Current,
       Background!MapNotify, Background!UnmapNotify, Background!Painted
  <2> QED
    BY <2>2, <2>3, <2>4, <2>5 DEF Background!Inv, Background!SlicesListed
<1>6. CASE Background!Draw
  <2>1. /\ UNCHANGED <<s1, s2, s3, s4, s5, s6, s7, s8, s9,
                       s10, s11, s12, s14>>
        /\ s13' = s9[0]
    BY <1>6 DEF Background!Draw, Background!server, Background!tray
  <2>2. Background!Held' = Background!Held /\ Background!RootPixmap' = Background!RootPixmap /\ Background!Told' = Background!Told
    BY <2>1 DEF Background!Held, Background!RootPixmap, Background!Told
  <2> QED
    BY <2>1, <2>2 DEF Background!Inv, Background!Typed, Background!SlicesListed,
       Background!Filled, Background!Right, Background!Window, Background!Current
<1>7. CASE \E i \in DOMAIN s3, keep \in BOOLEAN : Background!SetWallpaper(i, keep)
  <2>1. /\ UNCHANGED <<s1, s2, s5, s7, s8, s9, s10, s11, s12,
                       s14, s13, s15>>
        /\ s6' = IF s2 THEN Append(s6, "property") ELSE s6
    BY <1>7 DEF Background!SetWallpaper, Background!tray
  <2>2. Background!Held' = Background!Held
    BY <2>1 DEF Background!Held
  <2>3. s6' \in Seq({"property", "configure", "map", "unmap"}) /\ (s2 => ~Background!Told')
    BY <2>1, BackgroundNotified DEF Background!Inv, Background!Typed,
       Background!Moving
  <2> QED
    BY <2>1, <2>2, <2>3 DEF Background!Inv, Background!Typed, Background!SlicesListed,
       Background!Filled, Background!Current
<1>8. CASE \E x \in BackgroundPlaces : Background!Move(x)
  <2>1. /\ UNCHANGED <<s1, s2, s7, s8, s9, s10, s11, s12,
                       s14, s13, s15>>
        /\ s6' = Append(s6, "configure")
        /\ \E x \in BackgroundPlaces : s5' = [s5 EXCEPT !["bar"] = x]
    BY <1>8 DEF Background!Move, Background!tray
  <2>2. Background!Held' = Background!Held
    BY <2>1 DEF Background!Held
  <2>3. s6' \in Seq({"property", "configure", "map", "unmap"}) /\ ~Background!Told'
    BY <2>1, BackgroundNotified DEF Background!Inv, Background!Moving
  <2>4. s5' \in [{"bar", "tray"} -> Nat]
    BY <2>1 DEF Background!Inv, Background!Typed, Background!Measured
  <2> QED
    BY <2>1, <2>2, <2>3, <2>4 DEF Background!Inv, Background!Typed,
       Background!SlicesListed, Background!Filled, Background!Current
<1>9. CASE UNCHANGED Background!vars
  <2>1. /\ UNCHANGED <<s1, s2, s3, s4, s5, s6, s7, s8, s9,
                       s10, s11, s12, s14, s13, s15>>
    BY <1>9 DEF Background!vars, Background!server, Background!tray
  <2>2. Background!Held' = Background!Held /\ Background!RootPixmap' = Background!RootPixmap /\ Background!Told' = Background!Told
    BY <2>1 DEF Background!Held, Background!RootPixmap, Background!Told
  <2> QED
    BY <2>1, <2>2 DEF Background!Inv, Background!Typed, Background!SlicesListed,
       Background!Filled, Background!Right, Background!Window, Background!Current
<1> QED
  BY <1>1, <1>2, <1>3, <1>4, <1>5, <1>6, <1>7, <1>8, <1>9 DEF Background!Next,
     Background!HandleEvent

(* With all events handled nothing is left to hear of.                     *)
LEMMA BackgroundInvBehind ==
  ASSUME Background!Inv
  PROVE  Background!WallpaperBehind /\ Background!SlicesListed
<1>1. s6 = <<>> => Background!Told
  BY DEF Background!Told
<1>2. s12 > 0 => s10 \in Background!Held
  BY DEF Background!Held
<1>3. s1.bar /\ s2 => 0 \in Background!Held
  BY DEF Background!Held
<1> QED
  BY <1>1, <1>2, <1>3 DEF Background!Inv, Background!Filled, Background!Current,
     Background!WallpaperBehind

-----------------------------------------------------------------------------
(* Hover.                                                                  *)
Hover == INSTANCE Hover WITH
  Bars <- HoverBars, Areas <- HoverAreas, MaxOps <- HoverOps,
  m_opts <- s1, areas <- s2, m_mutex <- s3, inside <- s4,
  events <- s5, heard <- s6, dimmed <- s7, opacity <- s8,
  task <- s9, callback <- s10, cursor <- s11, shown <- s12,
  at <- s13, hasty <- s14, ops <- s15

(* A bar's cursors have names that X knows.                                *)
ASSUME HoverCursors == Hover!Named

(* The first of a sequence.                                                *)
LEMMA HoverFirstOf ==
  ASSUME NEW E, NEW q \in Seq(E), Len(q) = 1
  PROVE  q # <<>> /\ Head(q) = q[1]
BY EmptySeq, HeadTailProperties

(* A crossing is news for later: what the bar has been told does not       *)
(* change.                                                                 *)
LEMMA HoverCrossKeeps ==
  ASSUME Hover!Dimming, Hover!Cross
  PROVE  Hover!Dimming'
<1> USE DEF Hover!Dimming
<1>0. /\ UNCHANGED <<s1, s6, s7, s8, s9, s10, s14>>
      /\ s4' = ~s4
      /\ s5' = IF s1.dimvalue = 100 THEN s5 ELSE Append(s5, s4')
  BY DEF Hover!Cross, Hover!dimming
<1>1. CASE s1.dimvalue = 100
  <2>1. s5 = <<>> /\ s5' = <<>> /\ ~s6 /\ ~s6'
    BY <1>0, <1>1 DEF Hover!Quiet
  <2>2. s5' \in Seq(BOOLEAN) /\ Len(s5') = 0
    BY <2>1, EmptySeq
  <2>3. Hover!Alternate'
    BY <2>2 DEF Hover!Alternate
  <2> QED
    BY <1>0, <1>1, <2>1, <2>3 DEF Hover!Typed, Hover!Quiet, Hover!Opaque,
       Hover!Corrected
<1>2. CASE s1.dimvalue # 100
  <2>1. s5' = Append(s5, s4') /\ s4' = ~s4 /\ s4' \in BOOLEAN
    BY <1>0, <1>2
  <2>2. s5 \in Seq(BOOLEAN) /\ Len(s5) \in Nat
    BY DEF Hover!Alternate
  <2>3. Len(s5') = Len(s5) + 1 /\ s5' \in Seq(BOOLEAN)
    <3>1. /\ Append(s5, s4') \in Seq(BOOLEAN)
          /\ Len(Append(s5, s4')) = Len(s5) + 1
      BY <2>1, <2>2, AppendProperties
    <3> QED
      BY <2>1, <3>1
  <2>4. /\ \A i \in 1 .. Len(s5) : s5'[i] = s5[i]
        /\ s5'[Len(s5) + 1] = s4'
    BY <2>1, <2>2, AppendProperties
  <2>5. Hover!Alternate'
    <3> SUFFICES ASSUME NEW i \in 1 .. Len(s5')
                 PROVE s5'[i] = IF i = Len(s5') THEN s4' ELSE ~s5'[i + 1]
      BY <2>3 DEF Hover!Alternate
    <3>1. CASE i = Len(s5')
      BY <3>1, <2>2, <2>3, <2>4
    <3>2. CASE i = Len(s5)
      <4>1. s5[i] = s4
        BY <3>2, <2>2, <2>3 DEF Hover!Alternate
      <4> QED
        BY <4>1, <3>2, <2>1, <2>2, <2>3, <2>4, i \in 1 .. Len(s5), i # Len(s5') DEF
           Hover!Typed
    <3>3. CASE i < Len(s5)
      <4>1. i \in 1 .. Len(s5) /\ i + 1 \in 1 .. Len(s5)
        BY <3>3, <2>2, <2>3
      <4>2. s5[i] = ~s5[i + 1]
        BY <4>1, <3>3, <2>2 DEF Hover!Alternate
      <4> QED
        BY <4>1, <4>2, <2>2, <2>3, <2>4, <3>3
    <3> QED
      BY <3>1, <3>2, <3>3, <2>2, <2>3
  <2>6. Hover!Pointed' = Hover!Pointed
    <3>1. CASE s5 = <<>>
      <4>0. Len(s5) = 0 /\ Len(s5') = 1
        BY <3>1, <2>3, EmptySeq
      <4>1. s5' # <<>> /\ Head(s5') = s5'[1]
        BY <4>0, <2>3, HoverFirstOf
      <4>2. Head(s5') = s4'
        BY <4>0, <4>1, <2>4
      <4> QED
        BY <4>1, <4>2, <3>1, <2>1 DEF Hover!Pointed, Hover!Typed
    <3>2. CASE s5 # <<>>
      <4>1. s5' # <<>> /\ Head(s5') = Head(s5)
        BY <3>2, <2>1, <2>2
      <4> QED
        BY <4>1, <3>2 DEF Hover!Pointed
    <3> QED
      BY <3>1, <3>2
  <2> QED
    BY <1>0, <1>2, <2>1, <2>5, <2>6 DEF Hover!Typed, Hover!Quiet, Hover!Opaque,
       Hover!Corrected, Hover!Waits
<1> QED
  BY <1>1, <1>2

(* A crossing that is handled turns what the bar has been told.            *)
LEMMA HoverHandlesEffect ==
  ASSUME Hover!Dimming, NEW entered \in BOOLEAN, Hover!Handles(entered)
  PROVE  /\ Hover!Alternate' /\ Hover!Pointed = ~entered /\ Hover!Pointed' = entered
         /\ s1.dimvalue # 100
<1>1. s5 \in Seq(BOOLEAN) /\ s5 # <<>> /\ Len(s5) \in Nat \ {0}
  BY EmptySeq DEF Hover!Dimming, Hover!Handles, Hover!Alternate
<1>2. s5' = Tail(s5) /\ Head(s5) = entered /\ s4' = s4
  BY DEF Hover!Handles
<1>3. /\ s5' \in Seq(BOOLEAN) /\ Len(s5') = Len(s5) - 1
      /\ \A i \in 1 .. Len(s5') : s5'[i] = s5[i + 1]
  BY <1>1, <1>2, HeadTailProperties
<1>4. \A i \in 1 .. Len(s5) : s5[i] = IF i = Len(s5) THEN s4 ELSE ~s5[i + 1]
  BY DEF Hover!Dimming, Hover!Alternate
<1>5. Hover!Alternate'
  <2> SUFFICES ASSUME NEW i \in 1 .. Len(s5')
               PROVE s5'[i] = IF i = Len(s5') THEN s4' ELSE ~s5'[i + 1]
    BY <1>3 DEF Hover!Alternate
  <2>1. i + 1 \in 1 .. Len(s5) /\ s5'[i] = s5[i + 1]
    BY <1>1, <1>3
  <2>2. CASE i = Len(s5')
    <3>1. i + 1 = Len(s5)
      BY <2>2, <1>1, <1>3
    <3> QED
      BY <2>1, <2>2, <3>1, <1>4, <1>2
  <2>3. CASE i # Len(s5')
    <3>1. i + 1 # Len(s5) /\ i + 1 \in 1 .. Len(s5')
      <4>1. i \in Nat /\ i >= 1 /\ i <= Len(s5') /\ Len(s5') = Len(s5) - 1
        BY <1>1, <1>3
      <4>2. Len(s5) \in Nat /\ i # Len(s5) - 1
        BY <4>1, <2>3, <1>1
      <4>3. i + 1 # Len(s5) /\ i + 1 >= 1 /\ i + 1 <= Len(s5')
        BY <4>1, <4>2
      <4> QED
        BY <4>1, <4>3, <1>1
    <3>2. s5'[i + 1] = s5[(i + 1) + 1]
      BY <3>1, <1>3
    <3>3. s5[i + 1] = ~s5[(i + 1) + 1]
      BY <3>1, <2>1, <1>4
    <3> QED
      BY <2>1, <2>3, <3>2, <3>3
  <2> QED
    BY <2>2, <2>3
<1>6. Hover!Pointed = ~entered
  BY <1>1, <1>2 DEF Hover!Pointed
<1>7. Hover!Pointed' = entered
  <2>0. Head(s5) = s5[1]
    BY <1>1
  <2>1. CASE Len(s5) = 1
    <3>1. s5' = <<>> /\ s5[1] = s4
      BY <2>1, <1>1, <1>3, <1>4
    <3> QED
      BY <3>1, <2>0, <1>2 DEF Hover!Pointed
  <2>2. CASE Len(s5) # 1
    <3>1. Len(s5') > 0 /\ 1 \in 1 .. Len(s5') /\ 1 \in 1 .. Len(s5)
      BY <2>2, <1>1, <1>3
    <3>2. s5' # <<>> /\ Head(s5') = s5'[1]
      BY <3>1, <1>3, EmptySeq
    <3>5. s5'[1] = s5[1 + 1]
      BY <3>1, <1>3
    <3>3. s5[1] = ~s5[1 + 1]
      BY <3>1, <2>2, <1>4
    <3> QED
      BY <3>2, <3>3, <3>5, <2>0, <1>2 DEF Hover!Pointed
  <2> QED
    BY <2>1, <2>2
<1>8. s1.dimvalue # 100
  BY DEF Hover!Dimming, Hover!Quiet, Hover!Handles
<1> QED
  BY <1>5, <1>6, <1>7, <1>8

(* Entering replaces the task by one to brighten a dim bar.                *)
LEMMA HoverEnterKeeps ==
  ASSUME Hover!Dimming, Hover!EnterNotify
  PROVE  Hover!Dimming'
<1>1. Hover!Handles(TRUE)
  BY DEF Hover!EnterNotify
<1>2. Hover!Alternate' /\ Hover!Pointed' = TRUE /\ s1.dimvalue # 100
  BY <1>1, HoverHandlesEffect
<1>3. /\ UNCHANGED <<s1, s4, s7, s8, s10>> /\ s6' = TRUE
  BY <1>1 DEF Hover!Handles
<1>4. Hover!Typed' /\ Hover!Quiet' /\ Hover!Opaque'
  BY <1>2, <1>3 DEF Hover!Dimming, Hover!EnterNotify, Hover!Typed, Hover!Quiet,
     Hover!Opaque, Hover!NoTask, Hover!Deferred
<1>5. Hover!Corrected'
  BY <1>2, <1>3 DEF Hover!Dimming, Hover!EnterNotify, Hover!Typed, Hover!Corrected,
     Hover!Waits, Hover!NoTask, Hover!Deferred
<1> QED
  BY <1>2, <1>4, <1>5 DEF Hover!Dimming

(* Leaving replaces it by one to dim a bright bar, and leaves a dim one.   *)
LEMMA HoverLeaveKeeps ==
  ASSUME Hover!Dimming, Hover!LeaveNotify
  PROVE  Hover!Dimming'
<1>1. Hover!Handles(FALSE)
  BY DEF Hover!LeaveNotify
<1>2. Hover!Alternate' /\ Hover!Pointed' = FALSE /\ s1.dimvalue # 100
  BY <1>1, HoverHandlesEffect
<1>3. /\ UNCHANGED <<s1, s4, s7, s8, s10>> /\ s6' = TRUE
  BY <1>1 DEF Hover!Handles
<1>4. Hover!Typed' /\ Hover!Quiet' /\ Hover!Opaque'
  BY <1>2, <1>3 DEF Hover!Dimming, Hover!LeaveNotify, Hover!Typed, Hover!Quiet,
     Hover!Opaque, Hover!NoTask, Hover!Deferred
<1>5. Hover!Corrected'
  BY <1>2, <1>3 DEF Hover!Dimming, Hover!LeaveNotify, Hover!Typed, Hover!Corrected,
     Hover!Waits, Hover!NoTask, Hover!Deferred
<1> QED
  BY <1>2, <1>4, <1>5 DEF Hover!Dimming

(* The task queue's thread: the call, the flag, the window.                *)
LEMMA HoverDimmingKeeps ==
  ASSUME Hover!Dimming, Hover!Tick \/ Hover!Callback \/ Hover!DimWindow
  PROVE  Hover!Dimming'
<1>1. /\ s1' = s1 /\ s4' = s4 /\ s5' = s5
      /\ s6' = s6 /\ s14' = s14
  BY DEF Hover!Tick, Hover!Callback, Hover!DimWindow
<1>2. Hover!Alternate' /\ Hover!Pointed' = Hover!Pointed
  BY <1>1 DEF Hover!Dimming, Hover!Alternate, Hover!Pointed
<1> USE <1>1, <1>2 DEF Hover!Dimming, Hover!Typed, Hover!Quiet, Hover!Opaque, Hover!Corrected, Hover!Waits
<1>3. CASE Hover!Tick
  <2>1. /\ s9.is /\ s10 = "none" /\ UNCHANGED <<s7, s8>>
        /\ s9.to \in BOOLEAN /\ s9.spent \in BOOLEAN
    BY <1>3 DEF Hover!Tick
  <2>2. CASE s9.spent
    BY <1>3, <2>1, <2>2 DEF Hover!Tick, Hover!NoTask
  <2>3. CASE ~s9.spent
    <3>1. /\ s9' = [to |-> s9.to, spent |-> TRUE, is |-> TRUE]
          /\ s10' = IF s9.to THEN "dim" ELSE "bright"
      BY <1>3, <2>1, <2>3 DEF Hover!Tick
    <3> QED
      BY <2>1, <2>3, <3>1
  <2> QED
    BY <2>1, <2>2, <2>3
<1>4. CASE Hover!Callback
  BY <1>4 DEF Hover!Callback
<1>5. CASE Hover!DimWindow
  BY <1>5 DEF Hover!DimWindow
<1> QED
  BY <1>3, <1>4, <1>5

(* The rest leaves the dimming alone.                                      *)
LEMMA HoverOthersKeep ==
  ASSUME Hover!Dimming, UNCHANGED <<s1, s4, s5, s6, Hover!dimming, s14>>
  PROVE  Hover!Dimming'
<1>1. /\ UNCHANGED <<s1, s4, s5, s6, s14>>
      /\ UNCHANGED <<s7, s8, s9, s10>>
  BY DEF Hover!dimming
<1>2. Hover!Alternate' /\ Hover!Pointed' = Hover!Pointed
  BY <1>1 DEF Hover!Dimming, Hover!Alternate, Hover!Pointed
<1> QED
  BY <1>1, <1>2 DEF Hover!Dimming, Hover!Typed, Hover!Quiet, Hover!Opaque,
     Hover!Corrected, Hover!Waits

(* At first nothing has been heard and nothing queued.                     *)
LEMMA HoverDimmingInit ==
  ASSUME Hover!Init
  PROVE  Hover!Dimming
<1>1. s5 \in Seq(BOOLEAN) /\ Len(s5) = 0
  <2>1. s5 = <<>>
    BY DEF Hover!Init
  <2> QED
    BY <2>1, EmptySeq
<1>2. Hover!Alternate
  BY <1>1 DEF Hover!Alternate
<1> QED
  BY <1>2 DEF Hover!Init, Hover!Dimming, Hover!Typed, Hover!Quiet, Hover!Opaque,
     Hover!Corrected, Hover!Waits, Hover!NoTask

(* Every step keeps this.                                                  *)
LEMMA HoverDimmingKept ==
  ASSUME Hover!Dimming, [Hover!Next]_(Hover!vars)
  PROVE  Hover!Dimming'
<1>1. CASE Hover!Cross \/ Hover!EnterNotify \/ Hover!LeaveNotify \/ Hover!Tick \/ Hover!Callback \/ Hover!DimWindow
  BY <1>1, HoverCrossKeeps, HoverEnterKeeps, HoverLeaveKeeps, HoverDimmingKeeps
<1>2. CASE (\E p \in DOMAIN s2 : Hover!MotionNotify(p)) \/ Hover!ParseBegin \/ Hover!ParseEnd
  BY <1>2, HoverOthersKeep DEF Hover!MotionNotify, Hover!Change, Hover!ParseBegin,
     Hover!ParseEnd, Hover!pointer, Hover!dimming
<1>3. CASE UNCHANGED Hover!vars
  BY <1>3, HoverOthersKeep DEF Hover!vars
<1> QED
  BY <1>1, <1>2, <1>3 DEF Hover!Next

(* What it says of a bar that is at rest.                                  *)
LEMMA HoverInvDimmed ==
  ASSUME Hover!Dimming
  PROVE  Hover!DimmedAsPointed
BY DEF Hover!Dimming, Hover!Typed, Hover!Corrected, Hover!Opaque, Hover!Waits,
   Hover!Pointed, Hover!DimmedAsPointed

(* When all events are handled and the task has been called, the bar is    *)
(* dim if and only if the pointer is elsewhere, unless the pointer was     *)
(* hasty.                                                                  *)
THEOREM HoverDimmingCorrect == Hover!Spec => []Hover!DimmedAsPointed
<1>1. Hover!Init => Hover!Dimming
  BY HoverDimmingInit
<1>2. Hover!Dimming /\ [Hover!Next]_(Hover!vars) => Hover!Dimming'
  BY HoverDimmingKept
<1>3. Hover!Dimming => Hover!DimmedAsPointed
  BY HoverInvDimmed
<1> QED
  BY <1>1, <1>2, <1>3, PTL DEF Hover!Spec

-----------------------------------------------------------------------------
(* The cursor is chosen for what is under the pointer.                     *)
LEMMA HoverMotionPoints ==
  ASSUME Hover!Named, Hover!Pointing, NEW p, Hover!MotionNotify(p)
  PROVE  Hover!Pointing'
<1>1. UNCHANGED <<s1, s2, s3>> /\ s3 = "free" /\ s13' = p
  BY DEF Hover!MotionNotify
<1>2. ASSUME NEW name \in Hover!cursors, Hover!Change(name), Hover!Distinct
      PROVE  s11' = name /\ s12' = name
  BY <1>2 DEF Hover!Change, Hover!Pointing, Hover!cursors
<1>3. /\ {s1.click, s1.scroll} \subseteq Hover!cursors \cup {""} /\ s1.fallbacks \subseteq Hover!ActionKinds
      /\ "default" \in Hover!cursors
  BY DEF Hover!Named, Hover!Pointing, Hover!cursors
<1>4. ASSUME Hover!Distinct
      PROVE  /\ s11' = s12'
             /\ \/ "click" \in s2[p] /\ s12' = s1.click
                \/ s2[p] = {"scroll"} /\ s12' = s1.scroll
                \/ s2[p] = {} /\ "click" \in s1.fallbacks /\ s12' = s1.click
                \/ s2[p] = {} /\ s1.fallbacks = {"scroll"} /\ s12' = s1.scroll
                \/ s2[p] = {} /\ s1.fallbacks = {} /\ s12' = "default"
  <2>1. s1.click \in Hover!cursors /\ s1.scroll \in Hover!cursors
    BY <1>3, <1>4 DEF Hover!Distinct
  <2>2. s1.click # "" /\ s1.scroll # ""
    BY <1>4 DEF Hover!Distinct
  <2>3. "click" \in s1.fallbacks \/ s1.fallbacks = {"scroll"} \/ s1.fallbacks = {}
    BY <1>3 DEF Hover!ActionKinds
  <2> QED
    BY <1>2, <1>3, <1>4, <2>1, <2>2, <2>3 DEF Hover!MotionNotify
<1>5. Hover!CursorAsArea'
  <2>1. Hover!Distinct' <=> Hover!Distinct
    BY <1>1 DEF Hover!Distinct
  <2> QED
    BY <1>1, <1>4, <2>1 DEF Hover!CursorAsArea, Hover!Distinct
<1> QED
  BY <1>1, <1>4, <1>5 DEF Hover!Pointing, Hover!Distinct

(* The bar starts in the invariant of pointer and cursor.                   *)
LEMMA HoverInitInv ==
  ASSUME Hover!Init
  PROVE  Hover!Inv
BY HoverDimmingInit DEF Hover!Init, Hover!Inv, Hover!Pointing, Hover!CursorAsArea

(* Each step keeps the invariant.                                           *)
LEMMA HoverInvKept ==
  ASSUME Hover!Named, Hover!Inv, [Hover!Next]_(Hover!vars)
  PROVE  Hover!Inv'
<1>1. Hover!Dimming'
  BY HoverDimmingKept DEF Hover!Inv
<1>2. CASE \E p \in DOMAIN s2 : Hover!MotionNotify(p)
  BY <1>1, <1>2, HoverMotionPoints DEF Hover!Inv
<1>3. CASE Hover!ParseBegin
  BY <1>1, <1>3 DEF Hover!ParseBegin, Hover!Inv, Hover!Pointing, Hover!CursorAsArea,
     Hover!Distinct
<1>4. CASE Hover!ParseEnd
  BY <1>1, <1>4 DEF Hover!ParseEnd, Hover!pointer, Hover!Inv, Hover!Pointing,
     Hover!CursorAsArea, Hover!Distinct
<1>5. CASE Hover!Cross \/ Hover!EnterNotify \/ Hover!LeaveNotify \/ Hover!Tick \/ Hover!Callback \/ Hover!DimWindow \/ UNCHANGED Hover!vars
  <2>1. UNCHANGED <<s1, s2, s3, s11, s12, s13>>
    BY <1>5 DEF Hover!Cross, Hover!EnterNotify, Hover!LeaveNotify, Hover!Handles,
       Hover!Tick, Hover!Callback, Hover!DimWindow, Hover!vars, Hover!pointer
  <2> QED
    BY <1>1, <2>1 DEF Hover!Inv, Hover!Pointing, Hover!CursorAsArea, Hover!Distinct
<1> QED
  BY <1>2, <1>3, <1>4, <1>5 DEF Hover!Next

-----------------------------------------------------------------------------
(* XWorkspaces.                                                            *)
XWorkspaces == INSTANCE XWorkspaces WITH
  Windows <- DesktopWindows, MaxDesktops <- DesktopNumber,
  MaxSteps <- DesktopSteps, number <- s1, viewports <- s2,
  current <- s3, client_list <- s4, desk <- s5, urgent <- s6,
  steps <- s7, events <- s8, watched <- s9, pinned <- s10,
  m_desktop_count <- s11, m_current_desktop <- s12, m_clients <- s13,
  m_urgent_desktops <- s14, m_viewports <- s15, stale <- s16,
  corrupt <- s17

(* The states that a desktop can be given do not depend on those it had.   *)
LEMMA XWorkspacesStatesAgain ==
  ASSUME NEW views, NEW urgents, NEW active, NEW clients
  PROVE  LET states == XWorkspaces!WithStates(views, urgents, active, clients)
         IN /\ XWorkspaces!WithStates(states, urgents, active, clients) = states
            /\ XWorkspaces!OutOfBounds(states, urgents) <=> XWorkspaces!OutOfBounds(views, urgents)
            /\ XWorkspaces!Shape(states) = XWorkspaces!Shape(views)
<1> DEFINE states == XWorkspaces!WithStates(views, urgents, active, clients)
<1>1. /\ DOMAIN states = DOMAIN views
      /\ \A m \in DOMAIN views :
           states[m] = [d \in DOMAIN views[m] |->
                          IF d \in DOMAIN urgents THEN XWorkspaces!State(d, urgents, active, clients) ELSE "empty"]
  BY DEF XWorkspaces!WithStates
<1> HIDE DEF states
<1>2. \A m \in DOMAIN views : DOMAIN states[m] = DOMAIN views[m]
  BY <1>1
<1>3. XWorkspaces!Shape(states) = XWorkspaces!Shape(views)
  BY <1>1, <1>2 DEF XWorkspaces!Shape
<1>4. XWorkspaces!OutOfBounds(states, urgents) <=> XWorkspaces!OutOfBounds(views, urgents)
  BY <1>1, <1>2 DEF XWorkspaces!OutOfBounds
<1>5. XWorkspaces!WithStates(states, urgents, active, clients) = states
  <2> DEFINE again == XWorkspaces!WithStates(states, urgents, active, clients)
  <2>1. again = [m \in DOMAIN views |-> states[m]]
    <3>1. \A m \in DOMAIN views :
            [d \in DOMAIN states[m] |->
               IF d \in DOMAIN urgents THEN XWorkspaces!State(d, urgents, active, clients) ELSE "empty"] = states[m]
      BY <1>1, <1>2
    <3> QED
      BY <1>1, <3>1 DEF XWorkspaces!WithStates
  <2>2. states = [m \in DOMAIN views |-> states[m]]
    BY DEF states, XWorkspaces!WithStates
  <2> QED
    BY <2>1, <2>2
<1> QED
  BY <1>3, <1>4, <1>5 DEF states

(* As many desktops are looked up as there are.                            *)
LEMMA XWorkspacesUrgentDomain ==
  ASSUME NEW count
  PROVE  DOMAIN XWorkspaces!UrgentDesktops(count) = 0 .. count - 1
BY DEF XWorkspaces!UrgentDesktops

(* The module starts from what is published then.                         *)
LEMMA XWorkspacesInitInv ==
  ASSUME XWorkspaces!Init
  PROVE  XWorkspaces!Inv
<1>1. s8 = <<>> /\ Len(s8) = 0 /\ s8 \in Seq(XWorkspaces!Atoms)
  BY EmptySeq DEF XWorkspaces!Init
<1>2. s1 \in Nat /\ s2 \in Seq(XWorkspaces!Positions)
  <2>1. s1 \in Nat
    BY DEF XWorkspaces!Init
  <2>2. s2 = <<>> \/ s2 \in [1 .. s1 -> XWorkspaces!Positions]
    BY DEF XWorkspaces!Init, XWorkspaces!Positions
  <2> QED
    BY <2>1, <2>2, EmptySeq, SeqDef
<1> DEFINE views == XWorkspaces!Rebuilt(s1)
           urgents == XWorkspaces!UrgentDesktops(s1)
<1>3. s15 = XWorkspaces!WithStates(views, urgents, s3, XWorkspaces!ClientDesktops)
      /\ s14 = urgents /\ s13 = XWorkspaces!ClientDesktops
      /\ s11 = s1 /\ s12 = s3 /\ s9 = s4
  BY DEF XWorkspaces!Init
<1>4. ~XWorkspaces!OutOfBounds(views, urgents)
  <2>1. \A m \in DOMAIN views : DOMAIN views[m] \subseteq 0 .. s1 - 1
    <3>1. (IF Len(s2) > s1 THEN Len(s2) ELSE s1) = s1
      <4>1. CASE s2 = <<>>
        BY <1>2, <4>1, EmptySeq
      <4>2. CASE s2 \in [1 .. s1 -> XWorkspaces!Positions]
        BY <1>2, <4>2
      <4> QED
        BY <4>1, <4>2 DEF XWorkspaces!Init, XWorkspaces!Positions
    <3> QED
      BY <3>1 DEF XWorkspaces!Rebuilt
  <2> QED
    BY <2>1, XWorkspacesUrgentDomain DEF XWorkspaces!OutOfBounds
<1> HIDE DEF views, urgents
<1>5. XWorkspaces!ReadAsPublished
  BY <1>3, XWorkspacesStatesAgain DEF XWorkspaces!ReadAsPublished, views, urgents
<1>6. XWorkspaces!ShownAsRead
  <2>1. DOMAIN urgents = 0 .. s1 - 1
    BY XWorkspacesUrgentDomain DEF urgents
  <2> QED
    BY <1>3, <1>4, <2>1, XWorkspacesStatesAgain DEF XWorkspaces!ShownAsRead
<1> QED
  BY <1>1, <1>2, <1>5, <1>6 DEF XWorkspaces!Inv

(* What waits after a change was notified, ...                             *)
LEMMA XWorkspacesWaitsMore ==
  ASSUME s8 \in Seq(XWorkspaces!Atoms), NEW atom \in XWorkspaces!Atoms, s8' = Append(s8, atom)
  PROVE  /\ s8' \in Seq(XWorkspaces!Atoms)
         /\ \A atoms : XWorkspaces!Waits(atoms)' <=> XWorkspaces!Waits(atoms) \/ atom \in atoms
<1>1. s8' \in Seq(XWorkspaces!Atoms)
  BY AppendProperties
<1>2. ASSUME NEW atoms
      PROVE  (\E i \in 1 .. Len(s8') : s8'[i] \in atoms)
               <=> (\E i \in 1 .. Len(s8) : s8[i] \in atoms) \/ atom \in atoms
  BY HasAppend
<1> QED
  BY <1>1, <1>2 DEF XWorkspaces!Waits

(* ... and after one is handled.                                           *)
LEMMA XWorkspacesWaitsLess ==
  ASSUME s8 \in Seq(XWorkspaces!Atoms), s8 # <<>>, s8' = Tail(s8)
  PROVE  /\ s8' \in Seq(XWorkspaces!Atoms)
         /\ \A atoms : XWorkspaces!Waits(atoms) <=> Head(s8) \in atoms \/ XWorkspaces!Waits(atoms)'
<1>1. s8' \in Seq(XWorkspaces!Atoms)
  BY HasTail
<1>2. ASSUME NEW atoms
      PROVE  (\E i \in 1 .. Len(s8) : s8[i] \in atoms)
               <=> Head(s8) \in atoms \/ \E i \in 1 .. Len(s8') : s8'[i] \in atoms
  BY HasTail
<1> QED
  BY <1>1, <1>2 DEF XWorkspaces!Waits

(* The window manager changes what is published, and says so.              *)
LEMMA XWorkspacesManagerKeeps ==
  ASSUME XWorkspaces!Inv, UNCHANGED XWorkspaces!ModuleOnly, s1' \in Nat, s2' \in Seq(XWorkspaces!Positions),
         NEW atom \in XWorkspaces!Atoms, s8' \in {s8, Append(s8, atom)},
         \/ s1' = s1
         \/ s8' = Append(s8, atom) /\ atom = "number",
         \/ s3' = s3
         \/ s8' = Append(s8, atom) /\ atom = "current",
         UNCHANGED <<s2, s16>> \/ s16',
         \/ s4' = s4
         \/ s8' = Append(s8, atom) /\ atom = "clients",
         \/ UNCHANGED <<s5, s6>>
         \/ /\ s4' = s4 /\ s6' = s6
            /\ \/ \A w \in s4 : s5'[w] = s5[w]
               \/ ~(s4 \subseteq s9)
               \/ s8' = Append(s8, atom) /\ atom = "desktop"
         \/ /\ s4' = s4 /\ s5' = s5
            /\ \/ \A w \in s4 : (w \in s6') = (w \in s6)
               \/ ~(s4 \subseteq s9)
               \/ s8' = Append(s8, atom) /\ atom = "hints"
  PROVE  XWorkspaces!Inv'
<1>0. /\ UNCHANGED <<s9, s10, s11, s12, s13, s14,
                     s15, s17>>
  BY DEF XWorkspaces!ModuleOnly, XWorkspaces!data
<1>1. /\ s8' \in Seq(XWorkspaces!Atoms)
      /\ \A atoms : XWorkspaces!Waits(atoms) => XWorkspaces!Waits(atoms)'
      /\ s8' = Append(s8, atom) => \A atoms : atom \in atoms => XWorkspaces!Waits(atoms)'
  <2>1. CASE s8' = s8
    BY <2>1 DEF XWorkspaces!Inv, XWorkspaces!Waits
  <2>2. CASE s8' = Append(s8, atom)
    BY <2>2, XWorkspacesWaitsMore DEF XWorkspaces!Inv
  <2> QED
    BY <2>1, <2>2
<1>2. XWorkspaces!Waits({"number"})' \/ s11 = s1'
  BY <1>1 DEF XWorkspaces!Inv, XWorkspaces!ReadAsPublished
<1>3. XWorkspaces!Waits({"current"})' \/ s12 = s3'
  BY <1>1 DEF XWorkspaces!Inv, XWorkspaces!ReadAsPublished
<1>4. XWorkspaces!Waits({"clients"})' \/ s4' \subseteq s9
  BY <1>1 DEF XWorkspaces!Inv, XWorkspaces!ReadAsPublished
<1>5. XWorkspaces!Waits({"clients", "desktop"})' \/ s13 = XWorkspaces!ClientDesktops'
  <2>1. CASE XWorkspaces!Waits({"clients", "desktop"}) \/ XWorkspaces!Waits({"clients"})
    <3>1. XWorkspaces!Waits({"clients"}) => XWorkspaces!Waits({"clients", "desktop"})
      BY DEF XWorkspaces!Waits
    <3> QED
      BY <1>1, <2>1, <3>1
  <2>2. CASE s13 = XWorkspaces!ClientDesktops /\ s4 \subseteq s9
    <3>1. CASE s4' = s4 /\ \A w \in s4 : s5'[w] = s5[w]
      BY <2>2, <3>1 DEF XWorkspaces!ClientDesktops
    <3> QED
      BY <1>1, <2>2, <3>1
  <2> QED
    BY <2>1, <2>2 DEF XWorkspaces!Inv, XWorkspaces!ReadAsPublished
<1>6. XWorkspaces!Waits({"clients", "desktop", "hints"})' \/ s14 = XWorkspaces!UrgentDesktops(s11)'
  <2>1. CASE XWorkspaces!Waits({"clients", "desktop", "hints"}) \/ XWorkspaces!Waits({"clients"})
    <3>1. XWorkspaces!Waits({"clients"}) => XWorkspaces!Waits({"clients", "desktop", "hints"})
      BY DEF XWorkspaces!Waits
    <3> QED
      BY <1>1, <2>1, <3>1
  <2>2. CASE s14 = XWorkspaces!UrgentDesktops(s11) /\ s4 \subseteq s9
    <3>1. CASE /\ s4' = s4
               /\ \A w \in s4 : s5'[w] = s5[w] /\ (w \in s6') = (w \in s6)
      BY <1>0, <2>2, <3>1 DEF XWorkspaces!UrgentDesktops
    <3>2. \/ s4' = s4 /\ \A w \in s4 : s5'[w] = s5[w] /\ (w \in s6') = (w \in s6)
          \/ XWorkspaces!Waits({"clients", "desktop", "hints"})'
      BY <1>1, <2>2
    <3> QED
      BY <3>1, <3>2
  <2> QED
    BY <2>1, <2>2 DEF XWorkspaces!Inv, XWorkspaces!ReadAsPublished
<1>7. s16' \/ XWorkspaces!Waits({"number"})' \/ XWorkspaces!Shape(s15) = XWorkspaces!Shape(XWorkspaces!Rebuilt(s1))'
  <2>1. CASE s1' = s1 /\ s2' = s2
    <3>1. XWorkspaces!Rebuilt(s1)' = XWorkspaces!Rebuilt(s1)
      BY <1>0, <2>1 DEF XWorkspaces!Rebuilt, XWorkspaces!Position
    <3> QED
      BY <1>1, <2>1, <3>1 DEF XWorkspaces!Inv, XWorkspaces!ReadAsPublished,
         XWorkspaces!Shape
  <2> QED
    BY <1>1, <2>1
<1>8. XWorkspaces!ShownAsRead'
  BY <1>0 DEF XWorkspaces!Inv, XWorkspaces!ShownAsRead, XWorkspaces!OutOfBounds,
     XWorkspaces!WithStates, XWorkspaces!State
<1>9. XWorkspaces!ReadAsPublished'
  BY <1>0, <1>2, <1>3, <1>4, <1>5, <1>6, <1>7 DEF XWorkspaces!ReadAsPublished,
     XWorkspaces!Shape
<1> QED
  BY <1>1, <1>8, <1>9 DEF XWorkspaces!Inv

(* ... with one property at a time.                                        *)
LEMMA XWorkspacesSetKeeps ==
  ASSUME XWorkspaces!Inv,
         \/ XWorkspaces!SetNumber \/ XWorkspaces!SetViewports \/ XWorkspaces!SetCurrent
         \/ \E w \in DesktopWindows : XWorkspaces!SetClients(w) \/ XWorkspaces!SetDesktop(w) \/ XWorkspaces!SetHints(w)
  PROVE  XWorkspaces!Inv'
<1>0. s1 \in Nat /\ s2 \in Seq(XWorkspaces!Positions) /\ (XWorkspaces!Waits({"clients"}) \/ s4 \subseteq s9)
      /\ s8 \in Seq(XWorkspaces!Atoms)
  BY DEF XWorkspaces!Inv, XWorkspaces!ReadAsPublished
<1>1. CASE XWorkspaces!SetNumber
  <2>1. s1' \in Nat
    BY <1>1 DEF XWorkspaces!SetNumber
  <2>2. /\ UNCHANGED <<s2, s3, s4, s5, s6, s16>> /\ UNCHANGED XWorkspaces!ModuleOnly
        /\ s8' = Append(s8, "number") /\ "number" \in XWorkspaces!Atoms
    BY <1>1 DEF XWorkspaces!SetNumber, XWorkspaces!Notify, XWorkspaces!Atoms
  <2> QED
    BY <1>0, <2>1, <2>2, XWorkspacesManagerKeeps
<1>2. CASE XWorkspaces!SetViewports
  <2>1. s2' \in Seq(XWorkspaces!Positions)
    <3>1. s2' \in [1 .. s1 -> XWorkspaces!Positions]
      BY <1>2 DEF XWorkspaces!SetViewports
    <3> QED
      BY <1>0, <3>1, SeqDef
  <2>2. /\ UNCHANGED <<s1, s3, s4, s5, s6, s8>> /\ UNCHANGED XWorkspaces!ModuleOnly
        /\ s16' /\ "number" \in XWorkspaces!Atoms
    BY <1>2 DEF XWorkspaces!SetViewports, XWorkspaces!Atoms
  <2> QED
    BY <1>0, <2>1, <2>2, XWorkspacesManagerKeeps
<1>3. CASE XWorkspaces!SetCurrent
  <2>1. /\ UNCHANGED <<s1, s2, s4, s5, s6, s16>> /\ UNCHANGED XWorkspaces!ModuleOnly
        /\ s8' = Append(s8, "current") /\ "current" \in XWorkspaces!Atoms
    BY <1>3 DEF XWorkspaces!SetCurrent, XWorkspaces!Notify, XWorkspaces!Atoms
  <2> QED
    BY <1>0, <2>1, XWorkspacesManagerKeeps
<1>4. ASSUME NEW w \in DesktopWindows, XWorkspaces!SetClients(w)
      PROVE  XWorkspaces!Inv'
  <2>1. /\ UNCHANGED <<s1, s2, s3, s5, s6, s16>> /\ UNCHANGED XWorkspaces!ModuleOnly
        /\ s8' = Append(s8, "clients") /\ "clients" \in XWorkspaces!Atoms
    BY <1>4 DEF XWorkspaces!SetClients, XWorkspaces!Notify, XWorkspaces!Atoms
  <2> QED
    BY <1>0, <2>1, XWorkspacesManagerKeeps
<1>5. ASSUME NEW w \in DesktopWindows, XWorkspaces!SetDesktop(w)
      PROVE  XWorkspaces!Inv'
  <2>1. /\ UNCHANGED <<s1, s2, s3, s4, s6, s16>> /\ UNCHANGED XWorkspaces!ModuleOnly
        /\ s8' = (IF w \in s9 THEN Append(s8, "desktop") ELSE s8) /\ "desktop" \in XWorkspaces!Atoms
    BY <1>5 DEF XWorkspaces!SetDesktop, XWorkspaces!NotifyClient, XWorkspaces!Atoms
  <2>2. \E d : s5' = [s5 EXCEPT ![w] = d]
    BY <1>5 DEF XWorkspaces!SetDesktop
  <2>3. w \notin s4 => \A v \in s4 : s5'[v] = s5[v]
    BY <2>2
  <2> QED
    BY <1>0, <2>1, <2>3, XWorkspacesManagerKeeps
<1>6. ASSUME NEW w \in DesktopWindows, XWorkspaces!SetHints(w)
      PROVE  XWorkspaces!Inv'
  <2>1. /\ UNCHANGED <<s1, s2, s3, s4, s5, s16>> /\ UNCHANGED XWorkspaces!ModuleOnly
        /\ s8' = (IF w \in s9 THEN Append(s8, "hints") ELSE s8) /\ "hints" \in XWorkspaces!Atoms
    BY <1>6 DEF XWorkspaces!SetHints, XWorkspaces!NotifyClient, XWorkspaces!Atoms
  <2>2. s6' = IF w \in s6 THEN s6 \ {w} ELSE s6 \cup {w}
    BY <1>6 DEF XWorkspaces!SetHints
  <2>3. w \notin s4 => \A v \in s4 : (v \in s6') = (v \in s6)
    BY <2>2
  <2> QED
    BY <1>0, <2>1, <2>3, XWorkspacesManagerKeeps
<1> QED
  BY <1>1, <1>2, <1>3, <1>4, <1>5, <1>6

(* A click or the wheel asks the window manager for a desktop.             *)
LEMMA XWorkspacesFocusKeeps ==
  ASSUME XWorkspaces!Inv, NEW d, XWorkspaces!Focus(d)
  PROVE  XWorkspaces!Inv'
<1>1. /\ UNCHANGED <<s1, s2, s4, s5, s6, s16>> /\ UNCHANGED XWorkspaces!ModuleOnly
      /\ s8' = (IF s3' # s3 THEN Append(s8, "current") ELSE s8) /\ "current" \in XWorkspaces!Atoms
  BY DEF XWorkspaces!Focus, XWorkspaces!Atoms
<1>2. s1 \in Nat /\ s2 \in Seq(XWorkspaces!Positions)
  BY DEF XWorkspaces!Inv
<1> QED
  BY <1>1, <1>2, XWorkspacesManagerKeeps

(* A handler reads what its event is about.                                *)
LEMMA XWorkspacesHandleKeeps ==
  ASSUME XWorkspaces!Inv, UNCHANGED <<XWorkspaces!wm, s10>>, s8 # <<>>, s8' = Tail(s8),
         NEW views, XWorkspaces!Shape(views) = XWorkspaces!Shape(s15) \/ views = XWorkspaces!Rebuilt(s1),
         XWorkspaces!Rebuild(views), UNCHANGED s16 \/ views = XWorkspaces!Rebuilt(s1),
         \/ s11' = s1 /\ views = XWorkspaces!Rebuilt(s1)
         \/ s11' = s11 /\ Head(s8) # "number" /\ XWorkspaces!Shape(views) = XWorkspaces!Shape(s15),
         \/ s12' = s3
         \/ s12' = s12 /\ Head(s8) # "current",
         \/ s9' = s9 \cup s4
         \/ s9' = s9 /\ Head(s8) # "clients",
         \/ s13' = XWorkspaces!ClientDesktops
         \/ s13' = s13 /\ Head(s8) \notin {"clients", "desktop"},
         \/ s14' = XWorkspaces!UrgentDesktops(s11')
         \/ /\ s14' = s14 /\ Head(s8) \notin {"clients", "desktop", "hints"}
            /\ s11' = s11
  PROVE  XWorkspaces!Inv'
<1>1. /\ s8' \in Seq(XWorkspaces!Atoms)
      /\ \A atoms : XWorkspaces!Waits(atoms) <=> Head(s8) \in atoms \/ XWorkspaces!Waits(atoms)'
  BY XWorkspacesWaitsLess DEF XWorkspaces!Inv
<1>2. UNCHANGED <<s1, s2, s3, s4, s5, s6>>
  BY DEF XWorkspaces!wm
<1>3. /\ s15' = XWorkspaces!WithStates(views, s14', s12', s13')
      /\ s17' = XWorkspaces!OutOfBounds(views, s14')
  BY DEF XWorkspaces!Rebuild
<1>4. /\ XWorkspaces!WithStates(s15', s14', s12', s13') = s15'
      /\ XWorkspaces!OutOfBounds(s15', s14') <=> XWorkspaces!OutOfBounds(views, s14')
      /\ XWorkspaces!Shape(s15') = XWorkspaces!Shape(views)
  BY <1>3, XWorkspacesStatesAgain
<1>5. XWorkspaces!Rebuilt(s1)' = XWorkspaces!Rebuilt(s1) /\ XWorkspaces!ClientDesktops' = XWorkspaces!ClientDesktops
      /\ \A count : XWorkspaces!UrgentDesktops(count)' = XWorkspaces!UrgentDesktops(count)
  BY <1>2 DEF XWorkspaces!Rebuilt, XWorkspaces!Position, XWorkspaces!ClientDesktops,
     XWorkspaces!UrgentDesktops
<1>6. XWorkspaces!ShownAsRead'
  <2>1. DOMAIN s14' = 0 .. s11' - 1
    BY XWorkspacesUrgentDomain DEF XWorkspaces!Inv, XWorkspaces!ShownAsRead
  <2> QED
    BY <1>3, <1>4, <2>1 DEF XWorkspaces!ShownAsRead
<1>7. XWorkspaces!ReadAsPublished'
  <2>1. XWorkspaces!Waits({"number"})' \/ s11' = s1
    BY <1>1 DEF XWorkspaces!Inv, XWorkspaces!ReadAsPublished
  <2>2. XWorkspaces!Waits({"current"})' \/ s12' = s3
    BY <1>1 DEF XWorkspaces!Inv, XWorkspaces!ReadAsPublished
  <2>3. XWorkspaces!Waits({"clients"})' \/ s4 \subseteq s9'
    BY <1>1 DEF XWorkspaces!Inv, XWorkspaces!ReadAsPublished
  <2>4. XWorkspaces!Waits({"clients", "desktop"})' \/ s13' = XWorkspaces!ClientDesktops
    BY <1>1 DEF XWorkspaces!Inv, XWorkspaces!ReadAsPublished
  <2>5. XWorkspaces!Waits({"clients", "desktop", "hints"})' \/ s14' = XWorkspaces!UrgentDesktops(s11')
    BY <1>1 DEF XWorkspaces!Inv, XWorkspaces!ReadAsPublished
  <2>6. s16' \/ XWorkspaces!Waits({"number"})' \/ XWorkspaces!Shape(s15') = XWorkspaces!Shape(XWorkspaces!Rebuilt(s1))
    BY <1>1, <1>4 DEF XWorkspaces!Inv, XWorkspaces!ReadAsPublished
  <2>7. XWorkspaces!UrgentDesktops(s11)' = XWorkspaces!UrgentDesktops(s11')
    BY <1>2 DEF XWorkspaces!UrgentDesktops
  <2> QED
    BY <1>2, <1>5, <2>1, <2>2, <2>3, <2>4, <2>5, <2>6, <2>7 DEF
       XWorkspaces!ReadAsPublished, XWorkspaces!Shape
<1> QED
  BY <1>1, <1>2, <1>6, <1>7 DEF XWorkspaces!Inv

(* Every step keeps the invariant.                                         *)
LEMMA XWorkspacesInvKept ==
  ASSUME XWorkspaces!Inv, [XWorkspaces!Next]_(XWorkspaces!vars)
  PROVE  XWorkspaces!Inv'
<1>1. CASE XWorkspaces!SetNumber \/ XWorkspaces!SetViewports \/ XWorkspaces!SetCurrent
           \/ \E w \in DesktopWindows : XWorkspaces!SetClients(w) \/ XWorkspaces!SetDesktop(w) \/ XWorkspaces!SetHints(w)
  BY <1>1, XWorkspacesSetKeeps
<1>2. CASE XWorkspaces!ActionFocus \/ XWorkspaces!ActionScroll
  BY <1>2, XWorkspacesFocusKeeps DEF XWorkspaces!ActionFocus, XWorkspaces!ActionScroll
<1>3. CASE XWorkspaces!HandleClients
  BY <1>3, XWorkspacesHandleKeeps DEF XWorkspaces!HandleClients, XWorkspaces!Take,
     XWorkspaces!RebuildClientlist
<1>4. CASE XWorkspaces!HandleNumber
  BY <1>4, XWorkspacesHandleKeeps DEF XWorkspaces!HandleNumber, XWorkspaces!Take,
     XWorkspaces!RebuildClientlist
<1>5. CASE XWorkspaces!HandleHints
  BY <1>5, XWorkspacesHandleKeeps DEF XWorkspaces!HandleHints, XWorkspaces!Take
<1>6. CASE XWorkspaces!HandleCurrent
  <2>1. /\ UNCHANGED <<XWorkspaces!wm, s9, s10, s11, s13, s14, s16>>
        /\ s12' = s3 /\ s8 # <<>> /\ s8' = Tail(s8) /\ Head(s8) = "current"
    BY <1>6 DEF XWorkspaces!HandleCurrent, XWorkspaces!Take
  <2>2. CASE s3 < s11
    <3>1. XWorkspaces!Rebuild(s15)
      BY <1>6, <2>2 DEF XWorkspaces!HandleCurrent
    <3> QED
      BY <2>1, <3>1, XWorkspacesHandleKeeps
  <2>3. CASE ~(s3 < s11)
    <3>1. UNCHANGED <<s15, s17>>
      BY <1>6, <2>3 DEF XWorkspaces!HandleCurrent
    <3>2. /\ s8' \in Seq(XWorkspaces!Atoms)
          /\ \A atoms : XWorkspaces!Waits(atoms) <=> Head(s8) \in atoms \/ XWorkspaces!Waits(atoms)'
      BY <2>1, XWorkspacesWaitsLess DEF XWorkspaces!Inv
    <3>3. UNCHANGED <<s1, s2, s3, s4, s5, s6>>
      BY <2>1 DEF XWorkspaces!wm
    <3>4. XWorkspaces!ShownAsRead'
      BY <2>1, <2>3, <3>1 DEF XWorkspaces!Inv, XWorkspaces!ShownAsRead,
         XWorkspaces!OutOfBounds
    <3>5. XWorkspaces!Rebuilt(s1)' = XWorkspaces!Rebuilt(s1) /\ XWorkspaces!ClientDesktops' = XWorkspaces!ClientDesktops
          /\ XWorkspaces!UrgentDesktops(s11)' = XWorkspaces!UrgentDesktops(s11)
      BY <2>1, <3>3 DEF XWorkspaces!Rebuilt, XWorkspaces!Position,
         XWorkspaces!ClientDesktops, XWorkspaces!UrgentDesktops
    <3>6. /\ XWorkspaces!Waits({"number"}) => XWorkspaces!Waits({"number"})'
          /\ XWorkspaces!Waits({"clients"}) => XWorkspaces!Waits({"clients"})'
          /\ XWorkspaces!Waits({"clients", "desktop"}) => XWorkspaces!Waits({"clients", "desktop"})'
          /\ XWorkspaces!Waits({"clients", "desktop", "hints"}) => XWorkspaces!Waits({"clients", "desktop", "hints"})'
      BY <2>1, <3>2
    <3>7. XWorkspaces!ReadAsPublished'
      BY <2>1, <3>1, <3>3, <3>5, <3>6 DEF XWorkspaces!Inv,
         XWorkspaces!ReadAsPublished, XWorkspaces!Shape
    <3> QED
      BY <3>2, <3>3, <3>4, <3>7 DEF XWorkspaces!Inv
  <2> QED
    BY <2>2, <2>3
<1>7. CASE UNCHANGED XWorkspaces!vars
  <2>1. UNCHANGED <<XWorkspaces!wm, s9, s10, XWorkspaces!data, s16, s17, s8>>
    BY <1>7 DEF XWorkspaces!vars
  <2>2. UNCHANGED <<s1, s2, s3, s4, s5, s6>>
    BY <2>1 DEF XWorkspaces!wm
  <2>3. UNCHANGED <<s11, s12, s13, s14, s15>>
    BY <2>1 DEF XWorkspaces!data
  <2>4. XWorkspaces!Rebuilt(s1)' = XWorkspaces!Rebuilt(s1) /\ XWorkspaces!ClientDesktops' = XWorkspaces!ClientDesktops
        /\ XWorkspaces!UrgentDesktops(s11)' = XWorkspaces!UrgentDesktops(s11)
    BY <2>1, <2>2, <2>3 DEF XWorkspaces!Rebuilt, XWorkspaces!Position,
       XWorkspaces!ClientDesktops, XWorkspaces!UrgentDesktops
  <2>5. XWorkspaces!ReadAsPublished'
    BY <2>1, <2>2, <2>3, <2>4 DEF XWorkspaces!Inv, XWorkspaces!ReadAsPublished,
       XWorkspaces!Shape, XWorkspaces!Waits
  <2>6. XWorkspaces!ShownAsRead'
    BY <2>1, <2>3 DEF XWorkspaces!Inv, XWorkspaces!ShownAsRead,
       XWorkspaces!OutOfBounds, XWorkspaces!WithStates, XWorkspaces!State
  <2> QED
    BY <2>1, <2>2, <2>5, <2>6 DEF XWorkspaces!Inv
<1> QED
  BY <1>1, <1>2, <1>3, <1>4, <1>5, <1>6, <1>7 DEF XWorkspaces!Next

(* With no event on its way, what is shown is what is published.           *)
LEMMA XWorkspacesInvPublished ==
  ASSUME XWorkspaces!Inv
  PROVE  XWorkspaces!ShownAsPublished
<1> SUFFICES ASSUME s8 = <<>>, ~s17, ~s16
             PROVE  /\ XWorkspaces!Indexes = {d \in 0 .. s1 - 1 : \E e \in XWorkspaces!ToShow : XWorkspaces!Sum(XWorkspaces!Position(d)) = XWorkspaces!Sum(XWorkspaces!Position(e))}
                    /\ \A m \in DOMAIN s15 : \A d \in DOMAIN s15[m] :
                         \/ s15[m][d] = XWorkspaces!State(d, XWorkspaces!UrgentDesktops(s1), s3, XWorkspaces!ClientDesktops)
                         \/ ~(s3 < s1)
  BY DEF XWorkspaces!ShownAsPublished
<1>1. \A atoms : ~XWorkspaces!Waits(atoms)
  BY DEF XWorkspaces!Waits
<1>2. /\ s11 = s1 /\ s12 = s3 /\ s13 = XWorkspaces!ClientDesktops
      /\ s14 = XWorkspaces!UrgentDesktops(s1) /\ XWorkspaces!Shape(s15) = XWorkspaces!Shape(XWorkspaces!Rebuilt(s1))
  BY <1>1 DEF XWorkspaces!Inv, XWorkspaces!ReadAsPublished
<1>3. \A m \in DOMAIN s15 : \A d \in DOMAIN s15[m] : d \in 0 .. s1 - 1
  BY <1>2 DEF XWorkspaces!Inv, XWorkspaces!ShownAsRead, XWorkspaces!OutOfBounds
<1>4. XWorkspaces!Indexes = {d \in 0 .. s1 - 1 : \E e \in XWorkspaces!ToShow : XWorkspaces!Sum(XWorkspaces!Position(d)) = XWorkspaces!Sum(XWorkspaces!Position(e))}
  <2> DEFINE rebuilt == XWorkspaces!Rebuilt(s1)
             all == 0 .. (IF Len(s2) > s1 THEN Len(s2) ELSE s1) - 1
  <2>1. DOMAIN s15 = DOMAIN rebuilt /\ \A m \in DOMAIN rebuilt : DOMAIN s15[m] = DOMAIN rebuilt[m]
    <3>1. DOMAIN XWorkspaces!Shape(s15) = DOMAIN s15 /\ DOMAIN XWorkspaces!Shape(rebuilt) = DOMAIN rebuilt
      BY DEF XWorkspaces!Shape
    <3>2. \A m \in DOMAIN rebuilt : XWorkspaces!Shape(rebuilt)[m] = DOMAIN rebuilt[m]
      BY DEF XWorkspaces!Shape
    <3>3. \A m \in DOMAIN s15 : XWorkspaces!Shape(s15)[m] = DOMAIN s15[m]
      BY DEF XWorkspaces!Shape
    <3> HIDE DEF rebuilt
    <3> QED
      BY <1>2, <3>1, <3>2, <3>3 DEF rebuilt
  <2>2. /\ DOMAIN rebuilt = {XWorkspaces!Position(d) : d \in all} \cap s10
        /\ \A m \in DOMAIN rebuilt : DOMAIN rebuilt[m] = {d \in all : XWorkspaces!Sum(XWorkspaces!Position(d)) = XWorkspaces!Sum(m)}
    BY DEF XWorkspaces!Rebuilt
  <2>3. 0 .. s1 - 1 \subseteq all
    BY DEF XWorkspaces!Inv
  <2> HIDE DEF rebuilt, all
  <2>4. ASSUME NEW d \in XWorkspaces!Indexes
        PROVE  d \in 0 .. s1 - 1 /\ \E e \in XWorkspaces!ToShow : XWorkspaces!Sum(XWorkspaces!Position(d)) = XWorkspaces!Sum(XWorkspaces!Position(e))
    <3>1. PICK m \in DOMAIN s15 : d \in DOMAIN s15[m]
      BY <2>4 DEF XWorkspaces!Indexes
    <3>2. d \in 0 .. s1 - 1 /\ XWorkspaces!Sum(XWorkspaces!Position(d)) = XWorkspaces!Sum(m)
      BY <1>3, <2>1, <2>2, <3>1
    <3>3. PICK e \in all : XWorkspaces!Position(e) = m /\ m \in s10
      BY <2>1, <2>2
    <3>4. e \in DOMAIN s15[m]
      BY <2>1, <2>2, <3>3
    <3>5. e \in XWorkspaces!ToShow
      BY <1>3, <3>3, <3>4 DEF XWorkspaces!ToShow
    <3> QED
      BY <3>2, <3>3, <3>5
  <2>5. ASSUME NEW d \in 0 .. s1 - 1, NEW e \in XWorkspaces!ToShow, XWorkspaces!Sum(XWorkspaces!Position(d)) = XWorkspaces!Sum(XWorkspaces!Position(e))
        PROVE  d \in XWorkspaces!Indexes
    <3>1. e \in all /\ d \in all /\ XWorkspaces!Position(e) \in s10
      BY <2>3 DEF XWorkspaces!ToShow
    <3>2. XWorkspaces!Position(e) \in DOMAIN rebuilt /\ d \in DOMAIN rebuilt[XWorkspaces!Position(e)]
      BY <2>2, <2>5, <3>1
    <3> QED
      BY <2>1, <3>2 DEF XWorkspaces!Indexes
  <2> QED
    BY <2>4, <2>5
<1>5. ASSUME NEW m \in DOMAIN s15, NEW d \in DOMAIN s15[m], s3 < s1
      PROVE  s15[m][d] = XWorkspaces!State(d, XWorkspaces!UrgentDesktops(s1), s3, XWorkspaces!ClientDesktops)
  <2>1. s15 = XWorkspaces!WithStates(s15, XWorkspaces!UrgentDesktops(s1), s3, XWorkspaces!ClientDesktops)
    BY <1>2, <1>5 DEF XWorkspaces!Inv, XWorkspaces!ShownAsRead
  <2>2. d \in DOMAIN XWorkspaces!UrgentDesktops(s1)
    BY <1>3, XWorkspacesUrgentDomain
  <2>3. XWorkspaces!WithStates(s15, XWorkspaces!UrgentDesktops(s1), s3, XWorkspaces!ClientDesktops)[m][d]
          = XWorkspaces!State(d, XWorkspaces!UrgentDesktops(s1), s3, XWorkspaces!ClientDesktops)
    BY <2>2 DEF XWorkspaces!WithStates
  <2> QED
    BY <2>1, <2>3
<1> QED
  BY <1>4, <1>5

-----------------------------------------------------------------------------
(* Battery.                                                                *)
Battery == INSTANCE Battery WITH
  Configs <- BatteryConfigs, Full <- BatteryFull, MaxOps <- BatteryOps,
  conf <- s1, charge <- s2, adapter <- s3, runner <- s4,
  first <- s5, watching <- s6, events <- s7, due <- s8, read <- s9,
  m_state <- s10, m_percentage <- s11, m_unchanged <- s12,
  shown <- s13, calm <- s14, quiet <- s15, cause <- s16, ops <- s17

(* A battery's charge is a number.                                         *)
ASSUME BatteryScale == Battery!Scaled

(* At first the module has read once and shown nothing.                    *)
LEMMA BatteryInitInv ==
  ASSUME Battery!Init
  PROVE  Battery!Inv
  BY DEF Battery!Init, Battery!Inv, Battery!ReadRight, Battery!Told, Battery!Counted,
     Battery!Unwatched, Battery!Nothing, Battery!SKIP_N_UNCHANGED

(* Every step keeps the invariant.                                         *)
LEMMA BatteryInvKept ==
  ASSUME Battery!Inv, [Battery!Next]_(Battery!vars)
  PROVE  Battery!Inv'
<1>1. DOMAIN s9' = {"charge", "online"}
  <2> USE DEF Battery!Inv, Battery!battery, Battery!values, Battery!Nothing
  <2>1. CASE Battery!Attach
    BY <2>1 DEF Battery!Attach
  <2>2. CASE Battery!Wait
    BY <2>2 DEF Battery!Wait
  <2>3. CASE Battery!ReadCharge
    BY <2>3 DEF Battery!ReadCharge
  <2>4. CASE Battery!ReadAdapter
    BY <2>4 DEF Battery!ReadAdapter
  <2>5. CASE Battery!OnEvent
    BY <2>5 DEF Battery!OnEvent
  <2>6. CASE Battery!Idle
    BY <2>6 DEF Battery!Idle
  <2>7. CASE Battery!Awake
    BY <2>7 DEF Battery!Awake
  <2>8. CASE Battery!Elapse
    BY <2>8 DEF Battery!Elapse
  <2>9. CASE Battery!Battery
    BY <2>9 DEF Battery!Battery
  <2>10. CASE Battery!Other
    BY <2>10 DEF Battery!Other
  <2>11. CASE UNCHANGED Battery!vars
    BY <2>11 DEF Battery!vars
  <2> QED
    BY <2>1, <2>2, <2>3, <2>4, <2>5, <2>6, <2>7, <2>8, <2>9, <2>10, <2>11 DEF
       Battery!Next, Battery!RunnerStep
<1>2. Battery!ReadRight'
  <2> USE DEF Battery!Inv, Battery!ReadRight, Battery!battery, Battery!values, Battery!Percentage, Battery!State, Battery!FullAt, Battery!LowAt
  <2>1. CASE Battery!Attach
    BY <2>1 DEF Battery!Attach
  <2>2. CASE Battery!Wait
    BY <2>2 DEF Battery!Wait
  <2>3. CASE Battery!ReadCharge
    BY <2>3 DEF Battery!ReadCharge
  <2>4. CASE Battery!ReadAdapter
    BY <2>4 DEF Battery!ReadAdapter
  <2>5. CASE Battery!OnEvent
    BY <2>5 DEF Battery!OnEvent, Battery!Skips, Battery!Broadcast
  <2>6. CASE Battery!Idle
    BY <2>6 DEF Battery!Idle
  <2>7. CASE Battery!Awake
    BY <2>7 DEF Battery!Awake
  <2>8. CASE Battery!Elapse
    BY <2>8 DEF Battery!Elapse
  <2>9. CASE Battery!Battery
    BY <2>9 DEF Battery!Battery
  <2>10. CASE Battery!Other
    BY <2>10 DEF Battery!Other
  <2>11. CASE UNCHANGED Battery!vars
    BY <2>11 DEF Battery!vars
  <2> QED
    BY <2>1, <2>2, <2>3, <2>4, <2>5, <2>6, <2>7, <2>8, <2>9, <2>10, <2>11 DEF
       Battery!Next, Battery!RunnerStep
<1>3. Battery!Told'
  <2> USE DEF Battery!Inv, Battery!Told, Battery!battery, Battery!values, Battery!Format, Battery!ClampPercentage, Battery!FullAt
  <2>1. CASE Battery!Attach
    BY <2>1 DEF Battery!Attach
  <2>2. CASE Battery!Wait
    BY <2>2 DEF Battery!Wait
  <2>3. CASE Battery!ReadCharge
    BY <2>3 DEF Battery!ReadCharge
  <2>4. CASE Battery!ReadAdapter
    BY <2>4 DEF Battery!ReadAdapter
  <2>5. CASE Battery!OnEvent
    BY <2>5 DEF Battery!OnEvent, Battery!Skips, Battery!Broadcast
  <2>6. CASE Battery!Idle
    BY <2>6 DEF Battery!Idle
  <2>7. CASE Battery!Awake
    BY <2>7 DEF Battery!Awake
  <2>8. CASE Battery!Elapse
    BY <2>8 DEF Battery!Elapse
  <2>9. CASE Battery!Battery
    BY <2>9 DEF Battery!Battery
  <2>10. CASE Battery!Other
    BY <2>10 DEF Battery!Other
  <2>11. CASE UNCHANGED Battery!vars
    BY <2>11 DEF Battery!vars
  <2> QED
    BY <2>1, <2>2, <2>3, <2>4, <2>5, <2>6, <2>7, <2>8, <2>9, <2>10, <2>11 DEF
       Battery!Next, Battery!RunnerStep
<1>4. Battery!Counted'
  <2> USE DEF Battery!Inv, Battery!Counted, Battery!SKIP_N_UNCHANGED, Battery!battery, Battery!values
  <2>1. CASE Battery!Attach
    BY <2>1 DEF Battery!Attach
  <2>2. CASE Battery!Wait
    BY <2>2 DEF Battery!Wait
  <2>3. CASE Battery!ReadCharge
    BY <2>3 DEF Battery!ReadCharge
  <2>4. CASE Battery!ReadAdapter
    BY <2>4 DEF Battery!ReadAdapter
  <2>5. CASE Battery!OnEvent
    BY <2>5 DEF Battery!OnEvent, Battery!Skips
  <2>6. CASE Battery!Idle
    BY <2>6 DEF Battery!Idle
  <2>7. CASE Battery!Awake
    BY <2>7 DEF Battery!Awake
  <2>8. CASE Battery!Elapse
    BY <2>8 DEF Battery!Elapse
  <2>9. CASE Battery!Battery
    BY <2>9 DEF Battery!Battery
  <2>10. CASE Battery!Other
    BY <2>10 DEF Battery!Other
  <2>11. CASE UNCHANGED Battery!vars
    BY <2>11 DEF Battery!vars
  <2> QED
    BY <2>1, <2>2, <2>3, <2>4, <2>5, <2>6, <2>7, <2>8, <2>9, <2>10, <2>11 DEF
       Battery!Next, Battery!RunnerStep
<1>5. Battery!Unwatched'
  <2> USE DEF Battery!Inv, Battery!Unwatched, Battery!Told, Battery!Touch, Battery!battery, Battery!values
  <2>1. CASE Battery!Attach
    BY <2>1 DEF Battery!Attach
  <2>2. CASE Battery!Wait
    BY <2>2 DEF Battery!Wait
  <2>3. CASE Battery!ReadCharge
    BY <2>3 DEF Battery!ReadCharge
  <2>4. CASE Battery!ReadAdapter
    BY <2>4 DEF Battery!ReadAdapter
  <2>5. CASE Battery!OnEvent
    BY <2>5 DEF Battery!OnEvent
  <2>6. CASE Battery!Idle
    BY <2>6 DEF Battery!Idle
  <2>7. CASE Battery!Awake
    BY <2>7 DEF Battery!Awake
  <2>8. CASE Battery!Elapse
    BY <2>8 DEF Battery!Elapse
  <2>9. CASE Battery!Battery
    BY <2>9 DEF Battery!Battery
  <2>10. CASE Battery!Other
    BY <2>10 DEF Battery!Other
  <2>11. CASE UNCHANGED Battery!vars
    BY <2>11 DEF Battery!vars
  <2> QED
    BY <2>1, <2>2, <2>3, <2>4, <2>5, <2>6, <2>7, <2>8, <2>9, <2>10, <2>11 DEF
       Battery!Next, Battery!RunnerStep
<1> QED
  BY <1>1, <1>2, <1>3, <1>4, <1>5 DEF Battery!Inv

(* What it says of the bar.                                                *)
LEMMA BatteryInvShown ==
  ASSUME Battery!Inv
  PROVE  Battery!ShownAsRead /\ Battery!RefreshedInTime /\ Battery!NoEcho
<1>1. Battery!ShownAsRead
  BY DEF Battery!Inv, Battery!ReadRight, Battery!Told, Battery!ShownAsRead,
     Battery!Right
<1>2. Battery!RefreshedInTime
  BY DEF Battery!Inv, Battery!Counted, Battery!RefreshedInTime,
     Battery!SKIP_N_UNCHANGED
<1>3. Battery!NoEcho
  BY DEF Battery!Inv, Battery!Unwatched, Battery!NoEcho
<1> QED
  BY <1>1, <1>2, <1>3

(* A longer way takes no less time, ...                                    *)
LEMMA BatteryFartherLater ==
  ASSUME Battery!Scaled, NEW a \in Nat, NEW b \in Nat, a <= b, NEW rate \in {0, 1, 4, 9}, NEW volt \in {1, 2}
  PROVE  /\ Battery!Remaining(rate, volt, a, BatteryFull, FALSE) <= Battery!Remaining(rate, volt, b, BatteryFull, FALSE)
         /\ Battery!Remaining(rate, volt, BatteryFull - a, BatteryFull, TRUE) <= Battery!Remaining(rate, volt, BatteryFull - b, BatteryFull, TRUE)
<1>1. BatteryFull - (BatteryFull - a) = a /\ BatteryFull - (BatteryFull - b) = b
  BY DEF Battery!Scaled
<1>2. CASE volt = 1
  BY <1>1, <1>2 DEF Battery!Remaining
<1>3. CASE volt = 2
  BY <1>1, <1>3 DEF Battery!Remaining
<1> QED
  BY <1>2, <1>3

(* ... to full or to empty.                                                *)
LEMMA BatteryTimeLeftRight ==
  ASSUME Battery!Scaled
  PROVE  Battery!TimeLeft
<1>1. SUFFICES ASSUME NEW rate \in {0, 1, 4, 9}, NEW volt \in {1, 2}, NEW online \in BOOLEAN,
                      NEW now \in 0 .. BatteryFull - 1
               PROVE  IF online
                      THEN Battery!Remaining(rate, volt, now, BatteryFull, online) >= Battery!Remaining(rate, volt, now + 1, BatteryFull, online)
                      ELSE Battery!Remaining(rate, volt, now, BatteryFull, online) <= Battery!Remaining(rate, volt, now + 1, BatteryFull, online)
  BY DEF Battery!TimeLeft
<1>2. /\ now \in Nat /\ now + 1 \in Nat /\ BatteryFull - now \in Nat /\ BatteryFull - (now + 1) \in Nat
      /\ now <= now + 1 /\ BatteryFull - (now + 1) <= BatteryFull - now
      /\ BatteryFull - (BatteryFull - now) = now /\ BatteryFull - (BatteryFull - (now + 1)) = now + 1
  BY DEF Battery!Scaled
<1>3. CASE online
  <2>1. Battery!Remaining(rate, volt, BatteryFull - (BatteryFull - (now + 1)), BatteryFull, TRUE)
          <= Battery!Remaining(rate, volt, BatteryFull - (BatteryFull - now), BatteryFull, TRUE)
    BY <1>2, BatteryFartherLater, Battery!Scaled
  <2> QED
    BY <1>2, <1>3, <2>1
<1>4. CASE ~online
  BY <1>2, <1>4, BatteryFartherLater, Battery!Scaled
<1> QED
  BY <1>3, <1>4

-----------------------------------------------------------------------------
(* XWindow.                                                                *)
XWindow == INSTANCE XWindow WITH
  Windows <- TitledWindows, MaxSteps <- TitleSteps, active <- s1,
  net <- s2, wmname <- s3, mask <- s4, events <- s5, lock <- s6,
  started <- s7, m_active <- s8, m_label <- s9, unheard <- s10,
  steps <- s11

(* At first no window is known.                                            *)
LEMMA XWindowInitInv ==
  ASSUME XWindow!Init
  PROVE  XWindow!Inv
<1>1. s5 \in Seq({"active", "desktop", "name", "wm_name"})
  BY DEF XWindow!Init
<1>2. s2 \in [TitledWindows -> Nat] /\ s3 \in [TitledWindows -> {0, 1}]
  BY DEF XWindow!Init
<1> QED
  BY <1>1, <1>2 DEF XWindow!Init, XWindow!Inv, XWindow!Typed

(* Events that are added are heard, and none is lost.                      *)
LEMMA XWindowHeard ==
  ASSUME XWindow!Typed, NEW e \in {"active", "desktop", "name", "wm_name"}, s5' = Append(s5, e)
  PROVE  /\ s5' \in Seq({"active", "desktop", "name", "wm_name"})
         /\ \A atoms : XWindow!Coming(atoms)' = (XWindow!Coming(atoms) \/ e \in atoms)
<1> DEFINE E == {"active", "desktop", "name", "wm_name"}
<1>1. s5 \in Seq(E) /\ e \in E
  BY DEF XWindow!Typed
<1> HIDE DEF E
<1>2. \A atoms : /\ Append(s5, e) \in Seq(E)
                 /\ (\E i \in 1 .. Len(Append(s5, e)) : Append(s5, e)[i] \in atoms)
                      <=> (\E i \in 1 .. Len(s5) : s5[i] \in atoms) \/ e \in atoms
  BY <1>1, HasAppend
<1>3. ASSUME NEW atoms
      PROVE  XWindow!Coming(atoms)' = (XWindow!Coming(atoms) \/ e \in atoms)
  BY <1>2 DEF XWindow!Coming
<1> QED
  BY <1>2, <1>3 DEF E

(* The rest of an update: the title as it is now.                          *)
LEMMA XWindowShowTitleKeeps ==
  ASSUME XWindow!Inv, XWindow!ShowTitle
  PROVE  XWindow!Inv'
BY DEF XWindow!ShowTitle, XWindow!server, XWindow!Inv, XWindow!Typed, XWindow!Coming,
   XWindow!Label, XWindow!Title, XWindow!NetName, XWindow!WmName

(* Its beginning looks for another window, or has one already.             *)
LEMMA XWindowActivateKeeps ==
  ASSUME XWindow!Inv, NEW thread \in {"own", "main"}, NEW force \in BOOLEAN, XWindow!Activate(thread, force),
         UNCHANGED <<s1, s2, s3, s7, s9, s10>>,
         s5' \in Seq({"active", "desktop", "name", "wm_name"}),
         force \/ (XWindow!Coming({"active", "desktop"}) => XWindow!Coming({"active", "desktop"})')
  PROVE  XWindow!Inv'
<1>1. XWindow!Typed'
  BY DEF XWindow!Inv, XWindow!Typed
<1>2. s6' # "none"
  BY DEF XWindow!Activate
<1>3. CASE s8 # 0 /\ ~force
  BY <1>1, <1>2, <1>3 DEF XWindow!Activate, XWindow!Inv
<1>4. CASE ~(s8 # 0 /\ ~force)
  <2>1. s8' = s1 /\ s4' = XWindow!Unlisten(s8) \cup ({s1} \ {0})
    BY <1>4 DEF XWindow!Activate, XWindow!GetActiveWindow
  <2> QED
    BY <1>1, <1>2, <2>1 DEF XWindow!Inv
<1> QED
  BY <1>3, <1>4

(* The threads of polybar.                                                 *)
LEMMA XWindowModuleKeeps ==
  ASSUME XWindow!Inv, XWindow!Start \/ XWindow!PropertyNotify
  PROVE  XWindow!Inv'
<1>1. CASE XWindow!Start
  <2>1. XWindow!Coming({"active", "desktop"})' = XWindow!Coming({"active", "desktop"})
    BY <1>1 DEF XWindow!Start, XWindow!Coming
  <2> QED
    BY <1>1, <2>1, XWindowActivateKeeps DEF XWindow!Start, XWindow!Inv, XWindow!Typed
<1>2. CASE XWindow!PropertyNotify
  <2>1. s5 # <<>> /\ s5' = Tail(s5)
        /\ s5 \in Seq({"active", "desktop", "name", "wm_name"})
    BY <1>2 DEF XWindow!PropertyNotify, XWindow!Inv, XWindow!Typed
  <2>2. /\ s5' \in Seq({"active", "desktop", "name", "wm_name"})
        /\ Head(s5) \in {"active", "desktop", "name", "wm_name"}
        /\ \A atoms : Head(s5) \notin atoms => XWindow!Coming(atoms)' = XWindow!Coming(atoms)
    BY <2>1, HasTail DEF XWindow!Coming
  <2>3. CASE Head(s5) \in {"active", "desktop"}
    BY <1>2, <2>2, <2>3, XWindowActivateKeeps DEF XWindow!PropertyNotify
  <2>4. CASE Head(s5) = "name"
    BY <1>2, <2>2, <2>4, XWindowActivateKeeps DEF XWindow!PropertyNotify
  <2>5. CASE Head(s5) = "wm_name"
    <3>1. UNCHANGED <<s1, s2, s3, s4, s6, s7, s8, s9, s10>>
      BY <1>2, <2>5 DEF XWindow!PropertyNotify
    <3>2. /\ XWindow!Coming({"active", "desktop"})' = XWindow!Coming({"active", "desktop"})
          /\ XWindow!Coming({"active", "desktop", "name"})' = XWindow!Coming({"active", "desktop", "name"})
      BY <2>2, <2>5
    <3> QED
      BY <2>2, <3>1, <3>2 DEF XWindow!Inv, XWindow!Typed, XWindow!Label,
         XWindow!Title, XWindow!NetName, XWindow!WmName
  <2> QED
    BY <2>2, <2>3, <2>4, <2>5
<1> QED
  BY <1>1, <1>2

(* The window manager and the windows.                                     *)
LEMMA XWindowFocusKeeps ==
  ASSUME XWindow!Inv, (\E w \in TitledWindows \cup {0} : XWindow!Focus(w)) \/ XWindow!SwitchDesktop
  PROVE  XWindow!Inv'
<1>1. /\ UNCHANGED <<s2, s3, s4, s6, s7, s8, s9, s10>>
      /\ s5' = Append(s5, "active") \/ (s5' = Append(s5, "desktop"))
  BY DEF XWindow!Focus, XWindow!SwitchDesktop, XWindow!Step, XWindow!module
<1>2. /\ s5' \in Seq({"active", "desktop", "name", "wm_name"})
      /\ XWindow!Coming({"active", "desktop"})' /\ XWindow!Coming({"active", "desktop", "name"})'
  BY <1>1, XWindowHeard DEF XWindow!Inv
<1> QED
  BY <1>1, <1>2 DEF XWindow!Inv, XWindow!Typed

(* The module hears of a new title if it watches the window, ...           *)
LEMMA XWindowRenameKeeps ==
  ASSUME XWindow!Inv, NEW w \in TitledWindows, NEW t \in 0 .. 2, XWindow!Rename(w, t)
  PROVE  XWindow!Inv'
<1>1. /\ UNCHANGED <<s1, s3, s4, s6, s7, s8, s9, s10>>
      /\ s2' = [s2 EXCEPT ![w] = t] /\ s5' = XWindow!Hear(w, "name")
  BY DEF XWindow!Rename, XWindow!Step, XWindow!module
<1>2. /\ s5' \in Seq({"active", "desktop", "name", "wm_name"})
      /\ \A atoms : XWindow!Coming(atoms) => XWindow!Coming(atoms)'
      /\ w \in s4 => XWindow!Coming({"active", "desktop", "name"})'
  <2>1. CASE w \in s4
    BY <1>1, <2>1, XWindowHeard DEF XWindow!Hear, XWindow!Inv
  <2>2. CASE w \notin s4
    BY <1>1, <2>2 DEF XWindow!Hear, XWindow!Inv, XWindow!Typed, XWindow!Coming
  <2> QED
    BY <2>1, <2>2
<1>3. XWindow!Typed'
  BY <1>1, <1>2 DEF XWindow!Inv, XWindow!Typed
<1>4. w # s8 => XWindow!Label(s8)' = XWindow!Label(s8)
  BY <1>1 DEF XWindow!Label, XWindow!Title, XWindow!NetName, XWindow!WmName,
     XWindow!Inv, XWindow!Typed
<1>5. w = s8 => s8 = 0 \/ w \in s4
  BY DEF XWindow!Inv
<1>6. s8 = 0 => XWindow!Label(s8)' = XWindow!Label(s8)
  BY <1>1 DEF XWindow!Label
<1> QED
  BY <1>1, <1>2, <1>3, <1>4, <1>5, <1>6 DEF XWindow!Inv

(* ... and of one in WM_NAME too, but does not read it then: unheard says  *)
(* so.                                                                     *)
LEMMA XWindowRenameOldKeeps ==
  ASSUME XWindow!Inv, NEW w \in TitledWindows, XWindow!RenameOld(w)
  PROVE  XWindow!Inv'
<1>1. /\ UNCHANGED <<s1, s2, s4, s6, s7, s8, s9>>
      /\ s3' = [s3 EXCEPT ![w] = 1 - @] /\ s5' = XWindow!Hear(w, "wm_name")
      /\ s10' = (s10 \/ (w = s8 /\ s2[w] = 0))
  BY DEF XWindow!RenameOld, XWindow!Step, XWindow!module
<1>2. /\ s5' \in Seq({"active", "desktop", "name", "wm_name"})
      /\ \A atoms : XWindow!Coming(atoms) => XWindow!Coming(atoms)'
  <2>1. CASE w \in s4
    BY <1>1, <2>1, XWindowHeard DEF XWindow!Hear, XWindow!Inv
  <2>2. CASE w \notin s4
    BY <1>1, <2>2 DEF XWindow!Hear, XWindow!Inv, XWindow!Typed, XWindow!Coming
  <2> QED
    BY <2>1, <2>2
<1>3. XWindow!Typed'
  BY <1>1, <1>2 DEF XWindow!Inv, XWindow!Typed
<1>4. w # s8 \/ s2[w] # 0 => XWindow!Label(s8)' = XWindow!Label(s8)
  BY <1>1 DEF XWindow!Label, XWindow!Title, XWindow!NetName, XWindow!WmName,
     XWindow!Inv, XWindow!Typed
<1> QED
  BY <1>1, <1>2, <1>3, <1>4 DEF XWindow!Inv, XWindow!Typed

(* Every step keeps the invariant.                                         *)
LEMMA XWindowInvKept ==
  ASSUME XWindow!Inv, [XWindow!Next]_(XWindow!vars)
  PROVE  XWindow!Inv'
<1>1. CASE UNCHANGED XWindow!vars
  BY <1>1 DEF XWindow!vars, XWindow!server, XWindow!module, XWindow!Inv,
     XWindow!Typed, XWindow!Coming, XWindow!Label, XWindow!Title, XWindow!NetName,
     XWindow!WmName
<1> QED
  BY <1>1, XWindowShowTitleKeeps, XWindowModuleKeeps, XWindowFocusKeeps,
     XWindowRenameKeeps, XWindowRenameOldKeeps DEF XWindow!Next

(* What it says once all events are handled.                               *)
LEMMA XWindowInvTitle ==
  ASSUME XWindow!Inv
  PROVE  XWindow!TitleFollows
<1>1. s5 = <<>> => \A atoms : ~XWindow!Coming(atoms)
  BY DEF XWindow!Coming
<1> QED
  BY <1>1 DEF XWindow!Inv, XWindow!TitleFollows

-----------------------------------------------------------------------------
(* Date.                                                                   *)
Date == INSTANCE Date WITH
  Formats <- DateFormats, MaxClock <- DateClock,
  MaxClicks <- DateClicks, conf <- s1, clock <- s2, runner <- s3,
  warm <- s4, now <- s5, date_string <- s6, time_string <- s7,
  m_toggled <- s8, m_date <- s9, m_time <- s10, toggling <- s11,
  shown <- s12, mixed <- s13, clicks <- s14

(* At first nothing has been read.                                         *)
LEMMA DateInitInv ==
  ASSUME Date!Init
  PROVE  Date!Inv
BY DEF Date!Init, Date!Inv, Date!Fresh, Date!Held

(* Every step keeps the invariant.                                         *)
LEMMA DateInvKept ==
  ASSUME Date!Inv, [Date!Next]_(Date!vars)
  PROVE  Date!Inv'
<1>1. Date!Held'
  <2> USE DEF Date!Inv, Date!Held, Date!strings, Date!module
  <2>1. CASE Date!ReadDate
    BY <2>1 DEF Date!ReadDate
  <2>2. CASE Date!ReadTime
    BY <2>2 DEF Date!ReadTime
  <2>3. CASE Date!Compare
    BY <2>3 DEF Date!Compare, Date!Same
  <2>4. CASE Date!Broadcast
    BY <2>4 DEF Date!Broadcast
  <2>5. CASE Date!Sleep
    BY <2>5 DEF Date!Sleep
  <2>6. CASE Date!Elapse
    BY <2>6 DEF Date!Elapse
  <2>7. CASE Date!Toggle
    BY <2>7 DEF Date!Toggle
  <2>8. CASE Date!Wakeup
    BY <2>8 DEF Date!Wakeup
  <2>9. CASE UNCHANGED Date!vars
    BY <2>9 DEF Date!vars
  <2> QED
    BY <2>1, <2>2, <2>3, <2>4, <2>5, <2>6, <2>7, <2>8, <2>9 DEF Date!Next,
       Date!RunnerStep
<1>2. Date!Fresh'
  <2> USE DEF Date!Inv, Date!Fresh, Date!strings, Date!DateText, Date!TimeText, Date!Text
  <2>1. CASE Date!ReadDate
    BY <2>1 DEF Date!ReadDate
  <2>2. CASE Date!ReadTime
    BY <2>2 DEF Date!ReadTime
  <2>3. CASE Date!Compare
    BY <2>3 DEF Date!Compare
  <2>4. CASE Date!Broadcast
    BY <2>4 DEF Date!Broadcast
  <2>5. CASE Date!Sleep
    BY <2>5 DEF Date!Sleep
  <2>6. CASE Date!Elapse
    BY <2>6 DEF Date!Elapse
  <2>7. CASE Date!Toggle
    BY <2>7 DEF Date!Toggle
  <2>8. CASE Date!Wakeup
    BY <2>8 DEF Date!Wakeup
  <2>9. CASE UNCHANGED Date!vars
    BY <2>9 DEF Date!vars
  <2> QED
    BY <2>1, <2>2, <2>3, <2>4, <2>5, <2>6, <2>7, <2>8, <2>9 DEF Date!Next,
       Date!RunnerStep
<1> QED
  BY <1>1, <1>2 DEF Date!Inv

(* What it says of a bar whose timer sleeps.                               *)
LEMMA DateInvShown ==
  ASSUME Date!Inv
  PROVE  Date!ShownAsToggled
BY DEF Date!Inv, Date!Fresh, Date!Held, Date!strings, Date!module, Date!ShownAsToggled

-----------------------------------------------------------------------------
(* Renderer.                                                               *)
Renderer == INSTANCE Renderer WITH
  Bars <- RendererBars, Modules <- RendererModules,
  MaxDraws <- RendererDraws, bar <- s1, shown <- s2, rest <- s3,
  m_align <- s4, m_blocks <- s5, actions <- s6, texts <- s7,
  m_align_start <- s8, phase <- s9, draws <- s10

(* The settings of a bar are lengths.                                      *)
ASSUME RendererMeasures == Renderer!Measures

(* The settings of the bar stay.                                           *)
LEMMA RendererInitInv ==
  ASSUME Renderer!Measures, Renderer!Init
  PROVE  Renderer!Inv
  BY DEF Renderer!Init, Renderer!Inv

(* Each step keeps the invariant.                                           *)
LEMMA RendererInvKept ==
  ASSUME Renderer!Measures, Renderer!Inv, [Renderer!Next]_(Renderer!vars)
  PROVE  Renderer!Inv'
  BY DEF Renderer!Inv, Renderer!Next, Renderer!Begin, Renderer!ChangeAlignment,
     Renderer!RenderText, Renderer!RenderOffset, Renderer!HandleAction,
     Renderer!DispatchAt, Renderer!End, Renderer!vars

(* Where what follows a block of width a at the left may begin.            *)
LEMMA RendererAfterZero ==
  ASSUME Renderer!Measures, s1 \in RendererBars, NEW a \in Nat
  PROVE  /\ Renderer!After(0, a) \in Nat /\ Renderer!After(0, a) >= a
         /\ Renderer!After(0, a) = a + (IF a = 0 THEN 0 ELSE s1.gap)
<1>1. s1.gap \in Nat
  BY DEF Renderer!Measures
<1>2. Renderer!After(0, a) = 0 + a + (IF a = 0 THEN 0 ELSE s1.gap)
  BY DEF Renderer!After
<1> QED
  BY <1>1, <1>2

(* The center block begins behind the left one and leaves room for the     *)
(* right one, whichever of them pushes it.                                 *)
LEMMA RendererCenterPlaced ==
  ASSUME Renderer!Measures, s1 \in RendererBars,
         NEW w, w["left"] \in Nat, w["center"] \in Nat, w["right"] \in Nat, w["center"] % 2 = 0,
         Renderer!After(0, w["left"]) + Renderer!After(0, w["center"]) + w["right"] <= s1.rect
  PROVE  /\ Renderer!CenterX(w) \in Int /\ Renderer!CenterX(w) >= w["left"]
         /\ Renderer!CenterX(w) + w["center"] + w["right"] <= s1.rect
         /\ w["center"] # 0 /\ w["right"] # 0 =>
              Renderer!CenterX(w) + w["center"] + s1.gap + w["right"] <= s1.rect
<1> DEFINE min == Renderer!After(0, w["left"])
           max == s1.rect - Renderer!After(0, w["right"])
           half == w["center"] \div 2
           middle == s1.width \div 2 - s1.x
           base == IF s1.fixed THEN Renderer!Lower(middle, max - half) ELSE (min + max) \div 2
<1>1. s1.width \in Nat /\ s1.x \in Nat /\ s1.rect \in Nat /\ s1.gap \in Nat /\ s1.fixed \in BOOLEAN
  BY DEF Renderer!Measures
<1>2. Renderer!CenterX(w) = Renderer!Higher(base - half, min)
  BY DEF Renderer!CenterX
<1>3. half \in Nat /\ 2 * half = w["center"] /\ middle \in Int
  BY <1>1
<1>4. /\ min \in Nat /\ min >= w["left"] /\ max \in Int /\ max <= s1.rect - w["right"]
      /\ w["right"] # 0 => max = s1.rect - w["right"] - s1.gap
      /\ w["right"] = 0 => max = s1.rect
      /\ Renderer!After(0, w["center"]) = w["center"] + (IF w["center"] = 0 THEN 0 ELSE s1.gap)
  <2>1. ASSUME NEW a \in Nat
        PROVE  /\ Renderer!After(0, a) \in Nat /\ Renderer!After(0, a) >= a
               /\ Renderer!After(0, a) = a + (IF a = 0 THEN 0 ELSE s1.gap)
    BY RendererAfterZero
  <2>2. /\ min \in Nat /\ min >= w["left"]
        /\ Renderer!After(0, w["center"]) = w["center"] + (IF w["center"] = 0 THEN 0 ELSE s1.gap)
    BY <2>1
  <2>3. /\ max \in Int /\ max <= s1.rect - w["right"]
        /\ w["right"] # 0 => max = s1.rect - w["right"] - s1.gap
        /\ w["right"] = 0 => max = s1.rect
    BY <1>1, <2>1
  <2> QED
    BY <2>2, <2>3
<1>5. /\ base \in Int
      /\ base <= max - half \/ base = (min + max) \div 2
  <2> HIDE DEF min, max, half, middle
  <2>1. CASE s1.fixed
    <3>1. base = Renderer!Lower(middle, max - half)
      BY <2>1
    <3> HIDE DEF base
    <3> QED
      BY <1>3, <1>4, <3>1 DEF Renderer!Lower
  <2>2. CASE ~s1.fixed
    <3>1. base = (min + max) \div 2
      BY <2>2
    <3> HIDE DEF base
    <3> QED
      BY <1>4, <3>1
  <2> QED
    BY <2>1, <2>2
<1>6. min + Renderer!After(0, w["center"]) + w["right"] <= s1.rect
  OBVIOUS
<1> HIDE DEF min, max, half, middle, base
<1>7. w["center"] # 0 => min + w["center"] <= max
  BY <1>1, <1>4, <1>6
<1>8. w["center"] # 0 => base + half <= max
  BY <1>3, <1>4, <1>5, <1>7
<1>9. w["center"] = 0 => half = 0 /\ base <= s1.rect - w["right"]
  BY <1>1, <1>3, <1>4, <1>5, <1>6
<1>10. CASE base - half > min
  <2>1. Renderer!CenterX(w) = base - half
    BY <1>2, <1>10 DEF Renderer!Higher
  <2> QED
    BY <2>1, <1>1, <1>3, <1>4, <1>5, <1>8, <1>9, <1>10
<1>11. CASE ~(base - half > min)
  <2>1. Renderer!CenterX(w) = min
    BY <1>2, <1>11 DEF Renderer!Higher
  <2> QED
    BY <2>1, <1>1, <1>3, <1>4, <1>6
<1> QED
  BY <1>10, <1>11

(* The right block ends where the bar does, and nothing reaches it.        *)
LEMMA RendererInvVisible ==
  ASSUME Renderer!Measures, Renderer!Inv
  PROVE  Renderer!BlocksVisible
<1> DEFINE w == s5
<1>1. SUFFICES ASSUME Renderer!Fits
               PROVE  /\ w["right"] # 0 => /\ Renderer!RightX(w) + w["right"] <= s1.rect
                                           /\ Renderer!RightX(w) >= w["left"]
                                           /\ Renderer!RightX(w) >= Renderer!CenterX(w) + w["center"]
                      /\ w["center"] # 0 => /\ Renderer!CenterX(w) + w["center"] <= s1.rect
                                            /\ Renderer!CenterX(w) >= w["left"]
  BY DEF Renderer!BlocksVisible, Renderer!BlockX, Renderer!Alignments
<1>2. /\ w["left"] \in Nat /\ w["center"] \in Nat /\ w["right"] \in Nat /\ w["center"] % 2 = 0
      /\ Renderer!After(0, w["left"]) + Renderer!After(0, w["center"]) + w["right"] <= s1.rect
  BY <1>1 DEF Renderer!Fits, Renderer!WholePixels, Renderer!Alignments
<1>3. s1 \in RendererBars /\ s1.rect \in Nat /\ s1.gap \in Nat
  BY DEF Renderer!Inv, Renderer!Measures
<1> HIDE DEF w
<1>4. /\ Renderer!CenterX(w) \in Int /\ Renderer!CenterX(w) >= w["left"]
      /\ Renderer!CenterX(w) + w["center"] + w["right"] <= s1.rect
      /\ w["center"] # 0 /\ w["right"] # 0 =>
           Renderer!CenterX(w) + w["center"] + s1.gap + w["right"] <= s1.rect
  BY <1>2, <1>3, RendererCenterPlaced
<1>5. CASE w["right"] # 0
  <2>1. Renderer!RightX(w) = s1.rect - w["right"]
    <3> DEFINE behind == IF w["center"] = 0 THEN Renderer!After(0, w["left"]) ELSE Renderer!After(Renderer!CenterX(w), w["center"])
    <3>1. behind \in Int /\ behind <= s1.rect - w["right"]
      <4>1. CASE w["center"] = 0
        BY <1>2, <1>3, <4>1 DEF Renderer!After
      <4>2. CASE w["center"] # 0
        <5>1. behind = Renderer!CenterX(w) + w["center"] + s1.gap
          BY <4>2 DEF Renderer!After
        <5> HIDE DEF behind
        <5> QED
          BY <1>2, <1>3, <1>4, <1>5, <4>2, <5>1
      <4> QED
        BY <4>1, <4>2
    <3>2. Renderer!RightX(w) = Renderer!Higher(s1.rect - w["right"], behind)
      BY DEF Renderer!RightX
    <3> QED
      BY <1>2, <1>3, <3>1, <3>2 DEF Renderer!Higher
  <2> QED
    BY <2>1, <1>2, <1>3, <1>4
<1>6. CASE w["right"] = 0
  BY <1>2, <1>3, <1>4, <1>6
<1> QED
  BY <1>5, <1>6

-----------------------------------------------------------------------------
(* Ipc.                                                                    *)
Ipc == INSTANCE Ipc WITH
  Clients <- IpcClients, Requests <- IpcRequests, Modules <- IpcModules,
  Buf <- IpcBuf, Starts <- IpcStarts, pc <- s1, exists <- s2,
  reader <- s3, fifo <- s4, hup <- s5, todo <- s6, m_output <- s7,
  queue <- s8, m_inputdata <- s9, worker <- s10, client <- s11,
  request <- s12, sent <- s13, got <- s14, crowded <- s15,
  asked <- s16, ran <- s17, beside <- s18, starts <- s19

(* The buffer has room for a character, and no message is empty.           *)
ASSUME IpcMessages == Ipc!Messages

(* At first the channel is not open.                                       *)
LEMMA IpcInitInv ==
  ASSUME Ipc!Init
  PROVE  Ipc!Inv
BY DEF Ipc!Init, Ipc!Inv, Ipc!Serving

(* One read takes all of a message that is alone and that the buffer       *)
(* holds.                                                                  *)
LEMMA IpcReadKeeps ==
  ASSUME Ipc!Messages, Ipc!Inv, Ipc!Read
  PROVE  Ipc!Inv'
<1>1. /\ UNCHANGED <<s2, s3, s12, s13, s15>> /\ Ipc!Serving
      /\ s1' \in {"hooks", "reopen"}
  BY DEF Ipc!Read, Ipc!Serving
<1>2. ASSUME ~s15
      PROVE  Ipc!InTransit'
  <2>1. Ipc!InTransit
    BY <1>1, <1>2 DEF Ipc!Inv
  <2>2. CASE s4 = <<>> /\ s13 = s14
    <3>1. Len(s4) = 0
      BY <2>2
    <3>2. PICK behind \in {<<>>, <<"?">>} :
            /\ s4' = SubSeq(s4, 0 + 1, Len(s4)) /\ s14' = s14
      BY <3>1, 0 < IpcBuf \/ IpcBuf = 0 DEF Ipc!Read, Ipc!Messages
    <3> QED
      BY <3>1, <3>2, <2>2, <1>1 DEF Ipc!InTransit
  <2>3. ASSUME NEW c \in IpcClients, s4 = Ipc!Written(s12[c]), Len(s4) < IpcBuf,
               s13 = Append(s14, Ipc!Trim(s4))
        PROVE  Ipc!InTransit'
    <3>1. s4 \in Seq(Ipc!Range(s4)) /\ s4 # <<>> /\ Len(s4) \in Nat \ {0}
      BY <2>3, EmptySeq DEF Ipc!Inv, Ipc!Messages
    <3>2. SubSeq(s4, 1, Len(s4)) \o <<>> = s4 /\ SubSeq(s4, Len(s4) + 1, Len(s4)) = <<>>
      BY <3>1
    <3>3. Len(s4) # IpcBuf
      BY <2>3, <3>1 DEF Ipc!Messages
    <3>4. /\ s4' = SubSeq(s4, Len(s4) + 1, Len(s4))
          /\ s14' = Append(s14, Ipc!Trim(SubSeq(s4, 1, Len(s4)) \o <<>>))
      BY <2>3, <3>1, <3>3 DEF Ipc!Read
    <3>5. s4' = <<>> /\ s14' = s13
      BY <3>2, <3>4, <2>3
    <3> QED
      BY <3>5, <1>1 DEF Ipc!InTransit
  <2> QED
    BY <2>1, <2>2, <2>3 DEF Ipc!InTransit
<1> QED
  BY <1>1, <1>2 DEF Ipc!Inv, Ipc!Serving

(* polybar-msg removes no fifo that has a reader, and what it writes to an *)
(* empty one stands alone.                                                 *)
LEMMA IpcClientKeeps ==
  ASSUME Ipc!Messages, Ipc!Inv, NEW c \in IpcClients, Ipc!Glob(c) \/ Ipc!OpenChannel(c) \/ Ipc!Write(c)
  PROVE  Ipc!Inv'
<1>1. CASE Ipc!Glob(c)
  BY <1>1 DEF Ipc!Glob, Ipc!Alive, Ipc!Inv, Ipc!Serving, Ipc!InTransit, Ipc!history
<1>2. CASE Ipc!OpenChannel(c)
  BY <1>2 DEF Ipc!OpenChannel, Ipc!Inv, Ipc!Serving, Ipc!InTransit, Ipc!history
<1>3. CASE Ipc!Write(c)
  <2>1. UNCHANGED <<s1, s2, s3, s12, s14>>
    BY <1>3 DEF Ipc!Write
  <2>2. CASE ~s3
    BY <1>3, <2>1, <2>2 DEF Ipc!Write, Ipc!Inv, Ipc!Serving, Ipc!InTransit
  <2>3. CASE s3
    <3> DEFINE text == Ipc!Written(s12[c])
    <3>1. /\ s4' = s4 \o text /\ s13' = Append(s13, Ipc!Trim(text))
          /\ s15' = (s15 \/ s4 # <<>> \/ Len(text) >= IpcBuf)
      BY <1>3, <2>3 DEF Ipc!Write
    <3>2. text \in Seq(Ipc!Range(text)) /\ Len(text) \in Nat /\ text # <<>>
      BY DEF Ipc!Messages, Ipc!Inv
    <3>3. ASSUME ~s15', Ipc!Serving
          PROVE  Ipc!InTransit'
      <4>1. ~s15 /\ s4 = <<>> /\ Len(text) < IpcBuf
        <5>1. ~(s15 \/ s4 # <<>> \/ Len(text) >= IpcBuf)
          BY <3>1, <3>3
        <5> QED
          BY <5>1, <3>2 DEF Ipc!Messages
      <4>2. s13 = s14
        <5>1. ASSUME NEW d \in IpcClients, s4 = Ipc!Written(s12[d])
              PROVE  FALSE
          BY <4>1, <5>1 DEF Ipc!Messages, Ipc!Inv
        <5> QED
          BY <4>1, <3>3, <5>1 DEF Ipc!Inv, Ipc!InTransit
      <4>3. s4' = text
        BY <4>1, <3>1, <3>2
      <4>4. s13' = Append(s14, Ipc!Trim(text))
        BY <4>2, <3>1
      <4> QED
        BY <4>1, <4>3, <4>4, <2>1 DEF Ipc!InTransit, Ipc!Trim
    <3>4. s15' \in BOOLEAN
      BY <3>1
    <3> QED
      BY <2>1, <2>3, <3>3, <3>4 DEF Ipc!Inv, Ipc!Serving
  <2> QED
    BY <2>2, <2>3 DEF Ipc!Inv
<1> QED
  BY <1>1, <1>2, <1>3

(* Every step keeps the invariant.                                         *)
LEMMA IpcInvKept ==
  ASSUME Ipc!Messages, Ipc!Inv, [Ipc!Next]_(Ipc!vars)
  PROVE  Ipc!Inv'
<1>1. CASE Ipc!MakeFifo
  BY <1>1 DEF Ipc!MakeFifo, Ipc!Inv, Ipc!Serving, Ipc!InTransit, Ipc!channel,
     Ipc!history
<1>10. CASE Ipc!Open
  BY <1>10 DEF Ipc!Open, Ipc!Inv, Ipc!Serving, Ipc!InTransit
<1>2. CASE Ipc!Read
  BY <1>2, IpcReadKeeps
<1>3. CASE Ipc!RunHook
  BY <1>3 DEF Ipc!RunHook, Ipc!Inv, Ipc!Serving, Ipc!InTransit, Ipc!channel
<1>4. CASE Ipc!HookEnds
  BY <1>4 DEF Ipc!HookEnds, Ipc!Inv, Ipc!Serving, Ipc!InTransit, Ipc!channel,
     Ipc!history
<1>5. CASE Ipc!Reopen
  BY <1>5 DEF Ipc!Reopen, Ipc!Inv, Ipc!Serving, Ipc!InTransit, Ipc!history
<1>6. CASE Ipc!Close
  BY <1>6 DEF Ipc!Close, Ipc!Inv, Ipc!Serving, Ipc!InTransit, Ipc!channel, Ipc!history
<1>11. CASE Ipc!Unlink
  BY <1>11 DEF Ipc!Unlink, Ipc!Inv, Ipc!Serving, Ipc!InTransit, Ipc!channel,
     Ipc!history
<1>13. CASE Ipc!WorkerStep
  BY <1>13 DEF Ipc!WorkerStep, Ipc!Ready, Ipc!TakeEvent, Ipc!SendBegins, Ipc!SendEnds,
     Ipc!Inv, Ipc!Serving, Ipc!InTransit, Ipc!channel, Ipc!history
<1>14. CASE Ipc!Leave
  BY <1>14 DEF Ipc!Leave, Ipc!Inv, Ipc!Serving, Ipc!InTransit, Ipc!channel,
     Ipc!history
<1>7. CASE Ipc!Killed
  BY <1>7 DEF Ipc!Killed, Ipc!Inv, Ipc!Serving, Ipc!InTransit, Ipc!channel,
     Ipc!history
<1>12. CASE Ipc!StartAgain
  BY <1>12 DEF Ipc!StartAgain, Ipc!Alive, Ipc!Inv, Ipc!Serving, Ipc!InTransit,
     Ipc!channel, Ipc!history
<1>8. CASE \E c \in IpcClients : Ipc!Glob(c) \/ Ipc!OpenChannel(c) \/ Ipc!Write(c)
  BY <1>8, IpcClientKeeps
<1>9. CASE UNCHANGED Ipc!vars
  BY <1>9 DEF Ipc!vars, Ipc!Inv, Ipc!Serving, Ipc!InTransit
<1> QED
  BY <1>1, <1>2, <1>3, <1>4, <1>5, <1>6, <1>7, <1>8, <1>9, <1>10, <1>11, <1>12, <1>13,
     <1>14 DEF Ipc!Next, Ipc!PolybarStep

(* What it says of the channel ...                                         *)
LEMMA IpcInvKeeps ==
  ASSUME Ipc!Inv
  PROVE  Ipc!ChannelKept
BY DEF Ipc!Inv, Ipc!Serving, Ipc!ChannelKept

(* ... and of the messages.                                                *)
LEMMA IpcInvDelivers ==
  ASSUME Ipc!Messages, Ipc!Inv
  PROVE  Ipc!DeliveredAsSent
<1>1. \A c \in IpcClients : Ipc!Written(s12[c]) # <<>>
  BY DEF Ipc!Messages, Ipc!Inv
<1> QED
  BY <1>1 DEF Ipc!Inv, Ipc!Serving, Ipc!InTransit, Ipc!DeliveredAsSent

-----------------------------------------------------------------------------
(* Mpd.                                                                    *)
Mpd == INSTANCE Mpd WITH
  MaxChanges <- MpdChanges, server <- s1, player <- s2, changes <- s3,
  link <- s4, pending <- s5, m_idle <- s6, m_status <- s7,
  m_statebroadcasted <- s8, g_connection_closed <- s9, handler <- s10,
  rpc <- s11, def <- s12, wpc <- s13, killed <- s14, stale <- s15,
  disarmed <- s16, stolen <- s17

(* Nothing happens once polybar has ended; until then a pipe that breaks   *)
(* is one whose handler an action has taken.                               *)
LEMMA MpdPipeStep ==
  ASSUME Mpd!Armed, Mpd!PipeHandled, Mpd!Next
  PROVE  Mpd!Armed' /\ Mpd!PipeHandled'
<1> USE DEF Mpd!Armed, Mpd!PipeHandled, Mpd!connected, Mpd!client, Mpd!world, Mpd!history, Mpd!Goto, Mpd!Running
<1>1. CASE Mpd!Change \/ Mpd!ServerStops \/ Mpd!ServerStarts
  BY <1>1 DEF Mpd!Change, Mpd!ServerStops, Mpd!ServerStarts, Mpd!Happens,
     Mpd!ServerOnly
<1>2. CASE Mpd!RunnerStep
  <2> USE DEF Mpd!RunnerOnly, Mpd!Keep, Mpd!ResetMpd, Mpd!Closed, Mpd!Answer, Mpd!FetchStatus, Mpd!Throw, Mpd!Pipe
  <2>1. CASE Mpd!HasEvent
    BY <1>2, <2>1 DEF Mpd!HasEvent, Mpd!RunnerStep
  <2>2. CASE Mpd!Fetch
    BY <1>2, <2>2 DEF Mpd!Fetch, Mpd!RunnerStep
  <2>3. CASE Mpd!Idle
    BY <1>2, <2>3 DEF Mpd!Idle, Mpd!RunnerStep
  <2>4. CASE Mpd!Noidle
    BY <1>2, <2>4 DEF Mpd!Noidle, Mpd!RunnerStep
  <2>5. CASE Mpd!Flags
    BY <1>2, <2>5 DEF Mpd!Flags, Mpd!RunnerStep
  <2>6. CASE Mpd!Rest
    BY <1>2, <2>6 DEF Mpd!Rest, Mpd!RunnerStep
  <2>7. CASE Mpd!Update
    BY <1>2, <2>7 DEF Mpd!Update, Mpd!RunnerStep
  <2>8. CASE Mpd!Song
    BY <1>2, <2>8 DEF Mpd!Song, Mpd!RunnerStep
  <2>9. CASE Mpd!Sleep
    BY <1>2, <2>9 DEF Mpd!Sleep, Mpd!RunnerStep
  <2> QED
    BY <1>2, <2>1, <2>2, <2>3, <2>4, <2>5, <2>6, <2>7, <2>8, <2>9 DEF Mpd!RunnerStep
<1>3. CASE Mpd!BeginAction
  BY <1>3 DEF Mpd!BeginAction, Mpd!Happens, Mpd!ActionOnly
<1>4. CASE Mpd!EndAction
  BY <1>4 DEF Mpd!EndAction
<1>5. CASE Mpd!GetFormat
  BY <1>5 DEF Mpd!GetFormat
<1> QED
  BY <1>1, <1>2, <1>3, <1>4, <1>5 DEF Mpd!Next

(* A status that differs from the server's has an event on its way.        *)
LEMMA MpdStatusStep ==
  ASSUME Mpd!Served, Mpd!StatusFollows, Mpd!Next
  PROVE  Mpd!Served' /\ Mpd!StatusFollows'
<1> USE DEF Mpd!Served, Mpd!StatusFollows, Mpd!connected, Mpd!client, Mpd!world, Mpd!history, Mpd!Goto
<1>1. CASE Mpd!Change \/ Mpd!ServerStops \/ Mpd!ServerStarts
  <2>1. CASE Mpd!Change
    BY <2>1 DEF Mpd!Change, Mpd!Happens, Mpd!ServerOnly
  <2>2. CASE Mpd!ServerStops
    BY <2>2 DEF Mpd!ServerStops, Mpd!Happens, Mpd!ServerOnly
  <2>3. CASE Mpd!ServerStarts
    BY <2>3 DEF Mpd!ServerStarts, Mpd!Happens, Mpd!ServerOnly
  <2> QED
    BY <1>1, <2>1, <2>2, <2>3
<1>2. CASE Mpd!RunnerStep
  <2> USE DEF Mpd!RunnerOnly, Mpd!Keep, Mpd!ResetMpd, Mpd!Closed, Mpd!Answer, Mpd!FetchStatus, Mpd!Throw, Mpd!Pipe
  <2>1. CASE Mpd!HasEvent
    BY <2>1 DEF Mpd!HasEvent
  <2>2. CASE Mpd!Fetch
    BY <2>2 DEF Mpd!Fetch
  <2>3. CASE Mpd!Idle
    BY <2>3 DEF Mpd!Idle
  <2>4. CASE Mpd!Noidle
    BY <2>4 DEF Mpd!Noidle
  <2>5. CASE Mpd!Flags
    BY <2>5 DEF Mpd!Flags
  <2>6. CASE Mpd!Rest
    BY <2>6 DEF Mpd!Rest
  <2>7. CASE Mpd!Update
    BY <2>7 DEF Mpd!Update
  <2>8. CASE Mpd!Song
    BY <2>8 DEF Mpd!Song
  <2>9. CASE Mpd!Sleep
    BY <2>9 DEF Mpd!Sleep
  <2> QED
    BY <1>2, <2>1, <2>2, <2>3, <2>4, <2>5, <2>6, <2>7, <2>8, <2>9 DEF Mpd!RunnerStep
<1>3. CASE Mpd!BeginAction
  BY <1>3 DEF Mpd!BeginAction, Mpd!Happens, Mpd!ActionOnly
<1>4. CASE Mpd!EndAction
  BY <1>4 DEF Mpd!EndAction
<1>5. CASE Mpd!GetFormat
  BY <1>5 DEF Mpd!GetFormat
<1> QED
  BY <1>1, <1>2, <1>3, <1>4, <1>5 DEF Mpd!Next

(* At first the handler is armed as long as the server is up.              *)
LEMMA MpdInitInv ==
  ASSUME Mpd!Init
  PROVE  Mpd!Inv
BY DEF Mpd!Init, Mpd!Inv, Mpd!Armed, Mpd!PipeHandled, Mpd!Served, Mpd!StatusFollows,
   Mpd!connected

(* Every step keeps the invariant.                                         *)
LEMMA MpdInvKept ==
  ASSUME Mpd!Inv, [Mpd!Next]_(Mpd!vars)
  PROVE  Mpd!Inv'
<1>1. CASE Mpd!Next
  BY <1>1, MpdPipeStep, MpdStatusStep DEF Mpd!Inv
<1>2. CASE UNCHANGED Mpd!vars
  BY <1>2 DEF Mpd!vars, Mpd!world, Mpd!client, Mpd!history, Mpd!Inv, Mpd!Armed,
     Mpd!PipeHandled, Mpd!Served, Mpd!StatusFollows, Mpd!connected
<1> QED
  BY <1>1, <1>2

-----------------------------------------------------------------------------
(* Script.                                                                 *)
Script == INSTANCE Script WITH
  MaxLines <- ScriptLines, m_tail <- s1, m_enabled <- s2,
  m_stopping <- s3, m_handler <- s4, m_command <- s5, child <- s6,
  failed <- s7, term <- s8, line <- s9, pipe <- s10, partial <- s11,
  m_output <- s12, read <- s13, rpc <- s14, mpc <- s15,
  stopper <- s16, overrun <- s17

(* So such steps keep what holds.                                          *)
LEMMA ScriptAgesKeep ==
  ASSUME Script!Inv, Script!Ages
  PROVE  Script!Inv'
BY DEF Script!Inv, Script!Typed, Script!Owned, Script!Gone, Script!Collected,
   Script!Ages, Script!Alive

(* Destroying a command ages its process, and when it is done there is     *)
(* none.                                                                   *)
LEMMA ScriptDestroyedEffect ==
  ASSUME Script!Inv, Script!Destroyed
  PROVE  Script!Typed' /\ Script!Owned' /\ (Script!Collected => Script!Collected')
BY DEF Script!Inv, Script!Typed, Script!Owned, Script!Collected, Script!Destroyed,
   Script!Reap, Script!Alive

(* The child and the worker's look at it only age it.                      *)
LEMMA ScriptChildKeeps ==
  ASSUME Script!Inv, Script!ChildStep \/ Script!WorkerLooks
  PROVE  Script!Inv'
<1>1. Script!Ages
  BY DEF Script!ChildStep, Script!PrintLine, Script!PrintPart, Script!Close,
     Script!Exit, Script!WorkerLooks, Script!IsRunning, Script!Reap, Script!ChildOnly,
     Script!process, Script!output, Script!Ages, Script!Alive
<1> QED
  BY <1>1, ScriptAgesKeep

(* The runner executes commands; one it executes after the last was        *)
(* destroyed makes it an overrun.                                          *)
LEMMA ScriptRunnerKeeps ==
  ASSUME Script!Inv, Script!RunnerStep
  PROVE  Script!Inv'
<1> USE DEF Script!RunnerOnly, Script!process, Script!output
<1>1. CASE Script!Loop \/ Script!CheckCondition \/ Script!LockHandler \/ Script!PollRead \/ Script!ReadLine \/ Script!FirstLine
           \/ Script!Awake \/ Script!Halted
  <2>1. Script!Ages
    BY <1>1 DEF Script!Loop, Script!CheckCondition, Script!LockHandler,
       Script!PollRead, Script!ReadLine, Script!FirstLine, Script!Awake,
       Script!Halted, Script!Ages
  <2> QED
    BY <2>1, ScriptAgesKeep
<1>2. CASE Script!Resume \/ Script!Poll \/ Script!After \/ Script!WaitCommand
  <2>1. Script!Ages
    BY <1>2 DEF Script!Resume, Script!Poll, Script!After, Script!WaitCommand,
       Script!IsRunning, Script!Reap, Script!Ages, Script!Alive, Script!Inv,
       Script!Typed
  <2> QED
    BY <2>1, ScriptAgesKeep
<1>3. CASE Script!Execute
  BY <1>3 DEF Script!Execute, Script!Spawn, Script!Inv, Script!Typed, Script!Owned,
     Script!Gone, Script!Collected, Script!Alive
<1>4. CASE Script!Fail
  BY <1>4 DEF Script!Fail, Script!Inv, Script!Typed, Script!Owned, Script!Gone,
     Script!Collected, Script!Alive
<1> QED
  BY <1>1, <1>2, <1>3, <1>4 DEF Script!RunnerStep

(* stop() destroys the command under the handler's lock.                   *)
LEMMA ScriptStopKeeps ==
  ASSUME Script!Inv, NEW t \in Script!Stoppers, Script!StopStep(t)
  PROVE  Script!Inv'
<1>1. CASE Script!StopLock(t) \/ Script!StopLeave(t)
  <2>1. Script!Ages
    BY <1>1 DEF Script!StopLock, Script!StopLeave, Script!StopOnly, Script!Ages
  <2> QED
    BY <2>1, ScriptAgesKeep
<1>2. CASE Script!StopReset(t)
  BY <1>2, ScriptDestroyedEffect DEF Script!StopReset, Script!StopOnly, Script!Inv,
     Script!Gone
<1> QED
  BY <1>1, <1>2 DEF Script!StopStep

(* ~script_module() destroys the last one.                                 *)
LEMMA ScriptMainKeeps ==
  ASSUME Script!Inv, Script!Stop \/ Script!MainStep
  PROVE  Script!Inv'
<1>1. CASE Script!Stop \/ Script!BeginDestroy \/ Script!Join
  <2>1. Script!Ages
    BY <1>1 DEF Script!Stop, Script!BeginDestroy, Script!Join, Script!MainOnly,
       Script!Ages
  <2> QED
    BY <2>1, ScriptAgesKeep
<1>2. CASE Script!Destroy
  BY <1>2, ScriptDestroyedEffect DEF Script!Destroy, Script!MainOnly, Script!Inv,
     Script!Gone, Script!Owned
<1> QED
  BY <1>1, <1>2 DEF Script!MainStep

(* At first there is no command.                                           *)
LEMMA ScriptInitInv ==
  ASSUME Script!Init
  PROVE  Script!Inv
BY DEF Script!Init, Script!Inv, Script!Typed, Script!Owned, Script!Gone,
   Script!Collected

(* Every step keeps the invariant.                                         *)
LEMMA ScriptInvKept ==
  ASSUME Script!Inv, [Script!Next]_(Script!vars)
  PROVE  Script!Inv'
<1>1. CASE UNCHANGED Script!vars
  BY <1>1 DEF Script!vars, Script!process, Script!Inv, Script!Typed, Script!Owned,
     Script!Gone, Script!Collected
<1> QED
  BY <1>1, ScriptChildKeeps, ScriptRunnerKeeps, ScriptStopKeeps, ScriptMainKeeps DEF
     Script!Next

(* What it says of a module that is gone.                                  *)
LEMMA ScriptInvTerminated ==
  ASSUME Script!Inv
  PROVE  Script!CommandsTerminated
BY DEF Script!Inv, Script!Gone, Script!Collected, Script!CommandsTerminated

(* No command object goes before its process has been collected, whoever   *)
(* destroys it: stop() on either thread, or ~script_module().              *)
THEOREM ScriptProcessesCollected == Script!Spec => []Script!Owned
<1>1. Script!Init => Script!Inv
  BY ScriptInitInv
<1>2. Script!Inv /\ [Script!Next]_(Script!vars) => Script!Inv'
  BY ScriptInvKept
<1>3. Script!Inv => Script!Owned
  BY DEF Script!Inv
<1> QED
  BY <1>1, <1>2, <1>3, PTL DEF Script!Spec

-----------------------------------------------------------------------------
(* Tray.                                                                   *)
Tray == INSTANCE TrayProofs WITH
  Icons <- TrayIcons, Others <- OtherTrays, MaxOps <- TrayOps,
  x <- s1, m_activated <- s2, m_acquired_selection <- s3,
  m_othermanager <- s4, m_mapped <- s5, m_hidden <- s6,
  m_clients <- s7, clients_mapped <- s8, flags <- s9,
  configured_slots <- s10, configured_w <- s11, pc <- s12,
  docking <- s13, visible <- s14, ops <- s15, refresh <- s16,
  withdrawn <- s17, overtaken <- s18, refused <- s19

(* Icons are finitely many, and neither they nor managers are the tray.    *)
ASSUME TrayWindows == Tray!Windows

-----------------------------------------------------------------------------
(* Pulse.                                                                  *)
Pulse == INSTANCE Pulse WITH
  Specified <- PulseSpecified, MaxVolume <- PulseTop, Step <- PulseStep,
  MaxIndex <- PulseIndex, MaxOps <- PulseOps, spec_s_name <- s1,
  sinks <- s2, default <- s3, next <- s4, transit <- s5,
  subscribed <- s6, m_events <- s7, m_index <- s8, cv <- s9,
  muted <- s10, success <- s11, m_volume <- s12, m_muted <- s13,
  runner <- s14, worker <- s15, lock <- s16, ops <- s17,
  missed <- s18, misled <- s19

(* A volume has more than two levels.                                      *)
ASSUME PulseLevels == Pulse!Levels

-----------------------------------------------------------------------------
(* What holds of each part while it runs.                                  *)
ProvenInv ==
  /\ part = "script" => Script!Inv
  /\ part = "renderer" => Renderer!Inv
  /\ part = "mpd" => Mpd!Inv
  /\ part = "xworkspaces" => XWorkspaces!Inv
  /\ part = "screen" => Screen!Inv
  /\ part = "hover" => Hover!Inv
  /\ part = "background" => Background!Inv
  /\ part = "window" => Window!Inv
  /\ part = "xwindow" => XWindow!Inv
  /\ part = "tray" => Tray!Agreed
  /\ part = "alsa" => Alsa!Inv
  /\ part = "pulse" => Pulse!Inv
  /\ part = "net" => Net!Inv
  /\ part = "ipc" => Ipc!Inv
  /\ part = "battery" => Battery!Inv
  /\ part = "meters" => Meters!Inv
  /\ part = "backlight" => Backlight!Inv
  /\ part = "date" => Date!Inv
  /\ part = "keyboard" => Keyboard!Inv
  /\ part = "i3" => I3!Inv

(* How a run of parts looks to these: one of them starts and goes on, or   *)
(* some other part does.                                                   *)
Others == part \notin {"script", "renderer", "mpd", "xworkspaces", "screen", "hover", "background", "window", "xwindow", "tray", "alsa", "pulse", "net", "ipc", "battery", "meters", "backlight", "date", "keyboard", "i3"}

ProvenInit ==
  \/ part = "script" /\ Script!Init
  \/ part = "renderer" /\ Renderer!Init
  \/ part = "mpd" /\ Mpd!Init
  \/ part = "xworkspaces" /\ XWorkspaces!Init
  \/ part = "screen" /\ Screen!Init
  \/ part = "hover" /\ Hover!Init
  \/ part = "background" /\ Background!Init
  \/ part = "window" /\ Window!Init
  \/ part = "xwindow" /\ XWindow!Init
  \/ part = "tray" /\ Tray!Init
  \/ part = "alsa" /\ Alsa!Init
  \/ part = "pulse" /\ Pulse!Init
  \/ part = "net" /\ Net!Init
  \/ part = "ipc" /\ Ipc!Init
  \/ part = "battery" /\ Battery!Init
  \/ part = "meters" /\ Meters!Init
  \/ part = "backlight" /\ Backlight!Init
  \/ part = "date" /\ Date!Init
  \/ part = "keyboard" /\ Keyboard!Init
  \/ part = "i3" /\ I3!Init
  \/ Others

ProvenNext ==
  /\ part' = part
  /\ \/ part = "script" /\ [Script!Next]_(Script!vars)
     \/ part = "renderer" /\ [Renderer!Next]_(Renderer!vars)
     \/ part = "mpd" /\ [Mpd!Next]_(Mpd!vars)
     \/ part = "xworkspaces" /\ [XWorkspaces!Next]_(XWorkspaces!vars)
     \/ part = "screen" /\ [Screen!Next]_(Screen!vars)
     \/ part = "hover" /\ [Hover!Next]_(Hover!vars)
     \/ part = "background" /\ [Background!Next]_(Background!vars)
     \/ part = "window" /\ [Window!Next]_(Window!vars)
     \/ part = "xwindow" /\ [XWindow!Next]_(XWindow!vars)
     \/ part = "tray" /\ [Tray!Next]_(Tray!vars)
     \/ part = "alsa" /\ [Alsa!Next]_(Alsa!vars)
     \/ part = "pulse" /\ [Pulse!Next]_(Pulse!vars)
     \/ part = "net" /\ [Net!Next]_(Net!vars)
     \/ part = "ipc" /\ [Ipc!Next]_(Ipc!vars)
     \/ part = "battery" /\ [Battery!Next]_(Battery!vars)
     \/ part = "meters" /\ [Meters!Next]_(Meters!vars)
     \/ part = "backlight" /\ [Backlight!Next]_(Backlight!vars)
     \/ part = "date" /\ [Date!Next]_(Date!vars)
     \/ part = "keyboard" /\ [Keyboard!Next]_(Keyboard!vars)
     \/ part = "i3" /\ [I3!Next]_(I3!vars)
     \/ Others

(* Each part starts within its invariant ...                               *)
LEMMA ProvenInitInv ==
  ASSUME ProvenInit
  PROVE  ProvenInv
<1>1. part = "script" => Script!Inv
  BY ScriptInitInv DEF ProvenInit, Others
<1>2. part = "renderer" => Renderer!Inv
  BY RendererMeasures, RendererInitInv DEF ProvenInit, Others
<1>3. part = "mpd" => Mpd!Inv
  BY MpdInitInv DEF ProvenInit, Others
<1>4. part = "xworkspaces" => XWorkspaces!Inv
  BY XWorkspacesInitInv DEF ProvenInit, Others
<1>5. part = "screen" => Screen!Inv
  BY ScreenMonitors, ScreenInitInv DEF ProvenInit, Others
<1>6. part = "hover" => Hover!Inv
  BY HoverCursors, HoverInitInv DEF ProvenInit, Others
<1>7. part = "background" => Background!Inv
  BY BackgroundMeasures, BackgroundInitInv DEF ProvenInit, Others
<1>8. part = "window" => Window!Inv
  BY WindowInitInv DEF ProvenInit, Others
<1>9. part = "xwindow" => XWindow!Inv
  BY XWindowInitInv DEF ProvenInit, Others
<1>10. part = "tray" => Tray!Agreed
  BY TrayWindows, Tray!InitAgreed DEF ProvenInit, Others
<1>11. part = "alsa" => Alsa!Inv
  BY AlsaInitInv DEF ProvenInit, Others
<1>12. part = "pulse" => Pulse!Inv
  BY PulseLevels, Pulse!InitInv DEF ProvenInit, Others
<1>13. part = "net" => Net!Inv
  BY NetDrivers, NetInitInv DEF ProvenInit, Others
<1>14. part = "ipc" => Ipc!Inv
  BY IpcMessages, IpcInitInv DEF ProvenInit, Others
<1>15. part = "battery" => Battery!Inv
  BY BatteryScale, BatteryInitInv DEF ProvenInit, Others
<1>16. part = "meters" => Meters!Inv
  BY MeterRange, MetersInitInv DEF ProvenInit, Others
<1>17. part = "backlight" => Backlight!Inv
  BY BacklightRanges, BacklightInitInv DEF ProvenInit, Others
<1>18. part = "date" => Date!Inv
  BY DateInitInv DEF ProvenInit, Others
<1>19. part = "keyboard" => Keyboard!Inv
  BY KeyboardGroups, KeyboardInitInv DEF ProvenInit, Others
<1>20. part = "i3" => I3!Inv
  BY I3Layout, I3InitInv DEF ProvenInit, Others
<1> QED
  BY <1>1, <1>2, <1>3, <1>4, <1>5, <1>6, <1>7, <1>8, <1>9, <1>10, <1>11, <1>12, <1>13,
     <1>14, <1>15, <1>16, <1>17, <1>18, <1>19, <1>20 DEF ProvenInv

(* ... and stays there.                                                    *)
LEMMA ProvenInvKept ==
  ASSUME ProvenInv, ProvenNext
  PROVE  ProvenInv'
<1>0. part' = part
  BY DEF ProvenNext
<1>1. part = "script" => Script!Inv'
  <2>1. part = "script" => Script!Inv /\ [Script!Next]_(Script!vars)
    BY DEF ProvenInv, ProvenNext, Others
  <2> QED
    BY <2>1, ScriptInvKept
<1>2. part = "renderer" => Renderer!Inv'
  <2>1. part = "renderer" => Renderer!Inv /\ [Renderer!Next]_(Renderer!vars)
    BY DEF ProvenInv, ProvenNext, Others
  <2> QED
    BY RendererMeasures, <2>1, RendererInvKept
<1>3. part = "mpd" => Mpd!Inv'
  <2>1. part = "mpd" => Mpd!Inv /\ [Mpd!Next]_(Mpd!vars)
    BY DEF ProvenInv, ProvenNext, Others
  <2> QED
    BY <2>1, MpdInvKept
<1>4. part = "xworkspaces" => XWorkspaces!Inv'
  <2>1. part = "xworkspaces" => XWorkspaces!Inv /\ [XWorkspaces!Next]_(XWorkspaces!vars)
    BY DEF ProvenInv, ProvenNext, Others
  <2> QED
    BY <2>1, XWorkspacesInvKept
<1>5. part = "screen" => Screen!Inv'
  <2>1. part = "screen" => Screen!Inv /\ [Screen!Next]_(Screen!vars)
    BY DEF ProvenInv, ProvenNext, Others
  <2> QED
    BY ScreenMonitors, <2>1, ScreenInvKept
<1>6. part = "hover" => Hover!Inv'
  <2>1. part = "hover" => Hover!Inv /\ [Hover!Next]_(Hover!vars)
    BY DEF ProvenInv, ProvenNext, Others
  <2> QED
    BY HoverCursors, <2>1, HoverInvKept
<1>7. part = "background" => Background!Inv'
  <2>1. part = "background" => Background!Inv /\ [Background!Next]_(Background!vars)
    BY DEF ProvenInv, ProvenNext, Others
  <2> QED
    BY BackgroundMeasures, <2>1, BackgroundInvKept
<1>8. part = "window" => Window!Inv'
  <2>1. part = "window" => Window!Inv /\ [Window!Next]_(Window!vars)
    BY DEF ProvenInv, ProvenNext, Others
  <2> QED
    BY <2>1, WindowInvKept
<1>9. part = "xwindow" => XWindow!Inv'
  <2>1. part = "xwindow" => XWindow!Inv /\ [XWindow!Next]_(XWindow!vars)
    BY DEF ProvenInv, ProvenNext, Others
  <2> QED
    BY <2>1, XWindowInvKept
<1>10. part = "tray" => Tray!Agreed'
  <2>1. part = "tray" => Tray!Agreed /\ [Tray!Next]_(Tray!vars)
    BY DEF ProvenInv, ProvenNext, Others
  <2> QED
    BY TrayWindows, <2>1, Tray!AgreedKept
<1>11. part = "alsa" => Alsa!Inv'
  <2>1. part = "alsa" => Alsa!Inv /\ [Alsa!Next]_(Alsa!vars)
    BY DEF ProvenInv, ProvenNext, Others
  <2> QED
    BY <2>1, AlsaInvKept
<1>12. part = "pulse" => Pulse!Inv'
  <2>1. part = "pulse" => Pulse!Inv /\ [Pulse!Next]_(Pulse!vars)
    BY DEF ProvenInv, ProvenNext, Others
  <2> QED
    BY PulseLevels, <2>1, Pulse!InvKept
<1>13. part = "net" => Net!Inv'
  <2>1. part = "net" => Net!Inv /\ [Net!Next]_(Net!vars)
    BY DEF ProvenInv, ProvenNext, Others
  <2> QED
    BY NetDrivers, <2>1, NetInvKept
<1>14. part = "ipc" => Ipc!Inv'
  <2>1. part = "ipc" => Ipc!Inv /\ [Ipc!Next]_(Ipc!vars)
    BY DEF ProvenInv, ProvenNext, Others
  <2> QED
    BY IpcMessages, <2>1, IpcInvKept
<1>15. part = "battery" => Battery!Inv'
  <2>1. part = "battery" => Battery!Inv /\ [Battery!Next]_(Battery!vars)
    BY DEF ProvenInv, ProvenNext, Others
  <2> QED
    BY BatteryScale, <2>1, BatteryInvKept
<1>16. part = "meters" => Meters!Inv'
  <2>1. part = "meters" => Meters!Inv /\ [Meters!Next]_(Meters!vars)
    BY DEF ProvenInv, ProvenNext, Others
  <2> QED
    BY MeterRange, <2>1, MetersInvKept
<1>17. part = "backlight" => Backlight!Inv'
  <2>1. part = "backlight" => Backlight!Inv /\ [Backlight!Next]_(Backlight!vars)
    BY DEF ProvenInv, ProvenNext, Others
  <2> QED
    BY BacklightRanges, <2>1, BacklightInvKept
<1>18. part = "date" => Date!Inv'
  <2>1. part = "date" => Date!Inv /\ [Date!Next]_(Date!vars)
    BY DEF ProvenInv, ProvenNext, Others
  <2> QED
    BY <2>1, DateInvKept
<1>19. part = "keyboard" => Keyboard!Inv'
  <2>1. part = "keyboard" => Keyboard!Inv /\ [Keyboard!Next]_(Keyboard!vars)
    BY DEF ProvenInv, ProvenNext, Others
  <2> QED
    BY KeyboardGroups, <2>1, KeyboardInvKept
<1>20. part = "i3" => I3!Inv'
  <2>1. part = "i3" => I3!Inv /\ [I3!Next]_(I3!vars)
    BY DEF ProvenInv, ProvenNext, Others
  <2> QED
    BY I3Layout, <2>1, I3InvKept
<1> QED
  BY <1>0, <1>1, <1>2, <1>3, <1>4, <1>5, <1>6, <1>7, <1>8, <1>9, <1>10, <1>11, <1>12,
     <1>13, <1>14, <1>15, <1>16, <1>17, <1>18, <1>19, <1>20 DEF ProvenInv

(* Nothing that happens elsewhere disturbs them.                           *)
LEMMA ProvenStays ==
  ASSUME UNCHANGED <<part, slots>>
  PROVE  ProvenNext
<1>1. UNCHANGED Script!vars
  BY DEF slots, Script!vars
<1>2. UNCHANGED Renderer!vars
  BY DEF slots, Renderer!vars
<1>3. UNCHANGED Mpd!vars
  BY DEF slots, Mpd!vars, Mpd!world, Mpd!client, Mpd!history
<1>4. UNCHANGED XWorkspaces!vars
  BY DEF slots, XWorkspaces!vars, XWorkspaces!wm, XWorkspaces!data
<1>5. UNCHANGED Screen!vars
  BY DEF slots, Screen!vars
<1>6. UNCHANGED Hover!vars
  BY DEF slots, Hover!vars, Hover!dimming, Hover!pointer
<1>7. UNCHANGED Background!vars
  BY DEF slots, Background!vars, Background!server, Background!tray
<1>8. UNCHANGED Window!vars
  BY DEF slots, Window!vars, Window!server, Window!wmanager, Window!main
<1>9. UNCHANGED XWindow!vars
  BY DEF slots, XWindow!vars, XWindow!server, XWindow!module
<1>10. UNCHANGED Tray!vars
  BY DEF slots, Tray!vars, Tray!selection, Tray!clients, Tray!room
<1>11. UNCHANGED Alsa!vars
  BY DEF slots, Alsa!vars
<1>12. UNCHANGED Pulse!vars
  BY DEF slots, Pulse!vars
<1>13. UNCHANGED Net!vars
  BY DEF slots, Net!vars
<1>14. UNCHANGED Ipc!vars
  BY DEF slots, Ipc!vars, Ipc!events
<1>15. UNCHANGED Battery!vars
  BY DEF slots, Battery!vars
<1>16. UNCHANGED Meters!vars
  BY DEF slots, Meters!vars
<1>17. UNCHANGED Backlight!vars
  BY DEF slots, Backlight!vars
<1>18. UNCHANGED Date!vars
  BY DEF slots, Date!vars
<1>19. UNCHANGED Keyboard!vars
  BY DEF slots, Keyboard!vars, Keyboard!label
<1>20. UNCHANGED I3!vars
  BY DEF slots, I3!vars
<1> QED
  BY <1>1, <1>2, <1>3, <1>4, <1>5, <1>6, <1>7, <1>8, <1>9, <1>10, <1>11, <1>12, <1>13,
     <1>14, <1>15, <1>16, <1>17, <1>18, <1>19, <1>20 DEF ProvenNext, Others

-----------------------------------------------------------------------------
(* Script: a stopped module leaves no command behind.                      *)
CommandsTerminated == part = "script" => Script!CommandsTerminated

(* Mpd: a broken connection ends polybar only if an action's connection    *)
(* has taken the handler of SIGPIPE with it.                               *)
PipeHandled == part = "mpd" => Mpd!PipeHandled

(* Tray: with all events handled, it is active iff it owns the selection.  *)
SelectionConsistent == part = "tray" => Tray!SelectionConsistent

(* Tray: its clients are the icons inside of its window.                   *)
IconsMirrored == part = "tray" => Tray!IconsMirrored

(* Tray: there is room for every icon that is mapped.                      *)
RoomForIcons == part = "tray" => Tray!RoomForIcons

(* Renderer: if the contents fit, every block is on the bar and none       *)
(* covers another, but for the room a block keeps that is not drawn any    *)
(* more.                                                                   *)
BlocksVisible == part = "renderer" => Renderer!BlocksVisible

(* The bar is on the monitor it names, its struts reach its edge, and no   *)
(* clone of another monitor is listed.                                     *)
MonitorsHandled ==
  part = "screen" => Screen!MonitorMatched /\ Screen!StrutsCoverBar /\ Screen!ClonesPurged

(* What the bar shows of a service, a sound card or server, a network, a   *)
(* file, a clock, a fifo, a window, the keyboard, the pointer or the       *)
(* wallpaper is what it was told,                                          *)
(* whatever the order in which this and the module's own threads got on;   *)
(* and its own window is seen, and where it was asked to be, as the bar    *)
(* and the window manager agreed: each with the exceptions that the code   *)
(* leaves, under their names in the module.                                *)
(* Polybar reloads when the monitors are not those it has looked at.       *)
ShownFollows ==
  /\ part = "mpd" => Mpd!StatusFollows
  /\ part = "alsa" => Alsa!ShowsHeard
  /\ part = "pulse" => Pulse!SinkFollows
  /\ part = "ipc" => Ipc!ChannelKept /\ Ipc!DeliveredAsSent
  /\ part = "battery" => Battery!ShownAsRead /\ Battery!RefreshedInTime /\ Battery!NoEcho /\ Battery!TimeLeft
  /\ part = "meters" => Meters!LoadAsSpent /\ Meters!ShownAsRead /\ Meters!Readings
  /\ part = "backlight" => Backlight!ShownAsHeard
  /\ part = "date" => Date!ShownAsToggled
  /\ part = "hover" => Hover!DimmedAsPointed /\ Hover!CursorAsArea
  /\ part = "keyboard" => Keyboard!LayoutFollows /\ Keyboard!LocksFollow
  /\ part = "xwindow" => XWindow!TitleFollows
  /\ part = "xworkspaces" => XWorkspaces!ShownAsPublished
  /\ part = "i3" => I3!ShownAsAnswered
  /\ part = "screen" => Screen!ScreenFollows
  /\ part = "net" => Net!ShownAsQueried /\ Net!ConnectedToSomething /\ Net!PingsRecent
  /\ part = "background" => Background!WallpaperBehind /\ Background!SlicesListed
  /\ part = "window" => Window!VisibilityTold /\ Window!HintsKept /\ Window!PlacedAsAsked

(* What an action promises is what comes of it.  Alsa: a toggle turns      *)
(* sound and silence; a step of the wheel moves the volume.  Backlight,    *)
(* Keyboard, I3: a step goes to the next value, group or workspace.        *)
ActionsTakeEffect ==
  /\ part = "alsa" => Alsa!ToggleTurns /\ Alsa!StepMoves
  /\ part = "backlight" => Backlight!StepMoves
  /\ part = "keyboard" => Keyboard!SwitchMoves
  /\ part = "i3" => I3!ScrollTurns

(* What the invariants say of these properties.                            *)
LEMMA ProvenInvSays ==
  ASSUME ProvenInv
  PROVE  /\ CommandsTerminated /\ PipeHandled /\ ShownFollows
         /\ SelectionConsistent /\ IconsMirrored /\ RoomForIcons
         /\ BlocksVisible /\ ActionsTakeEffect /\ MonitorsHandled
<1>1. CommandsTerminated
  BY ScriptInvTerminated DEF ProvenInv, CommandsTerminated
<1>2. PipeHandled
  BY DEF ProvenInv, PipeHandled, Mpd!Inv
<1>3. SelectionConsistent
  BY Tray!InvConsistent DEF ProvenInv, SelectionConsistent, Tray!Agreed
<1>4. IconsMirrored
  BY TrayWindows, Tray!EmbeddedMirrored DEF ProvenInv, IconsMirrored
<1>5. RoomForIcons
  BY TrayWindows, Tray!EmbeddedRoom DEF ProvenInv, RoomForIcons
<1>6. ShownFollows
  <2>1. part = "mpd" => Mpd!StatusFollows
    BY DEF ProvenInv, Mpd!Inv
  <2>2. part = "alsa" => Alsa!ShowsHeard
    BY AlsaInvShows DEF ProvenInv
  <2>3. part = "ipc" => Ipc!ChannelKept /\ Ipc!DeliveredAsSent
    BY IpcMessages, IpcInvKeeps, IpcInvDelivers DEF ProvenInv
  <2>4. part = "backlight" => Backlight!ShownAsHeard
    BY BacklightInvShown DEF ProvenInv
  <2>5. part = "date" => Date!ShownAsToggled
    BY DateInvShown DEF ProvenInv
  <2>6. part = "hover" => Hover!DimmedAsPointed /\ Hover!CursorAsArea
    BY HoverInvDimmed DEF ProvenInv, Hover!Inv, Hover!Pointing
  <2>7. part = "xwindow" => XWindow!TitleFollows
    BY XWindowInvTitle DEF ProvenInv
  <2>8. part = "xworkspaces" => XWorkspaces!ShownAsPublished
    BY XWorkspacesInvPublished DEF ProvenInv
  <2>9. part = "i3" => I3!ShownAsAnswered
    BY I3InvShown DEF ProvenInv
  <2>10. part = "window" => Window!VisibilityTold /\ Window!HintsKept /\ Window!PlacedAsAsked
    BY WindowInvSettles DEF ProvenInv
  <2>11. part = "battery" => Battery!ShownAsRead /\ Battery!RefreshedInTime /\ Battery!NoEcho
    BY BatteryInvShown DEF ProvenInv
  <2>12. part = "battery" => Battery!TimeLeft
    BY BatteryScale, BatteryTimeLeftRight
  <2>13. part = "keyboard" => Keyboard!LayoutFollows /\ Keyboard!LocksFollow
    BY KeyboardGroups, KeyboardInvFollows DEF ProvenInv
  <2>14. part = "screen" => Screen!ScreenFollows
    BY ScreenMonitors, ScreenInvHandled DEF ProvenInv
  <2>15. part = "net" => Net!ShownAsQueried /\ Net!ConnectedToSomething /\ Net!PingsRecent
    BY NetDrivers, NetInvShown DEF ProvenInv
  <2>16. part = "background" => Background!WallpaperBehind /\ Background!SlicesListed
    BY BackgroundInvBehind DEF ProvenInv
  <2>17. part = "pulse" => Pulse!SinkFollows
    BY Pulse!InvFollows DEF ProvenInv
  <2>18. part = "meters" => Meters!LoadAsSpent /\ Meters!ShownAsRead /\ Meters!Readings
    BY MetersInvShows, MetersReadingsAreRight DEF ProvenInv
  <2> QED
    BY <2>1, <2>2, <2>3, <2>4, <2>5, <2>6, <2>7, <2>8, <2>9, <2>10, <2>11, <2>12, <2>13, <2>14, <2>15, <2>16, <2>17, <2>18 DEF ShownFollows
<1>7. BlocksVisible
  BY RendererMeasures, RendererInvVisible DEF ProvenInv, BlocksVisible
<1>8. ActionsTakeEffect
  <2>1. part = "alsa" => Alsa!ToggleTurns /\ Alsa!StepMoves
    BY AlsaInvShows, AlsaStepsMove DEF ProvenInv
  <2>2. part = "backlight" => Backlight!StepMoves
    BY BacklightRanges, BacklightInvMoves DEF ProvenInv
  <2>3. part = "keyboard" => Keyboard!SwitchMoves
    BY DEF ProvenInv, Keyboard!Inv
  <2>4. part = "i3" => I3!ScrollTurns
    BY I3InvShown DEF ProvenInv
  <2> QED
    BY <2>1, <2>2, <2>3, <2>4 DEF ActionsTakeEffect
<1>9. MonitorsHandled
  BY ScreenMonitors, ScreenInvHandled DEF ProvenInv, MonitorsHandled
<1> QED
  BY <1>1, <1>2, <1>3, <1>4, <1>5, <1>6, <1>7, <1>8, <1>9
=============================================================================
