---------------------------- MODULE ContentProofs ----------------------------
(***************************************************************************)
(* The window's pixels and the stream the agent accepts (ContentCheck),    *)
(* for every set of widths, contents and damage and any number of commits, *)
(* presentations and messages on their way.                                *)
(*                                                                         *)
(* In this order: facts about sequences and what patches make of a         *)
(* framebuffer; the stream to the agent, as a reader of it understands it  *)
(* (Follows, from what a reader knows of the window); the invariant: the   *)
(* framebuffer is a content of the history (PixelInv), and what the proxy  *)
(* has come to is where the rest of the stream begins (StreamInv); what    *)
(* each handler of the agent and each step of the exporter does to them;   *)
(* the two theorems they give; last, that an exporter that resizes only    *)
(* when every PRESENT is acknowledged is never refused (Accepted).         *)
(***************************************************************************)
EXTENDS ContentCheck, GeometryLemmas, FiniteSetTheorems, SequenceTheorems, WellFoundedInduction

(* Numbers and sequences.                                                  *)

\* A set of naturals that is not empty has a least member.
LEMMA Least ==
    ASSUME NEW T, T \subseteq Nat, T # {}
    PROVE  \E n \in T : \A k \in T : n <= k
  <1>. DEFINE R == OpToRel(<, Nat)
  <1>1. IsWellFoundedOn(R, Nat)
    BY NatLessThanWellFounded
  <1>2. \A x, y \in Nat : y < x => <<y, x>> \in R
    BY DEF OpToRel
  <1>. HIDE DEF R
  <1>3. PICK x \in T : \A y \in T : ~ (<<y, x>> \in R)
    BY <1>1, WFMin
  <1>4. x \in Nat /\ \A y \in T : y \in Nat
    OBVIOUS
  <1>5. \A y \in T : ~(y < x)
    BY <1>2, <1>3, <1>4
  <1>6. \A y \in T : x <= y
    BY <1>4, <1>5
  <1>. QED
    BY <1>6

\* Induction up to a number, over a set and not over a predicate.
LEMMA NatInd ==
    ASSUME NEW P, 0 \in P, NEW m \in Nat,
           \A n \in 0 .. m - 1 : n \in P => n + 1 \in P
    PROVE  \A n \in 0 .. m : n \in P
  <1>. DEFINE T == {n \in 0 .. m : n \notin P}
  <1>1. SUFFICES ASSUME T # {} PROVE FALSE
    OBVIOUS
  <1>2. T \subseteq Nat
    OBVIOUS
  <1>3. PICK n \in T : \A k \in T : n <= k
    BY <1>1, <1>2, Least
  <1>4. n \in Nat /\ n <= m /\ n \notin P /\ n # 0
    BY <1>3
  <1>5. n - 1 \in 0 .. m - 1 /\ n - 1 \notin T
    BY <1>3, <1>4
  <1>6. n - 1 \in P
    BY <1>5
  <1>7. (n - 1) + 1 \in P
    BY <1>5, <1>6
  <1>. QED
    BY <1>4, <1>7

\* What the recursive function inside Patched computes, step by step.
Patches(patched, framebuffer, rects) ==
    /\ patched[0] = framebuffer
    /\ \A n \in 1 .. Len(rects) :
          patched[n] = {p \in patched[n - 1] : ~RectContainsPoint(rects[n].rect, p)} \cup rects[n].pixels

\* The recursive function inside Patched exists.
LEMMA PatchedIsDefined ==
    ASSUME NEW S, NEW rects \in Seq(S), NEW framebuffer
    PROVE  \E patched : Patches(patched, framebuffer, rects) /\ Patched(framebuffer, rects) = patched[Len(rects)]
  <1>. DEFINE N == Len(rects)
              Over(fb, n) == {p \in fb : ~RectContainsPoint(rects[n].rect, p)} \cup rects[n].pixels
              Upto(g, m) == g[0] = framebuffer /\ \A n \in 1 .. m : g[n] = Over(g[n - 1], n)
              P == {m \in 0 .. N : \E g : Upto(g, m)}
  <1>1. N \in Nat
    BY LenProperties
  <1>. HIDE DEF Over
  <1>2. 0 \in P
    <2>. DEFINE g == [n \in {0} |-> framebuffer]
    <2>1. Upto(g, 0)
      OBVIOUS
    <2>2. \E h : Upto(h, 0)
      BY <2>1, Zenon
    <2>. QED
      BY <1>1, <2>2
  <1>3. ASSUME NEW m \in 0 .. N - 1, m \in P PROVE m + 1 \in P
    <2>1. PICK g : Upto(g, m)
      BY <1>3
    <2>2. m \in Nat /\ m + 1 \in 0 .. N /\ m + 1 >= 1
      BY <1>1
    <2>. DEFINE last == Over(g[m], m + 1)
                h == [n \in 0 .. m + 1 |-> IF n = m + 1 THEN last ELSE g[n]]
    <2>3. h[m + 1] = last /\ h[m] = g[m] /\ h[0] = framebuffer
      BY <2>1, <2>2
    <2>4. \A n \in 1 .. m : h[n] = g[n] /\ h[n - 1] = g[n - 1]
      BY <2>2
    <2>5. \A n \in 1 .. m + 1 : n \in 1 .. m \/ n = m + 1
      BY <2>2
    <2>6. (m + 1) - 1 = m
      BY <2>2
    <2>. HIDE DEF h
    <2>7. \A n \in 1 .. m + 1 : h[n] = Over(h[n - 1], n)
      <3>1. ASSUME NEW n \in 1 .. m PROVE h[n] = Over(h[n - 1], n)
        BY <2>1, <2>4
      <3>2. h[m + 1] = Over(h[(m + 1) - 1], m + 1)
        BY <2>3, <2>6
      <3>. QED
        BY <2>5, <3>1, <3>2
    <2>8. Upto(h, m + 1)
      BY <2>3, <2>7
    <2>. HIDE DEF Upto
    <2>. QED
      BY <2>2, <2>8
  <1>4. N \in P
    <2>. HIDE DEF P
    <2>1. \A n \in 0 .. N : n \in P
      BY <1>1, <1>2, <1>3, NatInd
    <2>. QED
      BY <1>1, <2>1
  <1>5. PICK g : Upto(g, N)
    BY <1>4
  <1>. DEFINE Body(k) == [n \in 0 .. N |-> IF n = 0 THEN framebuffer ELSE Over(k[n - 1], n)]
              f == [n \in 0 .. N |-> g[n]]
  <1>6. f = Body(f)
    <2>1. \A n \in 1 .. N : f[n] = g[n] /\ f[n - 1] = g[n - 1]
      BY <1>1
    <2>2. f[0] = framebuffer
      BY <1>1, <1>5
    <2>3. \A n \in 0 .. N : n = 0 \/ n \in 1 .. N
      BY <1>1
    <2>4. \A n \in 0 .. N : f[n] = Body(f)[n]
      BY <1>5, <2>1, <2>2, <2>3
    <2>. QED
      BY <2>4
  <1>. DEFINE patched == CHOOSE k : k = Body(k)
  <1>7. patched = Body(patched)
    BY <1>6
  <1>8. Patched(framebuffer, rects) = patched[Len(rects)]
    BY DEF Patched, Over
  <1>9. Patches(patched, framebuffer, rects)
    <2>. HIDE DEF patched
    <2>1. \A k : Body(k)[0] = framebuffer /\ \A n \in 1 .. N : Body(k)[n] = Over(k[n - 1], n)
      BY <1>1
    <2>. HIDE DEF Body
    <2>2. patched[0] = framebuffer /\ \A n \in 1 .. N : patched[n] = Over(patched[n - 1], n)
      BY <1>7, <2>1
    <2>. QED
      BY <2>2 DEF Patches, Over
  <1>. QED
    BY <1>8, <1>9

\* The damage of a content: the parts of its image in each of the rectangles.
Pieces(rects, image) ==
    [i \in DOMAIN rects |->
        [rect |-> rects[i], pixels |-> {p \in image : RectContainsPoint(rects[i], p)}]]

\* Damage that covers what changed makes of the old image the new one, whatever
\* else it covers and however its rectangles overlap.
LEMMA DamageIsExact ==
    ASSUME NEW rects \in Seq(Rect), NEW old, NEW new,
           \A p \in (old \ new) \cup (new \ old) : \E r \in ToSet(rects) : RectContainsPoint(r, p)
    PROVE  Patched(old, Pieces(rects, new)) = new
  <1>. DEFINE pieces == Pieces(rects, new)
              N == Len(rects)
              In(n, p) == RectContainsPoint(rects[n], p)
  <1>1. N \in Nat /\ DOMAIN rects = 1 .. N
    BY LenProperties
  <1>2. /\ pieces \in Seq({pieces[i] : i \in 1 .. N}) /\ Len(pieces) = N
        /\ \A i \in 1 .. N : pieces[i].rect = rects[i] /\ pieces[i].pixels = {p \in new : In(i, p)}
    <2>1. pieces = [i \in 1 .. N |-> [rect |-> rects[i], pixels |-> {p \in new : In(i, p)}]]
      BY <1>1 DEF Pieces
    <2>. HIDE DEF pieces
    <2>2. pieces \in [1 .. N -> {pieces[i] : i \in 1 .. N}]
      BY <2>1
    <2>3. pieces \in Seq({pieces[i] : i \in 1 .. N}) /\ Len(pieces) = N
      BY <1>1, <2>2, SeqDef
    <2>. QED
      BY <2>1, <2>3
  <1>. HIDE DEF pieces
  <1>3. PICK patched : Patches(patched, old, pieces) /\ Patched(old, pieces) = patched[N]
    BY <1>2, PatchedIsDefined
  <1>4. \A n \in 1 .. N : patched[n] = {p \in patched[n - 1] : ~In(n, p)} \cup {p \in new : In(n, p)}
    BY <1>2, <1>3 DEF Patches
  <1>. HIDE DEF In
  <1>. DEFINE Good(n) == \A p : p \in patched[n] <=>
                            IF \E i \in 1 .. n : In(i, p) THEN p \in new ELSE p \in old
              P == {n \in 0 .. N : Good(n)}
  <1>5. 0 \in P
    BY <1>1, <1>3 DEF Patches
  <1>6. ASSUME NEW n \in 0 .. N - 1, n \in P PROVE n + 1 \in P
    <2>1. n + 1 \in 1 .. N /\ (n + 1) - 1 = n /\ \A i : i \in 1 .. n + 1 <=> i \in 1 .. n \/ i = n + 1
      BY <1>1
    <2>2. patched[n + 1] = {p \in patched[n] : ~In(n + 1, p)} \cup {p \in new : In(n + 1, p)}
      BY <1>4, <2>1
    <2>3. Good(n)
      BY <1>6
    <2>4. ASSUME NEW p
          PROVE  p \in patched[n + 1] <=> IF \E i \in 1 .. n + 1 : In(i, p) THEN p \in new ELSE p \in old
      BY <2>1, <2>2, <2>3
    <2>. QED
      BY <1>1, <2>1, <2>4
  <1>. HIDE DEF P
  <1>7. N \in P
    <2>1. \A n \in 0 .. N : n \in P
      BY <1>1, <1>5, <1>6, NatInd
    <2>. QED
      BY <1>1, <2>1
  <1>8. \A p : p \in patched[N] <=> IF \E i \in 1 .. N : In(i, p) THEN p \in new ELSE p \in old
    BY <1>7 DEF P
  <1>9. \A p : p \in (old \ new) \cup (new \ old) => \E i \in 1 .. N : In(i, p)
    BY <1>1 DEF ToSet, In
  <1>10. \A p : p \in patched[N] <=> p \in new
    BY <1>8, <1>9
  <1>11. patched[N] = new
    BY <1>10
  <1>. QED
    BY <1>3, <1>11 DEF pieces

-----------------------------------------------------------------------------
(* The stream to the agent, as a reader of it understands it.              *)

FrameOf(h, n) ==
    WindowFrame(Content, n, h[n].width, 1, Stride(h[n].width) + Padding, h[n].image)
DamageOf(h, n, rects) == WindowDamage(Content, n, n + 1, Pieces(rects, h[n + 1].image))
ResizeOf(width) == WindowResize(Content, width, 1)
Region(width, visible) == IF visible THEN Surface(0, width) ELSE EmptyRect
PresentationOf(width, sequence, visible) ==
    [sequence |-> sequence, source |-> Region(width, visible),
     destination |-> Region(width, visible), visible |-> visible]
PresentOf(width, sequence, visible) == WindowPresent(Content, PresentationOf(width, sequence, visible))
CreateOf(width) == WindowCreate(Content, 0, width, 1)

\* What a reader of the stream knows: whether it has read the scale and the
\* CREATE, the window's width, the content told of last, and whether a RESIZE
\* still owes it a frame or a presentation.
StreamType == [stage : 0 .. 2, width : Nat, told : Nat, owed : BOOLEAN, unfit : BOOLEAN]

Covered(h, n, rects) ==
    \A p \in (h[n].image \ h[n + 1].image) \cup (h[n + 1].image \ h[n].image) :
       \E r \in ToSet(rects) : RectContainsPoint(r, p)

SoundFrame(h, r, m) ==
    \E n \in 1 .. Len(h) : n >= r.told /\ h[n].width = r.width /\ m = FrameOf(h, n)
SoundDamage(h, r, m) ==
    \E n \in 1 .. Len(h) - 1 : \E rects \in Damages :
       /\ n >= r.told /\ h[n].width = r.width /\ h[n + 1].width = r.width
       /\ Covered(h, n, rects) /\ m = DamageOf(h, n, rects)
SoundResize(h, r, m) ==
    \E n \in r.told + 1 .. Len(h) : h[n].width # r.width /\ m = ResizeOf(h[n].width)
SoundPresent(r, m) ==
    \E sequence \in Nat, visible \in BOOLEAN : m = PresentOf(r.width, sequence, visible)

\* What makes a message one that a reader who knows r expects when the contents
\* so far are h, and what it knows after it.
Sound(h, r, m) ==
    \/ m = HelloAck
    \/ r.stage = 0 /\ m = OutputConfig(UnitScale)
    \/ r.stage = 1 /\ m = CreateOf(h[1].width)
    \/ /\ r.stage = 2
       /\ SoundFrame(h, r, m) \/ SoundDamage(h, r, m) \/ SoundResize(h, r, m) \/ SoundPresent(r, m)
Then(r, m) ==
    [stage |-> IF m.type = "OUTPUT_CONFIG" THEN 1 ELSE IF m.type = "WINDOW_CREATE" THEN 2 ELSE r.stage,
     width |-> IF m.type \in {"WINDOW_CREATE", "WINDOW_RESIZE"} THEN m.width ELSE r.width,
     told  |-> IF m.type \in {"WINDOW_FRAME", "WINDOW_DAMAGE"} THEN m.sequence ELSE r.told,
     owed  |-> IF m.type = "WINDOW_RESIZE" THEN TRUE ELSE IF m.type = "WINDOW_FRAME" THEN FALSE ELSE r.owed,
     unfit |-> IF m.type = "WINDOW_RESIZE" THEN TRUE ELSE IF m.type = "WINDOW_PRESENT" THEN FALSE ELSE r.unfit]

\* A reader who knows r expects each of the messages s in turn and knows last
\* after them.
Follows(h, r, s, last) ==
    /\ \E S : s \in Seq(S)
    /\ \E k : /\ k[0] = r /\ k[Len(s)] = last
              /\ \A n \in 0 .. Len(s) : k[n] \in StreamType
              /\ \A n \in 1 .. Len(s) : Sound(h, k[n - 1], s[n]) /\ k[n] = Then(k[n - 1], s[n])

\* Contents as the exporter commits them.
ContentType == [width : Widths, image : SUBSET [x : Nat, y : {0}]]

\* What a message is, by its type.
LEMMA SoundKinds ==
    ASSUME NEW h, NEW r, NEW m, Sound(h, r, m)
    PROVE  /\ m.type \in {"HELLO_ACK", "OUTPUT_CONFIG", "WINDOW_CREATE", "WINDOW_RESIZE", "WINDOW_FRAME",
                          "WINDOW_DAMAGE", "WINDOW_PRESENT"}
           /\ m.type = "OUTPUT_CONFIG" => r.stage = 0 /\ m = OutputConfig(UnitScale)
           /\ m.type = "WINDOW_CREATE" => r.stage = 1 /\ m = CreateOf(h[1].width)
           /\ m.type = "WINDOW_FRAME" => r.stage = 2 /\ SoundFrame(h, r, m)
           /\ m.type = "WINDOW_DAMAGE" => r.stage = 2 /\ SoundDamage(h, r, m)
           /\ m.type = "WINDOW_RESIZE" => r.stage = 2 /\ SoundResize(h, r, m)
           /\ m.type = "WINDOW_PRESENT" => r.stage = 2 /\ SoundPresent(r, m)
  <1>1. /\ HelloAck.type = "HELLO_ACK" /\ OutputConfig(UnitScale).type = "OUTPUT_CONFIG"
        /\ \A w : CreateOf(w).type = "WINDOW_CREATE" /\ ResizeOf(w).type = "WINDOW_RESIZE"
        /\ \A n : FrameOf(h, n).type = "WINDOW_FRAME"
        /\ \A n, rects : DamageOf(h, n, rects).type = "WINDOW_DAMAGE"
        /\ \A w, n, v : PresentOf(w, n, v).type = "WINDOW_PRESENT"
    BY DEF HelloAck, OutputConfig, CreateOf, ResizeOf, FrameOf, DamageOf, PresentOf, WindowCreate,
           WindowResize, WindowFrame, WindowDamage, WindowPresent
  <1>2. SoundFrame(h, r, m) => m.type = "WINDOW_FRAME"
    BY <1>1 DEF SoundFrame
  <1>3. SoundDamage(h, r, m) => m.type = "WINDOW_DAMAGE"
    BY <1>1 DEF SoundDamage
  <1>4. SoundResize(h, r, m) => m.type = "WINDOW_RESIZE"
    BY <1>1 DEF SoundResize
  <1>5. SoundPresent(r, m) => m.type = "WINDOW_PRESENT"
    BY <1>1 DEF SoundPresent
  <1>6. m = HelloAck => m.type = "HELLO_ACK"
    BY <1>1
  <1>7. m = OutputConfig(UnitScale) => m.type = "OUTPUT_CONFIG"
    BY <1>1
  <1>8. m = CreateOf(h[1].width) => m.type = "WINDOW_CREATE"
    BY <1>1
  <1>. QED
    BY <1>2, <1>3, <1>4, <1>5, <1>6, <1>7, <1>8 DEF Sound

\* The fields of a message.
LEMMA CreateFields ==
    ASSUME NEW w
    PROVE  /\ CreateOf(w).type = "WINDOW_CREATE" /\ CreateOf(w).id = Content
           /\ CreateOf(w).parent = 0 /\ CreateOf(w).width = w /\ CreateOf(w).height = 1
  BY DEF CreateOf, WindowCreate

\* The fields of a message.
LEMMA ResizeFields ==
    ASSUME NEW w
    PROVE  /\ ResizeOf(w).type = "WINDOW_RESIZE" /\ ResizeOf(w).id = Content
           /\ ResizeOf(w).width = w /\ ResizeOf(w).height = 1
  BY DEF ResizeOf, WindowResize

\* The fields of a message.
LEMMA FrameFields ==
    ASSUME NEW h, NEW n
    PROVE  /\ FrameOf(h, n).type = "WINDOW_FRAME" /\ FrameOf(h, n).id = Content
           /\ FrameOf(h, n).sequence = n /\ FrameOf(h, n).width = h[n].width
           /\ FrameOf(h, n).height = 1 /\ FrameOf(h, n).pixels = h[n].image
           /\ FrameOf(h, n).stride = Stride(h[n].width) + Padding
  BY DEF FrameOf, WindowFrame

\* The fields of a message.
LEMMA DamageFields ==
    ASSUME NEW h, NEW n, NEW rects
    PROVE  /\ DamageOf(h, n, rects).type = "WINDOW_DAMAGE" /\ DamageOf(h, n, rects).id = Content
           /\ DamageOf(h, n, rects).base = n /\ DamageOf(h, n, rects).sequence = n + 1
           /\ DamageOf(h, n, rects).rects = Pieces(rects, h[n + 1].image)
  BY DEF DamageOf, WindowDamage

\* The fields of a message.
LEMMA PresentFields ==
    ASSUME NEW w, NEW n, NEW v
    PROVE  /\ PresentOf(w, n, v).type = "WINDOW_PRESENT" /\ PresentOf(w, n, v).id = Content
           /\ PresentOf(w, n, v).presentation = PresentationOf(w, n, v)
  BY DEF PresentOf, WindowPresent

\* A width, and what is in the history.
LEMMA WidthFacts ==
    \A w \in Widths : w \in Nat /\ w >= 1 /\ w <= MaxPixels /\ w <= MaxInt
  BY ContentAssumption, MaxIntAssumption

\* What a reader knows stays well typed.
LEMMA ThenType ==
    ASSUME NEW h \in Seq(ContentType), h # <<>>, NEW r \in StreamType, NEW m, Sound(h, r, m)
    PROVE  /\ Then(r, m) \in StreamType
           /\ m.type = "HELLO_ACK" => Then(r, m) = r
  <1>1. /\ r.stage \in 0 .. 2 /\ r.width \in Nat /\ r.told \in Nat /\ r.owed \in BOOLEAN /\ r.unfit \in BOOLEAN
        /\ r = [stage |-> r.stage, width |-> r.width, told |-> r.told, owed |-> r.owed, unfit |-> r.unfit]
    BY DEF StreamType
  <1>2. Len(h) \in Nat /\ 1 \in 1 .. Len(h) /\ \A n \in 1 .. Len(h) : h[n].width \in Nat
    <2>1. Len(h) \in Nat /\ Len(h) # 0
      BY LenProperties, EmptySeq
    <2>2. \A n \in 1 .. Len(h) : h[n] \in ContentType
      BY ElementOfSeq
    <2>. QED
      BY <2>1, <2>2, WidthFacts DEF ContentType
  <1>3. m.type = "WINDOW_CREATE" => m.width \in Nat
    <2>. SUFFICES ASSUME m.type = "WINDOW_CREATE" PROVE m.width \in Nat
      OBVIOUS
    <2>1. m = CreateOf(h[1].width)
      BY SoundKinds
    <2>. QED
      BY <2>1, <1>2, CreateFields
  <1>4. m.type = "WINDOW_RESIZE" => m.width \in Nat
    <2>. SUFFICES ASSUME m.type = "WINDOW_RESIZE" PROVE m.width \in Nat
      OBVIOUS
    <2>1. PICK n \in r.told + 1 .. Len(h) : m = ResizeOf(h[n].width)
      BY SoundKinds DEF SoundResize
    <2>2. n \in 1 .. Len(h)
      BY <1>1, <1>2
    <2>. QED
      BY <2>1, <2>2, <1>2, ResizeFields
  <1>5. m.type = "WINDOW_FRAME" => m.sequence \in Nat
    <2>. SUFFICES ASSUME m.type = "WINDOW_FRAME" PROVE m.sequence \in Nat
      OBVIOUS
    <2>1. PICK n \in 1 .. Len(h) : m = FrameOf(h, n)
      BY SoundKinds DEF SoundFrame
    <2>. QED
      BY <2>1, <1>2, FrameFields
  <1>6. m.type = "WINDOW_DAMAGE" => m.sequence \in Nat
    <2>. SUFFICES ASSUME m.type = "WINDOW_DAMAGE" PROVE m.sequence \in Nat
      OBVIOUS
    <2>1. PICK n \in 1 .. Len(h) - 1 : \E rects \in Damages : m = DamageOf(h, n, rects)
      BY SoundKinds DEF SoundDamage
    <2>2. n + 1 \in Nat
      BY <1>2
    <2>. QED
      BY <2>1, <2>2, DamageFields
  <1>. DEFINE t == Then(r, m)
  <1>7. t.stage \in 0 .. 2 /\ t.width \in Nat /\ t.told \in Nat
    BY <1>1, <1>3, <1>4, <1>5, <1>6 DEF Then
  <1>10. t.owed \in BOOLEAN /\ t.unfit \in BOOLEAN
    BY <1>1 DEF Then
  <1>11. t = [stage |-> t.stage, width |-> t.width, told |-> t.told, owed |-> t.owed, unfit |-> t.unfit]
    BY DEF Then
  <1>8. m.type = "HELLO_ACK" => t = r
    BY <1>1 DEF Then
  <1>. HIDE DEF t
  <1>9. t \in StreamType
    BY <1>7, <1>10, <1>11 DEF StreamType
  <1>. QED
    BY <1>8, <1>9 DEF t

\* A sequence over a set is one over any larger set.
LEMMA SeqOfMore ==
    ASSUME NEW S, NEW T, S \subseteq T, NEW s \in Seq(S)
    PROVE  s \in Seq(T)
  OBVIOUS

\* Nothing to read changes nothing.
LEMMA FollowsNothing ==
    ASSUME NEW hist, NEW r \in StreamType
    PROVE  Follows(hist, r, <<>>, r)
  <1>. DEFINE h == [n \in {0} |-> r]
  <1>1. <<>> \in Seq({}) /\ Len(<<>>) = 0
    OBVIOUS
  <1>2. h[0] = r /\ (\A n \in 0 .. 0 : h[n] \in StreamType) /\ 1 .. 0 = {}
    OBVIOUS
  <1>. HIDE DEF h
  <1>3. \E g : /\ g[0] = r /\ g[Len(<<>>)] = r /\ \A n \in 0 .. Len(<<>>) : g[n] \in StreamType
               /\ \A n \in 1 .. Len(<<>>) : Sound(hist, g[n - 1], <<>>[n]) /\ g[n] = Then(g[n - 1], <<>>[n])
    BY <1>1, <1>2
  <1>. QED
    BY <1>1, <1>3 DEF Follows

\* One message.
LEMMA FollowsOne ==
    ASSUME NEW hist, NEW r \in StreamType, NEW m, Sound(hist, r, m), Then(r, m) \in StreamType
    PROVE  Follows(hist, r, <<m>>, Then(r, m))
  <1>. DEFINE s == <<m>>
              last == Then(r, m)
              h == [n \in 0 .. 1 |-> IF n = 0 THEN r ELSE last]
  <1>1. s \in Seq({m}) /\ Len(s) = 1 /\ s[1] = m
    OBVIOUS
  <1>. HIDE DEF s, last
  <1>2. h[0] = r /\ h[1] = last /\ \A n \in 0 .. 1 : h[n] \in StreamType
    BY DEF last
  <1>. HIDE DEF h
  <1>3. \A n \in 1 .. 1 : n = 1 /\ n - 1 = 0
    OBVIOUS
  <1>4. \A n \in 1 .. 1 : Sound(hist, h[n - 1], s[n]) /\ h[n] = Then(h[n - 1], s[n])
    BY <1>1, <1>2, <1>3 DEF last
  <1>5. Follows(hist, r, s, last)
    BY <1>1, <1>2, <1>4 DEF Follows
  <1>. QED
    BY <1>5 DEF s, last

\* One lot of messages and then another.
LEMMA FollowsBoth ==
    ASSUME NEW hist, NEW r, NEW s, NEW mid, NEW t, NEW last, Follows(hist, r, s, mid), Follows(hist, mid, t, last)
    PROVE  Follows(hist, r, s \o t, last)
  <1>1. PICK S : s \in Seq(S)
    BY DEF Follows
  <1>2. PICK T : t \in Seq(T)
    BY DEF Follows
  <1>. DEFINE M == S \cup T
              a == s \o t
              k == Len(s)
              l == Len(t)
  <1>3. s \in Seq(M) /\ t \in Seq(M)
    BY <1>1, <1>2, SeqOfMore
  <1>4. /\ a \in Seq(M) /\ Len(a) = k + l /\ k \in Nat /\ l \in Nat
        /\ \A n \in 1 .. k + l : a[n] = IF n <= k THEN s[n] ELSE t[n - k]
    BY <1>3, ConcatProperties, LenProperties
  <1>5. PICK g : /\ g[0] = r /\ g[k] = mid
                 /\ \A n \in 0 .. k : g[n] \in StreamType
                 /\ \A n \in 1 .. k : Sound(hist, g[n - 1], s[n]) /\ g[n] = Then(g[n - 1], s[n])
    BY DEF Follows
  <1>6. PICK h : /\ h[0] = mid /\ h[l] = last
                 /\ \A n \in 0 .. l : h[n] \in StreamType
                 /\ \A n \in 1 .. l : Sound(hist, h[n - 1], t[n]) /\ h[n] = Then(h[n - 1], t[n])
    BY DEF Follows
  <1>. DEFINE f == [n \in 0 .. k + l |-> IF n <= k THEN g[n] ELSE h[n - k]]
  <1>. HIDE DEF M, a, k, l
  <1>7. /\ \A n \in 0 .. k : f[n] = g[n]
        /\ \A n \in 0 .. l : f[k + n] = h[n]
    <2>1. \A n \in 0 .. k : n \in 0 .. k + l /\ n <= k
      BY <1>4
    <2>2. \A n \in 1 .. l : k + n \in 0 .. k + l /\ ~(k + n <= k) /\ (k + n) - k = n
      BY <1>4
    <2>3. k + 0 = k /\ k \in 0 .. k /\ \A n \in 0 .. l : n = 0 \/ n \in 1 .. l
      BY <1>4
    <2>4. \A n \in 0 .. k : f[n] = g[n]
      BY <2>1
    <2>5. \A n \in 1 .. l : f[k + n] = h[n]
      BY <2>2
    <2>. HIDE DEF f
    <2>. QED
      BY <1>5, <1>6, <2>3, <2>4, <2>5
  <1>8. /\ \A n \in 1 .. k : a[n] = s[n] /\ n - 1 \in 0 .. k
        /\ \A n \in 1 .. l : a[k + n] = t[n] /\ n - 1 \in 0 .. l /\ (k + n) - 1 = k + (n - 1)
    BY <1>4
  <1>. HIDE DEF f
  <1>9. \A n \in 1 .. k : Sound(hist, f[n - 1], a[n]) /\ f[n] = Then(f[n - 1], a[n])
    BY <1>4, <1>5, <1>7, <1>8
  <1>10. ASSUME NEW n \in 1 .. l
         PROVE  Sound(hist, f[(k + n) - 1], a[k + n]) /\ f[k + n] = Then(f[(k + n) - 1], a[k + n])
    BY <1>4, <1>6, <1>7, <1>8
  <1>11. \A n \in 1 .. k + l : n \in 1 .. k \/ \E i \in 1 .. l : n = k + i
    <2>1. \A n \in 1 .. k + l : n \in 1 .. k \/ (n - k \in 1 .. l /\ n = k + (n - k))
      BY <1>4
    <2>. QED
      BY <2>1
  <1>12. \A n \in 1 .. Len(a) : Sound(hist, f[n - 1], a[n]) /\ f[n] = Then(f[n - 1], a[n])
    BY <1>4, <1>9, <1>10, <1>11
  <1>13. \A n \in 0 .. k + l : n \in 0 .. k \/ \E i \in 0 .. l : n = k + i
    <2>1. \A n \in 0 .. k + l : n \in 0 .. k \/ (n - k \in 0 .. l /\ n = k + (n - k))
      BY <1>4
    <2>. QED
      BY <2>1
  <1>14. \A n \in 0 .. Len(a) : f[n] \in StreamType
    <2>. SUFFICES ASSUME NEW n \in 0 .. k + l PROVE f[n] \in StreamType
      BY <1>4
    <2>1. CASE n \in 0 .. k
      BY <1>5, <1>7, <2>1
    <2>2. ASSUME NEW i \in 0 .. l, n = k + i PROVE f[n] \in StreamType
      BY <1>6, <1>7, <2>2
    <2>. QED
      BY <1>13, <2>1, <2>2
  <1>15. f[0] = r /\ f[Len(a)] = last
    BY <1>4, <1>5, <1>6, <1>7
  <1>. QED
    BY <1>4, <1>12, <1>14, <1>15 DEF Follows, a

\* The head of what reads well makes sense, and the tail reads well after it.
LEMMA FollowsFirst ==
    ASSUME NEW hist, NEW r, NEW s, NEW last, Follows(hist, r, s, last), s # <<>>
    PROVE  Sound(hist, r, Head(s)) /\ Follows(hist, Then(r, Head(s)), Tail(s), last)
  <1>1. PICK S : s \in Seq(S)
    BY DEF Follows
  <1>. DEFINE k == Len(s)
              t == Tail(s)
              m == Head(s)
  <1>2. PICK h : /\ h[0] = r /\ h[k] = last
                 /\ \A n \in 0 .. k : h[n] \in StreamType
                 /\ \A n \in 1 .. k : Sound(hist, h[n - 1], s[n]) /\ h[n] = Then(h[n - 1], s[n])
    BY DEF Follows
  <1>3. /\ k \in Nat /\ k >= 1 /\ t \in Seq(S) /\ Len(t) = k - 1 /\ m = s[1]
        /\ \A n \in 1 .. Len(t) : t[n] = s[n + 1]
    BY <1>1, HeadTailProperties, LenProperties, EmptySeq
  <1>. DEFINE g == [n \in 0 .. k - 1 |-> h[n + 1]]
  <1>. HIDE DEF k, t, m
  <1>4. Sound(hist, r, m) /\ h[1] = Then(r, m)
    <2>1. 1 \in 1 .. k /\ 1 - 1 = 0
      BY <1>3
    <2>. QED
      BY <1>2, <1>3, <2>1
  <1>5. /\ \A n \in 0 .. k - 1 : g[n] = h[n + 1] /\ n + 1 \in 0 .. k
        /\ \A n \in 1 .. k - 1 : n + 1 \in 1 .. k /\ (n + 1) - 1 = n /\ n - 1 \in 0 .. k - 1 /\ (n - 1) + 1 = n
        /\ 0 + 1 = 1 /\ (k - 1) + 1 = k /\ 0 \in 0 .. k - 1 /\ k - 1 \in 0 .. k - 1
    BY <1>3
  <1>. HIDE DEF g
  <1>6. \A n \in 1 .. Len(t) : Sound(hist, g[n - 1], t[n]) /\ g[n] = Then(g[n - 1], t[n])
    <2>. SUFFICES ASSUME NEW n \in 1 .. k - 1
                  PROVE  Sound(hist, g[n - 1], t[n]) /\ g[n] = Then(g[n - 1], t[n])
      BY <1>3
    <2>1. t[n] = s[n + 1] /\ g[n - 1] = h[n] /\ g[n] = h[n + 1]
      <3>1. n \in 0 .. k - 1
        BY <1>3
      <3>2. g[n - 1] = h[(n - 1) + 1]
        BY <1>5
      <3>. QED
        BY <1>3, <1>5, <3>1, <3>2
    <2>2. Sound(hist, h[(n + 1) - 1], s[n + 1]) /\ h[n + 1] = Then(h[(n + 1) - 1], s[n + 1])
      BY <1>2, <1>5
    <2>. QED
      BY <1>5, <2>1, <2>2
  <1>7. g[0] = Then(r, m) /\ g[Len(t)] = last /\ \A n \in 0 .. Len(t) : g[n] \in StreamType
    BY <1>2, <1>3, <1>4, <1>5
  <1>. QED
    BY <1>3, <1>4, <1>6, <1>7 DEF Follows, t, m

\* What made sense still does when another content is committed.
LEMMA FollowsOn ==
    ASSUME NEW hist \in Seq(ContentType), hist # <<>>, NEW c \in ContentType, NEW r, NEW s, NEW last,
           Follows(hist, r, s, last)
    PROVE  Follows(Append(hist, c), r, s, last)
  <1>. DEFINE next == Append(hist, c)
  <1>1. /\ Len(hist) \in Nat /\ Len(next) = Len(hist) + 1 /\ 1 \in 1 .. Len(hist)
        /\ \A n \in 1 .. Len(hist) : next[n] = hist[n]
    BY AppendProperties, LenProperties, EmptySeq
  <1>. HIDE DEF next
  <1>2. ASSUME NEW q \in StreamType, NEW m, Sound(hist, q, m) PROVE Sound(next, q, m)
    <2>0. q.told \in Nat
      BY DEF StreamType
    <2>1. SoundFrame(hist, q, m) => SoundFrame(next, q, m)
      BY <1>1 DEF SoundFrame, FrameOf
    <2>2. SoundDamage(hist, q, m) => SoundDamage(next, q, m)
      <3>. SUFFICES ASSUME SoundDamage(hist, q, m) PROVE SoundDamage(next, q, m)
        OBVIOUS
      <3>1. PICK n \in 1 .. Len(hist) - 1 : \E rects \in Damages :
               /\ n >= q.told /\ hist[n].width = q.width /\ hist[n + 1].width = q.width
               /\ Covered(hist, n, rects) /\ m = DamageOf(hist, n, rects)
        BY DEF SoundDamage
      <3>2. n \in 1 .. Len(next) - 1 /\ next[n] = hist[n] /\ next[n + 1] = hist[n + 1]
        BY <1>1
      <3>3. \A rects : /\ Covered(hist, n, rects) <=> Covered(next, n, rects)
                       /\ DamageOf(hist, n, rects) = DamageOf(next, n, rects)
        BY <3>2 DEF Covered, DamageOf
      <3>. QED
        BY <3>1, <3>2, <3>3 DEF SoundDamage
    <2>3. SoundResize(hist, q, m) => SoundResize(next, q, m)
      <3>. SUFFICES ASSUME SoundResize(hist, q, m) PROVE SoundResize(next, q, m)
        OBVIOUS
      <3>1. PICK n \in q.told + 1 .. Len(hist) : hist[n].width # q.width /\ m = ResizeOf(hist[n].width)
        BY DEF SoundResize
      <3>2. n \in q.told + 1 .. Len(next) /\ next[n] = hist[n]
        BY <1>1, <2>0
      <3>. QED
        BY <3>1, <3>2 DEF SoundResize
    <2>4. next[1] = hist[1]
      BY <1>1
    <2>. QED
      BY <1>2, <2>1, <2>2, <2>3, <2>4 DEF Sound
  <1>3. PICK k : /\ k[0] = r /\ k[Len(s)] = last
                 /\ \A n \in 0 .. Len(s) : k[n] \in StreamType
                 /\ \A n \in 1 .. Len(s) : Sound(hist, k[n - 1], s[n]) /\ k[n] = Then(k[n - 1], s[n])
    BY DEF Follows
  <1>4. Len(s) \in Nat
    BY LenProperties DEF Follows
  <1>5. \A n \in 1 .. Len(s) : n - 1 \in 0 .. Len(s)
    BY <1>4
  <1>6. \A n \in 1 .. Len(s) : Sound(next, k[n - 1], s[n])
    BY <1>2, <1>3, <1>5
  <1>7. \E S : s \in Seq(S)
    BY DEF Follows
  <1>. QED
    BY <1>3, <1>6, <1>7 DEF Follows, next

-----------------------------------------------------------------------------
(* The invariant of the window's pixels.                                   *)

ShownType == {PresentationOf(w, n, v) : w \in Widths, n \in Nat, v \in BOOLEAN}
ProxyType ==
    [owners : {<<>>}, alive : {TRUE}, width : Widths, height : {1},
     framebuffer : SUBSET [x : Nat, y : {0}], frameSequence : Nat, presentation : ShownType,
     physical : Rect, buttons : {{}}, tracking : {FALSE}, focused : {FALSE}, keys : {{}}]
ToServerMessage ==
    {PresentAck(Content, n) : n \in Nat} \cup {FrameRequest(Content, n) : n \in Nat}

ExporterTypeOK ==
    /\ history \in Seq(ContentType) /\ history # <<>>
    /\ announced \in 0 .. Len(history) /\ presented \in Nat /\ unacked \subseteq Nat
WireTypeOK ==
    /\ serverSocket = "open" /\ agentSocket \in {"open", "closed"}
    /\ agentSocket = "open" => agent = "running"
    /\ agentSocket = "closed" => toAgent = <<>> /\ DOMAIN proxies = {}
    /\ toServer \in Seq(ToServerMessage)
AgentTypeOK ==
    /\ outputScale = {} \/ outputScale = {UnitScale}
    /\ DOMAIN proxies # {} => outputScale = {UnitScale}
    /\ DOMAIN proxies \subseteq {Content} /\ \A id \in DOMAIN proxies : proxies[id] \in ProxyType
    /\ DOMAIN pending \subseteq DOMAIN proxies /\ \A id \in DOMAIN pending : pending[id] \in ShownType

\* The framebuffer is blank or one of the contents, of the proxy's width.
HasContent(p, h) ==
    /\ p.frameSequence = 0 => p.framebuffer = {}
    /\ p.frameSequence # 0 => /\ p.frameSequence \in 1 .. Len(h)
                              /\ p.framebuffer = h[p.frameSequence].image
                              /\ p.width = h[p.frameSequence].width
PixelInv == \A id \in DOMAIN proxies : HasContent(proxies[id], history)

FrameAhead == \E m \in ToSet(toAgent) : m.type = "WINDOW_FRAME"
Asked      == \E m \in ToSet(toServer) : m.type = "WINDOW_FRAME_REQUEST"

\* The window is what the stream read so far has made of it.  It may lack the
\* content told of last as long as a frame is owed, on its way or asked for,
\* and show more than it has as long as a presentation is owed or queued.
Agrees(r, p) ==
    /\ p.width = r.width /\ p.frameSequence <= r.told
    /\ p.frameSequence # r.told => r.owed \/ FrameAhead \/ Asked
    /\ RectRight(p.presentation.source) <= p.width \/ r.unfit \/ DOMAIN pending # {}
InStep(r) ==
    /\ (r.stage = 0) <=> (outputScale = {})
    /\ (r.stage = 2) <=> (DOMAIN proxies # {})
    /\ r.stage # 2 => r.told = 0
    /\ \A id \in DOMAIN proxies : Agrees(r, proxies[id])

\* What a reader of the whole stream knows.
Told == [stage |-> 2, width |-> history[Version].width, told |-> announced,
         owed |-> FALSE, unfit |-> FALSE]
StreamInv ==
    agentSocket = "open" =>
       \E r \in StreamType : InStep(r) /\ Follows(history, r, toAgent, Told)

Inv == ExporterTypeOK /\ WireTypeOK /\ AgentTypeOK /\ PixelInv /\ StreamInv

\* A step of the abstract window.
MirrorStep ==
    \/ Pixels!Open \/ Pixels!Commit \/ Pixels!Show \/ Pixels!GoBlank \/ Pixels!Close
    \/ UNCHANGED <<history, View>>

\* The width of a content, and where it is.
LEMMA HistoryFacts ==
    ASSUME ExporterTypeOK
    PROVE  /\ Len(history) \in Nat /\ Len(history) >= 1
           /\ announced \in Nat /\ announced <= Len(history)
           /\ \A n \in 1 .. Len(history) : history[n] \in ContentType /\ history[n].width \in Widths
                                           /\ history[n].image \in SUBSET [x : Nat, y : {0}]
  <1>1. Len(history) \in Nat /\ Len(history) # 0
    BY LenProperties, EmptySeq DEF ExporterTypeOK
  <1>2. \A n \in 1 .. Len(history) : history[n] \in ContentType
    BY ElementOfSeq DEF ExporterTypeOK
  <1>. QED
    BY <1>1, <1>2 DEF ExporterTypeOK, ContentType

\* The members of a sequence are its head and those of its tail.
LEMMA TailElements ==
    ASSUME NEW M, NEW s \in Seq(M), s # <<>>
    PROVE  /\ \A m : m \in ToSet(s) <=> m = Head(s) \/ m \in ToSet(Tail(s))
           /\ \A i \in DOMAIN Tail(s) : i + 1 \in DOMAIN s /\ Tail(s)[i] = s[i + 1]
           /\ 1 \in DOMAIN s /\ s[1] = Head(s)
  <1>. DEFINE t == Tail(s)
  <1>1. /\ Len(s) \in Nat /\ Len(s) >= 1 /\ DOMAIN s = 1 .. Len(s) /\ Head(s) = s[1]
        /\ Len(t) = Len(s) - 1 /\ DOMAIN t = 1 .. Len(s) - 1 /\ \A i \in 1 .. Len(s) - 1 : t[i] = s[i + 1]
    <2>1. Len(s) \in Nat /\ DOMAIN s = 1 .. Len(s) /\ Len(s) >= 1 /\ Head(s) = s[1]
      BY LenProperties, EmptySeq
    <2>2. Tail(s) \in Seq(M) /\ Len(Tail(s)) = Len(s) - 1
      BY HeadTailProperties
    <2>3. \A i \in 1 .. Len(Tail(s)) : Tail(s)[i] = s[i + 1]
      BY HeadTailProperties
    <2>. QED
      BY <2>1, <2>2, <2>3, LenProperties
  <1>. HIDE DEF t
  <1>2. \A i \in DOMAIN s : i = 1 \/ (i - 1 \in DOMAIN t /\ t[i - 1] = s[i])
    <2>1. \A i \in DOMAIN s : i = 1 \/ (i - 1 \in 1 .. Len(s) - 1 /\ (i - 1) + 1 = i)
      BY <1>1
    <2>. QED
      BY <1>1, <2>1
  <1>3. \A i \in DOMAIN t : i + 1 \in DOMAIN s /\ t[i] = s[i + 1]
    BY <1>1
  <1>4. \A m : m \in ToSet(s) => m = Head(s) \/ m \in ToSet(t)
    BY <1>1, <1>2 DEF ToSet
  <1>5. \A m : m = Head(s) \/ m \in ToSet(t) => m \in ToSet(s)
    BY <1>1, <1>3 DEF ToSet
  <1>. QED
    BY <1>1, <1>3, <1>4, <1>5 DEF t

\* Two sequences in a row name what either does.
LEMMA ConcatElements ==
    ASSUME NEW S, NEW T, NEW s \in Seq(S), NEW t \in Seq(T)
    PROVE  /\ s \o t \in Seq(S \cup T)
           /\ \A y : y \in ToSet(s \o t) <=> y \in ToSet(s) \/ y \in ToSet(t)
           /\ t = <<>> => s \o t = s
  <1>. DEFINE a == s \o t
              M == S \cup T
  <1>1. s \in Seq(M) /\ t \in Seq(M)
    BY SeqOfMore
  <1>2. /\ a \in Seq(M) /\ Len(a) = Len(s) + Len(t)
        /\ \A i \in 1 .. Len(s) + Len(t) : a[i] = IF i <= Len(s) THEN s[i] ELSE t[i - Len(s)]
    BY <1>1, ConcatProperties
  <1>3. /\ Len(s) \in Nat /\ DOMAIN s = 1 .. Len(s) /\ Len(t) \in Nat /\ DOMAIN t = 1 .. Len(t)
        /\ DOMAIN a = 1 .. Len(s) + Len(t)
    BY <1>2, LenProperties
  <1>. HIDE DEF a, M
  <1>4. /\ \A i \in DOMAIN s : i \in DOMAIN a /\ a[i] = s[i]
        /\ \A i \in DOMAIN t : Len(s) + i \in DOMAIN a /\ a[Len(s) + i] = t[i]
        /\ \A i \in DOMAIN a : \/ i \in DOMAIN s /\ a[i] = s[i]
                               \/ i - Len(s) \in DOMAIN t /\ a[i] = t[i - Len(s)]
    <2>1. \A i \in DOMAIN s : i \in DOMAIN a /\ a[i] = s[i]
      BY <1>2, <1>3
    <2>2. \A i \in DOMAIN t : Len(s) + i \in DOMAIN a /\ ~(Len(s) + i <= Len(s)) /\ (Len(s) + i) - Len(s) = i
      BY <1>3
    <2>3. \A i \in DOMAIN a : i \in DOMAIN s \/ (i - Len(s) \in DOMAIN t /\ ~(i <= Len(s)))
      BY <1>3
    <2>. QED
      BY <1>2, <1>3, <2>1, <2>2, <2>3
  <1>5. \A y : y \in ToSet(a) <=> y \in ToSet(s) \/ y \in ToSet(t)
    <2>1. ASSUME NEW y \in ToSet(a) PROVE y \in ToSet(s) \/ y \in ToSet(t)
      BY <1>4, <2>1 DEF ToSet
    <2>2. ASSUME NEW y, y \in ToSet(s) \/ y \in ToSet(t) PROVE y \in ToSet(a)
      BY <1>4, <2>2 DEF ToSet
    <2>. QED
      BY <2>1, <2>2
  <1>6. t = <<>> => a = s
    BY ConcatEmptySeq DEF a
  <1>. QED
    BY <1>2, <1>5, <1>6 DEF a, M

\* What the agent says is added to what is to be read.
LEMMA SaidIsAdded ==
    ASSUME Inv, NEW messages \in Seq(ToServerMessage)
    PROVE  /\ Sent(messages) \in Seq(ToServerMessage)
           /\ \A m \in ToSet(toServer) : m \in ToSet(Sent(messages))
           /\ agentSocket = "open" => \A m \in ToSet(messages) : m \in ToSet(Sent(messages))
           /\ \A m \in ToSet(Sent(messages)) : m \in ToSet(toServer) \/ m \in ToSet(messages)
           /\ messages = <<>> => Sent(messages) = toServer
  <1>1. toServer \in Seq(ToServerMessage) /\ serverSocket = "open"
    BY DEF Inv, WireTypeOK
  <1>2. ToServerMessage \cup ToServerMessage = ToServerMessage
    OBVIOUS
  <1>3. /\ toServer \o messages \in Seq(ToServerMessage)
        /\ \A y : y \in ToSet(toServer \o messages) <=> y \in ToSet(toServer) \/ y \in ToSet(messages)
        /\ messages = <<>> => toServer \o messages = toServer
    <2>1. toServer \o messages \in Seq(ToServerMessage \cup ToServerMessage)
      BY <1>1, ConcatElements
    <2>. QED
      BY <1>1, <1>2, <2>1, ConcatElements
  <1>. QED
    BY <1>1, <1>3 DEF Sent

\* The window's proxy and its view.
LEMMA ViewIsTheWindow ==
    /\ DOMAIN proxies = {} => View = {}
    /\ DOMAIN proxies = {Content} =>
          View = {[width |-> Window.width, shown |-> Window.frameSequence, image |-> Window.framebuffer]}
  BY DEF View, Window

\* The same after a step.
LEMMA ViewIsTheWindowNext ==
    /\ DOMAIN proxies' = {} => View' = {}
    /\ DOMAIN proxies' = {Content} =>
          View' = {[width |-> Window'.width, shown |-> Window'.frameSequence, image |-> Window'.framebuffer]}
  BY DEF View, Window

-----------------------------------------------------------------------------
(* What the agent does with the stream.                                    *)

\* A presentation the exporter may make.
LEMMA ShownIsTyped ==
    ASSUME NEW w \in Widths, NEW n \in Nat, NEW v \in BOOLEAN
    PROVE  PresentationOf(w, n, v) \in ShownType
  BY DEF ShownType

\* What such a presentation shows.
LEMMA ShownFacts ==
    ASSUME NEW p \in ShownType
    PROVE  /\ p.sequence \in Nat /\ p.visible \in BOOLEAN
           /\ \E w \in Widths : /\ p.source = Region(w, p.visible)
                               /\ p.destination = Region(w, p.visible)
  <1>1. PICK w \in Widths, n \in Nat, v \in BOOLEAN : p = PresentationOf(w, n, v)
    BY DEF ShownType
  <1>2. p.sequence = n /\ p.visible = v /\ p.source = Region(w, v) /\ p.destination = Region(w, v)
    BY <1>1 DEF PresentationOf
  <1>. QED
    BY <1>2

\* What is read is what a reader of the stream expects.
LEMMA NextArrival ==
    ASSUME Inv, agentSocket = "open", toAgent # <<>>, NEW m, m = Head(toAgent)
    PROVE  \E r \in StreamType :
              /\ InStep(r) /\ Sound(history, r, m) /\ Then(r, m) \in StreamType
              /\ Follows(history, Then(r, m), Tail(toAgent), Told)
  <1>1. PICK r \in StreamType : InStep(r) /\ Follows(history, r, toAgent, Told)
    BY DEF Inv, StreamInv
  <1>2. Sound(history, r, m) /\ Follows(history, Then(r, m), Tail(toAgent), Told)
    BY <1>1, FollowsFirst
  <1>3. Then(r, m) \in StreamType
    BY <1>2, ThenType DEF Inv, ExporterTypeOK
  <1>. QED
    BY <1>1, <1>2, <1>3

\* A frame that is on its way stays on its way when something else is read.
LEMMA FrameStaysAhead ==
    ASSUME Inv, agentSocket = "open", toAgent # <<>>, toAgent' = Tail(toAgent),
           Head(toAgent).type # "WINDOW_FRAME", FrameAhead
    PROVE  FrameAhead'
  <1>1. PICK S : toAgent \in Seq(S)
    BY DEF Inv, StreamInv, Follows
  <1>2. \A m : m \in ToSet(toAgent) <=> m = Head(toAgent) \/ m \in ToSet(Tail(toAgent))
    BY <1>1, TailElements
  <1>3. PICK m \in ToSet(toAgent) : m.type = "WINDOW_FRAME"
    BY DEF FrameAhead
  <1>4. m \in ToSet(toAgent')
    BY <1>2, <1>3
  <1>. QED
    BY <1>3, <1>4 DEF FrameAhead

\* A request stays a request when the agent says more.
LEMMA AskedStays ==
    ASSUME Inv, NEW messages \in Seq(ToServerMessage), toServer' = Sent(messages), Asked
    PROVE  Asked'
  <1>1. PICK m \in ToSet(toServer) : m.type = "WINDOW_FRAME_REQUEST"
    BY DEF Asked
  <1>2. m \in ToSet(Sent(messages))
    BY <1>1, SaidIsAdded
  <1>3. m \in ToSet(toServer')
    BY <1>2
  <1>. QED
    BY <1>1, <1>3 DEF Asked

\* The invariant after the agent has read a message.
LEMMA ReceivedNext ==
    ASSUME Inv, agentSocket = "open", NEW messages \in Seq(ToServerMessage), Answer(messages),
           UNCHANGED <<agent, exporterVars>>,
           NEW t \in StreamType, Follows(history, t, Tail(toAgent), Told), InStep(t)',
           AgentTypeOK', PixelInv'
    PROVE  Inv'
  <1>1. /\ toAgent' = Tail(toAgent) /\ toServer' = Sent(messages) /\ UNCHANGED <<serverSocket, agentSocket>>
        /\ UNCHANGED <<history, announced, presented, unacked>>
    BY DEF Answer, exporterVars
  <1>2. ExporterTypeOK'
    BY <1>1 DEF Inv, ExporterTypeOK
  <1>3. WireTypeOK'
    BY <1>1, SaidIsAdded DEF Inv, WireTypeOK
  <1>4. Told' = Told
    BY <1>1 DEF Told, Version
  <1>5. InStep(t)' /\ Follows(history', t, toAgent', Told')
    BY <1>1, <1>4
  <1>6. StreamInv'
    BY <1>5 DEF StreamInv
  <1>. QED
    BY <1>2, <1>3, <1>6 DEF Inv

\* Messages that leave the windows alone: HELLO_ACK and OUTPUT_CONFIG.
LEMMA GreetingsKeepInv ==
    ASSUME Inv, ReceiveHelloAck \/ ReceiveOutputConfig, UNCHANGED exporterVars
    PROVE  Inv' /\ MirrorStep
  <1>1. /\ agentSocket = "open" /\ toAgent # <<>> /\ Answer(<<>>)
        /\ UNCHANGED <<agent, proxies, pending, history>>
    BY DEF ReceiveHelloAck, ReceiveOutputConfig, AgentArrived, agentVars, applicationVars, exporterVars
  <1>2. PICK m : m = Head(toAgent)
    OBVIOUS
  <1>3. PICK r \in StreamType :
           /\ InStep(r) /\ Sound(history, r, m) /\ Then(r, m) \in StreamType
           /\ Follows(history, Then(r, m), Tail(toAgent), Told)
    BY <1>1, <1>2, NextArrival
  <1>. DEFINE t == Then(r, m)
  <1>4. <<>> \in Seq(ToServerMessage) /\ toAgent' = Tail(toAgent) /\ toServer' = Sent(<<>>)
    BY <1>1 DEF Answer
  <1>5. FrameAhead /\ m.type # "WINDOW_FRAME" => FrameAhead'
    BY <1>1, <1>2, <1>4, FrameStaysAhead
  <1>6. Asked => Asked'
    BY <1>4, AskedStays
  <1>7. View' = View
    BY <1>1 DEF View
  <1>8. UNCHANGED <<history, View>>
    BY <1>1, <1>7
  <1>9. MirrorStep
    BY <1>8 DEF MirrorStep
  <1>10. PixelInv'
    BY <1>1 DEF Inv, PixelInv, HasContent
  <1>11. CASE ReceiveHelloAck
    <2>1. m.type = "HELLO_ACK" /\ UNCHANGED outputScale
      BY <1>2, <1>11 DEF ReceiveHelloAck, AgentArrived, AgentArrival, agentVars, applicationVars
    <2>2. t = r
      BY <1>3, <2>1, ThenType DEF Inv, ExporterTypeOK
    <2>. HIDE DEF t
    <2>3. InStep(t)'
      <3>1. \A id \in DOMAIN proxies' : Agrees(t, proxies[id])'
        BY <1>1, <1>3, <1>5, <1>6, <2>1, <2>2 DEF InStep, Agrees
      <3>. QED
        BY <1>1, <1>3, <2>1, <2>2, <3>1 DEF InStep
    <2>4. AgentTypeOK'
      BY <1>1, <2>1 DEF Inv, AgentTypeOK
    <2>. QED
      BY <1>1, <1>3, <1>4, <1>9, <1>10, <2>3, <2>4, ReceivedNext DEF t
  <1>12. CASE ReceiveOutputConfig
    <2>1. m.type = "OUTPUT_CONFIG" /\ outputScale' = {m.scale}
      BY <1>2, <1>12 DEF ReceiveOutputConfig, AgentArrived, AgentArrival
    <2>2. r.stage = 0 /\ m = OutputConfig(UnitScale)
      BY <1>3, <2>1, SoundKinds
    <2>3. outputScale' = {UnitScale}
      BY <2>1, <2>2 DEF OutputConfig
    <2>4. DOMAIN proxies = {} /\ r.told = 0
      <3>1. r.stage # 2
        BY <2>2
      <3>. QED
        BY <1>3, <3>1, Zenon DEF InStep
    <2>5. t.stage = 1 /\ t.told = 0
      BY <2>1, <2>4 DEF Then
    <2>. HIDE DEF t
    <2>6. InStep(t)'
      BY <1>1, <2>3, <2>4, <2>5 DEF InStep
    <2>7. AgentTypeOK'
      BY <1>1, <2>3, <2>4 DEF Inv, AgentTypeOK
    <2>. QED
      BY <1>1, <1>3, <1>4, <1>9, <1>10, <2>6, <2>7, ReceivedNext DEF t
  <1>. QED
    BY <1>11, <1>12

\* A CREATE opens the window.
LEMMA CreateKeepsInv ==
    ASSUME Inv, ReceiveCreate, UNCHANGED exporterVars
    PROVE  Inv' /\ MirrorStep
  <1>1. /\ agentSocket = "open" /\ toAgent # <<>> /\ Answer(<<>>)
        /\ UNCHANGED <<agent, pending, outputScale, history>>
    BY DEF ReceiveCreate, AgentArrived, applicationVars, exporterVars
  <1>2. PICK m : m = Head(toAgent)
    OBVIOUS
  <1>3. PICK r \in StreamType :
           /\ InStep(r) /\ Sound(history, r, m) /\ Then(r, m) \in StreamType
           /\ Follows(history, Then(r, m), Tail(toAgent), Told)
    BY <1>1, <1>2, NextArrival
  <1>. DEFINE t == Then(r, m)
              w == history[1].width
  <1>4. <<>> \in Seq(ToServerMessage) /\ toAgent' = Tail(toAgent) /\ toServer' = Sent(<<>>)
    BY <1>1 DEF Answer
  <1>5. m.type = "WINDOW_CREATE"
    BY <1>2 DEF ReceiveCreate, AgentArrived
  <1>6. r.stage = 1 /\ m = CreateOf(w)
    BY <1>3, <1>5, SoundKinds
  <1>7. m.id = Content /\ m.parent = 0 /\ m.width = w /\ m.height = 1
    BY <1>6, CreateFields
  <1>8. DOMAIN proxies = {} /\ r.told = 0 /\ outputScale # {}
    <2>1. r.stage # 2 /\ r.stage # 0
      BY <1>6
    <2>. QED
      BY <1>3, <2>1, Zenon DEF InStep
  <1>9. w \in Widths
    BY HistoryFacts DEF Inv
  <1>. HIDE DEF w
  <1>10. /\ t.stage = 2 /\ t.told = 0 /\ t.width = w
    BY <1>5, <1>7, <1>8 DEF Then
  <1>11. /\ proxies' = [id \in DOMAIN proxies \cup {m.id} |->
                          IF id = m.id THEN NewProxy(m) ELSE proxies[id]]
    BY <1>2 DEF ReceiveCreate, AgentArrival
  <1>0. PICK p : p = NewProxy(m)
    OBVIOUS
  <1>12. DOMAIN proxies' = {Content} /\ proxies'[Content] = p
    BY <1>0, <1>7, <1>8, <1>11
  <1>13. p = [owners |-> <<>>, alive |-> TRUE, width |-> w, height |-> 1,
              framebuffer |-> {}, frameSequence |-> 0, presentation |-> Hidden,
              physical |-> EmptyRect, buttons |-> {}, tracking |-> FALSE, focused |-> FALSE,
              keys |-> {}]
    BY <1>0, <1>7 DEF NewProxy, OwnersOf
  <1>14. Hidden \in ShownType /\ EmptyRect \in Rect /\ RectRight(Hidden.source) = 0
    <2>1. Hidden = PresentationOf(w, 0, FALSE)
      BY DEF Hidden, PresentationOf, Region
    <2>2. EmptyRect \in Rect
      BY MaxIntAssumption DEF EmptyRect, Rect, I32
    <2>3. RectRight(Hidden.source) = 0
      BY DEF Hidden, EmptyRect, RectRight
    <2>4. 0 \in Nat /\ FALSE \in BOOLEAN
      OBVIOUS
    <2>5. Hidden \in ShownType
      BY <1>9, <2>1, <2>4, ShownIsTyped
    <2>. QED
      BY <2>2, <2>3, <2>5
  <1>15. p \in ProxyType
    BY <1>9, <1>13, <1>14 DEF ProxyType
  <1>16. w \in Nat
    BY <1>9, WidthFacts
  <1>17. Agrees(t, p)' /\ HasContent(p, history')
    BY <1>10, <1>13, <1>14, <1>16 DEF Agrees, HasContent
  <1>. HIDE DEF t
  <1>18. InStep(t)'
    BY <1>1, <1>8, <1>10, <1>12, <1>17 DEF InStep
  <1>19. AgentTypeOK'
    BY <1>1, <1>8, <1>12, <1>15 DEF Inv, AgentTypeOK
  <1>20. PixelInv'
    BY <1>12, <1>17 DEF PixelInv
  <1>21. MirrorStep
    <2>1. View = {} /\ View' = {[width |-> w, shown |-> 0, image |-> {}]}
      BY <1>8, <1>12, <1>13, ViewIsTheWindow, ViewIsTheWindowNext DEF Window
    <2>2. Pixels!Open
      BY <1>1, <2>1 DEF Pixels!Open, Pixels!Blank, w
    <2>. QED
      BY <2>2 DEF MirrorStep
  <1>. QED
    BY <1>1, <1>3, <1>4, <1>18, <1>19, <1>20, <1>21, ReceivedNext DEF t

\* A RESIZE blanks the window.
LEMMA ResizeKeepsInv ==
    ASSUME Inv, ReceiveResize, UNCHANGED exporterVars
    PROVE  Inv' /\ MirrorStep
  <1>1. /\ agentSocket = "open" /\ toAgent # <<>> /\ Answer(<<>>)
        /\ UNCHANGED <<agent, pending, outputScale, history>>
    BY DEF ReceiveResize, AgentArrived, applicationVars, exporterVars
  <1>2. PICK m : m = Head(toAgent)
    OBVIOUS
  <1>3. PICK r \in StreamType :
           /\ InStep(r) /\ Sound(history, r, m) /\ Then(r, m) \in StreamType
           /\ Follows(history, Then(r, m), Tail(toAgent), Told)
    BY <1>1, <1>2, NextArrival
  <1>. DEFINE t == Then(r, m)
  <1>4. <<>> \in Seq(ToServerMessage) /\ toAgent' = Tail(toAgent) /\ toServer' = Sent(<<>>)
    BY <1>1 DEF Answer
  <1>5. m.type = "WINDOW_RESIZE"
    BY <1>2 DEF ReceiveResize, AgentArrived
  <1>6. r.stage = 2 /\ SoundResize(history, r, m)
    BY <1>3, <1>5, SoundKinds
  <1>7. PICK n \in r.told + 1 .. Len(history) : history[n].width # r.width /\ m = ResizeOf(history[n].width)
    BY <1>6 DEF SoundResize
  <1>8. PICK w : w = history[n].width
    OBVIOUS
  <1>9. m.id = Content /\ m.width = w /\ m.height = 1
    BY <1>7, <1>8, ResizeFields
  <1>10. r.told \in Nat /\ Len(history) \in Nat /\ n \in 1 .. Len(history) /\ w \in Widths
    BY <1>7, <1>8, HistoryFacts DEF Inv, StreamType
  <1>11. DOMAIN proxies = {Content}
    <2>1. DOMAIN proxies # {}
      BY <1>3, <1>6, Zenon DEF InStep
    <2>. QED
      BY <2>1 DEF Inv, AgentTypeOK
  <1>12. PICK p : p = Window
    OBVIOUS
  <1>13. p = proxies[Content] /\ p \in ProxyType /\ Agrees(r, p)
    BY <1>3, <1>11, <1>12 DEF Inv, AgentTypeOK, InStep, Window
  <1>14. PICK q : q = [p EXCEPT !.width = w, !.height = 1, !.framebuffer = {}, !.frameSequence = 0]
    OBVIOUS
  <1>15. proxies' = [proxies EXCEPT ![m.id] = Resized(m)]
    BY <1>2 DEF ReceiveResize, AgentArrival
  <1>16. Resized(m) = q
    BY <1>9, <1>13, <1>14 DEF Resized
  <1>17. DOMAIN proxies' = {Content} /\ proxies'[Content] = q
    BY <1>9, <1>11, <1>15, <1>16
  <1>18. q \in ProxyType /\ q.width = w /\ q.framebuffer = {} /\ q.frameSequence = 0
    BY <1>10, <1>13, <1>14 DEF ProxyType
  <1>19. t.stage = 2 /\ t.width = w /\ t.told = r.told /\ t.owed /\ t.unfit
    BY <1>5, <1>6, <1>9 DEF Then
  <1>. HIDE DEF t
  <1>20. Agrees(t, q)' /\ HasContent(q, history')
    BY <1>10, <1>18, <1>19 DEF Agrees, HasContent
  <1>21. outputScale = {UnitScale}
    BY <1>11 DEF Inv, AgentTypeOK
  <1>22. InStep(t)'
    BY <1>1, <1>17, <1>19, <1>20, <1>21 DEF InStep
  <1>23. AgentTypeOK'
    BY <1>1, <1>11, <1>17, <1>18, <1>21 DEF Inv, AgentTypeOK
  <1>24. PixelInv'
    BY <1>17, <1>20 DEF PixelInv
  <1>25. MirrorStep
    <2>. DEFINE v == [width |-> p.width, shown |-> p.frameSequence, image |-> p.framebuffer]
    <2>1. View = {v} /\ View' = {[width |-> w, shown |-> 0, image |-> {}]}
      BY <1>11, <1>12, <1>17, <1>18, ViewIsTheWindow, ViewIsTheWindowNext DEF Window
    <2>2. p.width = r.width /\ p.frameSequence <= r.told /\ p.frameSequence \in Nat
      BY <1>13 DEF Agrees, ProxyType
    <2>3. n \in v.shown + 1 .. Len(history) /\ history[n].width # v.width
      BY <1>7, <1>10, <2>2
    <2>4. View' = {Pixels!Blank(history[n].width)}
      BY <1>8, <2>1 DEF Pixels!Blank
    <2>. HIDE DEF v
    <2>5. Pixels!GoBlank
      BY <1>1, <2>1, <2>3, <2>4 DEF Pixels!GoBlank
    <2>. QED
      BY <2>5 DEF MirrorStep
  <1>. QED
    BY <1>1, <1>3, <1>4, <1>22, <1>23, <1>24, <1>25, ReceivedNext DEF t

\* A window that shows a newer content of its width.
LEMMA ShowingIsShow ==
    ASSUME NEW w, NEW a, NEW b, NEW i, NEW j, UNCHANGED history,
           View = {[width |-> w, shown |-> a, image |-> i]},
           View' = {[width |-> w, shown |-> b, image |-> j]},
           b \in a + 1 .. Len(history), history[b].width = w, history[b].image = j
    PROVE  MirrorStep
  <1>1. PICK v : v = [width |-> w, shown |-> a, image |-> i]
    OBVIOUS
  <1>2. v \in [width : {w}, shown : {a, b}, image : {i, j}] /\ v.width = w /\ v.shown = a
    BY <1>1
  <1>3. PICK e : e = [v EXCEPT !.shown = b, !.image = j]
    OBVIOUS
  <1>4. e \in [width : {w}, shown : {a, b}, image : {i, j}] /\ e.width = w /\ e.shown = b /\ e.image = j
    BY <1>2, <1>3
  <1>5. e = [width |-> w, shown |-> b, image |-> j]
    BY <1>4
  <1>6. View = {v} /\ View' = {e}
    BY <1>1, <1>5
  <1>7. View' = {[v EXCEPT !.shown = b, !.image = history[b].image]}
    BY <1>3, <1>6
  <1>8. \E u \in View : \E n \in u.shown + 1 .. Len(history) :
           /\ history[n].width = u.width
           /\ View' = {[u EXCEPT !.shown = n, !.image = history[n].image]}
    <2>1. v \in View /\ b \in v.shown + 1 .. Len(history) /\ history[b].width = v.width
      BY <1>2, <1>6
    <2>. QED
      BY <1>7, <2>1, Zenon
  <1>9. Pixels!Show
    BY <1>8 DEF Pixels!Show
  <1>. QED
    BY <1>9 DEF MirrorStep

\* A whole frame is never an old one, and shows its content.
LEMMA FrameKeepsInv ==
    ASSUME Inv, ReceiveFrame, UNCHANGED exporterVars
    PROVE  Inv' /\ MirrorStep
  <1>1. /\ agentSocket = "open" /\ toAgent # <<>> /\ Answer(<<>>)
        /\ UNCHANGED <<agent, pending, outputScale, history>>
    BY DEF ReceiveFrame, AgentArrived, applicationVars, exporterVars
  <1>2. PICK m : m = Head(toAgent)
    OBVIOUS
  <1>3. PICK r \in StreamType :
           /\ InStep(r) /\ Sound(history, r, m) /\ Then(r, m) \in StreamType
           /\ Follows(history, Then(r, m), Tail(toAgent), Told)
    BY <1>1, <1>2, NextArrival
  <1>. DEFINE t == Then(r, m)
  <1>4. <<>> \in Seq(ToServerMessage) /\ toAgent' = Tail(toAgent) /\ toServer' = Sent(<<>>)
    BY <1>1 DEF Answer
  <1>5. m.type = "WINDOW_FRAME"
    BY <1>2 DEF ReceiveFrame, AgentArrived
  <1>6. r.stage = 2 /\ SoundFrame(history, r, m)
    BY <1>3, <1>5, SoundKinds
  <1>7. PICK n \in 1 .. Len(history) : n >= r.told /\ history[n].width = r.width /\ m = FrameOf(history, n)
    BY <1>6 DEF SoundFrame
  <1>8. PICK image : image = history[n].image
    OBVIOUS
  <1>9. m.id = Content /\ m.sequence = n /\ m.pixels = image
    BY <1>7, <1>8, FrameFields
  <1>10. r.told \in Nat /\ n \in Nat /\ n >= 1 /\ image \in SUBSET [x : Nat, y : {0}]
    BY <1>7, <1>8, HistoryFacts DEF Inv, StreamType
  <1>11. DOMAIN proxies = {Content}
    <2>1. DOMAIN proxies # {}
      BY <1>3, <1>6, Zenon DEF InStep
    <2>. QED
      BY <2>1 DEF Inv, AgentTypeOK
  <1>12. PICK p : p = Window
    OBVIOUS
  <1>13. p = proxies[Content] /\ p \in ProxyType /\ Agrees(r, p)
    BY <1>3, <1>11, <1>12 DEF Inv, AgentTypeOK, InStep, Window
  <1>14. p.width = r.width /\ p.frameSequence <= r.told /\ p.frameSequence \in Nat
    BY <1>13 DEF Agrees, ProxyType
  <1>15. PICK q : q = [p EXCEPT !.framebuffer = image, !.frameSequence = n]
    OBVIOUS
  <1>16. proxies' = [proxies EXCEPT ![Content].framebuffer = image, ![Content].frameSequence = n]
    <2>1. ~(m.sequence < proxies[m.id].frameSequence)
      BY <1>9, <1>10, <1>13, <1>14, <1>7
    <2>2. ~IsOldFrame(m)
      BY <2>1 DEF IsOldFrame
    <2>3. proxies' = [proxies EXCEPT ![m.id].framebuffer = m.pixels, ![m.id].frameSequence = m.sequence]
      BY <1>2, <2>2 DEF ReceiveFrame, AgentArrival
    <2>. QED
      BY <1>9, <2>3
  <1>17. DOMAIN proxies' = {Content} /\ proxies'[Content] = q
    BY <1>11, <1>13, <1>15, <1>16
  <1>18. /\ q \in ProxyType /\ q.width = r.width /\ q.framebuffer = image /\ q.frameSequence = n
         /\ q.presentation = p.presentation
    BY <1>10, <1>13, <1>14, <1>15 DEF ProxyType
  <1>19. t.stage = 2 /\ t.width = r.width /\ t.told = n /\ t.unfit = r.unfit
    BY <1>5, <1>6, <1>9 DEF Then
  <1>. HIDE DEF t
  <1>20. Agrees(t, q)' /\ HasContent(q, history')
    <2>1. RectRight(p.presentation.source) <= r.width \/ r.unfit \/ DOMAIN pending # {}
      BY <1>13, <1>14 DEF Agrees
    <2>. QED
      BY <1>1, <1>7, <1>8, <1>10, <1>18, <1>19, <2>1 DEF Agrees, HasContent
  <1>21. outputScale = {UnitScale}
    BY <1>11 DEF Inv, AgentTypeOK
  <1>22. InStep(t)'
    BY <1>1, <1>17, <1>19, <1>20, <1>21 DEF InStep
  <1>23. AgentTypeOK'
    BY <1>1, <1>11, <1>17, <1>18, <1>21 DEF Inv, AgentTypeOK
  <1>24. PixelInv'
    BY <1>17, <1>20 DEF PixelInv
  <1>25. MirrorStep
    <2>. DEFINE v == [width |-> p.width, shown |-> p.frameSequence, image |-> p.framebuffer]
    <2>1. View = {v} /\ View' = {[width |-> p.width, shown |-> n, image |-> image]}
      BY <1>11, <1>12, <1>14, <1>17, <1>18, ViewIsTheWindow, ViewIsTheWindowNext DEF Window
    <2>2. CASE p.frameSequence = n
      <3>1. HasContent(p, history)
        BY <1>11, <1>13 DEF Inv, PixelInv
      <3>2. p.framebuffer = image
        BY <1>8, <1>10, <2>2, <3>1 DEF HasContent
      <3>3. View' = View
        BY <2>1, <2>2, <3>2
      <3>. QED
        BY <1>1, <3>3 DEF MirrorStep
    <2>3. CASE p.frameSequence # n
      <3>1. n \in v.shown + 1 .. Len(history) /\ history[n].width = v.width
        BY <1>7, <1>10, <1>14, <2>3, HistoryFacts DEF Inv
      <3>2. history[n].width = p.width /\ history[n].image = image
        BY <1>8, <3>1
      <3>3. n \in p.frameSequence + 1 .. Len(history)
        BY <3>1
      <3>. QED
        BY <1>1, <2>1, <3>2, <3>3, ShowingIsShow
    <2>. QED
      BY <2>2, <2>3
  <1>. QED
    BY <1>1, <1>3, <1>4, <1>22, <1>23, <1>24, <1>25, ReceivedNext DEF t

\* Damage on top of the frame it was made against makes the next content of
\* it; otherwise the agent asks for the whole.
LEMMA DamageKeepsInv ==
    ASSUME Inv, ReceiveDamage, UNCHANGED exporterVars
    PROVE  Inv' /\ MirrorStep
  <1>1. /\ agentSocket = "open" /\ toAgent # <<>>
        /\ UNCHANGED <<agent, pending, outputScale, history>>
    BY DEF ReceiveDamage, AgentArrived, applicationVars, exporterVars
  <1>2. PICK m : m = Head(toAgent)
    OBVIOUS
  <1>3. PICK r \in StreamType :
           /\ InStep(r) /\ Sound(history, r, m) /\ Then(r, m) \in StreamType
           /\ Follows(history, Then(r, m), Tail(toAgent), Told)
    BY <1>1, <1>2, NextArrival
  <1>. DEFINE t == Then(r, m)
  <1>5. m.type = "WINDOW_DAMAGE"
    BY <1>2 DEF ReceiveDamage, AgentArrived
  <1>6. r.stage = 2 /\ SoundDamage(history, r, m)
    BY <1>3, <1>5, SoundKinds
  <1>7. PICK n \in 1 .. Len(history) - 1 : \E rects \in Damages :
           /\ n >= r.told /\ history[n].width = r.width /\ history[n + 1].width = r.width
           /\ Covered(history, n, rects) /\ m = DamageOf(history, n, rects)
    BY <1>6 DEF SoundDamage
  <1>8. PICK rects \in Damages : /\ n >= r.told /\ history[n].width = r.width /\ history[n + 1].width = r.width
                                 /\ Covered(history, n, rects) /\ m = DamageOf(history, n, rects)
    BY <1>7
  <1>0. PICK old, new : old = history[n].image /\ new = history[n + 1].image
    OBVIOUS
  <1>9. m.id = Content /\ m.base = n /\ m.sequence = n + 1 /\ m.rects = Pieces(rects, new)
    BY <1>0, <1>8, DamageFields
  <1>10. /\ r.told \in Nat /\ n \in Nat /\ n >= 1 /\ n \in 1 .. Len(history) /\ n + 1 \in 1 .. Len(history)
         /\ Len(history) \in Nat
    BY HistoryFacts DEF Inv, StreamType
  <1>11. new \in SUBSET [x : Nat, y : {0}]
    BY <1>0, <1>10, HistoryFacts DEF Inv
  <1>12. DOMAIN proxies = {Content}
    <2>1. DOMAIN proxies # {}
      BY <1>3, <1>6, Zenon DEF InStep
    <2>. QED
      BY <2>1 DEF Inv, AgentTypeOK
  <1>13. PICK p : p = Window
    OBVIOUS
  <1>14. p = proxies[Content] /\ p \in ProxyType /\ Agrees(r, p) /\ HasContent(p, history)
    BY <1>3, <1>12, <1>13 DEF Inv, AgentTypeOK, InStep, Window, PixelInv
  <1>15. p.width = r.width /\ p.frameSequence <= r.told /\ p.frameSequence \in Nat
    BY <1>14 DEF Agrees, ProxyType
  <1>16. t.stage = 2 /\ t.width = r.width /\ t.told = n + 1 /\ t.unfit = r.unfit
    BY <1>5, <1>6, <1>9 DEF Then
  <1>17. outputScale = {UnitScale}
    BY <1>12 DEF Inv, AgentTypeOK
  <1>18. RectRight(p.presentation.source) <= r.width \/ r.unfit \/ DOMAIN pending # {}
    BY <1>14, <1>15 DEF Agrees
  <1>. HIDE DEF t
  <1>a. CASE CanPatch(m)
    <2>1. Answer(<<>>) /\ proxies' = [proxies EXCEPT ![m.id].framebuffer = Patched(@, m.rects),
                                                     ![m.id].frameSequence = m.sequence]
      BY <1>2, <1>a DEF ReceiveDamage, AgentArrival
    <2>2. p.frameSequence = n
      BY <1>9, <1>14, <1>a DEF CanPatch, HasTheBase
    <2>3. p.framebuffer = old
      BY <1>0, <1>10, <1>14, <2>2 DEF HasContent
    <2>4. Patched(p.framebuffer, m.rects) = new
      <3>1. rects \in Seq(Rect)
        BY ContentAssumption
      <3>2. \A x \in (old \ new) \cup (new \ old) : \E c \in ToSet(rects) : RectContainsPoint(c, x)
        BY <1>0, <1>8 DEF Covered
      <3>. QED
        BY <1>9, <2>3, <3>1, <3>2, DamageIsExact
    <2>5. PICK q : q = [p EXCEPT !.framebuffer = new, !.frameSequence = n + 1]
      OBVIOUS
    <2>6. proxies' = [proxies EXCEPT ![Content].framebuffer = new, ![Content].frameSequence = n + 1]
      <3>1. Patched(proxies[Content].framebuffer, m.rects) = new
        BY <1>14, <2>4
      <3>. QED
        BY <1>9, <2>1, <3>1
    <2>7. DOMAIN proxies' = {Content} /\ proxies'[Content] = q
      BY <1>12, <1>14, <2>5, <2>6
    <2>8. /\ q \in ProxyType /\ q.width = r.width /\ q.framebuffer = new /\ q.frameSequence = n + 1
          /\ q.presentation = p.presentation
      <3>1. n + 1 \in Nat
        BY <1>10
      <3>. QED
        BY <1>11, <1>14, <1>15, <2>5, <3>1 DEF ProxyType
    <2>9. Agrees(t, q)' /\ HasContent(q, history')
      BY <1>0, <1>1, <1>8, <1>10, <1>16, <1>18, <2>8 DEF Agrees, HasContent
    <2>10. InStep(t)'
      BY <1>1, <1>16, <1>17, <2>7, <2>9 DEF InStep
    <2>11. AgentTypeOK'
      BY <1>1, <1>12, <1>17, <2>7, <2>8 DEF Inv, AgentTypeOK
    <2>12. PixelInv'
      BY <2>7, <2>9 DEF PixelInv
    <2>13. MirrorStep
      <3>1. /\ View = {[width |-> p.width, shown |-> n, image |-> p.framebuffer]}
            /\ View' = {[width |-> p.width, shown |-> n + 1, image |-> new]}
        BY <1>12, <1>13, <1>15, <2>2, <2>7, <2>8, ViewIsTheWindow, ViewIsTheWindowNext DEF Window
      <3>2. n + 1 \in n + 1 .. Len(history) /\ history[n + 1].width = p.width /\ history[n + 1].image = new
        BY <1>0, <1>8, <1>10, <1>15
      <3>. QED
        BY <1>1, <3>1, <3>2, ShowingIsShow
    <2>14. <<>> \in Seq(ToServerMessage)
      OBVIOUS
    <2>. QED
      BY <1>1, <1>3, <2>1, <2>10, <2>11, <2>12, <2>13, <2>14, ReceivedNext DEF t
  <1>b. CASE ~CanPatch(m)
    <2>1. Answer(Resync(m)) /\ UNCHANGED proxies
      BY <1>2, <1>b DEF ReceiveDamage, AgentArrival
    <2>2. PICK request : request = FrameRequest(Content, p.frameSequence)
      OBVIOUS
    <2>3. Resync(m) = <<request>>
      BY <1>9, <1>14, <2>2 DEF Resync
    <2>4. request \in ToServerMessage /\ request.type = "WINDOW_FRAME_REQUEST"
      BY <1>15, <2>2 DEF ToServerMessage, FrameRequest
    <2>5. <<request>> \in Seq(ToServerMessage) /\ request \in ToSet(<<request>>)
      BY <2>4 DEF ToSet
    <2>6. Answer(<<request>>) /\ toServer' = Sent(<<request>>)
      BY <2>1, <2>3 DEF Answer
    <2>7. Asked'
      <3>1. request \in ToSet(Sent(<<request>>))
        BY <1>1, <2>5, SaidIsAdded
      <3>2. request \in ToSet(toServer')
        BY <2>6, <3>1
      <3>. QED
        BY <2>4, <3>2 DEF Asked
    <2>8. Agrees(t, p)' /\ HasContent(p, history')
      <3>1. p.frameSequence <= n + 1
        BY <1>8, <1>10, <1>15
      <3>2. Agrees(t, p)'
        BY <1>1, <1>15, <1>16, <1>18, <2>7, <3>1 DEF Agrees
      <3>. QED
        BY <1>1, <1>14, <3>2
    <2>9. InStep(t)'
      BY <1>1, <1>12, <1>14, <1>16, <1>17, <2>1, <2>8 DEF InStep
    <2>10. AgentTypeOK'
      BY <1>1, <2>1 DEF Inv, AgentTypeOK
    <2>11. PixelInv'
      BY <1>1, <2>1 DEF Inv, PixelInv
    <2>12. UNCHANGED <<history, View>>
      BY <1>1, <2>1 DEF View
    <2>13. MirrorStep
      BY <2>12 DEF MirrorStep
    <2>. QED
      BY <1>1, <1>3, <2>5, <2>6, <2>9, <2>10, <2>11, <2>13, ReceivedNext DEF t
  <1>. QED
    BY <1>a, <1>b

\* A PRESENT is queued.
LEMMA PresentKeepsInv ==
    ASSUME Inv, ReceivePresent, UNCHANGED exporterVars
    PROVE  Inv' /\ MirrorStep
  <1>1. /\ agentSocket = "open" /\ toAgent # <<>> /\ Answer(<<>>)
        /\ UNCHANGED <<agent, proxies, outputScale, history>>
    BY DEF ReceivePresent, AgentArrived, exporterVars
  <1>2. PICK m : m = Head(toAgent)
    OBVIOUS
  <1>3. PICK r \in StreamType :
           /\ InStep(r) /\ Sound(history, r, m) /\ Then(r, m) \in StreamType
           /\ Follows(history, Then(r, m), Tail(toAgent), Told)
    BY <1>1, <1>2, NextArrival
  <1>. DEFINE t == Then(r, m)
  <1>4. <<>> \in Seq(ToServerMessage) /\ toAgent' = Tail(toAgent) /\ toServer' = Sent(<<>>)
    BY <1>1 DEF Answer
  <1>5. m.type = "WINDOW_PRESENT"
    BY <1>2 DEF ReceivePresent, AgentArrived
  <1>6. r.stage = 2 /\ SoundPresent(r, m)
    BY <1>3, <1>5, SoundKinds
  <1>7. PICK n \in Nat : \E v \in BOOLEAN : m = PresentOf(r.width, n, v)
    BY <1>6 DEF SoundPresent
  <1>8. PICK v \in BOOLEAN : m = PresentOf(r.width, n, v)
    BY <1>7
  <1>9. m.id = Content /\ m.presentation = PresentationOf(r.width, n, v)
    BY <1>8, PresentFields
  <1>10. DOMAIN proxies = {Content}
    <2>1. DOMAIN proxies # {}
      BY <1>3, <1>6, Zenon DEF InStep
    <2>. QED
      BY <2>1 DEF Inv, AgentTypeOK
  <1>11. PICK p : p = proxies[Content]
    OBVIOUS
  <1>12. p \in ProxyType /\ Agrees(r, p)
    BY <1>3, <1>10, <1>11 DEF Inv, AgentTypeOK, InStep
  <1>13. r.width \in Widths
    BY <1>12 DEF ProxyType, Agrees
  <1>14. m.presentation \in ShownType
    BY <1>9, <1>13, ShownIsTyped
  <1>15. pending' = KeepNewest(m.id, m.presentation)
    BY <1>2 DEF ReceivePresent, AgentArrival
  <1>16. DOMAIN pending' = {Content} /\ pending'[Content] = m.presentation
    <2>1. DOMAIN pending \subseteq {Content}
      BY <1>10 DEF Inv, AgentTypeOK
    <2>. QED
      BY <1>9, <1>15, <2>1 DEF KeepNewest
  <1>17. t.stage = 2 /\ t.width = r.width /\ t.told = r.told /\ t.owed = r.owed
    BY <1>5, <1>6 DEF Then
  <1>. HIDE DEF t
  <1>18. FrameAhead => FrameAhead'
    BY <1>1, <1>2, <1>4, <1>5, FrameStaysAhead
  <1>19. Asked => Asked'
    BY <1>4, AskedStays
  <1>20. Agrees(t, p)'
    BY <1>12, <1>16, <1>17, <1>18, <1>19 DEF Agrees
  <1>21. outputScale = {UnitScale}
    BY <1>10 DEF Inv, AgentTypeOK
  <1>22. InStep(t)'
    BY <1>1, <1>10, <1>11, <1>17, <1>20, <1>21 DEF InStep
  <1>23. AgentTypeOK'
    BY <1>1, <1>10, <1>14, <1>16, <1>21 DEF Inv, AgentTypeOK
  <1>24. PixelInv'
    BY <1>1 DEF Inv, PixelInv
  <1>25. UNCHANGED <<history, View>>
    BY <1>1 DEF View
  <1>26. MirrorStep
    BY <1>25 DEF MirrorStep
  <1>. QED
    BY <1>1, <1>3, <1>4, <1>22, <1>23, <1>24, <1>26, ReceivedNext DEF t

\* The rectangle a presentation shows.
LEMMA RegionFacts ==
    ASSUME NEW w \in Widths, NEW v \in BOOLEAN
    PROVE  /\ Region(w, v) \in Rect /\ RectIsValid(Region(w, v))
           /\ Region(w, v).x = 0 /\ Region(w, v).y = 0 /\ Region(w, v).h <= 1
           /\ RectRight(Region(w, v)) = Region(w, v).w /\ RectBottom(Region(w, v)) = Region(w, v).h
           /\ v => Region(w, v).w = w /\ ~RectIsEmpty(Region(w, v))
           /\ ~v => Region(w, v).w = 0
  <1>1. w \in Int /\ w >= 1 /\ w <= MaxInt /\ MaxInt \in Int /\ MaxInt >= 1
    BY WidthFacts, MaxIntAssumption
  <1>2. EmptyRect \in Rect /\ Surface(0, w) \in Rect
    BY <1>1 DEF EmptyRect, Rect, Surface, I32
  <1>3. CASE v
    <2>1. Region(w, v) = [x |-> 0, y |-> 0, w |-> w, h |-> 1]
      BY <1>3 DEF Region, Surface
    <2>. QED
      BY <1>1, <1>2, <1>3, <2>1 DEF Region, RectIsValid, RectRight, RectBottom, RectIsEmpty
  <1>4. CASE ~v
    <2>1. Region(w, v) = [x |-> 0, y |-> 0, w |-> 0, h |-> 0]
      BY <1>4 DEF Region, EmptyRect
    <2>. QED
      BY <1>2, <1>4, <2>1 DEF Region, RectIsValid, RectRight, RectBottom
  <1>. QED
    BY <1>3, <1>4

\* Where a presentation is on the screen, at the scale of one.
LEMMA PhysicalIsLogical ==
    ASSUME NEW p \in ShownType, outputScale = {UnitScale}
    PROVE  p.destination \in Rect /\ PhysicalDestination(p) = {p.destination}
  <1>1. PICK w \in Widths : p.visible \in BOOLEAN /\ p.destination = Region(w, p.visible)
    BY ShownFacts
  <1>2. PICK r : r = p.destination
    OBVIOUS
  <1>3. r \in Rect /\ RectIsValid(r)
    BY <1>1, <1>2, RegionFacts
  <1>4. PICK s : s = UnitScale
    OBVIOUS
  <1>5. LogicalRectToPhysical(r, s) = {r}
    BY <1>3, <1>4, ScaleOneChangesNothing DEF UnitScale
  <1>6. outputScale = {s}
    BY <1>4
  <1>7. PhysicalDestination(p) = UNION {LogicalRectToPhysical(r, e) : e \in {s}}
    BY <1>2, <1>6 DEF PhysicalDestination
  <1>8. UNION {LogicalRectToPhysical(r, e) : e \in {s}} = LogicalRectToPhysical(r, s)
    OBVIOUS
  <1>. QED
    BY <1>2, <1>3, <1>5, <1>7, <1>8

\* The window with a presentation applied.
LEMMA AppliedFacts ==
    ASSUME NEW p \in ProxyType, p = proxies[Content], NEW x \in ShownType, outputScale = {UnitScale},
           NEW q, q = Applied(Content, x)
    PROVE  /\ q \in ProxyType /\ q.width = p.width /\ q.frameSequence = p.frameSequence
           /\ q.framebuffer = p.framebuffer /\ q.presentation = x
  <1>1. PICK d : d = IF x.visible THEN CHOOSE r \in PhysicalDestination(x) : TRUE ELSE EmptyRect
    OBVIOUS
  <1>2. EmptyRect \in Rect
    BY MaxIntAssumption DEF EmptyRect, Rect, I32
  <1>3. d \in Rect
    <2>1. x.destination \in Rect /\ PhysicalDestination(x) = {x.destination}
      BY PhysicalIsLogical
    <2>2. (CHOOSE r \in {x.destination} : TRUE) = x.destination
      OBVIOUS
    <2>. QED
      BY <1>1, <1>2, <2>1, <2>2
  <1>4. q = [p EXCEPT !.presentation = x, !.physical = d]
    BY <1>1 DEF Applied
  <1>. QED
    BY <1>3, <1>4 DEF ProxyType

\* The sequences that list a finite set.
LEMMA ListingsOf ==
    ASSUME NEW S, IsFiniteSet(S), NEW order \in SetToSeqs(S)
    PROVE  order \in Seq(S) /\ Len(order) = Cardinality(S)
  <1>1. Cardinality(S) \in Nat
    BY FS_CardinalityType
  <1>2. order \in [1 .. Cardinality(S) -> S]
    BY DEF SetToSeqs
  <1>. QED
    BY <1>1, <1>2, SeqDef

\* The ACKs of a list of windows.
LEMMA AcksAreTyped ==
    ASSUME Inv, NEW order \in Seq(Ready)
    PROVE  /\ Acks(order) \in Seq(ToServerMessage)
           /\ \A a \in ToSet(Acks(order)) :
                 Content \in Ready /\ a = PresentAck(Content, pending[Content].sequence)
  <1>1. /\ Ready \subseteq {Content} /\ Ready \subseteq DOMAIN pending
        /\ \A id \in DOMAIN pending : pending[id] \in ShownType
    BY DEF Inv, AgentTypeOK, Ready
  <1>2. Len(order) \in Nat /\ DOMAIN order = 1 .. Len(order) /\ \A i \in 1 .. Len(order) : order[i] \in Ready
    BY LenProperties, ElementOfSeq
  <1>. DEFINE ack == PresentAck(Content, pending[Content].sequence)
  <1>3. Acks(order) = [i \in 1 .. Len(order) |-> PresentAck(order[i], pending[order[i]].sequence)]
    BY <1>2 DEF Acks
  <1>4. \A i \in 1 .. Len(order) : Content \in Ready /\ PresentAck(order[i], pending[order[i]].sequence) = ack
    BY <1>1, <1>2
  <1>5. Content \in Ready => ack \in ToServerMessage
    <2>. SUFFICES ASSUME Content \in Ready PROVE ack \in ToServerMessage
      OBVIOUS
    <2>1. pending[Content].sequence \in Nat
      BY <1>1, ShownFacts
    <2>. QED
      BY <2>1 DEF ToServerMessage
  <1>. HIDE DEF ack
  <1>6. Acks(order) \in [1 .. Len(order) -> ToServerMessage]
    BY <1>3, <1>4, <1>5
  <1>7. Acks(order) \in Seq(ToServerMessage)
    BY <1>2, <1>6, SeqDef
  <1>8. \A a \in ToSet(Acks(order)) : Content \in Ready /\ a = ack
    <2>1. DOMAIN Acks(order) = 1 .. Len(order) /\ \A i \in 1 .. Len(order) : Acks(order)[i] = ack
      BY <1>3, <1>4
    <2>. QED
      BY <1>4, <2>1 DEF ToSet
  <1>. QED
    BY <1>7, <1>8 DEF ack

\* The dispatch applies what waits, and what it applies fits the window.
LEMMA DispatchKeepsInv ==
    ASSUME Inv, DispatchPresents, UNCHANGED exporterVars
    PROVE  Inv' /\ MirrorStep
  <1>1. /\ UNCHANGED <<agent, outputScale, toAgent, serverSocket, agentSocket>>
        /\ UNCHANGED <<history, announced, presented, unacked>>
        /\ pending' = Empty /\ DOMAIN pending' = {}
        /\ \A id \in Ready : Presentable(id, pending[id])
        /\ proxies' = [id \in DOMAIN proxies |->
                          IF id \in Ready THEN Applied(id, pending[id]) ELSE proxies[id]]
    BY DEF DispatchPresents, Send, exporterVars, Empty
  <1>2. PICK order \in SetToSeqs(Ready) : toServer' = Sent(Acks(order))
    BY DEF DispatchPresents, Send
  <1>3. DOMAIN proxies \subseteq {Content} /\ Ready \subseteq {Content} /\ Ready \subseteq DOMAIN pending
    BY DEF Inv, AgentTypeOK, Ready
  <1>4. IsFiniteSet(Ready)
    BY <1>3, FS_Singleton, FS_Subset
  <1>5. order \in Seq(Ready)
    BY <1>2, <1>4, ListingsOf
  <1>6. PICK acks : acks = Acks(order)
    OBVIOUS
  <1>7. acks \in Seq(ToServerMessage) /\ toServer' = Sent(acks)
    BY <1>2, <1>5, <1>6, AcksAreTyped
  <1>8. DOMAIN proxies' = DOMAIN proxies
    BY <1>1
  <1>9. ASSUME DOMAIN proxies = {Content}
        PROVE  /\ proxies'[Content] \in ProxyType
               /\ proxies'[Content].width = proxies[Content].width
               /\ proxies'[Content].frameSequence = proxies[Content].frameSequence
               /\ proxies'[Content].framebuffer = proxies[Content].framebuffer
               /\ \/ /\ Content \notin DOMAIN pending
                     /\ proxies'[Content].presentation = proxies[Content].presentation
                  \/ RectRight(proxies'[Content].presentation.source) <= proxies[Content].width
    <2>1. proxies[Content] \in ProxyType /\ outputScale = {UnitScale}
      BY <1>9 DEF Inv, AgentTypeOK
    <2>2. CASE Content \in Ready
      <3>1. PICK x : x = pending[Content]
        OBVIOUS
      <3>2. x \in ShownType
        BY <1>3, <2>2, <3>1 DEF Inv, AgentTypeOK
      <3>3. PICK q : q = Applied(Content, x)
        OBVIOUS
      <3>4. proxies'[Content] = q
        BY <1>1, <1>9, <2>2, <3>1, <3>3
      <3>5. RectRight(x.source) <= proxies[Content].width
        BY <1>1, <2>2, <3>1 DEF Presentable
      <3>6. PICK p : p = proxies[Content]
        OBVIOUS
      <3>. QED
        BY <2>1, <3>2, <3>3, <3>4, <3>5, <3>6, AppliedFacts
    <2>3. CASE Content \notin Ready
      <3>1. Content \notin DOMAIN pending
        BY <1>9, <2>3 DEF Ready
      <3>2. proxies'[Content] = proxies[Content]
        BY <1>1, <1>9, <2>3
      <3>. QED
        BY <2>1, <3>1, <3>2
    <2>. QED
      BY <2>2, <2>3
  <1>10. ExporterTypeOK'
    BY <1>1 DEF Inv, ExporterTypeOK
  <1>11. WireTypeOK'
    BY <1>1, <1>7, <1>8, SaidIsAdded DEF Inv, WireTypeOK
  <1>12. AgentTypeOK'
    BY <1>1, <1>3, <1>8, <1>9 DEF Inv, AgentTypeOK
  <1>13. PixelInv'
    <2>1. ASSUME DOMAIN proxies = {Content} PROVE HasContent(proxies'[Content], history')
      <3>1. HasContent(proxies[Content], history)
        BY <2>1 DEF Inv, PixelInv
      <3>. QED
        BY <1>1, <1>9, <2>1, <3>1 DEF HasContent
    <2>. QED
      BY <1>3, <1>8, <2>1 DEF PixelInv
  <1>14. Told' = Told
    BY <1>1 DEF Told, Version
  <1>15. Asked => Asked'
    BY <1>7, AskedStays
  <1>16. FrameAhead' <=> FrameAhead
    BY <1>1 DEF FrameAhead
  <1>17. ASSUME NEW r \in StreamType, InStep(r) PROVE InStep(r)'
    <2>1. ASSUME DOMAIN proxies = {Content} PROVE Agrees(r, proxies[Content])'
      <3>1. PICK p, q : p = proxies[Content] /\ q = proxies'[Content]
        OBVIOUS
      <3>2. Agrees(r, p)
        BY <1>17, <2>1, <3>1 DEF InStep
      <3>3. /\ q.width = p.width /\ q.frameSequence = p.frameSequence
            /\ \/ Content \notin DOMAIN pending /\ q.presentation = p.presentation
               \/ RectRight(q.presentation.source) <= p.width
        BY <1>9, <2>1, <3>1
      <3>4. DOMAIN pending \subseteq {Content}
        BY <2>1 DEF Inv, AgentTypeOK
      <3>5. RectRight(q.presentation.source) <= q.width \/ r.unfit
        BY <3>2, <3>3, <3>4 DEF Agrees
      <3>6. Agrees(r, q)'
        BY <1>15, <1>16, <3>2, <3>3, <3>5 DEF Agrees
      <3>. QED
        BY <3>1, <3>6
    <2>2. \A id \in DOMAIN proxies' : id = Content /\ DOMAIN proxies = {Content}
      BY <1>3, <1>8
    <2>3. (\A id \in DOMAIN proxies : Agrees(r, proxies[id]))'
      BY <2>1, <2>2
    <2>. QED
      BY <1>1, <1>8, <1>17, <2>3 DEF InStep
  <1>18. StreamInv'
    <2>. SUFFICES ASSUME agentSocket' = "open" PROVE \E r \in StreamType : InStep(r)' /\ Follows(history', r, toAgent', Told')
      BY DEF StreamInv
    <2>1. PICK r \in StreamType : InStep(r) /\ Follows(history, r, toAgent, Told)
      BY <1>1 DEF Inv, StreamInv
    <2>2. InStep(r)' /\ Follows(history', r, toAgent', Told')
      BY <1>1, <1>14, <1>17, <2>1
    <2>. QED
      BY <2>2
  <1>19. UNCHANGED <<history, View>>
    <2>1. CASE DOMAIN proxies = {}
      BY <1>1, <1>8, <2>1, ViewIsTheWindow, ViewIsTheWindowNext
    <2>2. CASE DOMAIN proxies = {Content}
      <3>1. /\ View = {[width |-> Window.width, shown |-> Window.frameSequence, image |-> Window.framebuffer]}
            /\ View' = {[width |-> Window'.width, shown |-> Window'.frameSequence, image |-> Window'.framebuffer]}
        BY <1>8, <2>2, ViewIsTheWindow, ViewIsTheWindowNext
      <3>2. /\ Window'.width = Window.width /\ Window'.frameSequence = Window.frameSequence
            /\ Window'.framebuffer = Window.framebuffer
        BY <1>9, <2>2 DEF Window
      <3>. QED
        BY <1>1, <3>1, <3>2
    <2>. QED
      BY <1>3, <2>1, <2>2
  <1>20. MirrorStep
    BY <1>19 DEF MirrorStep
  <1>. QED
    BY <1>10, <1>11, <1>12, <1>13, <1>18, <1>20 DEF Inv

\* A connection that fails takes the window with it.
LEMMA FailingKeepsInv ==
    ASSUME Inv, NEW lastWords \in Seq(ToServerMessage), FailConnection(lastWords), UNCHANGED exporterVars
    PROVE  Inv' /\ MirrorStep
  <1>1. /\ toServer' = Sent(lastWords) /\ agentSocket' = "closed" /\ toAgent' = <<>>
        /\ DOMAIN pending' = {} /\ DOMAIN proxies' = {} /\ UNCHANGED <<serverSocket, outputScale>>
        /\ UNCHANGED <<history, announced, presented, unacked>>
    BY DEF FailConnection, exporterVars, Empty
  <1>2. ExporterTypeOK'
    BY <1>1 DEF Inv, ExporterTypeOK
  <1>3. WireTypeOK'
    BY <1>1, SaidIsAdded DEF Inv, WireTypeOK
  <1>4. AgentTypeOK' /\ PixelInv' /\ StreamInv'
    BY <1>1 DEF Inv, AgentTypeOK, PixelInv, StreamInv
  <1>5. MirrorStep
    <2>1. View' = {}
      BY <1>1, ViewIsTheWindowNext
    <2>2. View = {} => UNCHANGED <<history, View>>
      BY <1>1, <2>1
    <2>3. View # {} => Pixels!Close
      BY <1>1, <2>1 DEF Pixels!Close
    <2>. QED
      BY <2>2, <2>3 DEF MirrorStep
  <1>. QED
    BY <1>2, <1>3, <1>4, <1>5 DEF Inv

\* The dispatch that fails has acknowledged what it applied.
LEMMA LastWordsAreAcks ==
    ASSUME Inv, DispatchFails
    PROVE  \E lastWords \in Seq(ToServerMessage) : FailConnection(lastWords)
  <1>. DEFINE S == {id \in Ready : Presentable(id, pending[id])}
  <1>1. PICK order \in SetToSeqs(S) : \E done \in 0 .. Len(order) : FailConnection(Acks(SubSeq(order, 1, done)))
    BY DEF DispatchFails
  <1>2. S \subseteq Ready /\ S \subseteq {Content}
    BY DEF Inv, AgentTypeOK, Ready
  <1>. HIDE DEF S
  <1>3. order \in Seq(S)
    BY <1>1, <1>2, FS_Singleton, FS_Subset, ListingsOf
  <1>4. order \in Seq(Ready)
    BY <1>2, <1>3, SeqOfMore
  <1>5. PICK done \in 0 .. Len(order) : FailConnection(Acks(SubSeq(order, 1, done)))
    BY <1>1
  <1>6. SubSeq(order, 1, done) \in Seq(Ready)
    BY <1>4, <1>5, LenProperties, SubSeqProperties
  <1>7. PICK said : said = Acks(SubSeq(order, 1, done))
    OBVIOUS
  <1>8. said \in Seq(ToServerMessage) /\ FailConnection(said)
    BY <1>5, <1>6, <1>7, AcksAreTyped
  <1>. QED
    BY <1>8

\* The process ends after its connection.
LEMMA ExitKeepsInv ==
    ASSUME Inv, Exit, UNCHANGED exporterVars
    PROVE  Inv' /\ MirrorStep
  <1>1. /\ agentSocket = "closed" /\ agentSocket' = "closed" /\ toAgent' = <<>>
        /\ UNCHANGED <<toServer, serverSocket, outputScale, pending, proxies>>
        /\ UNCHANGED <<history, announced, presented, unacked>>
    BY DEF Exit, Inv, WireTypeOK, exporterVars
  <1>2. ExporterTypeOK' /\ WireTypeOK' /\ AgentTypeOK' /\ PixelInv' /\ StreamInv'
    BY <1>1 DEF Inv, ExporterTypeOK, WireTypeOK, AgentTypeOK, PixelInv, StreamInv
  <1>3. UNCHANGED <<history, View>>
    BY <1>1 DEF View
  <1>. QED
    BY <1>2, <1>3 DEF Inv, MirrorStep

\* Every step of the agent's thread.
LEMMA ThreadKeepsInv ==
    ASSUME Inv, ThreadStep
    PROVE  Inv' /\ MirrorStep
  <1>0. UNCHANGED exporterVars
    BY DEF ThreadStep
  <1>1. CASE ReceiveHelloAck \/ ReceiveOutputConfig
    BY <1>0, <1>1, GreetingsKeepInv
  <1>2. CASE ReceiveCreate
    BY <1>0, <1>2, CreateKeepsInv
  <1>3. CASE ReceiveResize
    BY <1>0, <1>3, ResizeKeepsInv
  <1>4. CASE ReceiveFrame
    BY <1>0, <1>4, FrameKeepsInv
  <1>5. CASE ReceiveDamage
    BY <1>0, <1>5, DamageKeepsInv
  <1>6. CASE ReceivePresent
    BY <1>0, <1>6, PresentKeepsInv
  <1>7. CASE ReceiveActivate \/ ReceiveDestroy
    <2>1. /\ agentSocket = "open" /\ toAgent # <<>>
          /\ Head(toAgent).type \in {"WINDOW_ACTIVATE", "WINDOW_DESTROY"}
      BY <1>7 DEF ReceiveActivate, ReceiveDestroy, AgentArrived
    <2>2. PICK m : m = Head(toAgent)
      OBVIOUS
    <2>3. PICK r \in StreamType : Sound(history, r, m)
      BY <2>1, <2>2, NextArrival
    <2>4. m.type \notin {"WINDOW_ACTIVATE", "WINDOW_DESTROY"}
      BY <2>3, SoundKinds
    <2>. QED
      BY <2>1, <2>2, <2>4
  <1>8. CASE SocketFails
    <2>1. FailConnection(<<>>) /\ <<>> \in Seq(ToServerMessage)
      BY <1>8 DEF SocketFails
    <2>. QED
      BY <1>0, <2>1, FailingKeepsInv
  <1>9. CASE DispatchPresents
    BY <1>0, <1>9, DispatchKeepsInv
  <1>10. CASE DispatchFails
    BY <1>0, <1>10, LastWordsAreAcks, FailingKeepsInv
  <1>11. CASE Exit
    BY <1>0, <1>11, ExitKeepsInv
  <1>. QED
    BY <1>1, <1>2, <1>3, <1>4, <1>5, <1>6, <1>7, <1>8, <1>9, <1>10, <1>11 DEF ThreadStep, AgentStep

-----------------------------------------------------------------------------
(* What the exporter says.                                                 *)

\* What it has said so far is a state of a reader.
LEMMA ToldType ==
    ASSUME ExporterTypeOK
    PROVE  /\ Told \in StreamType
           /\ Told.stage = 2 /\ Told.width = history[Len(history)].width /\ Told.told = announced
           /\ ~Told.owed /\ ~Told.unfit
  <1>1. history[Len(history)].width \in Nat /\ announced \in Nat
    BY HistoryFacts, WidthFacts
  <1>2. Told = [stage |-> 2, width |-> history[Len(history)].width, told |-> announced,
                owed |-> FALSE, unfit |-> FALSE]
    BY DEF Told, Version
  <1>. QED
    BY <1>1, <1>2 DEF StreamType

\* A record of what a reader knows, by its fields.
LEMMA SameKnowledge ==
    ASSUME NEW a \in StreamType, NEW b \in StreamType, a.stage = b.stage, a.width = b.width,
           a.told = b.told, a.owed = b.owed, a.unfit = b.unfit
    PROVE  a = b
  BY DEF StreamType

\* One more content.
LEMMA CommittedFacts ==
    ASSUME ExporterTypeOK, NEW c \in ContentType, NEW h, h = Append(history, c)
    PROVE  /\ h \in Seq(ContentType) /\ h # <<>> /\ Len(h) = Len(history) + 1
           /\ h[Len(h)] = c /\ \A n \in 1 .. Len(history) : h[n] = history[n]
  <1>1. history \in Seq(ContentType)
    BY DEF ExporterTypeOK
  <1>2. Len(history) \in Nat /\ h \in Seq(ContentType) /\ Len(h) = Len(history) + 1
    BY <1>1, AppendProperties, LenProperties
  <1>3. h[Len(h)] = c /\ \A n \in 1 .. Len(history) : h[n] = history[n]
    BY <1>1, <1>2, AppendProperties
  <1>4. h # <<>>
    BY <1>2, EmptySeq
  <1>. QED
    BY <1>2, <1>3, <1>4

\* What the exporter says next is read after what it has said.
LEMMA SayingKeepsInv ==
    ASSUME Inv, ExporterTypeOK', UNCHANGED <<serverSocket, agentSocket, agentVars>>,
           history' = history \/ \E c \in ContentType : history' = Append(history, c),
           NEW messages, toAgent' = IF agentSocket = "open" THEN toAgent \o messages ELSE toAgent,
           Follows(history', Told, messages, Told'),
           toServer' \in Seq(ToServerMessage),
           agentSocket = "open" /\ Asked => Asked' \/ \E m \in ToSet(messages) : m.type = "WINDOW_FRAME"
    PROVE  Inv' /\ MirrorStep
  <1>1. PICK h : h = history'
    OBVIOUS
  <1>2. UNCHANGED <<agent, outputScale, proxies, pending, View>>
    BY DEF agentVars, applicationVars, View
  <1>3. h = history \/ \E c \in ContentType : h = Append(history, c)
    BY <1>1
  <1>4. Len(history) \in Nat /\ Len(h) >= Len(history) /\ Len(h) \in Nat /\ \A n \in 1 .. Len(history) : h[n] = history[n]
    <2>1. Len(history) \in Nat
      BY HistoryFacts DEF Inv
    <2>2. ASSUME NEW c \in ContentType, h = Append(history, c)
          PROVE  Len(h) = Len(history) + 1 /\ \A n \in 1 .. Len(history) : h[n] = history[n]
      BY <2>2, CommittedFacts DEF Inv
    <2>. QED
      BY <1>3, <2>1, <2>2
  <1>5. WireTypeOK'
    BY <1>2 DEF Inv, WireTypeOK
  <1>6. AgentTypeOK'
    BY <1>2 DEF Inv, AgentTypeOK
  <1>7. PixelInv'
    <2>1. \A p : HasContent(p, history) => HasContent(p, h)
      BY <1>4 DEF HasContent
    <2>. QED
      BY <1>1, <1>2, <2>1 DEF Inv, PixelInv
  <1>8. ASSUME NEW r, NEW s, NEW last, Follows(history, r, s, last) PROVE Follows(h, r, s, last)
    <2>1. history \in Seq(ContentType) /\ history # <<>>
      BY DEF Inv, ExporterTypeOK
    <2>2. ASSUME NEW c \in ContentType, h = Append(history, c) PROVE Follows(h, r, s, last)
      BY <1>8, <2>1, <2>2, FollowsOn
    <2>. QED
      BY <1>3, <1>8, <2>2
  <1>9. ASSUME agentSocket = "open" PROVE \E r \in StreamType : InStep(r)' /\ Follows(h, r, toAgent', Told')
    <2>1. PICK r \in StreamType : InStep(r) /\ Follows(history, r, toAgent, Told)
      BY <1>9 DEF Inv, StreamInv
    <2>2. toAgent' = toAgent \o messages
      BY <1>9
    <2>3. PICK t : t = Told'
      OBVIOUS
    <2>4. Follows(h, r, toAgent, Told) /\ Follows(h, Told, messages, t)
      BY <1>1, <1>8, <2>1, <2>3
    <2>5. Follows(h, r, toAgent', t)
      BY <2>2, <2>4, FollowsBoth
    <2>6. \A m : m \in ToSet(toAgent') <=> m \in ToSet(toAgent) \/ m \in ToSet(messages)
      <3>1. PICK S, T : toAgent \in Seq(S) /\ messages \in Seq(T)
        BY <2>4 DEF Follows
      <3>. QED
        BY <2>2, <3>1, ConcatElements
    <2>7. FrameAhead \/ (\E m \in ToSet(messages) : m.type = "WINDOW_FRAME") => FrameAhead'
      BY <2>6 DEF FrameAhead
    <2>8. FrameAhead \/ Asked => FrameAhead' \/ Asked'
      BY <1>9, <2>7
    <2>9. InStep(r)'
      BY <1>2, <2>1, <2>8 DEF InStep, Agrees
    <2>. QED
      BY <2>3, <2>5, <2>9
  <1>10. StreamInv'
    BY <1>1, <1>9 DEF StreamInv
  <1>11. MirrorStep
    <2>1. CASE h = history
      BY <1>1, <1>2, <2>1 DEF MirrorStep
    <2>2. ASSUME NEW c \in ContentType, h = Append(history, c) PROVE MirrorStep
      <3>1. h[Len(h)] = c
        BY <2>2, CommittedFacts DEF Inv
      <3>2. history' = Append(history, c) /\ history'[Len(history')] = c
        BY <1>1, <2>2, <3>1
      <3>3. Pixels!Commit
        BY <1>2, <3>2 DEF Pixels!Commit
      <3>. QED
        BY <3>3 DEF MirrorStep
    <2>. QED
      BY <1>3, <2>1, <2>2
  <1>. QED
    BY <1>5, <1>6, <1>7, <1>10, <1>11 DEF Inv

\* The whole of the newest content is always expected.
LEMMA FrameIsExpected ==
    ASSUME NEW h \in Seq(ContentType), h # <<>>, NEW r \in StreamType, r.stage = 2,
           r.width = h[Len(h)].width, r.told <= Len(h), NEW m, m = FullFrame(h)
    PROVE  /\ Sound(h, r, m) /\ Then(r, m) \in StreamType /\ m.type = "WINDOW_FRAME"
           /\ Then(r, m).stage = 2 /\ Then(r, m).width = r.width /\ Then(r, m).told = Len(h)
           /\ ~Then(r, m).owed /\ Then(r, m).unfit = r.unfit
  <1>1. Len(h) \in Nat /\ Len(h) # 0 /\ r.told \in Nat
    BY LenProperties, EmptySeq DEF StreamType
  <1>2. m = FrameOf(h, Len(h))
    BY DEF FullFrame, FrameOf
  <1>3. SoundFrame(h, r, m)
    BY <1>1, <1>2 DEF SoundFrame
  <1>4. Sound(h, r, m)
    BY <1>3 DEF Sound
  <1>5. m.type = "WINDOW_FRAME" /\ m.sequence = Len(h)
    BY <1>2, FrameFields
  <1>6. Then(r, m) \in StreamType
    BY <1>4, ThenType
  <1>. QED
    BY <1>4, <1>5, <1>6 DEF Then

\* A presentation of the window's width is always expected.
LEMMA PresentIsExpected ==
    ASSUME NEW h \in Seq(ContentType), h # <<>>, NEW r \in StreamType, r.stage = 2,
           NEW n \in Nat, NEW v \in BOOLEAN, NEW m, m = PresentOf(r.width, n, v)
    PROVE  /\ Sound(h, r, m) /\ Then(r, m) \in StreamType
           /\ Then(r, m).stage = 2 /\ Then(r, m).width = r.width /\ Then(r, m).told = r.told
           /\ Then(r, m).owed = r.owed /\ ~Then(r, m).unfit
  <1>1. SoundPresent(r, m)
    BY DEF SoundPresent
  <1>2. Sound(h, r, m)
    BY <1>1 DEF Sound
  <1>3. m.type = "WINDOW_PRESENT"
    BY PresentFields
  <1>4. Then(r, m) \in StreamType
    BY <1>2, ThenType
  <1>. QED
    BY <1>2, <1>3, <1>4 DEF Then

\* A client's content.
LEMMA ContentIsTyped ==
    ASSUME NEW w \in Widths, NEW image, image \subseteq Columns(w)
    PROVE  [width |-> w, image |-> image] \in ContentType
  <1>1. w \in Nat
    BY WidthFacts
  <1>2. Columns(w) \subseteq [x : Nat, y : {0}]
    BY <1>1 DEF Columns
  <1>. QED
    BY <1>2 DEF ContentType

\* A content is committed.
LEMMA CommitKeepsInv ==
    ASSUME Inv, Commit
    PROVE  Inv' /\ MirrorStep
  <1>0. ExporterTypeOK /\ UNCHANGED <<presented, unacked>>
    BY DEF Commit, Inv
  <1>1. PICK width, old : width = history[Version].width /\ old = history[Version].image
    OBVIOUS
  <1>2. PICK image \in Images :
          /\ image \subseteq Columns(width) /\ Committed(width, image)
          /\ \/ /\ Tell(<<FullFrame(history')>>)
                /\ announced' = Version + 1
             \/ /\ \E rects \in Damages :
                      /\ \A p \in (old \ image) \cup (image \ old) :
                            \E r \in ToSet(rects) : RectContainsPoint(r, p)
                      /\ Tell(<<WindowDamage(Content, Version, Version + 1,
                             [i \in DOMAIN rects |->
                                [rect |-> rects[i],
                                 pixels |-> {p \in image : RectContainsPoint(rects[i], p)}]])>>)
                /\ announced' = Version + 1
             \/ /\ Tell(<<>>)
                /\ UNCHANGED announced
    BY <1>1 DEF Commit
  <1>3. PICK n, r : n = Len(history) /\ r = Told
    OBVIOUS
  <1>4. /\ n \in Nat /\ n >= 1 /\ width \in Widths /\ announced \in Nat /\ announced <= n
        /\ r \in StreamType /\ r.stage = 2 /\ r.width = width /\ r.told = announced /\ ~r.owed /\ ~r.unfit
    BY <1>0, <1>1, <1>3, HistoryFacts, ToldType DEF Version
  <1>5. PICK c : c = [width |-> width, image |-> image]
    OBVIOUS
  <1>6. c \in ContentType /\ c.width = width /\ c.image = image
    BY <1>2, <1>4, <1>5, ContentIsTyped
  <1>7. PICK h : h = history'
    OBVIOUS
  <1>8. h = Append(history, c) /\ history' = Append(history, c)
    BY <1>2, <1>5, <1>7 DEF Committed
  <1>9. /\ h \in Seq(ContentType) /\ h # <<>> /\ Len(h) = n + 1 /\ h[n + 1] = c
        /\ h[n] = history[n] /\ h[n].width = width /\ h[n].image = old
    <2>1. h \in Seq(ContentType) /\ h # <<>> /\ Len(h) = n + 1 /\ h[Len(h)] = c
      BY <1>0, <1>3, <1>6, <1>8, CommittedFacts
    <2>2. h[n] = history[n]
      BY <1>0, <1>3, <1>4, <1>6, <1>8, CommittedFacts
    <2>3. history[n].width = width /\ history[n].image = old
      BY <1>1, <1>3 DEF Version
    <2>. QED
      BY <2>1, <2>2, <2>3
  <1>10. announced' \in {announced, n + 1} => ExporterTypeOK'
    BY <1>0, <1>4, <1>7, <1>9 DEF ExporterTypeOK
  <1>11. ASSUME ExporterTypeOK'
         PROVE  /\ Told' \in StreamType /\ Told'.stage = 2 /\ Told'.width = width /\ Told'.told = announced'
                /\ ~Told'.owed /\ ~Told'.unfit
    <2>1. PICK t : t = Told'
      OBVIOUS
    <2>2. t \in StreamType
      <3>1. announced' \in Nat /\ width \in Nat
        BY <1>4, <1>11, <1>7, <1>9, WidthFacts DEF ExporterTypeOK
      <3>2. t = [stage |-> 2, width |-> width, told |-> announced', owed |-> FALSE, unfit |-> FALSE]
        BY <1>6, <1>7, <1>9, <2>1 DEF Told, Version
      <3>. QED
        BY <3>1, <3>2 DEF StreamType
    <2>3. t = [stage |-> 2, width |-> width, told |-> announced', owed |-> FALSE, unfit |-> FALSE]
      BY <1>6, <1>7, <1>9, <2>1 DEF Told, Version
    <2>4. t.stage = 2 /\ t.width = width /\ t.told = announced' /\ ~t.owed /\ ~t.unfit
      BY <2>3
    <2>. QED
      BY <2>1, <2>2, <2>4
  <1>12. ASSUME NEW messages, Tell(messages), ExporterTypeOK', Follows(h, r, messages, Told')
         PROVE  Inv' /\ MirrorStep
    <2>1. /\ toAgent' = IF agentSocket = "open" THEN toAgent \o messages ELSE toAgent
          /\ UNCHANGED <<serverSocket, agentSocket, agentVars>> /\ UNCHANGED toServer
      BY <1>12 DEF Tell
    <2>2. toServer' \in Seq(ToServerMessage) /\ (Asked => Asked')
      BY <2>1 DEF Inv, WireTypeOK, Asked
    <2>3. \E e \in ContentType : history' = Append(history, e)
      BY <1>6, <1>8
    <2>4. Follows(history', Told, messages, Told')
      BY <1>3, <1>7, <1>12
    <2>. QED
      BY <1>12, <2>1, <2>2, <2>3, <2>4, SayingKeepsInv
  <1>13. CASE Tell(<<FullFrame(history')>>) /\ announced' = Version + 1
    <2>1. announced' = n + 1
      BY <1>3, <1>13 DEF Version
    <2>2. PICK m : m = FullFrame(h)
      OBVIOUS
    <2>3. Tell(<<m>>)
      BY <1>7, <1>13, <2>2
    <2>4. PICK t : t = Told'
      OBVIOUS
    <2>5. ExporterTypeOK'
      BY <1>10, <2>1
    <2>6. /\ Sound(h, r, m) /\ Then(r, m) \in StreamType
          /\ Then(r, m).stage = 2 /\ Then(r, m).width = r.width /\ Then(r, m).told = n + 1
          /\ ~Then(r, m).owed /\ Then(r, m).unfit = r.unfit
      <3>1. r.width = h[Len(h)].width /\ r.told <= Len(h)
        BY <1>4, <1>6, <1>9
      <3>. QED
        BY <1>4, <1>9, <2>2, <3>1, FrameIsExpected
    <2>7. Then(r, m) = t
      <3>1. t \in StreamType /\ t.stage = 2 /\ t.width = width /\ t.told = n + 1 /\ ~t.owed /\ ~t.unfit
        BY <1>11, <2>1, <2>4, <2>5
      <3>2. t.owed \in BOOLEAN /\ t.unfit \in BOOLEAN /\ Then(r, m).owed \in BOOLEAN /\ Then(r, m).unfit \in BOOLEAN
        BY <2>6, <3>1 DEF StreamType
      <3>. QED
        BY <1>4, <2>6, <3>1, <3>2, SameKnowledge
    <2>8. Follows(h, r, <<m>>, Told')
      BY <1>4, <2>4, <2>6, <2>7, FollowsOne
    <2>. QED
      BY <1>12, <2>3, <2>5, <2>8
  <1>14. ASSUME NEW rects \in Damages,
                \A p \in (old \ image) \cup (image \ old) : \E e \in ToSet(rects) : RectContainsPoint(e, p),
                Tell(<<WindowDamage(Content, Version, Version + 1,
                             [i \in DOMAIN rects |->
                                [rect |-> rects[i],
                                 pixels |-> {p \in image : RectContainsPoint(rects[i], p)}]])>>),
                announced' = Version + 1
         PROVE  Inv' /\ MirrorStep
    <2>1. announced' = n + 1
      BY <1>3, <1>14 DEF Version
    <2>2. PICK m : m = DamageOf(h, n, rects)
      OBVIOUS
    <2>3. Tell(<<m>>)
      <3>1. h[n + 1].image = image
        BY <1>6, <1>9
      <3>2. m = WindowDamage(Content, n, n + 1, Pieces(rects, image))
        BY <2>2, <3>1 DEF DamageOf
      <3>. QED
        BY <1>3, <1>14, <3>2 DEF Pieces, Version
    <2>4. PICK t : t = Told'
      OBVIOUS
    <2>5. ExporterTypeOK'
      BY <1>10, <2>1
    <2>6. SoundDamage(h, r, m)
      <3>1. n \in 1 .. Len(h) - 1 /\ n >= r.told /\ h[n].width = r.width /\ h[n + 1].width = r.width
        BY <1>4, <1>6, <1>9
      <3>2. Covered(h, n, rects)
        BY <1>6, <1>9, <1>14 DEF Covered
      <3>. QED
        BY <2>2, <3>1, <3>2 DEF SoundDamage
    <2>7. Sound(h, r, m)
      BY <1>4, <2>6 DEF Sound
    <2>8. Then(r, m) \in StreamType
      BY <1>4, <1>9, <2>7, ThenType
    <2>9. m.type = "WINDOW_DAMAGE" /\ m.sequence = n + 1
      BY <2>2, DamageFields
    <2>10. /\ Then(r, m).stage = 2 /\ Then(r, m).width = width /\ Then(r, m).told = n + 1
           /\ Then(r, m).owed = r.owed /\ Then(r, m).unfit = r.unfit
      BY <1>4, <2>9 DEF Then
    <2>11. Then(r, m) = t
      <3>1. t \in StreamType /\ t.stage = 2 /\ t.width = width /\ t.told = n + 1 /\ ~t.owed /\ ~t.unfit
        BY <1>11, <2>1, <2>4, <2>5
      <3>2. t.owed \in BOOLEAN /\ t.unfit \in BOOLEAN /\ Then(r, m).owed \in BOOLEAN /\ Then(r, m).unfit \in BOOLEAN
        BY <2>8, <3>1 DEF StreamType
      <3>. QED
        BY <1>4, <2>8, <2>10, <3>1, <3>2, SameKnowledge
    <2>12. Follows(h, r, <<m>>, Told')
      BY <1>4, <2>4, <2>7, <2>8, <2>11, FollowsOne
    <2>. QED
      BY <1>12, <2>3, <2>5, <2>12
  <1>15. CASE Tell(<<>>) /\ UNCHANGED announced
    <2>1. ExporterTypeOK'
      BY <1>10, <1>15
    <2>2. PICK t : t = Told'
      OBVIOUS
    <2>3. t \in StreamType /\ t.stage = 2 /\ t.width = width /\ t.told = announced /\ ~t.owed /\ ~t.unfit
      BY <1>11, <1>15, <2>1, <2>2
    <2>4. r = t
      <3>1. t.owed \in BOOLEAN /\ t.unfit \in BOOLEAN /\ r.owed \in BOOLEAN /\ r.unfit \in BOOLEAN
        BY <1>4, <2>3 DEF StreamType
      <3>. QED
        BY <1>4, <2>3, <3>1, SameKnowledge
    <2>5. Follows(h, r, <<>>, Told')
      BY <1>4, <2>2, <2>4, FollowsNothing
    <2>. QED
      BY <1>12, <1>15, <2>1, <2>5
  <1>. QED
    BY <1>2, <1>13, <1>14, <1>15

\* Three messages, one after the other.
LEMMA ThreeInARow ==
    ASSUME NEW a, NEW b, NEW c
    PROVE  (<<a>> \o <<b>>) \o <<c>> = <<a, b, c>>
  <1>. DEFINE S == {a, b, c}
  <1>1. <<a>> \in Seq(S) /\ <<b>> \in Seq(S) /\ <<c>> \in Seq(S) /\ Len(<<a>>) = 1 /\ Len(<<b>>) = 1 /\ Len(<<c>>) = 1
    OBVIOUS
  <1>2. PICK s : s = <<a>> \o <<b>>
    OBVIOUS
  <1>3. s \in Seq(S) /\ Len(s) = 2 /\ s[1] = a /\ s[2] = b
    BY <1>1, <1>2, ConcatProperties
  <1>4. PICK t : t = s \o <<c>>
    OBVIOUS
  <1>5. t \in Seq(S) /\ Len(t) = 3 /\ t[1] = a /\ t[2] = b /\ t[3] = c
    <2>1. PICK e : e = <<c>>
      OBVIOUS
    <2>2. e \in Seq(S) /\ Len(e) = 1 /\ e[1] = c /\ t = s \o e
      BY <1>1, <1>4, <2>1
    <2>. HIDE DEF S
    <2>3. s \in Seq(S) /\ Len(s) = 2
      BY <1>3
    <2>4. /\ t \in Seq(S) /\ Len(t) = Len(s) + Len(e)
          /\ \A i \in 1 .. Len(s) + Len(e) : t[i] = IF i <= Len(s) THEN s[i] ELSE e[i - Len(s)]
      BY <2>2, <2>3, ConcatProperties
    <2>5. 3 \in 1 .. Len(s) + Len(e) /\ 1 \in 1 .. Len(s) + Len(e) /\ 2 \in 1 .. Len(s) + Len(e)
      BY <2>2, <2>3
    <2>6. t[3] = e[1]
      BY <2>3, <2>4, <2>5
    <2>. QED
      BY <1>3, <2>2, <2>4, <2>5, <2>6
  <1>6. PICK u : u = <<a, b, c>>
    OBVIOUS
  <1>7. u \in Seq(S) /\ Len(u) = 3 /\ u[1] = a /\ u[2] = b /\ u[3] = c
    BY <1>6
  <1>8. \A i \in 1 .. 3 : t[i] = u[i]
    BY <1>5, <1>7
  <1>. QED
    BY <1>2, <1>4, <1>5, <1>6, <1>7, <1>8, SeqEqual

\* The newest content and what it was committed to: the three messages of a
\* resize.
LEMMA ResizeIsExpected ==
    ASSUME NEW h \in Seq(ContentType), h # <<>>, NEW r \in StreamType, r.stage = 2,
           r.told < Len(h), h[Len(h)].width # r.width, ~r.owed, ~r.unfit, NEW n \in Nat,
           NEW w, w = h[Len(h)].width, NEW t \in StreamType, t.stage = 2, t.width = w,
           t.told = Len(h), ~t.owed, ~t.unfit
    PROVE  Follows(h, r, <<ResizeOf(w), FullFrame(h), PresentOf(w, n, TRUE)>>, t)
  <1>1. PICK a, b, c : a = ResizeOf(w) /\ b = FullFrame(h) /\ c = PresentOf(w, n, TRUE)
    OBVIOUS
  <1>2. Len(h) \in Nat /\ r.told \in Nat /\ Len(h) \in r.told + 1 .. Len(h)
    BY LenProperties DEF StreamType
  <1>3. SoundResize(h, r, a)
    BY <1>1, <1>2 DEF SoundResize
  <1>4. Sound(h, r, a) /\ a.type = "WINDOW_RESIZE" /\ a.width = w
    BY <1>1, <1>3, ResizeFields DEF Sound
  <1>5. PICK p : p = Then(r, a)
    OBVIOUS
  <1>6. p \in StreamType /\ p.stage = 2 /\ p.width = w /\ p.told = r.told
    BY <1>4, <1>5, ThenType DEF Then
  <1>7. PICK q : q = Then(p, b)
    OBVIOUS
  <1>8. Sound(h, p, b) /\ q \in StreamType /\ q.stage = 2 /\ q.width = w /\ q.told = Len(h) /\ ~q.owed
    BY <1>1, <1>2, <1>6, <1>7, FrameIsExpected
  <1>9. PICK s : s = Then(q, c)
    OBVIOUS
  <1>10. /\ Sound(h, q, c) /\ s \in StreamType /\ s.stage = 2 /\ s.width = w /\ s.told = Len(h)
         /\ s.owed = q.owed /\ ~s.unfit
    <2>1. PICK v \in BOOLEAN : v = TRUE
      OBVIOUS
    <2>2. c = PresentOf(q.width, n, v)
      BY <1>1, <1>8, <2>1
    <2>3. q \in StreamType /\ q.stage = 2
      BY <1>8
    <2>4. /\ Sound(h, q, c) /\ Then(q, c) \in StreamType
          /\ Then(q, c).stage = 2 /\ Then(q, c).width = q.width /\ Then(q, c).told = q.told
          /\ Then(q, c).owed = q.owed /\ ~Then(q, c).unfit
      BY <2>2, <2>3, PresentIsExpected
    <2>. QED
      BY <1>8, <1>9, <2>4
  <1>11. s = t
    <2>1. t.owed \in BOOLEAN /\ t.unfit \in BOOLEAN /\ s.owed \in BOOLEAN /\ s.unfit \in BOOLEAN
      BY <1>10 DEF StreamType
    <2>. QED
      BY <1>8, <1>10, <2>1, SameKnowledge
  <1>12. Follows(h, r, <<a>>, p) /\ Follows(h, p, <<b>>, q) /\ Follows(h, q, <<c>>, s)
    BY <1>4, <1>5, <1>6, <1>7, <1>8, <1>9, <1>10, FollowsOne
  <1>13. Follows(h, r, (<<a>> \o <<b>>) \o <<c>>, s)
    BY <1>12, FollowsBoth
  <1>14. (<<a>> \o <<b>>) \o <<c>> = <<a, b, c>>
    BY ThreeInARow
  <1>. QED
    BY <1>1, <1>11, <1>13, <1>14

\* A content of another size is committed.
LEMMA ResizingKeepsInv ==
    ASSUME Inv, Resize
    PROVE  Inv' /\ MirrorStep
  <1>0. ExporterTypeOK
    BY DEF Inv
  <1>1. PICK width \in Widths \ {history[Version].width}, image \in Images :
          /\ image \subseteq Columns(width)
          /\ Committed(width, image)
          /\ Tell(<<WindowResize(Content, width, 1), FullFrame(history'), Present(TRUE)>>)
    BY DEF Resize
  <1>2. /\ announced' = Version + 1 /\ presented' = presented + 1 /\ unacked' = unacked \cup {presented + 1}
    BY DEF Resize, Presented
  <1>3. PICK n, r, k : n = Len(history) /\ r = Told /\ k = presented + 1
    OBVIOUS
  <1>4. /\ n \in Nat /\ n >= 1 /\ announced \in Nat /\ announced <= n /\ k \in Nat
        /\ r \in StreamType /\ r.stage = 2 /\ r.width = history[n].width /\ r.told = announced /\ ~r.owed /\ ~r.unfit
    <2>1. k \in Nat
      BY <1>0, <1>3 DEF ExporterTypeOK
    <2>. QED
      BY <1>0, <1>3, <2>1, HistoryFacts, ToldType
  <1>5. PICK c : c = [width |-> width, image |-> image]
    OBVIOUS
  <1>6. c \in ContentType /\ c.width = width /\ c.image = image /\ width # history[n].width
    BY <1>1, <1>3, <1>5, ContentIsTyped DEF Version
  <1>7. PICK h : h = history'
    OBVIOUS
  <1>8. h = Append(history, c) /\ history' = Append(history, c)
    BY <1>1, <1>5, <1>7 DEF Committed
  <1>9. h \in Seq(ContentType) /\ h # <<>> /\ Len(h) = n + 1 /\ h[Len(h)] = c
    BY <1>0, <1>3, <1>6, <1>8, CommittedFacts
  <1>10. announced' = n + 1 /\ unacked' \subseteq Nat /\ presented' \in Nat
    BY <1>0, <1>2, <1>3, <1>4 DEF ExporterTypeOK, Version
  <1>11. ExporterTypeOK'
    BY <1>4, <1>7, <1>9, <1>10 DEF ExporterTypeOK
  <1>12. PICK t : t = Told'
    OBVIOUS
  <1>13. t \in StreamType /\ t.stage = 2 /\ t.width = width /\ t.told = n + 1 /\ ~t.owed /\ ~t.unfit
    <2>1. n + 1 \in Nat /\ width \in Nat
      BY <1>1, <1>4, WidthFacts
    <2>2. t = [stage |-> 2, width |-> width, told |-> n + 1, owed |-> FALSE, unfit |-> FALSE]
      BY <1>6, <1>7, <1>9, <1>10, <1>12 DEF Told, Version
    <2>. QED
      BY <2>1, <2>2 DEF StreamType
  <1>14. PICK messages : messages = <<ResizeOf(width), FullFrame(h), PresentOf(width, k, TRUE)>>
    OBVIOUS
  <1>15. Tell(messages)
    <2>1. history'[Len(history')].width = width
      BY <1>6, <1>7, <1>9
    <2>2. Present(TRUE) = PresentOf(width, k, TRUE)
      BY <1>3, <2>1 DEF Present, PresentOf, PresentationOf, Region
    <2>3. WindowResize(Content, width, 1) = ResizeOf(width)
      BY DEF ResizeOf
    <2>. QED
      BY <1>1, <1>7, <1>14, <2>2, <2>3
  <1>16. Follows(h, r, messages, t)
    <2>1. r.told < Len(h) /\ h[Len(h)].width # r.width
      BY <1>4, <1>6, <1>9
    <2>. QED
      BY <1>4, <1>6, <1>9, <1>13, <1>14, <2>1, ResizeIsExpected
  <1>17. /\ toAgent' = IF agentSocket = "open" THEN toAgent \o messages ELSE toAgent
         /\ UNCHANGED <<serverSocket, agentSocket, agentVars>> /\ UNCHANGED toServer
    BY <1>15 DEF Tell
  <1>18. toServer' \in Seq(ToServerMessage) /\ (Asked => Asked')
    BY <1>17 DEF Inv, WireTypeOK, Asked
  <1>19. \E e \in ContentType : history' = Append(history, e)
    BY <1>6, <1>8
  <1>20. Follows(history', Told, messages, Told')
    BY <1>3, <1>7, <1>12, <1>16
  <1>. QED
    BY <1>11, <1>17, <1>18, <1>19, <1>20, SayingKeepsInv

\* The window is moved, shown or hidden.
LEMMA MoveKeepsInv ==
    ASSUME Inv, Move
    PROVE  Inv' /\ MirrorStep
  <1>0. ExporterTypeOK
    BY DEF Inv
  <1>1. /\ UNCHANGED <<history, announced>>
        /\ presented' = presented + 1 /\ unacked' = unacked \cup {presented + 1}
    BY DEF Move, Presented
  <1>2. PICK visible \in BOOLEAN : Tell(<<Present(visible)>>)
    BY DEF Move
  <1>3. PICK h, r, k : h = history /\ r = Told /\ k = presented + 1
    OBVIOUS
  <1>4. k \in Nat /\ unacked' \subseteq Nat
    BY <1>0, <1>1, <1>3 DEF ExporterTypeOK
  <1>5. ExporterTypeOK'
    BY <1>0, <1>1, <1>3, <1>4 DEF ExporterTypeOK
  <1>6. /\ r \in StreamType /\ r.stage = 2 /\ r.width = h[Len(h)].width /\ ~r.owed /\ ~r.unfit
        /\ h \in Seq(ContentType) /\ h # <<>>
    BY <1>0, <1>3, ToldType DEF ExporterTypeOK
  <1>7. PICK m : m = PresentOf(r.width, k, visible)
    OBVIOUS
  <1>8. Tell(<<m>>)
    <2>1. history'[Len(history')].width = r.width
      BY <1>1, <1>3, <1>6
    <2>2. Present(visible) = m
      BY <1>3, <1>7, <2>1 DEF Present, PresentOf, PresentationOf, Region
    <2>. QED
      BY <1>2, <2>2
  <1>9. /\ Sound(h, r, m) /\ Then(r, m) \in StreamType
        /\ Then(r, m).stage = 2 /\ Then(r, m).width = r.width /\ Then(r, m).told = r.told
        /\ Then(r, m).owed = r.owed /\ ~Then(r, m).unfit
    BY <1>4, <1>6, <1>7, PresentIsExpected
  <1>10. Then(r, m) = r
    <2>1. Then(r, m).unfit \in BOOLEAN /\ r.unfit \in BOOLEAN
      BY <1>6, <1>9 DEF StreamType
    <2>. QED
      BY <1>6, <1>9, <2>1, SameKnowledge
  <1>11. Follows(h, r, <<m>>, r)
    BY <1>6, <1>9, <1>10, FollowsOne
  <1>12. Told' = r
    BY <1>1, <1>3 DEF Told, Version
  <1>13. PICK messages : messages = <<m>>
    OBVIOUS
  <1>14. /\ toAgent' = IF agentSocket = "open" THEN toAgent \o messages ELSE toAgent
         /\ UNCHANGED <<serverSocket, agentSocket, agentVars>> /\ UNCHANGED toServer
    BY <1>8, <1>13 DEF Tell
  <1>15. toServer' \in Seq(ToServerMessage) /\ (Asked => Asked')
    BY <1>14 DEF Inv, WireTypeOK, Asked
  <1>16. Follows(history', Told, messages, Told')
    BY <1>1, <1>3, <1>11, <1>12, <1>13
  <1>. QED
    BY <1>1, <1>5, <1>14, <1>15, <1>16, SayingKeepsInv

\* The exporter answers a request for a whole frame.
LEMMA ReadsKeepsInv ==
    ASSUME Inv, Reads
    PROVE  Inv' /\ MirrorStep
  <1>0. ExporterTypeOK
    BY DEF Inv
  <1>1. /\ toServer # <<>> /\ toServer' = Tail(toServer)
        /\ UNCHANGED <<serverSocket, agentSocket, history, presented, agentVars>>
    BY DEF Reads
  <1>2. PICK a : a = Head(toServer)
    OBVIOUS
  <1>3. \/ a.type = "WINDOW_PRESENT_ACK" /\ unacked' = unacked \ {a.sequence} /\ UNCHANGED <<toAgent, announced>>
        \/ /\ a.type = "WINDOW_FRAME_REQUEST" /\ announced' = Version /\ UNCHANGED unacked
           /\ toAgent' = IF agentSocket = "open" THEN Append(toAgent, FullFrame(history)) ELSE toAgent
        \/ a.type # "WINDOW_FRAME_REQUEST" /\ UNCHANGED <<toAgent, announced, unacked>>
    BY <1>2 DEF Reads
  <1>4. toServer \in Seq(ToServerMessage)
    BY DEF Inv, WireTypeOK
  <1>5. toServer' \in Seq(ToServerMessage)
    BY <1>1, <1>4, HeadTailProperties
  <1>6. \A m : m \in ToSet(toServer) <=> m = a \/ m \in ToSet(toServer')
    BY <1>1, <1>2, <1>4, TailElements
  <1>7. a.type # "WINDOW_FRAME_REQUEST" => (Asked => Asked')
    BY <1>6 DEF Asked
  <1>8. PICK h, r : h = history /\ r = Told
    OBVIOUS
  <1>9. /\ r \in StreamType /\ r.stage = 2 /\ r.width = h[Len(h)].width /\ r.told = announced /\ ~r.owed /\ ~r.unfit
        /\ h \in Seq(ContentType) /\ h # <<>> /\ Len(h) \in Nat /\ announced <= Len(h)
    BY <1>0, <1>8, ToldType, HistoryFacts DEF ExporterTypeOK
  <1>10. PICK S : agentSocket = "open" => toAgent \in Seq(S)
    BY DEF Inv, StreamInv, Follows
  <1>11. CASE a.type # "WINDOW_FRAME_REQUEST"
    <2>1. unacked' \subseteq unacked /\ UNCHANGED <<toAgent, announced>>
      BY <1>3, <1>11
    <2>2. ExporterTypeOK'
      BY <1>0, <1>1, <2>1 DEF ExporterTypeOK
    <2>3. PICK messages : messages = <<>>
      OBVIOUS
    <2>4. Told' = r
      BY <1>1, <1>8, <2>1 DEF Told, Version
    <2>5. Follows(history', Told, messages, Told')
      BY <1>1, <1>8, <1>9, <2>3, <2>4, FollowsNothing
    <2>6. toAgent' = IF agentSocket = "open" THEN toAgent \o messages ELSE toAgent
      BY <1>10, <2>1, <2>3, ConcatEmptySeq
    <2>. QED
      BY <1>1, <1>5, <1>7, <1>11, <2>2, <2>5, <2>6, SayingKeepsInv
  <1>12. CASE a.type = "WINDOW_FRAME_REQUEST"
    <2>1. PICK m : m = FullFrame(h)
      OBVIOUS
    <2>2. /\ announced' = Version /\ UNCHANGED unacked
          /\ toAgent' = IF agentSocket = "open" THEN Append(toAgent, m) ELSE toAgent
      BY <1>3, <1>8, <1>12, <2>1
    <2>3. ExporterTypeOK'
      BY <1>0, <1>1, <1>8, <1>9, <2>2 DEF ExporterTypeOK, Version
    <2>4. PICK messages : messages = <<m>>
      OBVIOUS
    <2>5. toAgent' = IF agentSocket = "open" THEN toAgent \o messages ELSE toAgent
      <3>1. agentSocket = "open" => Append(toAgent, m) = toAgent \o <<m>>
        BY <1>10, AppendIsConcat
      <3>. QED
        BY <2>2, <2>4, <3>1
    <2>6. /\ Sound(h, r, m) /\ Then(r, m) \in StreamType /\ m.type = "WINDOW_FRAME"
          /\ Then(r, m).stage = 2 /\ Then(r, m).width = r.width /\ Then(r, m).told = Len(h)
          /\ ~Then(r, m).owed /\ Then(r, m).unfit = r.unfit
      BY <1>9, <2>1, FrameIsExpected
    <2>7. PICK t : t = Told'
      OBVIOUS
    <2>8. t \in StreamType /\ t.stage = 2 /\ t.width = r.width /\ t.told = Len(h) /\ ~t.owed /\ ~t.unfit
      <3>1. t = [stage |-> 2, width |-> r.width, told |-> Len(h), owed |-> FALSE, unfit |-> FALSE]
        BY <1>1, <1>8, <1>9, <2>2, <2>7 DEF Told, Version
      <3>2. r.width \in Nat
        BY <1>9 DEF StreamType
      <3>. QED
        BY <1>9, <3>1, <3>2 DEF StreamType
    <2>9. Then(r, m) = t
      <3>1. t.owed \in BOOLEAN /\ t.unfit \in BOOLEAN /\ Then(r, m).owed \in BOOLEAN /\ Then(r, m).unfit \in BOOLEAN
        BY <2>6, <2>8 DEF StreamType
      <3>. QED
        BY <1>9, <2>6, <2>8, <3>1, SameKnowledge
    <2>10. Follows(h, r, <<m>>, t)
      BY <1>9, <2>6, <2>9, FollowsOne
    <2>11. Follows(history', Told, messages, Told')
      BY <1>1, <1>8, <2>4, <2>7, <2>10
    <2>12. \E e \in ToSet(messages) : e.type = "WINDOW_FRAME"
      <3>1. m \in ToSet(messages)
        BY <2>4 DEF ToSet
      <3>. QED
        BY <2>6, <3>1
    <2>. QED
      BY <1>1, <1>5, <2>3, <2>5, <2>11, <2>12, SayingKeepsInv
  <1>. QED
    BY <1>11, <1>12

-----------------------------------------------------------------------------
(* The theorems.                                                           *)

\* The invariant holds in every initial state.
LEMMA InitGivesInv ==
    ASSUME Init
    PROVE  Inv
  <1>1. PICK width \in Widths :
           /\ history = <<[width |-> width, image |-> {}]>>
           /\ toAgent = <<HelloAck, OutputConfig(UnitScale), WindowCreate(Content, 0, width, 1)>>
                        \o (IF announced = 0 THEN <<>> ELSE <<FullFrame(history)>>)
    BY DEF Init
  <1>2. /\ announced \in {0, 1} /\ toServer = <<>> /\ serverSocket = "open" /\ agentSocket = "open"
        /\ presented = 0 /\ unacked = {} /\ agent = "running" /\ outputScale = {}
        /\ DOMAIN proxies = {} /\ DOMAIN pending = {}
    BY DEF Init, AgentInit, Empty
  <1>3. PICK c, h : c = [width |-> width, image |-> {}] /\ h = history
    OBVIOUS
  <1>4. c \in ContentType /\ c.width = width
    BY <1>3 DEF ContentType
  <1>5. h = <<c>>
    BY <1>1, <1>3
  <1>6. h \in Seq(ContentType) /\ Len(h) = 1 /\ h[1] = c /\ h # <<>>
    BY <1>4, <1>5
  <1>7. ExporterTypeOK
    BY <1>2, <1>3, <1>6 DEF ExporterTypeOK
  <1>8. WireTypeOK /\ AgentTypeOK /\ PixelInv
    BY <1>2 DEF WireTypeOK, AgentTypeOK, PixelInv
  <1>9. PICK r0, w : w = width /\ r0 = [stage |-> 0, width |-> 0, told |-> 0, owed |-> FALSE, unfit |-> FALSE]
    OBVIOUS
  <1>10. r0 \in StreamType /\ r0.stage = 0 /\ r0.told = 0 /\ ~r0.owed /\ ~r0.unfit
    BY <1>9 DEF StreamType
  <1>11. PICK m1, m2, m3 : m1 = HelloAck /\ m2 = OutputConfig(UnitScale) /\ m3 = CreateOf(w)
    OBVIOUS
  <1>12. Sound(h, r0, m1) /\ m1.type = "HELLO_ACK"
    BY <1>11 DEF Sound, HelloAck
  <1>13. Then(r0, m1) = r0
    BY <1>6, <1>10, <1>12, ThenType
  <1>14. Sound(h, r0, m2) /\ m2.type = "OUTPUT_CONFIG"
    BY <1>10, <1>11 DEF Sound, OutputConfig
  <1>15. PICK r2 : r2 = Then(r0, m2)
    OBVIOUS
  <1>16. r2 \in StreamType /\ r2.stage = 1 /\ r2.told = 0 /\ r2.owed = r0.owed /\ r2.unfit = r0.unfit
    <2>1. r2 \in StreamType
      BY <1>6, <1>10, <1>14, <1>15, ThenType
    <2>. QED
      BY <1>10, <1>14, <1>15, <2>1 DEF Then
  <1>17. Sound(h, r2, m3) /\ m3.type = "WINDOW_CREATE" /\ m3.width = w
    BY <1>4, <1>6, <1>9, <1>11, <1>16, CreateFields DEF Sound
  <1>18. PICK r3 : r3 = Then(r2, m3)
    OBVIOUS
  <1>19. /\ r3 \in StreamType /\ r3.stage = 2 /\ r3.told = 0 /\ r3.width = w
         /\ r3.owed = r2.owed /\ r3.unfit = r2.unfit
    <2>1. r3 \in StreamType
      BY <1>6, <1>16, <1>17, <1>18, ThenType
    <2>. QED
      BY <1>16, <1>17, <1>18, <2>1 DEF Then
  <1>20. Follows(h, r0, <<m1>>, r0) /\ Follows(h, r0, <<m2>>, r2) /\ Follows(h, r2, <<m3>>, r3)
    BY <1>10, <1>12, <1>13, <1>14, <1>15, <1>16, <1>17, <1>18, <1>19, FollowsOne
  <1>21. Follows(h, r0, (<<m1>> \o <<m2>>) \o <<m3>>, r3)
    BY <1>20, FollowsBoth
  <1>22. Follows(h, r0, <<m1, m2, m3>>, r3)
    BY <1>21, ThreeInARow
  <1>23. PICK more : more = IF announced = 0 THEN <<>> ELSE <<FullFrame(history)>>
    OBVIOUS
  <1>24. toAgent = <<m1, m2, m3>> \o more
    BY <1>1, <1>9, <1>11, <1>23 DEF CreateOf
  <1>25. PICK t : t = Told
    OBVIOUS
  <1>26. t \in StreamType /\ t.stage = 2 /\ t.width = w /\ t.told = announced /\ ~t.owed /\ ~t.unfit
    <2>1. history[Len(history)].width = w
      BY <1>3, <1>4, <1>6, <1>9
    <2>. QED
      BY <1>7, <1>25, <2>1, ToldType
  <1>27. t.owed \in BOOLEAN /\ t.unfit \in BOOLEAN /\ r3.owed \in BOOLEAN /\ r3.unfit \in BOOLEAN
    BY <1>19, <1>26 DEF StreamType
  <1>28. Follows(h, r3, more, t)
    <2>1. CASE announced = 0
      <3>1. r3 = t
        BY <1>10, <1>16, <1>19, <1>26, <1>27, <2>1, SameKnowledge
      <3>. QED
        BY <1>19, <1>23, <2>1, <3>1, FollowsNothing
    <2>2. CASE announced # 0
      <3>1. PICK m : m = FullFrame(h)
        OBVIOUS
      <3>2. r3.width = h[Len(h)].width /\ r3.told <= Len(h)
        BY <1>4, <1>6, <1>9, <1>19
      <3>3. /\ Sound(h, r3, m) /\ Then(r3, m) \in StreamType
            /\ Then(r3, m).stage = 2 /\ Then(r3, m).width = r3.width /\ Then(r3, m).told = Len(h)
            /\ ~Then(r3, m).owed /\ Then(r3, m).unfit = r3.unfit
        BY <1>6, <1>19, <3>1, <3>2, FrameIsExpected
      <3>4. Then(r3, m).owed \in BOOLEAN /\ announced = Len(h)
        BY <1>2, <1>6, <2>2, <3>3 DEF StreamType
      <3>5. Then(r3, m) = t
        BY <1>10, <1>16, <1>19, <1>26, <1>27, <3>3, <3>4, SameKnowledge
      <3>6. more = <<m>>
        BY <1>3, <1>23, <2>2, <3>1
      <3>. QED
        BY <1>19, <3>3, <3>5, <3>6, FollowsOne
    <2>. QED
      BY <2>1, <2>2
  <1>29. Follows(h, r0, toAgent, t)
    BY <1>22, <1>24, <1>28, FollowsBoth
  <1>30. InStep(r0)
    BY <1>2, <1>10 DEF InStep
  <1>31. StreamInv
    BY <1>3, <1>10, <1>25, <1>29, <1>30 DEF StreamInv
  <1>. QED
    BY <1>7, <1>8, <1>31 DEF Inv

\* Nothing happens.
LEMMA StutterKeepsInv ==
    ASSUME Inv, UNCHANGED vars
    PROVE  Inv' /\ MirrorStep
  <1>1. UNCHANGED <<history, announced, presented, unacked, toAgent, toServer, serverSocket, agentSocket,
                    agent, outputScale, proxies, pending>>
    BY DEF vars, wireVars, agentVars, applicationVars, exporterVars
  <1>2. ExporterTypeOK' /\ WireTypeOK' /\ AgentTypeOK' /\ PixelInv'
    BY <1>1 DEF Inv, ExporterTypeOK, WireTypeOK, AgentTypeOK, PixelInv, HasContent
  <1>3. Told' = Told /\ (FrameAhead' <=> FrameAhead) /\ (Asked' <=> Asked)
    BY <1>1 DEF Told, Version, FrameAhead, Asked
  <1>4. \A r : InStep(r) => InStep(r)'
    BY <1>1, <1>3 DEF InStep, Agrees
  <1>5. StreamInv'
    BY <1>1, <1>3, <1>4 DEF Inv, StreamInv
  <1>6. UNCHANGED <<history, View>>
    BY <1>1 DEF View
  <1>. QED
    BY <1>2, <1>5, <1>6 DEF Inv, MirrorStep

\* Every step keeps the invariant and is one of the mirror's.
LEMMA StepKeepsInv ==
    ASSUME Inv, [Next]_vars
    PROVE  Inv' /\ MirrorStep
  <1>1. CASE Commit
    BY <1>1, CommitKeepsInv
  <1>2. CASE Resize
    BY <1>2, ResizingKeepsInv
  <1>3. CASE Move
    BY <1>3, MoveKeepsInv
  <1>4. CASE Reads
    BY <1>4, ReadsKeepsInv
  <1>5. CASE ThreadStep
    BY <1>5, ThreadKeepsInv
  <1>6. CASE UNCHANGED vars
    BY <1>6, StutterKeepsInv
  <1>. QED
    BY <1>1, <1>2, <1>3, <1>4, <1>5, <1>6 DEF Next

\* The invariant holds in every state of every behaviour.
LEMMA AlwaysInv == Spec => []Inv
  <1>1. Init => Inv
    BY InitGivesInv
  <1>2. Inv /\ [Next]_vars => Inv'
    BY StepKeepsInv
  <1>. QED
    BY <1>1, <1>2, PTL DEF Spec

\* Through frames, damage that fits or does not, resizes and requests for a
\* whole, what the window has is at any time one whole content, and it never
\* goes back to an older one: the agent implements the mirror (apply_frame,
\* apply_damage and apply_resize of proxy_window.cpp).
THEOREM FramebufferIsOneContentHolds == Spec => FramebufferIsOneContent
  <1>1. Init => Pixels!MirrorInit
    <2>. SUFFICES ASSUME Init PROVE Pixels!MirrorInit
      OBVIOUS
    <2>1. history # <<>>
      BY InitGivesInv DEF Inv, ExporterTypeOK
    <2>2. View = {}
      BY ViewIsTheWindow DEF Init, AgentInit, Empty
    <2>. QED
      BY <2>1, <2>2 DEF Pixels!MirrorInit
  <1>2. Inv /\ [Next]_vars
        => [Pixels!Open \/ Pixels!Commit \/ Pixels!Show \/ Pixels!GoBlank \/ Pixels!Close]_<<history, View>>
    BY StepKeepsInv DEF MirrorStep
  <1>. QED
    BY <1>1, <1>2, AlwaysInv, PTL DEF Spec, FramebufferIsOneContent, Pixels!MirrorSpec

\* When nothing is queued or on its way, the window has the content the agent
\* was told of last, and what it presents is inside it: no frame, damage,
\* request or presentation is lost, in whatever order they met.
THEOREM SettledShowsTheContentHolds == Spec => []SettledShowsTheContent
  <1>1. Inv => SettledShowsTheContent
    <2>. SUFFICES ASSUME Inv, Settled
                  PROVE  /\ Window.frameSequence = announced
                         /\ announced # 0 => /\ Window.width = history[announced].width
                                             /\ Window.framebuffer = history[announced].image
                         /\ RectRight(Window.presentation.source) <= Window.width
      BY DEF SettledShowsTheContent
    <2>1. toAgent = <<>> /\ toServer = <<>> /\ DOMAIN pending = {} /\ DOMAIN proxies # {}
      BY DEF Settled
    <2>2. DOMAIN proxies = {Content} /\ agentSocket = "open"
      BY <2>1 DEF Inv, AgentTypeOK, WireTypeOK
    <2>3. PICK r \in StreamType : InStep(r) /\ Follows(history, r, toAgent, Told)
      BY <2>2 DEF Inv, StreamInv
    <2>4. Len(toAgent) = 0
      BY <2>1
    <2>5. r = Told
      BY <2>3, <2>4 DEF Follows
    <2>6. r.told = announced /\ ~r.owed /\ ~r.unfit
      BY <2>5, ToldType DEF Inv
    <2>7. ~FrameAhead /\ ~Asked
      BY <2>1 DEF FrameAhead, Asked, ToSet
    <2>8. PICK p : p = Window
      OBVIOUS
    <2>9. Agrees(r, p) /\ HasContent(p, history)
      BY <2>2, <2>3, <2>8 DEF InStep, Inv, PixelInv, Window
    <2>10. p.frameSequence = announced /\ RectRight(p.presentation.source) <= p.width
      BY <2>1, <2>6, <2>7, <2>9 DEF Agrees
    <2>. QED
      BY <2>8, <2>9, <2>10 DEF HasContent
  <1>. QED
    BY <1>1, AlwaysInv, PTL

-----------------------------------------------------------------------------
(* Why no message is refused.  An exporter that resizes only when every    *)
(* PRESENT is acknowledged has none on its way then: a presentation fits   *)
(* the window it finds.                                                    *)

IsPresent(m) == m.type = "WINDOW_PRESENT"
Seqno(m) == m.presentation.sequence

\* PRESENTs come in the order of their sequences, and no RESIZE behind one.
Ordered(s) ==
    \A i, j \in DOMAIN s : i < j /\ IsPresent(s[i]) =>
       /\ s[j].type # "WINDOW_RESIZE"
       /\ IsPresent(s[j]) => Seqno(s[i]) < Seqno(s[j])

OnTheWay == {m \in ToSet(toAgent) : IsPresent(m)}
AcksOnTheWay == {a \in ToSet(toServer) : a.type = "WINDOW_PRESENT_ACK"}
Unacked(n) == n \in unacked /\ n <= presented

\* What is presented and not acknowledged: first what waits for its dispatch,
\* then what is on its way; the acknowledgements that are on theirs are of
\* older ones.
Flight ==
    /\ Ordered(toAgent)
    /\ \A m \in OnTheWay : Unacked(Seqno(m))
    /\ \A id \in DOMAIN pending :
          /\ Unacked(pending[id].sequence)
          /\ RectRight(pending[id].source) <= proxies[id].width
          /\ \A m \in OnTheWay : pending[id].sequence < Seqno(m)
    /\ \A a \in AcksOnTheWay :
          /\ a.sequence \in Nat /\ a.sequence <= presented
          /\ \A m \in OnTheWay : a.sequence < Seqno(m)
          /\ \A id \in DOMAIN pending : a.sequence < pending[id].sequence
    /\ (\E m \in ToSet(toAgent) : m.type = "WINDOW_RESIZE") => DOMAIN pending = {}
Accepted == agentSocket = "open" /\ Flight

\* What is left of a queue in order is in order.
LEMMA OrderedTail ==
    ASSUME NEW S, NEW s \in Seq(S), s # <<>>, Ordered(s)
    PROVE  /\ Ordered(Tail(s))
           /\ IsPresent(Head(s)) => \A m \in ToSet(Tail(s)) :
                 m.type # "WINDOW_RESIZE" /\ (IsPresent(m) => Seqno(Head(s)) < Seqno(m))
  <1>1. PICK t : t = Tail(s)
    OBVIOUS
  <1>2. /\ \A i \in DOMAIN t : i + 1 \in DOMAIN s /\ t[i] = s[i + 1]
        /\ 1 \in DOMAIN s /\ s[1] = Head(s)
    BY <1>1, TailElements
  <1>3. t \in Seq(S) /\ \A i \in DOMAIN t : i \in Nat /\ i >= 1
    BY <1>1, HeadTailProperties, LenProperties
  <1>4. Ordered(t)
    <2>. SUFFICES ASSUME NEW i \in DOMAIN t, NEW j \in DOMAIN t, i < j, IsPresent(t[i])
                  PROVE  /\ t[j].type # "WINDOW_RESIZE"
                         /\ IsPresent(t[j]) => Seqno(t[i]) < Seqno(t[j])
      BY DEF Ordered
    <2>1. i + 1 < j + 1
      BY <1>3
    <2>. QED
      BY <1>2, <2>1 DEF Ordered
  <1>5. ASSUME IsPresent(Head(s)), NEW m \in ToSet(t)
        PROVE  m.type # "WINDOW_RESIZE" /\ (IsPresent(m) => Seqno(Head(s)) < Seqno(m))
    <2>1. PICK i \in DOMAIN t : m = t[i]
      BY <1>5 DEF ToSet
    <2>2. 1 < i + 1
      BY <1>3
    <2>. QED
      BY <1>2, <1>5, <2>1, <2>2 DEF Ordered
  <1>. QED
    BY <1>1, <1>4, <1>5

\* Two queues in order are one when what the second has may come after the
\* first.
LEMMA OrderedConcat ==
    ASSUME NEW S, NEW T, NEW s \in Seq(S), NEW t \in Seq(T), Ordered(s), Ordered(t),
           \A m \in ToSet(s), e \in ToSet(t) : IsPresent(m) =>
              e.type # "WINDOW_RESIZE" /\ (IsPresent(e) => Seqno(m) < Seqno(e))
    PROVE  Ordered(s \o t)
  <1>. DEFINE M == S \cup T
  <1>1. s \in Seq(M) /\ t \in Seq(M)
    BY SeqOfMore
  <1>2. PICK a : a = s \o t
    OBVIOUS
  <1>3. /\ a \in Seq(M) /\ Len(a) = Len(s) + Len(t)
        /\ \A i \in 1 .. Len(s) + Len(t) : a[i] = IF i <= Len(s) THEN s[i] ELSE t[i - Len(s)]
    BY <1>1, <1>2, ConcatProperties
  <1>4. /\ Len(s) \in Nat /\ DOMAIN s = 1 .. Len(s) /\ Len(t) \in Nat /\ DOMAIN t = 1 .. Len(t)
        /\ DOMAIN a = 1 .. Len(s) + Len(t)
    BY <1>3, LenProperties
  <1>. HIDE DEF M
  <1>5. SUFFICES ASSUME NEW i \in DOMAIN a, NEW j \in DOMAIN a, i < j, IsPresent(a[i])
                 PROVE  /\ a[j].type # "WINDOW_RESIZE"
                        /\ IsPresent(a[j]) => Seqno(a[i]) < Seqno(a[j])
    BY <1>2 DEF Ordered
  <1>6. CASE j <= Len(s)
    <2>1. i \in DOMAIN s /\ j \in DOMAIN s /\ a[i] = s[i] /\ a[j] = s[j]
      BY <1>3, <1>4, <1>5, <1>6
    <2>. QED
      BY <1>5, <2>1 DEF Ordered
  <1>7. CASE i <= Len(s) /\ ~(j <= Len(s))
    <2>1. i \in DOMAIN s /\ j - Len(s) \in DOMAIN t /\ a[i] = s[i] /\ a[j] = t[j - Len(s)]
      BY <1>3, <1>4, <1>5, <1>7
    <2>2. a[i] \in ToSet(s) /\ a[j] \in ToSet(t)
      BY <2>1 DEF ToSet
    <2>. QED
      BY <1>5, <2>2
  <1>8. CASE ~(i <= Len(s))
    <2>1. /\ i - Len(s) \in DOMAIN t /\ j - Len(s) \in DOMAIN t /\ i - Len(s) < j - Len(s)
          /\ a[i] = t[i - Len(s)] /\ a[j] = t[j - Len(s)]
      <3>1. ~(j <= Len(s))
        BY <1>4, <1>5, <1>8
      <3>. QED
        BY <1>3, <1>4, <1>5, <1>8, <3>1
    <2>. QED
      BY <1>5, <2>1 DEF Ordered
  <1>. QED
    BY <1>6, <1>7, <1>8

\* No handler refuses what the exporter sends.
LEMMA NothingIsRefused ==
    ASSUME Inv, Padding = 0, agentSocket = "open", toAgent # <<>>, NEW m, m = Head(toAgent)
    PROVE  ~Refused(m)
  <1>1. PICK r \in StreamType : InStep(r) /\ Sound(history, r, m)
    BY NextArrival
  <1>2. Len(history) \in Nat /\ Len(history) >= 1 /\ \A n \in 1 .. Len(history) : history[n].width \in Widths
    BY HistoryFacts DEF Inv
  <1>3. r.told \in Nat
    BY DEF StreamType
  <1>4. DOMAIN proxies # {} => /\ Content \in DOMAIN proxies /\ proxies[Content] \in ProxyType
                               /\ proxies[Content].alive /\ proxies[Content].height = 1
    <2>. SUFFICES ASSUME DOMAIN proxies # {}
                  PROVE  /\ Content \in DOMAIN proxies /\ proxies[Content] \in ProxyType
                         /\ proxies[Content].alive /\ proxies[Content].height = 1
      OBVIOUS
    <2>1. Content \in DOMAIN proxies /\ proxies[Content] \in ProxyType
      BY DEF Inv, AgentTypeOK
    <2>. QED
      BY <2>1 DEF ProxyType
  <1>5. \A id \in DOMAIN proxies : ~DrawFails(id)
    <2>1. \A id \in DOMAIN proxies : id = Content
      BY DEF Inv, AgentTypeOK
    <2>. QED
      BY <1>4, <2>1 DEF DrawFails
  <1>6. r.stage = 2 => DOMAIN proxies # {}
    BY <1>1, Zenon DEF InStep
  <1>7. ASSUME m.type = "OUTPUT_CONFIG" PROVE CanConfigure(m)
    <2>1. m = OutputConfig(UnitScale)
      BY <1>1, <1>7, SoundKinds
    <2>2. m.scale.numerator = 1 /\ m.scale.denominator = 1
      BY <2>1 DEF OutputConfig, UnitScale
    <2>3. ScaleIsValid(m.scale)
      BY <2>2 DEF ScaleIsValid
    <2>. QED
      BY <1>5, <2>3 DEF CanConfigure
  <1>8. ASSUME NEW w \in Widths, m.width = w, m.height = 1 PROVE IsSurface(m)
    <2>1. w \in Nat /\ w >= 1 /\ w <= MaxPixels /\ w * 1 = w
      BY WidthFacts
    <2>. QED
      BY <1>8, <2>1 DEF IsSurface
  <1>9. ASSUME m.type = "WINDOW_CREATE" PROVE CanCreate(m)
    <2>1. r.stage = 1 /\ m = CreateOf(history[1].width)
      BY <1>1, <1>9, SoundKinds
    <2>2. m.id = Content /\ m.parent = 0 /\ m.width = history[1].width /\ m.height = 1
      BY <2>1, CreateFields
    <2>3. history[1].width \in Widths
      BY <1>2
    <2>4. IsSurface(m)
      BY <1>8, <2>2, <2>3
    <2>5. outputScale # {} /\ DOMAIN proxies = {}
      <3>1. r.stage # 0 /\ r.stage # 2
        BY <2>1
      <3>. QED
        BY <1>1, <3>1, Zenon DEF InStep
    <2>. QED
      BY <2>2, <2>4, <2>5 DEF CanCreate, Content
  <1>10. ASSUME m.type = "WINDOW_RESIZE" PROVE CanResize(m)
    <2>1. r.stage = 2 /\ SoundResize(history, r, m)
      BY <1>1, <1>10, SoundKinds
    <2>2. PICK n \in r.told + 1 .. Len(history) : m = ResizeOf(history[n].width)
      BY <2>1 DEF SoundResize
    <2>3. m.id = Content /\ m.width = history[n].width /\ m.height = 1
      BY <2>2, ResizeFields
    <2>4. history[n].width \in Widths
      BY <1>2, <1>3
    <2>5. IsSurface(m)
      BY <1>8, <2>3, <2>4
    <2>. QED
      BY <1>4, <1>6, <2>1, <2>3, <2>5 DEF CanResize
  <1>11. ASSUME m.type = "WINDOW_FRAME" PROVE CanApplyFrame(m)
    <2>1. r.stage = 2 /\ SoundFrame(history, r, m)
      BY <1>1, <1>11, SoundKinds
    <2>2. PICK n \in 1 .. Len(history) : history[n].width = r.width /\ m = FrameOf(history, n)
      BY <2>1 DEF SoundFrame
    <2>3. m.id = Content /\ m.width = r.width /\ m.height = 1 /\ m.sequence = n
      BY <2>2, FrameFields
    <2>4. Content \in DOMAIN proxies /\ proxies[Content].height = 1
      BY <1>4, <1>6, <2>1
    <2>5. proxies[Content].width = r.width
      BY <1>1, <2>4 DEF InStep, Agrees
    <2>6. n # 0
      OBVIOUS
    <2>7. m.stride = Stride(proxies[Content].width)
      <3>1. m.stride = Stride(r.width) + 0
        BY <2>2, FrameFields
      <3>2. r.width \in Nat
        BY DEF StreamType
      <3>. QED
        BY <2>5, <3>1, <3>2 DEF Stride
    <2>. QED
      BY <1>5, <2>3, <2>4, <2>5, <2>6, <2>7 DEF CanApplyFrame, FitsProxy
  <1>12. ASSUME m.type = "WINDOW_DAMAGE" PROVE CanApplyDamage(m)
    <2>1. r.stage = 2 /\ SoundDamage(history, r, m)
      BY <1>1, <1>12, SoundKinds
    <2>2. m.id = Content
      BY <2>1, DamageFields DEF SoundDamage
    <2>. QED
      BY <1>4, <1>5, <1>6, <2>1, <2>2 DEF CanApplyDamage
  <1>13. ASSUME m.type = "WINDOW_PRESENT" PROVE m.id \in DOMAIN proxies
    <2>1. r.stage = 2 /\ SoundPresent(r, m)
      BY <1>1, <1>13, SoundKinds
    <2>2. m.id = Content
      BY <2>1, PresentFields DEF SoundPresent
    <2>. QED
      BY <1>4, <1>6, <2>1, <2>2
  <1>14. m.type \in {"HELLO_ACK", "OUTPUT_CONFIG", "WINDOW_CREATE", "WINDOW_RESIZE", "WINDOW_FRAME",
                     "WINDOW_DAMAGE", "WINDOW_PRESENT"}
    BY <1>1, SoundKinds
  <1>. QED
    BY <1>7, <1>9, <1>10, <1>11, <1>12, <1>13, <1>14 DEF Refused

\* What waits for its dispatch can be applied.
LEMMA WaitingFits ==
    ASSUME Inv, Accepted, NEW id \in Ready
    PROVE  Presentable(id, pending[id])
  <1>1. /\ id = Content /\ id \in DOMAIN pending /\ id \in DOMAIN proxies
        /\ pending[id] \in ShownType /\ proxies[id] \in ProxyType /\ outputScale = {UnitScale}
    BY DEF Inv, AgentTypeOK, Ready
  <1>2. RectRight(pending[id].source) <= proxies[id].width
    BY <1>1 DEF Accepted, Flight
  <1>3. PICK p : p = pending[id]
    OBVIOUS
  <1>4. PICK w \in Widths : /\ p.visible \in BOOLEAN
                            /\ p.source = Region(w, p.visible) /\ p.destination = Region(w, p.visible)
    BY <1>1, <1>3, ShownFacts
  <1>5. PICK g : g = Region(w, p.visible)
    OBVIOUS
  <1>6. /\ g \in Rect /\ RectIsValid(g) /\ g.x = 0 /\ g.y = 0 /\ g.h <= 1
        /\ RectRight(g) = g.w /\ RectBottom(g) = g.h /\ (p.visible => ~RectIsEmpty(g))
    BY <1>4, <1>5, RegionFacts
  <1>7. proxies[id].alive /\ proxies[id].height = 1
    BY <1>1 DEF ProxyType
  <1>8. PhysicalDestination(p) = {g}
    BY <1>1, <1>3, <1>4, <1>5, PhysicalIsLogical
  <1>. QED
    BY <1>2, <1>3, <1>4, <1>5, <1>6, <1>7, <1>8 DEF Presentable, RectIsValid

\* So no dispatch fails.
LEMMA NoDispatchFails ==
    ASSUME Inv, Accepted
    PROVE  ~DispatchFails
  <1>1. SUFFICES ASSUME DispatchFails PROVE FALSE
    OBVIOUS
  <1>. DEFINE S == {id \in Ready : Presentable(id, pending[id])}
  <1>2. PICK order \in SetToSeqs(S) : Len(order) < Cardinality(Ready)
    BY <1>1 DEF DispatchFails
  <1>3. S = Ready
    BY WaitingFits
  <1>. HIDE DEF S
  <1>4. Ready \subseteq {Content}
    BY DEF Inv, AgentTypeOK, Ready
  <1>5. IsFiniteSet(Ready)
    BY <1>4, FS_Singleton, FS_Subset
  <1>6. Len(order) = Cardinality(Ready)
    BY <1>2, <1>3, <1>5, ListingsOf
  <1>7. Cardinality(Ready) \in Nat
    BY <1>5, FS_CardinalityType
  <1>. QED
    BY <1>2, <1>6, <1>7

\* The sequences of what is on its way.
LEMMA FlightTypes ==
    ASSUME Inv, Accepted
    PROVE  /\ unacked \subseteq Nat /\ presented \in Nat
           /\ \A m \in OnTheWay : Seqno(m) \in Nat
           /\ \A id \in DOMAIN pending : pending[id].sequence \in Nat
           /\ \E S : toAgent \in Seq(S)
  <1>1. unacked \subseteq Nat /\ presented \in Nat
    BY DEF Inv, ExporterTypeOK
  <1>2. (\A m \in OnTheWay : Seqno(m) \in unacked) /\ (\A id \in DOMAIN pending : pending[id].sequence \in unacked)
    BY DEF Accepted, Flight, Unacked
  <1>3. \E S : toAgent \in Seq(S)
    BY DEF Accepted, Inv, StreamInv, Follows
  <1>. QED
    BY <1>1, <1>2, <1>3

\* What is on its way after a message is read.
LEMMA WhatIsLeft ==
    ASSUME Inv, Accepted, toAgent # <<>>, toAgent' = Tail(toAgent), NEW m, m = Head(toAgent)
    PROVE  /\ \A e : e \in ToSet(toAgent) <=> e = m \/ e \in ToSet(toAgent')
           /\ Ordered(toAgent')
           /\ IsPresent(m) => \A e \in ToSet(toAgent') :
                 e.type # "WINDOW_RESIZE" /\ (IsPresent(e) => Seqno(m) < Seqno(e))
  <1>1. PICK S : toAgent \in Seq(S)
    BY FlightTypes
  <1>2. Ordered(toAgent)
    BY DEF Accepted, Flight
  <1>. QED
    BY <1>1, <1>2, OrderedTail, TailElements

\* A message that is no PRESENT is read.
LEMMA ReadingKeepsFlight ==
    ASSUME Inv, Accepted, toAgent # <<>>, toAgent' = Tail(toAgent),
           NEW messages \in Seq(ToServerMessage), toServer' = Sent(messages),
           \A a \in ToSet(messages) : a.type # "WINDOW_PRESENT_ACK",
           UNCHANGED <<agentSocket, pending, presented, unacked>>,
           \A id \in DOMAIN pending : proxies'[id].width = proxies[id].width
    PROVE  Accepted'
  <1>1. PICK m : m = Head(toAgent)
    OBVIOUS
  <1>2. (\A e : e \in ToSet(toAgent') => e \in ToSet(toAgent)) /\ Ordered(toAgent')
    BY <1>1, WhatIsLeft
  <1>3. \A e \in OnTheWay' : e \in OnTheWay
    BY <1>2 DEF OnTheWay
  <1>4. \A a \in AcksOnTheWay' : a \in AcksOnTheWay
    <2>1. \A a \in ToSet(Sent(messages)) : a \in ToSet(toServer) \/ a \in ToSet(messages)
      BY SaidIsAdded
    <2>. QED
      BY <2>1 DEF AcksOnTheWay
  <1>5. \A n : Unacked(n) => Unacked(n)'
    BY DEF Unacked
  <1>6. (\E e \in ToSet(toAgent') : e.type = "WINDOW_RESIZE") => DOMAIN pending = {}
    BY <1>2 DEF Accepted, Flight
  <1>7. \A id \in DOMAIN pending' :
          /\ Unacked(pending[id].sequence)'
          /\ RectRight(pending'[id].source) <= proxies'[id].width
          /\ \A e \in OnTheWay' : pending'[id].sequence < Seqno(e)
    BY <1>3, <1>5 DEF Accepted, Flight
  <1>8. \A a \in AcksOnTheWay' :
          /\ a.sequence \in Nat /\ a.sequence <= presented'
          /\ \A e \in OnTheWay' : a.sequence < Seqno(e)
          /\ \A id \in DOMAIN pending' : a.sequence < pending'[id].sequence
    BY <1>3, <1>4 DEF Accepted, Flight
  <1>9. \A e \in OnTheWay' : Unacked(Seqno(e))'
    BY <1>3, <1>5 DEF Accepted, Flight
  <1>10. Flight'
    BY <1>2, <1>6, <1>7, <1>8, <1>9 DEF Flight
  <1>. QED
    BY <1>10 DEF Accepted

\* A PRESENT is queued: it is the oldest that is on its way.
LEMMA PresentKeepsFlight ==
    ASSUME Inv, Accepted, ReceivePresent, UNCHANGED exporterVars
    PROVE  Accepted'
  <1>1. /\ toAgent # <<>> /\ Answer(<<>>)
        /\ UNCHANGED <<proxies, presented, unacked>>
    BY DEF ReceivePresent, AgentArrived, exporterVars
  <1>2. PICK m : m = Head(toAgent)
    OBVIOUS
  <1>3. /\ toAgent' = Tail(toAgent) /\ toServer' = Sent(<<>>) /\ agentSocket' = agentSocket
        /\ <<>> \in Seq(ToServerMessage)
    BY <1>1 DEF Answer
  <1>4. toServer' = toServer
    BY <1>3, SaidIsAdded
  <1>5. IsPresent(m)
    BY <1>2 DEF ReceivePresent, AgentArrived, IsPresent
  <1>6. PICK r \in StreamType : InStep(r) /\ Sound(history, r, m)
    BY <1>1, <1>2, NextArrival DEF Accepted
  <1>7. r.stage = 2 /\ SoundPresent(r, m)
    BY <1>5, <1>6, SoundKinds DEF IsPresent
  <1>8. PICK n \in Nat, v \in BOOLEAN : m = PresentOf(r.width, n, v)
    BY <1>7 DEF SoundPresent
  <1>9. PICK x : x = PresentationOf(r.width, n, v)
    OBVIOUS
  <1>10. m.id = Content /\ m.presentation = x /\ x.sequence = n /\ x.source = Region(r.width, v)
    BY <1>8, <1>9, PresentFields DEF PresentationOf
  <1>11. DOMAIN proxies = {Content} /\ proxies[Content].width = r.width /\ r.width \in Widths
    <2>1. DOMAIN proxies # {}
      BY <1>6, <1>7, Zenon DEF InStep
    <2>2. DOMAIN proxies = {Content} /\ proxies[Content] \in ProxyType
      BY <2>1 DEF Inv, AgentTypeOK
    <2>3. proxies[Content].width = r.width
      BY <1>6, <2>2 DEF InStep, Agrees
    <2>. QED
      BY <2>2, <2>3 DEF ProxyType
  <1>12. RectRight(x.source) <= proxies[Content].width
    <2>1. RectRight(x.source) \in {0, r.width}
      BY <1>10, <1>11, RegionFacts
    <2>2. r.width \in Nat
      BY <1>11, WidthFacts
    <2>. QED
      BY <1>11, <2>1, <2>2
  <1>13. DOMAIN pending' = {Content} /\ pending'[Content] = x
    <2>1. pending' = KeepNewest(m.id, m.presentation)
      BY <1>2 DEF ReceivePresent, AgentArrival
    <2>2. DOMAIN pending \subseteq {Content}
      BY <1>11 DEF Inv, AgentTypeOK
    <2>. QED
      BY <1>10, <2>1, <2>2 DEF KeepNewest
  <1>14. /\ \A e : e \in ToSet(toAgent) <=> e = m \/ e \in ToSet(toAgent')
         /\ Ordered(toAgent')
         /\ \A e \in ToSet(toAgent') : e.type # "WINDOW_RESIZE" /\ (IsPresent(e) => n < Seqno(e))
    BY <1>1, <1>2, <1>3, <1>5, <1>10, WhatIsLeft DEF Seqno
  <1>15. (\A e \in OnTheWay' : e \in OnTheWay) /\ m \in OnTheWay /\ Seqno(m) = n
    BY <1>5, <1>10, <1>14 DEF OnTheWay, Seqno
  <1>16. AcksOnTheWay' = AcksOnTheWay
    BY <1>4 DEF AcksOnTheWay
  <1>17. \A k : Unacked(k) => Unacked(k)'
    BY <1>1 DEF Unacked
  <1>18. /\ Unacked(n)' /\ \A e \in OnTheWay' : Unacked(Seqno(e))' /\ n < Seqno(e)
    <2>1. \A e \in OnTheWay' : IsPresent(e) /\ e \in ToSet(toAgent')
      BY DEF OnTheWay
    <2>2. \A e \in OnTheWay : Unacked(Seqno(e))
      BY DEF Accepted, Flight
    <2>. QED
      BY <1>14, <1>15, <1>17, <2>1, <2>2
  <1>19. \A a \in AcksOnTheWay' :
          /\ a.sequence \in Nat /\ a.sequence <= presented'
          /\ \A e \in OnTheWay' : a.sequence < Seqno(e)
          /\ a.sequence < n
    BY <1>1, <1>15, <1>16 DEF Accepted, Flight
  <1>20. Flight'
    BY <1>1, <1>10, <1>12, <1>13, <1>14, <1>18, <1>19 DEF Flight
  <1>. QED
    BY <1>3, <1>20 DEF Accepted

\* The dispatch acknowledges what is older than all that is on its way.
LEMMA DispatchKeepsFlight ==
    ASSUME Inv, Accepted, DispatchPresents, UNCHANGED exporterVars
    PROVE  Accepted'
  <1>1. /\ UNCHANGED <<toAgent, agentSocket, presented, unacked>> /\ DOMAIN pending' = {}
    BY DEF DispatchPresents, Send, exporterVars, Empty
  <1>2. PICK order \in SetToSeqs(Ready) : toServer' = Sent(Acks(order))
    BY DEF DispatchPresents, Send
  <1>3. Ready \subseteq {Content} /\ Ready \subseteq DOMAIN pending
    BY DEF Inv, AgentTypeOK, Ready
  <1>4. order \in Seq(Ready)
    BY <1>2, <1>3, FS_Singleton, FS_Subset, ListingsOf
  <1>5. /\ \A a \in ToSet(Sent(Acks(order))) : a \in ToSet(toServer) \/ a \in ToSet(Acks(order))
        /\ \A a \in ToSet(Acks(order)) : Content \in Ready /\ a = PresentAck(Content, pending[Content].sequence)
    BY <1>4, AcksAreTyped, SaidIsAdded
  <1>6. \A a \in AcksOnTheWay' : \/ a \in AcksOnTheWay
                                 \/ Content \in DOMAIN pending /\ a.sequence = pending[Content].sequence
    <2>1. PresentAck(Content, pending[Content].sequence).sequence = pending[Content].sequence
      BY DEF PresentAck
    <2>2. ASSUME NEW a \in AcksOnTheWay', a \notin AcksOnTheWay
          PROVE  Content \in DOMAIN pending /\ a.sequence = pending[Content].sequence
      <3>1. a \in ToSet(Sent(Acks(order))) /\ a.type = "WINDOW_PRESENT_ACK"
        BY <1>2, <2>2 DEF AcksOnTheWay
      <3>2. a \notin ToSet(toServer)
        BY <2>2, <3>1 DEF AcksOnTheWay
      <3>. QED
        BY <1>3, <1>5, <2>1, <3>1, <3>2
    <2>. QED
      BY <2>2
  <1>7. OnTheWay' = OnTheWay
    BY <1>1 DEF OnTheWay
  <1>8. \A a \in AcksOnTheWay' :
          /\ a.sequence \in Nat /\ a.sequence <= presented'
          /\ \A e \in OnTheWay' : a.sequence < Seqno(e)
    BY <1>1, <1>6, <1>7, FlightTypes DEF Accepted, Flight, Unacked
  <1>9. Flight'
    BY <1>1, <1>7, <1>8 DEF Accepted, Flight, Unacked
  <1>. QED
    BY <1>1, <1>9 DEF Accepted

\* Every step of the agent's thread.
LEMMA ThreadKeepsFlight ==
    ASSUME Padding = 0, Inv, Accepted, ThreadStep
    PROVE  Accepted'
  <1>0. UNCHANGED exporterVars /\ UNCHANGED <<presented, unacked>>
    BY DEF ThreadStep, exporterVars
  <1>1. ASSUME toAgent # <<>>, Answer(<<>>), UNCHANGED pending,
               \A id \in DOMAIN pending : proxies'[id].width = proxies[id].width
        PROVE  Accepted'
    <2>1. toAgent' = Tail(toAgent) /\ toServer' = Sent(<<>>) /\ agentSocket' = agentSocket
      BY <1>1 DEF Answer
    <2>2. <<>> \in Seq(ToServerMessage) /\ ToSet(<<>>) = {}
      BY DEF ToSet
    <2>. QED
      BY <1>0, <1>1, <2>1, <2>2, ReadingKeepsFlight
  <1>2. DOMAIN pending \subseteq DOMAIN proxies /\ DOMAIN pending \subseteq {Content}
    BY DEF Inv, AgentTypeOK
  <1>3. CASE ReceiveHelloAck \/ ReceiveOutputConfig
    <2>1. toAgent # <<>> /\ Answer(<<>>) /\ UNCHANGED pending /\ UNCHANGED proxies
      BY <1>3 DEF ReceiveHelloAck, ReceiveOutputConfig, AgentArrived, agentVars, applicationVars
    <2>. QED
      BY <1>1, <2>1
  <1>4. CASE ReceiveCreate
    <2>1. toAgent # <<>> /\ Answer(<<>>) /\ UNCHANGED pending /\ CanCreate(AgentArrival)
      BY <1>4 DEF ReceiveCreate, AgentArrived, applicationVars
    <2>2. proxies' = [id \in DOMAIN proxies \cup {AgentArrival.id} |->
                        IF id = AgentArrival.id THEN NewProxy(AgentArrival) ELSE proxies[id]]
      BY <1>4 DEF ReceiveCreate
    <2>3. \A id \in DOMAIN pending : proxies'[id] = proxies[id]
      BY <1>2, <2>1, <2>2 DEF CanCreate
    <2>. QED
      BY <1>1, <2>1, <2>3
  <1>5. CASE ReceiveResize
    <2>1. toAgent # <<>> /\ Answer(<<>>) /\ UNCHANGED pending /\ Head(toAgent).type = "WINDOW_RESIZE"
      BY <1>5 DEF ReceiveResize, AgentArrived, applicationVars
    <2>2. PICK S : toAgent \in Seq(S)
      BY FlightTypes
    <2>3. Head(toAgent) \in ToSet(toAgent)
      BY <2>1, <2>2, TailElements
    <2>4. DOMAIN pending = {}
      BY <2>1, <2>3 DEF Accepted, Flight
    <2>. QED
      BY <1>1, <2>1, <2>4
  <1>6. CASE ReceiveFrame
    <2>1. toAgent # <<>> /\ Answer(<<>>) /\ UNCHANGED pending /\ CanApplyFrame(AgentArrival)
      BY <1>6 DEF ReceiveFrame, AgentArrived, applicationVars
    <2>2. PICK m : m = AgentArrival
      OBVIOUS
    <2>3. \/ UNCHANGED proxies
          \/ proxies' = [proxies EXCEPT ![m.id].framebuffer = m.pixels, ![m.id].frameSequence = m.sequence]
      BY <1>6, <2>2 DEF ReceiveFrame
    <2>4. \A id \in DOMAIN pending : proxies'[id].width = proxies[id].width
      <3>1. ASSUME NEW id \in DOMAIN pending,
                   proxies' = [proxies EXCEPT ![m.id].framebuffer = m.pixels, ![m.id].frameSequence = m.sequence]
            PROVE  proxies'[id].width = proxies[id].width
        <4>1. id \in DOMAIN proxies /\ proxies[id] \in ProxyType
          BY <1>2 DEF Inv, AgentTypeOK
        <4>2. \/ proxies'[id] = proxies[id]
              \/ proxies'[id] = [proxies[id] EXCEPT !.framebuffer = m.pixels, !.frameSequence = m.sequence]
          BY <3>1, <4>1
        <4>. QED
          BY <4>1, <4>2 DEF ProxyType
      <3>. QED
        BY <2>3, <3>1
    <2>. QED
      BY <1>1, <2>1, <2>4
  <1>7. CASE ReceiveDamage
    <2>1. toAgent # <<>> /\ UNCHANGED pending
      BY <1>7 DEF ReceiveDamage, AgentArrived, applicationVars
    <2>2. PICK m : m = AgentArrival
      OBVIOUS
    <2>3. \/ /\ proxies' = [proxies EXCEPT ![m.id].framebuffer = Patched(@, m.rects),
                                           ![m.id].frameSequence = m.sequence]
             /\ Answer(<<>>)
          \/ Answer(Resync(m)) /\ UNCHANGED proxies
      BY <1>7, <2>2 DEF ReceiveDamage
    <2>4. CASE Answer(Resync(m)) /\ UNCHANGED proxies
      <3>1. m.id \in DOMAIN proxies
        BY <1>7, <2>2 DEF ReceiveDamage, CanApplyDamage
      <3>2. m.id = Content /\ proxies[Content].frameSequence \in Nat
        BY <3>1 DEF Inv, AgentTypeOK, ProxyType
      <3>3. PICK request : request = FrameRequest(Content, proxies[Content].frameSequence)
        OBVIOUS
      <3>4. Resync(m) = <<request>>
        BY <3>2, <3>3 DEF Resync
      <3>5. request \in ToServerMessage /\ request.type = "WINDOW_FRAME_REQUEST"
        BY <3>2, <3>3 DEF ToServerMessage, FrameRequest
      <3>6. <<request>> \in Seq(ToServerMessage) /\ \A a \in ToSet(<<request>>) : a = request
        BY <3>5 DEF ToSet
      <3>7. toAgent' = Tail(toAgent) /\ toServer' = Sent(<<request>>) /\ agentSocket' = agentSocket
        BY <2>4, <3>4 DEF Answer
      <3>8. PICK messages : messages = <<request>>
        OBVIOUS
      <3>9. /\ messages \in Seq(ToServerMessage) /\ toServer' = Sent(messages)
            /\ \A a \in ToSet(messages) : a.type # "WINDOW_PRESENT_ACK"
        BY <3>5, <3>6, <3>7, <3>8
      <3>. QED
        BY <1>0, <2>1, <2>4, <3>7, <3>9, ReadingKeepsFlight
    <2>5. CASE /\ proxies' = [proxies EXCEPT ![m.id].framebuffer = Patched(@, m.rects),
                                             ![m.id].frameSequence = m.sequence]
               /\ Answer(<<>>)
      <3>1. ASSUME NEW id \in DOMAIN pending PROVE proxies'[id].width = proxies[id].width
        <4>1. id \in DOMAIN proxies /\ proxies[id] \in ProxyType
          BY <1>2 DEF Inv, AgentTypeOK
        <4>2. \/ proxies'[id] = proxies[id]
              \/ proxies'[id] = [proxies[id] EXCEPT !.framebuffer = Patched(@, m.rects), !.frameSequence = m.sequence]
          BY <2>5, <4>1
        <4>. QED
          BY <4>1, <4>2 DEF ProxyType
      <3>. QED
        BY <1>1, <2>1, <2>5, <3>1
    <2>. QED
      BY <2>3, <2>4, <2>5
  <1>8. CASE ReceivePresent
    BY <1>0, <1>8, PresentKeepsFlight
  <1>9. CASE ReceiveActivate \/ ReceiveDestroy
    <2>1. /\ toAgent # <<>> /\ Head(toAgent).type \in {"WINDOW_ACTIVATE", "WINDOW_DESTROY"}
      BY <1>9 DEF ReceiveActivate, ReceiveDestroy, AgentArrived
    <2>2. PICK m : m = Head(toAgent)
      OBVIOUS
    <2>3. PICK r \in StreamType : Sound(history, r, m)
      BY <2>1, <2>2, NextArrival DEF Accepted
    <2>4. m.type \notin {"WINDOW_ACTIVATE", "WINDOW_DESTROY"}
      BY <2>3, SoundKinds
    <2>. QED
      BY <2>1, <2>2, <2>4
  <1>10. CASE SocketFails
    <2>1. serverSocket = "open" /\ agentSocket = "open"
      BY DEF Accepted, Inv, WireTypeOK
    <2>2. toAgent # <<>> /\ Refused(AgentArrival)
      BY <1>10, <2>1 DEF SocketFails, PeerGone
    <2>3. PICK m : m = Head(toAgent)
      OBVIOUS
    <2>4. ~Refused(m)
      BY <2>1, <2>2, <2>3, NothingIsRefused
    <2>. QED
      BY <2>2, <2>3, <2>4 DEF AgentArrival
  <1>11. CASE DispatchPresents
    BY <1>0, <1>11, DispatchKeepsFlight
  <1>12. CASE DispatchFails
    BY <1>12, NoDispatchFails
  <1>13. CASE Exit
    <2>1. agent = "running"
      BY DEF Accepted, Inv, WireTypeOK
    <2>. QED
      BY <1>13, <2>1 DEF Exit
  <1>. QED
    BY <1>3, <1>4, <1>5, <1>6, <1>7, <1>8, <1>9, <1>10, <1>11, <1>12, <1>13 DEF ThreadStep, AgentStep

\* What the exporter says is newer than all that is on its way.
LEMMA SayingKeepsFlight ==
    ASSUME Inv, Accepted, UNCHANGED <<agentSocket, agentVars>>,
           NEW T, NEW messages \in Seq(T), toAgent' = toAgent \o messages,
           toServer' = toServer, presented \in Nat, presented' \in {presented, presented + 1},
           unacked \subseteq unacked', Ordered(messages),
           \A e \in ToSet(messages) : IsPresent(e) => Seqno(e) = presented + 1 /\ Unacked(Seqno(e))',
           (\E e \in ToSet(messages) : e.type = "WINDOW_RESIZE") => unacked = {}
    PROVE  Accepted'
  <1>1. UNCHANGED <<pending, proxies>>
    BY DEF agentVars, applicationVars
  <1>2. PICK S : toAgent \in Seq(S)
    BY FlightTypes
  <1>3. \A e : e \in ToSet(toAgent') <=> e \in ToSet(toAgent) \/ e \in ToSet(messages)
    BY <1>2, ConcatElements
  <1>4. \A n : Unacked(n) /\ n \in Nat => Unacked(n)' /\ n < presented + 1
    BY DEF Unacked
  <1>5. /\ \A m \in OnTheWay : Unacked(Seqno(m)) /\ Seqno(m) \in Nat
        /\ \A id \in DOMAIN pending : Unacked(pending[id].sequence) /\ pending[id].sequence \in Nat
    BY FlightTypes DEF Accepted, Flight
  <1>6. \A e \in OnTheWay' : e \in OnTheWay \/ (Seqno(e) = presented + 1 /\ Unacked(Seqno(e))')
    BY <1>3 DEF OnTheWay
  <1>7. ASSUME NEW m \in ToSet(toAgent), NEW e \in ToSet(messages), IsPresent(m)
        PROVE  e.type # "WINDOW_RESIZE" /\ (IsPresent(e) => Seqno(m) < Seqno(e))
    <2>1. m \in OnTheWay
      BY <1>7 DEF OnTheWay
    <2>2. Seqno(m) \in unacked /\ Seqno(m) < presented + 1
      BY <1>4, <1>5, <2>1 DEF Unacked
    <2>. QED
      BY <1>7, <2>2
  <1>8. Ordered(toAgent')
    <2>1. Ordered(toAgent)
      BY DEF Accepted, Flight
    <2>. QED
      BY <1>2, <1>7, <2>1, OrderedConcat
  <1>9. \A m \in OnTheWay' : Unacked(Seqno(m))'
    BY <1>4, <1>5, <1>6
  <1>10. \A id \in DOMAIN pending' :
          /\ Unacked(pending[id].sequence)'
          /\ RectRight(pending'[id].source) <= proxies'[id].width
          /\ \A m \in OnTheWay' : pending'[id].sequence < Seqno(m)
    <2>1. \A id \in DOMAIN pending : /\ RectRight(pending[id].source) <= proxies[id].width
                                     /\ \A m \in OnTheWay : pending[id].sequence < Seqno(m)
      BY DEF Accepted, Flight
    <2>. QED
      BY <1>1, <1>4, <1>5, <1>6, <2>1
  <1>11. \A a \in AcksOnTheWay' :
          /\ a.sequence \in Nat /\ a.sequence <= presented'
          /\ \A m \in OnTheWay' : a.sequence < Seqno(m)
          /\ \A id \in DOMAIN pending' : a.sequence < pending'[id].sequence
    <2>1. \A a \in AcksOnTheWay :
             /\ a.sequence \in Nat /\ a.sequence <= presented
             /\ \A m \in OnTheWay : a.sequence < Seqno(m)
             /\ \A id \in DOMAIN pending : a.sequence < pending[id].sequence
      BY DEF Accepted, Flight
    <2>2. AcksOnTheWay' = AcksOnTheWay
      BY DEF AcksOnTheWay
    <2>. QED
      BY <1>1, <1>6, <2>1, <2>2
  <1>12. (\E m \in ToSet(toAgent') : m.type = "WINDOW_RESIZE") => DOMAIN pending' = {}
    <2>1. (\E m \in ToSet(toAgent) : m.type = "WINDOW_RESIZE") => DOMAIN pending = {}
      BY DEF Accepted, Flight
    <2>2. (\E e \in ToSet(messages) : e.type = "WINDOW_RESIZE") => DOMAIN pending = {}
      BY <1>5 DEF Unacked
    <2>. QED
      BY <1>1, <1>3, <2>1, <2>2
  <1>13. Flight'
    BY <1>8, <1>9, <1>10, <1>11, <1>12 DEF Flight
  <1>. QED
    BY <1>13 DEF Accepted

\* A single message is in order, and so is none.
LEMMA OneIsOrdered ==
    ASSUME NEW m
    PROVE  /\ Ordered(<<m>>) /\ <<m>> \in Seq({m}) /\ ToSet(<<m>>) = {m}
           /\ Ordered(<<>>) /\ <<>> \in Seq({m}) /\ ToSet(<<>>) = {}
  <1>1. PICK s : s = <<m>>
    OBVIOUS
  <1>2. s \in Seq({m}) /\ DOMAIN s = {1} /\ s[1] = m
    BY <1>1
  <1>3. \A i, j \in DOMAIN s : ~(i < j)
    BY <1>2
  <1>4. Ordered(s) /\ ToSet(s) = {m}
    BY <1>2, <1>3 DEF Ordered, ToSet
  <1>5. Ordered(<<>>) /\ <<>> \in Seq({m}) /\ ToSet(<<>>) = {}
    BY DEF Ordered, ToSet
  <1>. QED
    BY <1>1, <1>2, <1>4, <1>5

\* The exporter says nothing, or a frame or damage.
LEMMA CommitKeepsFlight ==
    ASSUME Inv, Accepted, Commit
    PROVE  Accepted'
  <1>1. PICK messages : Tell(messages) /\ (messages = <<>> \/ \E m : messages = <<m>> /\ m.type \in {"WINDOW_FRAME", "WINDOW_DAMAGE"})
    <2>1. \A a, b, c, d, e, f : WindowFrame(a, b, c, d, e, f).type = "WINDOW_FRAME"
      BY DEF WindowFrame
    <2>2. \A a, b, c, d : WindowDamage(a, b, c, d).type = "WINDOW_DAMAGE"
      BY DEF WindowDamage
    <2>3. FullFrame(history').type = "WINDOW_FRAME"
      BY <2>1 DEF FullFrame
    <2>4. \/ Tell(<<FullFrame(history')>>)
          \/ \E v, w, rects : Tell(<<WindowDamage(Content, v, w, rects)>>)
          \/ Tell(<<>>)
      BY DEF Commit
    <2>. QED
      BY <2>2, <2>3, <2>4
  <1>2. UNCHANGED <<presented, unacked>>
    BY DEF Commit
  <1>3. /\ toAgent' = toAgent \o messages
        /\ UNCHANGED <<agentSocket, agentVars>> /\ toServer' = toServer
    BY <1>1 DEF Tell, Accepted
  <1>4. PICK T : /\ messages \in Seq(T) /\ Ordered(messages)
                 /\ \A e \in ToSet(messages) : e.type \in {"WINDOW_FRAME", "WINDOW_DAMAGE"}
    <2>1. CASE messages = <<>>
      BY <2>1, OneIsOrdered
    <2>2. ASSUME NEW m, messages = <<m>>, m.type \in {"WINDOW_FRAME", "WINDOW_DAMAGE"}
          PROVE  \E T : /\ messages \in Seq(T) /\ Ordered(messages)
                        /\ \A e \in ToSet(messages) : e.type \in {"WINDOW_FRAME", "WINDOW_DAMAGE"}
      <3>1. messages \in Seq({m}) /\ Ordered(messages) /\ ToSet(messages) = {m}
        BY <2>2, OneIsOrdered
      <3>. QED
        BY <2>2, <3>1
    <2>. QED
      BY <1>1, <2>1, <2>2
  <1>5. \A e \in ToSet(messages) : ~IsPresent(e) /\ e.type # "WINDOW_RESIZE"
    BY <1>4 DEF IsPresent
  <1>6. presented \in Nat
    BY DEF Inv, ExporterTypeOK
  <1>. QED
    BY <1>2, <1>3, <1>4, <1>5, <1>6, SayingKeepsFlight

\* The exporter shows, hides or moves the window.
LEMMA MoveKeepsFlight ==
    ASSUME Inv, Accepted, Move
    PROVE  Accepted'
  <1>1. PICK visible \in BOOLEAN : Tell(<<Present(visible)>>)
    BY DEF Move
  <1>2. presented' = presented + 1 /\ unacked' = unacked \cup {presented + 1}
    BY DEF Move, Presented
  <1>3. PICK m : m = Present(visible)
    OBVIOUS
  <1>4. Seqno(m) = presented + 1 /\ m.type = "WINDOW_PRESENT"
    BY <1>3 DEF Present, WindowPresent, Seqno
  <1>5. presented \in Nat
    BY DEF Inv, ExporterTypeOK
  <1>6. Unacked(Seqno(m))'
    BY <1>2, <1>4, <1>5 DEF Unacked
  <1>7. PICK messages : messages = <<m>>
    OBVIOUS
  <1>8. messages \in Seq({m}) /\ Ordered(messages) /\ ToSet(messages) = {m}
    BY <1>7, OneIsOrdered
  <1>9. /\ toAgent' = toAgent \o messages
        /\ UNCHANGED <<agentSocket, agentVars>> /\ toServer' = toServer
    BY <1>1, <1>3, <1>7 DEF Tell, Accepted
  <1>10. unacked \subseteq unacked'
    BY <1>2
  <1>. QED
    BY <1>2, <1>4, <1>5, <1>6, <1>8, <1>9, <1>10, SayingKeepsFlight

\* The exporter that waits resizes when nothing is presented.
LEMMA ResizingKeepsFlight ==
    ASSUME Inv, Accepted, ResizeWaits, Resize
    PROVE  Accepted'
  <1>1. unacked = {} /\ presented' = presented + 1 /\ unacked' = unacked \cup {presented + 1}
    BY DEF Resize, Presented
  <1>2. PICK a, b, c : /\ Tell(<<a, b, c>>) /\ a.type = "WINDOW_RESIZE" /\ b.type = "WINDOW_FRAME"
                       /\ c = Present(TRUE)
    <2>1. \A w : WindowResize(Content, w, 1).type = "WINDOW_RESIZE"
      BY DEF WindowResize
    <2>2. FullFrame(history').type = "WINDOW_FRAME"
      BY DEF FullFrame, WindowFrame
    <2>3. \E w : Tell(<<WindowResize(Content, w, 1), FullFrame(history'), Present(TRUE)>>)
      BY DEF Resize
    <2>. QED
      BY <2>1, <2>2, <2>3
  <1>3. Seqno(c) = presented + 1 /\ c.type = "WINDOW_PRESENT"
    BY <1>2 DEF Present, WindowPresent, Seqno
  <1>4. presented \in Nat
    BY DEF Inv, ExporterTypeOK
  <1>5. Unacked(Seqno(c))'
    BY <1>1, <1>3, <1>4 DEF Unacked
  <1>6. PICK messages : messages = <<a, b, c>>
    OBVIOUS
  <1>7. /\ messages \in Seq({a, b, c}) /\ DOMAIN messages = 1 .. 3
        /\ messages[1] = a /\ messages[2] = b /\ messages[3] = c
    BY <1>6
  <1>8. \A e \in ToSet(messages) : e \in {a, b, c}
    BY <1>7 DEF ToSet
  <1>9. Ordered(messages)
    <2>1. \A i, j \in 1 .. 3 : i < j => i = 1 \/ i = 2
      OBVIOUS
    <2>2. ~IsPresent(messages[1]) /\ ~IsPresent(messages[2])
      BY <1>2, <1>7 DEF IsPresent
    <2>. QED
      BY <1>7, <2>1, <2>2 DEF Ordered
  <1>10. \A e \in ToSet(messages) : IsPresent(e) => Seqno(e) = presented + 1 /\ Unacked(Seqno(e))'
    <2>1. ~IsPresent(a) /\ ~IsPresent(b)
      BY <1>2 DEF IsPresent
    <2>. QED
      BY <1>3, <1>5, <1>8, <2>1
  <1>11. /\ toAgent' = toAgent \o messages
         /\ UNCHANGED <<agentSocket, agentVars>> /\ toServer' = toServer
    BY <1>2, <1>6 DEF Tell, Accepted
  <1>12. PICK T : messages \in Seq(T)
    BY <1>7
  <1>. QED
    BY <1>1, <1>4, <1>9, <1>10, <1>11, <1>12, SayingKeepsFlight

\* An acknowledgement that is read is of nothing that is still to be.
LEMMA ReadsKeepsFlight ==
    ASSUME Inv, Accepted, Reads
    PROVE  Accepted'
  <1>1. /\ toServer # <<>> /\ toServer' = Tail(toServer) /\ UNCHANGED <<agentSocket, presented, agentVars>>
    BY DEF Reads
  <1>2. UNCHANGED <<pending, proxies>>
    BY <1>1 DEF agentVars, applicationVars
  <1>3. PICK a : a = Head(toServer)
    OBVIOUS
  <1>4. toServer \in Seq(ToServerMessage)
    BY DEF Inv, WireTypeOK
  <1>5. \A m : m \in ToSet(toServer) <=> m = a \/ m \in ToSet(toServer')
    BY <1>1, <1>3, <1>4, TailElements
  <1>6. \A m \in AcksOnTheWay' : m \in AcksOnTheWay
    BY <1>5 DEF AcksOnTheWay
  <1>7. PICK S : toAgent \in Seq(S)
    BY FlightTypes
  <1>8. /\ Ordered(toAgent') /\ \A m \in ToSet(toAgent') : m \in ToSet(toAgent) \/ m.type = "WINDOW_FRAME"
    <2>1. CASE UNCHANGED toAgent
      BY <2>1 DEF Accepted, Flight
    <2>2. CASE toAgent' = Append(toAgent, FullFrame(history))
      <3>1. PICK m : m = FullFrame(history)
        OBVIOUS
      <3>2. m.type = "WINDOW_FRAME"
        BY <3>1 DEF FullFrame, WindowFrame
      <3>3. toAgent' = toAgent \o <<m>>
        BY <1>7, <2>2, <3>1, AppendIsConcat
      <3>4. PICK t : t = <<m>>
        OBVIOUS
      <3>5. t \in Seq({m}) /\ Ordered(t) /\ ToSet(t) = {m} /\ toAgent' = toAgent \o t
        BY <3>3, <3>4, OneIsOrdered
      <3>6. \A e \in ToSet(t) : ~IsPresent(e) /\ e.type = "WINDOW_FRAME" /\ e.type # "WINDOW_RESIZE"
        BY <3>2, <3>5 DEF IsPresent
      <3>7. Ordered(toAgent)
        BY DEF Accepted, Flight
      <3>8. Ordered(toAgent \o t)
        BY <1>7, <3>5, <3>6, <3>7, OrderedConcat
      <3>9. \A e : e \in ToSet(toAgent \o t) => e \in ToSet(toAgent) \/ e \in ToSet(t)
        BY <1>7, <3>5, ConcatElements
      <3>. QED
        BY <3>5, <3>6, <3>8, <3>9
    <2>. QED
      BY <2>1, <2>2 DEF Reads, Accepted
  <1>9. \A m \in OnTheWay' : m \in OnTheWay
    BY <1>8 DEF OnTheWay, IsPresent
  <1>10. UNCHANGED unacked \/ (a \in AcksOnTheWay /\ unacked' = unacked \ {a.sequence})
    <2>1. a \in ToSet(toServer)
      BY <1>5
    <2>. QED
      BY <1>3, <2>1 DEF Reads, AcksOnTheWay
  <1>11. /\ \A m \in OnTheWay : Unacked(Seqno(m)) /\ Seqno(m) \in Nat
         /\ \A id \in DOMAIN pending : Unacked(pending[id].sequence) /\ pending[id].sequence \in Nat
    BY FlightTypes DEF Accepted, Flight
  <1>12. /\ \A m \in OnTheWay : Unacked(Seqno(m))'
         /\ \A id \in DOMAIN pending : Unacked(pending[id].sequence)'
    <2>1. CASE UNCHANGED unacked
      <3>1. \A n : Unacked(n) => Unacked(n)'
        BY <1>1, <2>1 DEF Unacked
      <3>. QED
        BY <1>2, <1>11, <3>1 DEF Seqno
    <2>2. CASE a \in AcksOnTheWay /\ unacked' = unacked \ {a.sequence}
      <3>1. /\ a.sequence \in Nat /\ \A m \in OnTheWay : a.sequence < Seqno(m)
            /\ \A id \in DOMAIN pending : a.sequence < pending[id].sequence
        BY <2>2 DEF Accepted, Flight
      <3>2. /\ \A m \in OnTheWay : Seqno(m) # a.sequence
            /\ \A id \in DOMAIN pending : pending[id].sequence # a.sequence
        BY <1>11, <3>1
      <3>3. \A n : Unacked(n) /\ n # a.sequence => Unacked(n)'
        BY <1>1, <2>2 DEF Unacked
      <3>. QED
        BY <1>2, <1>11, <3>2, <3>3 DEF Seqno
    <2>. QED
      BY <1>10, <2>1, <2>2
  <1>13. (\E m \in ToSet(toAgent') : m.type = "WINDOW_RESIZE") => DOMAIN pending' = {}
    <2>1. (\E m \in ToSet(toAgent) : m.type = "WINDOW_RESIZE") => DOMAIN pending = {}
      BY DEF Accepted, Flight
    <2>. QED
      BY <1>2, <1>8, <2>1
  <1>14. \A id \in DOMAIN pending' :
          /\ Unacked(pending[id].sequence)'
          /\ RectRight(pending'[id].source) <= proxies'[id].width
          /\ \A m \in OnTheWay' : pending'[id].sequence < Seqno(m)
    BY <1>2, <1>9, <1>12 DEF Accepted, Flight
  <1>15. \A e \in AcksOnTheWay' :
          /\ e.sequence \in Nat /\ e.sequence <= presented'
          /\ \A m \in OnTheWay' : e.sequence < Seqno(m)
          /\ \A id \in DOMAIN pending' : e.sequence < pending'[id].sequence
    BY <1>1, <1>2, <1>6, <1>9 DEF Accepted, Flight
  <1>16. \A m \in OnTheWay' : Unacked(Seqno(m))'
    BY <1>9, <1>12
  <1>17. Flight'
    BY <1>8, <1>13, <1>14, <1>15, <1>16 DEF Flight
  <1>. QED
    BY <1>1, <1>17 DEF Accepted

\* At the start nothing is presented.
LEMMA InitIsAccepted ==
    ASSUME Init
    PROVE  Accepted
  <1>1. agentSocket = "open" /\ DOMAIN pending = {} /\ toServer = <<>>
    BY DEF Init, AgentInit, Empty
  <1>2. PICK width : toAgent = <<HelloAck, OutputConfig(UnitScale), WindowCreate(Content, 0, width, 1)>>
                               \o (IF announced = 0 THEN <<>> ELSE <<FullFrame(history)>>)
    BY DEF Init
  <1>3. PICK a, b, c, d : /\ a = HelloAck /\ b = OutputConfig(UnitScale)
                          /\ c = WindowCreate(Content, 0, width, 1) /\ d = FullFrame(history)
    OBVIOUS
  <1>4. a.type = "HELLO_ACK" /\ b.type = "OUTPUT_CONFIG" /\ c.type = "WINDOW_CREATE" /\ d.type = "WINDOW_FRAME"
    BY <1>3 DEF HelloAck, OutputConfig, WindowCreate, FullFrame, WindowFrame
  <1>5. PICK s, t : s = <<a, b, c>> /\ t = IF announced = 0 THEN <<>> ELSE <<d>>
    OBVIOUS
  <1>6. s \in Seq({a, b, c}) /\ DOMAIN s = 1 .. 3 /\ s[1] = a /\ s[2] = b /\ s[3] = c
    BY <1>5
  <1>7. \A e \in ToSet(s) : e \in {a, b, c}
    BY <1>6 DEF ToSet
  <1>8. t \in Seq({d}) /\ \A e \in ToSet(t) : e = d
    <2>1. t = <<>> \/ t = <<d>>
      BY <1>5
    <2>2. t \in Seq({d}) /\ (ToSet(t) = {} \/ ToSet(t) = {d})
      BY <2>1, OneIsOrdered
    <2>. QED
      BY <2>2
  <1>9. toAgent = s \o t
    BY <1>2, <1>3, <1>5
  <1>10. \A e : e \in ToSet(toAgent) => e \in ToSet(s) \/ e \in ToSet(t)
    BY <1>6, <1>8, <1>9, ConcatElements
  <1>11. \A e \in ToSet(toAgent) : ~IsPresent(e) /\ e.type # "WINDOW_RESIZE"
    <2>1. \A e \in {a, b, c, d} : e.type # "WINDOW_PRESENT" /\ e.type # "WINDOW_RESIZE"
      BY <1>4
    <2>. QED
      BY <1>7, <1>8, <1>10, <2>1 DEF IsPresent
  <1>12. Ordered(toAgent)
    <2>1. \A i \in DOMAIN toAgent : toAgent[i] \in ToSet(toAgent)
      BY DEF ToSet
    <2>. QED
      BY <1>11, <2>1 DEF Ordered
  <1>13. OnTheWay = {} /\ AcksOnTheWay = {}
    BY <1>1, <1>11 DEF OnTheWay, AcksOnTheWay, ToSet
  <1>. QED
    BY <1>1, <1>11, <1>12, <1>13 DEF Accepted, Flight

\* An exporter whose frames have no padding, and that waits with a resize until
\* all it presented is acknowledged, is never refused: neither a handler of the agent nor a dispatch ends the
\* connection (handle_protocol_message and apply_pending_presents of main.cpp).
THEOREM LegalStreamIsAcceptedHolds ==
    ASSUME ResizeWaits, Padding = 0
    PROVE  Spec => []LegalStreamIsAccepted
  <1>1. Init => Accepted
    BY InitIsAccepted
  <1>2. Inv /\ Accepted /\ [Next]_vars => Accepted'
    <2>. SUFFICES ASSUME Inv, Accepted, [Next]_vars PROVE Accepted'
      OBVIOUS
    <2>1. CASE Commit
      BY <2>1, CommitKeepsFlight
    <2>2. CASE Resize
      BY <2>2, ResizingKeepsFlight
    <2>3. CASE Move
      BY <2>3, MoveKeepsFlight
    <2>4. CASE Reads
      BY <2>4, ReadsKeepsFlight
    <2>5. CASE ThreadStep
      BY <2>5, ThreadKeepsFlight
    <2>6. CASE UNCHANGED vars
      <3>1. UNCHANGED <<toAgent, toServer, agentSocket, proxies, pending, presented, unacked>>
        BY <2>6 DEF vars, wireVars, agentVars, applicationVars, exporterVars
      <3>. QED
        BY <3>1 DEF Accepted, Flight, OnTheWay, AcksOnTheWay, Unacked
    <2>. QED
      BY <2>1, <2>2, <2>3, <2>4, <2>5, <2>6 DEF Next
  <1>3. Accepted => LegalStreamIsAccepted
    BY DEF Accepted, LegalStreamIsAccepted
  <1>. QED
    BY <1>1, <1>2, <1>3, AlwaysInv, PTL DEF Spec
-----------------------------------------------------------------------------
(* Frames with padding.  The codec takes them (valid_frame_payload of      *)
(* protocol.c asks for a stride of at least width * 4); apply_frame takes  *)
(* no stride but width * 4.                                                *)

NextFrameIsRefused == AgentArrived("WINDOW_FRAME") => Refused(AgentArrival)
NothingIsDrawn == \A id \in DOMAIN proxies : proxies[id].frameSequence = 0

\* A frame that comes to be read has the exporter's padding.
LEMMA PaddedFrameIsRefused ==
    ASSUME Padding # 0, Inv, AgentArrived("WINDOW_FRAME")
    PROVE  Refused(AgentArrival) /\ ~CanApplyFrame(AgentArrival)
  <1>1. agentSocket = "open" /\ toAgent # <<>>
    BY DEF AgentArrived
  <1>2. PICK m : m = Head(toAgent)
    OBVIOUS
  <1>3. m = AgentArrival /\ m.type = "WINDOW_FRAME"
    BY <1>2 DEF AgentArrived, AgentArrival
  <1>4. PICK r \in StreamType : Sound(history, r, m)
    BY <1>1, <1>2, NextArrival
  <1>5. SoundFrame(history, r, m)
    BY <1>3, <1>4, SoundKinds
  <1>6. PICK n \in 1 .. Len(history) : history[n].width = r.width /\ m = FrameOf(history, n)
    BY <1>5 DEF SoundFrame
  <1>7. m.width = r.width /\ m.stride = Stride(r.width) + Padding /\ r.width \in Nat
    BY <1>6, FrameFields DEF StreamType
  <1>8. m.stride # Stride(m.width)
    BY <1>7, ContentAssumption DEF Stride
  <1>9. ~CanApplyFrame(m)
    BY <1>8 DEF CanApplyFrame, FitsProxy
  <1>. QED
    BY <1>3, <1>9 DEF Refused

\* No step of the agent's thread draws anything: damage has no base.
LEMMA ThreadDrawsNothing ==
    ASSUME Padding # 0, Inv, NothingIsDrawn, ThreadStep
    PROVE  NothingIsDrawn'
  <1>1. \A id \in DOMAIN proxies : id = Content /\ proxies[id] \in ProxyType
    BY DEF Inv, AgentTypeOK
  <1>2. CASE ReceiveHelloAck \/ ReceiveOutputConfig
    <2>1. UNCHANGED proxies
      BY <1>2 DEF ReceiveHelloAck, ReceiveOutputConfig, agentVars
    <2>. QED
      BY <2>1 DEF NothingIsDrawn
  <1>3. CASE ReceiveCreate
    <2>1. proxies' = [id \in DOMAIN proxies \cup {AgentArrival.id} |->
                        IF id = AgentArrival.id THEN NewProxy(AgentArrival) ELSE proxies[id]]
      BY <1>3 DEF ReceiveCreate
    <2>2. NewProxy(AgentArrival).frameSequence = 0
      BY DEF NewProxy
    <2>. QED
      BY <2>1, <2>2 DEF NothingIsDrawn
  <1>4. CASE ReceiveResize
    <2>1. PICK m : m = AgentArrival
      OBVIOUS
    <2>2. m.id \in DOMAIN proxies /\ proxies' = [proxies EXCEPT ![m.id] = Resized(m)]
      BY <1>4, <2>1 DEF ReceiveResize, CanResize
    <2>3. Resized(m).frameSequence = 0
      BY <1>1, <2>2 DEF Resized, ProxyType
    <2>. QED
      BY <2>2, <2>3 DEF NothingIsDrawn
  <1>5. CASE ReceiveFrame
    BY <1>5, PaddedFrameIsRefused DEF ReceiveFrame
  <1>6. CASE ReceiveDamage
    <2>1. PICK m : m = AgentArrival
      OBVIOUS
    <2>2. m.id \in DOMAIN proxies
      BY <1>6, <2>1 DEF ReceiveDamage, CanApplyDamage
    <2>3. ~CanPatch(m)
      BY <2>2 DEF CanPatch, HasTheBase, NothingIsDrawn
    <2>4. UNCHANGED proxies
      BY <1>6, <2>1, <2>3 DEF ReceiveDamage
    <2>. QED
      BY <2>4 DEF NothingIsDrawn
  <1>7. CASE ReceivePresent
    <2>1. UNCHANGED proxies
      BY <1>7 DEF ReceivePresent
    <2>. QED
      BY <2>1 DEF NothingIsDrawn
  <1>8. CASE ReceiveActivate \/ ReceiveDestroy
    <2>1. /\ agentSocket = "open" /\ toAgent # <<>>
          /\ Head(toAgent).type \in {"WINDOW_ACTIVATE", "WINDOW_DESTROY"}
      BY <1>8 DEF ReceiveActivate, ReceiveDestroy, AgentArrived
    <2>2. PICK m : m = Head(toAgent)
      OBVIOUS
    <2>3. PICK r \in StreamType : Sound(history, r, m)
      BY <2>1, <2>2, NextArrival
    <2>4. m.type \notin {"WINDOW_ACTIVATE", "WINDOW_DESTROY"}
      BY <2>3, SoundKinds
    <2>. QED
      BY <2>1, <2>2, <2>4
  <1>9. CASE SocketFails \/ DispatchFails
    <2>1. DOMAIN proxies' = {}
      BY <1>9 DEF SocketFails, DispatchFails, FailConnection, Empty
    <2>. QED
      BY <2>1 DEF NothingIsDrawn
  <1>10. CASE DispatchPresents
    <2>1. proxies' = [id \in DOMAIN proxies |->
                        IF id \in Ready THEN Applied(id, pending[id]) ELSE proxies[id]]
      BY <1>10 DEF DispatchPresents
    <2>2. ASSUME NEW id \in DOMAIN proxies PROVE Applied(id, pending[id]).frameSequence = proxies[id].frameSequence
      BY <1>1, <2>2 DEF Applied, ProxyType
    <2>. QED
      BY <2>1, <2>2 DEF NothingIsDrawn
  <1>11. CASE Exit
    <2>1. UNCHANGED proxies
      BY <1>11 DEF Exit
    <2>. QED
      BY <2>1 DEF NothingIsDrawn
  <1>. QED
    BY <1>2, <1>3, <1>4, <1>5, <1>6, <1>7, <1>8, <1>9, <1>10, <1>11 DEF ThreadStep, AgentStep

\* An exporter that pads the rows of its frames never gets a pixel shown: the
\* agent ends the connection over the first frame it reads (apply_frame of
\* proxy_window.cpp), and damage finds no frame to patch (apply_damage).
THEOREM PaddedFramesAreNeverDrawn ==
    ASSUME Padding # 0
    PROVE  Spec => [](NothingIsDrawn /\ NextFrameIsRefused)
  <1>1. Init => NothingIsDrawn
    BY DEF Init, AgentInit, Empty, NothingIsDrawn
  <1>2. Inv /\ NothingIsDrawn /\ [Next]_vars => NothingIsDrawn'
    <2>. SUFFICES ASSUME Inv, NothingIsDrawn, [Next]_vars PROVE NothingIsDrawn'
      OBVIOUS
    <2>1. CASE Commit \/ Resize \/ Move \/ Reads \/ UNCHANGED vars
      <3>1. UNCHANGED proxies
        BY <2>1 DEF Commit, Resize, Move, Reads, Tell, vars, agentVars
      <3>. QED
        BY <3>1 DEF NothingIsDrawn
    <2>2. CASE ThreadStep
      BY <2>2, ThreadDrawsNothing
    <2>. QED
      BY <2>1, <2>2 DEF Next
  <1>3. Inv => NextFrameIsRefused
    BY PaddedFrameIsRefused DEF NextFrameIsRefused
  <1>. QED
    BY <1>1, <1>2, <1>3, AlwaysInv, PTL DEF Spec
==============================================================================
