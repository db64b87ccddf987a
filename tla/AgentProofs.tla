----------------------------- MODULE AgentProofs -----------------------------
(***************************************************************************)
(* The invariants of the agent against any exporter (AgentCheck), for      *)
(* every set of windows, buttons, keys and scales and any number of        *)
(* messages and events.                                                    *)
(*                                                                         *)
(* In this order: facts about sequences; the types, with what owners and   *)
(* the stack look like (TypeInv); where the newest presentation of a       *)
(* window is (FlowInv); what reading the agent's messages in turn comes to *)
(* (Reads), what each handler tells (TellsTo), and that together they keep *)
(* the reader up to date (ReaderInv); where the window activated last is   *)
(* (FrontInv); the pixels a window covers (ScaleInv, RegionInv); whom a    *)
(* popup belongs to (ParentInv).                                           *)
(***************************************************************************)
EXTENDS AgentCheck, GeometryLemmas, FiniteSetTheorems, SequenceTheorems, WellFoundedInduction

(* Sequences.                                                              *)

\* A set of naturals that is not empty has a least member.
LEMMA Least ==
    ASSUME NEW T, T \subseteq Nat, T # {}
    PROVE  \E n \in T : \A k \in T : n <= k
  <1>. DEFINE R == OpToRel(<, Nat)
  <1>1. IsWellFoundedOn(R, Nat)
    BY NatLessThanWellFounded
  <1>2. \A x, y \in Nat : y < x => <<y, x>> \in R
    BY DEF OpToRel
  <1>. HIDE DEF R
  <1>3. PICK x \in T : \A y \in T : ~ (<<y, x>> \in R)
    BY <1>1, WFMin
  <1>4. x \in Nat /\ \A y \in T : y \in Nat
    OBVIOUS
  <1>5. \A y \in T : ~(y < x)
    BY <1>2, <1>3, <1>4
  <1>6. \A y \in T : x <= y
    BY <1>4, <1>5
  <1>. QED
    BY <1>6

\* Induction up to a number, over a set and not over a predicate.
LEMMA NatInd ==
    ASSUME NEW P, 0 \in P, NEW m \in Nat,
           \A n \in 0 .. m - 1 : n \in P => n + 1 \in P
    PROVE  \A n \in 0 .. m : n \in P
  <1>. DEFINE T == {n \in 0 .. m : n \notin P}
  <1>1. SUFFICES ASSUME T # {} PROVE FALSE
    OBVIOUS
  <1>2. T \subseteq Nat
    OBVIOUS
  <1>3. PICK n \in T : \A k \in T : n <= k
    BY <1>1, <1>2, Least
  <1>4. n \in Nat /\ n <= m /\ n \notin P /\ n # 0
    BY <1>3
  <1>5. n - 1 \in 0 .. m - 1 /\ n - 1 \notin T
    BY <1>3, <1>4
  <1>6. n - 1 \in P
    BY <1>5
  <1>7. (n - 1) + 1 \in P
    BY <1>5, <1>6
  <1>. QED
    BY <1>4, <1>7

\* What it is to be the sequence of the first elements that remain.
Keeps(kept, s, gone) ==
    /\ kept[0] = <<>>
    /\ \A n \in 1 .. Len(s) :
          kept[n] = IF s[n] \in gone THEN kept[n - 1] ELSE Append(kept[n - 1], s[n])

\* The recursive function inside Removed exists.
LEMMA RemovedIsDefined ==
    ASSUME NEW S, NEW s \in Seq(S), NEW gone
    PROVE  \E kept : Keeps(kept, s, gone) /\ Removed(s, gone) = kept[Len(s)]
  <1>. DEFINE N == Len(s)
              Upto(g, m) == /\ g[0] = <<>>
                            /\ \A n \in 1 .. m :
                                  g[n] = IF s[n] \in gone THEN g[n - 1] ELSE Append(g[n - 1], s[n])
              P == {m \in 0 .. N : \E g : Upto(g, m)}
  <1>1. N \in Nat
    BY LenProperties
  <1>2. 0 \in P
    <2>. DEFINE g == [n \in {0} |-> <<>>]
    <2>1. Upto(g, 0)
      OBVIOUS
    <2>2. \E h : Upto(h, 0)
      BY <2>1, Zenon
    <2>. QED
      BY <1>1, <2>2
  <1>3. ASSUME NEW m \in 0 .. N - 1, m \in P PROVE m + 1 \in P
    <2>1. PICK g : Upto(g, m)
      BY <1>3
    <2>2. m \in Nat /\ m + 1 \in 0 .. N /\ m + 1 >= 1
      BY <1>1
    <2>. DEFINE last == IF s[m + 1] \in gone THEN g[m] ELSE Append(g[m], s[m + 1])
                h == [n \in 0 .. m + 1 |-> IF n = m + 1 THEN last ELSE g[n]]
    <2>3. h[m + 1] = last /\ h[m] = g[m] /\ h[0] = <<>>
      BY <2>1, <2>2
    <2>4. \A n \in 1 .. m : h[n] = g[n] /\ h[n - 1] = g[n - 1]
      BY <2>2
    <2>5. \A n \in 1 .. m + 1 : n \in 1 .. m \/ n = m + 1
      BY <2>2
    <2>6. (m + 1) - 1 = m
      BY <2>2
    <2>. HIDE DEF h
    <2>7. \A n \in 1 .. m + 1 :
             h[n] = IF s[n] \in gone THEN h[n - 1] ELSE Append(h[n - 1], s[n])
      <3>1. ASSUME NEW n \in 1 .. m
            PROVE  h[n] = IF s[n] \in gone THEN h[n - 1] ELSE Append(h[n - 1], s[n])
        BY <2>1, <2>4
      <3>2. h[m + 1] = IF s[m + 1] \in gone THEN h[(m + 1) - 1] ELSE Append(h[(m + 1) - 1], s[m + 1])
        BY <2>3, <2>6
      <3>. QED
        BY <2>5, <3>1, <3>2
    <2>8. Upto(h, m + 1)
      BY <2>3, <2>7
    <2>. HIDE DEF Upto
    <2>. QED
      BY <2>2, <2>8
  <1>4. N \in P
    <2>. HIDE DEF P
    <2>1. \A n \in 0 .. N : n \in P
      BY <1>1, <1>2, <1>3, NatInd
    <2>. QED
      BY <1>1, <2>1
  <1>5. PICK g : Upto(g, N)
    BY <1>4
  <1>. DEFINE Body(k) == [n \in 0 .. N |->
                            IF n = 0 THEN <<>>
                            ELSE IF s[n] \in gone THEN k[n - 1] ELSE Append(k[n - 1], s[n])]
              f == [n \in 0 .. N |-> g[n]]
  <1>6. f = Body(f)
    <2>1. \A n \in 1 .. N : f[n] = g[n] /\ f[n - 1] = g[n - 1]
      BY <1>1
    <2>2. f[0] = <<>>
      BY <1>1, <1>5
    <2>3. \A n \in 0 .. N : n = 0 \/ n \in 1 .. N
      BY <1>1
    <2>4. \A n \in 0 .. N : f[n] = Body(f)[n]
      BY <1>5, <2>1, <2>2, <2>3
    <2>. QED
      BY <2>4
  <1>. DEFINE kept == CHOOSE k : k = Body(k)
  <1>7. kept = Body(kept)
    BY <1>6
  <1>8. Removed(s, gone) = kept[Len(s)]
    BY DEF Removed
  <1>9. Keeps(kept, s, gone)
    <2>. HIDE DEF kept
    <2>1. \A k : Body(k)[0] = <<>> /\ \A n \in 1 .. N :
             Body(k)[n] = IF s[n] \in gone THEN k[n - 1] ELSE Append(k[n - 1], s[n])
      BY <1>1
    <2>. HIDE DEF Body
    <2>. QED
      BY <1>7, <2>1 DEF Keeps
  <1>. HIDE DEF kept
  <1>. QED
    BY <1>8, <1>9
\* What Removed leaves: the other elements, in their order and once each.
LEMMA RemovedProperties ==
    ASSUME NEW S, NEW s \in Seq(S), NEW gone
    PROVE  /\ Removed(s, gone) \in Seq(S)
           /\ \A x : x \in ToSet(Removed(s, gone)) <=> x \in ToSet(s) /\ x \notin gone
           /\ IsInjective(s) => IsInjective(Removed(s, gone))
           /\ ToSet(s) \cap gone = {} => Removed(s, gone) = s
  <1>1. PICK kept : Keeps(kept, s, gone) /\ Removed(s, gone) = kept[Len(s)]
    BY RemovedIsDefined
  <1>. DEFINE N == Len(s)
              Firsts(n) == {s[i] : i \in 1 .. n}
  <1>2. N \in Nat /\ DOMAIN s = 1 .. N /\ \A i \in 1 .. N : s[i] \in S
    BY LenProperties, ElementOfSeq
  <1>3. /\ kept[0] = <<>>
        /\ \A n \in 0 .. N - 1 :
              kept[n + 1] = IF s[n + 1] \in gone THEN kept[n] ELSE Append(kept[n], s[n + 1])
    <2>1. \A n \in 0 .. N - 1 : n + 1 \in 1 .. N /\ (n + 1) - 1 = n
      BY <1>2
    <2>. QED
      BY <1>1, <2>1 DEF Keeps
  <1>. DEFINE P == {n \in 0 .. N :
                      /\ kept[n] \in Seq(S)
                      /\ \A x : x \in ToSet(kept[n]) <=> x \in Firsts(n) /\ x \notin gone
                      /\ IsInjective(s) => IsInjective(kept[n])
                      /\ ToSet(s) \cap gone = {} =>
                            Len(kept[n]) = n /\ \A i \in 1 .. n : kept[n][i] = s[i]}
  <1>4. 0 \in P
    <2>1. <<>> \in Seq(S) /\ DOMAIN <<>> = {} /\ Len(<<>>) = 0 /\ 0 \in 0 .. N
      BY <1>2, EmptySeq
    <2>2. ToSet(<<>>) = {} /\ IsInjective(<<>>) /\ Firsts(0) = {} /\ 1 .. 0 = {}
      BY <2>1 DEF ToSet, IsInjective
    <2>. QED
      BY <1>3, <2>1, <2>2
  <1>5. ASSUME NEW n \in 0 .. N - 1, n \in P PROVE n + 1 \in P
    <2>1. /\ kept[n] \in Seq(S)
          /\ \A x : x \in ToSet(kept[n]) <=> x \in Firsts(n) /\ x \notin gone
          /\ IsInjective(s) => IsInjective(kept[n])
          /\ ToSet(s) \cap gone = {} =>
                Len(kept[n]) = n /\ \A i \in 1 .. n : kept[n][i] = s[i]
      BY <1>5
    <2>2. n \in Nat /\ n + 1 \in 1 .. N /\ n + 1 \in 0 .. N /\ s[n + 1] \in S
          /\ \A i \in 1 .. n : i \in 1 .. N
      BY <1>2
    <2>3. \A x : x \in Firsts(n + 1) <=> x \in Firsts(n) \/ x = s[n + 1]
      BY <2>2
    <2>4. CASE s[n + 1] \in gone
      <3>1. kept[n + 1] = kept[n]
        BY <1>3, <2>4
      <3>2. ToSet(s) \cap gone # {}
        BY <1>2, <2>2, <2>4 DEF ToSet
      <3>. HIDE DEF Firsts
      <3>. QED
        BY <2>1, <2>2, <2>3, <2>4, <3>1, <3>2
    <2>5. CASE s[n + 1] \notin gone
      <3>1. kept[n + 1] = Append(kept[n], s[n + 1])
        BY <1>3, <2>5
      <3>. DEFINE k == kept[n]
                  a == Append(kept[n], s[n + 1])
      <3>2. /\ a \in Seq(S) /\ Len(a) = Len(k) + 1 /\ a[Len(k) + 1] = s[n + 1]
            /\ \A i \in 1 .. Len(k) : a[i] = k[i]
            /\ Len(k) \in Nat /\ DOMAIN k = 1 .. Len(k) /\ DOMAIN a = 1 .. Len(k) + 1
        <4>1. a \in Seq(S) /\ Len(a) = Len(k) + 1 /\ a[Len(k) + 1] = s[n + 1]
              /\ \A i \in 1 .. Len(k) : a[i] = k[i]
          BY <2>1, <2>2, AppendProperties
        <4>. QED
          BY <2>1, <4>1, LenProperties
      <3>. HIDE DEF k, a
      <3>3. \A i : i \in DOMAIN a <=> i \in DOMAIN k \/ i = Len(k) + 1
        BY <3>2
      <3>4. \A x : x \in ToSet(a) <=> x \in ToSet(k) \/ x = s[n + 1]
        <4>1. ASSUME NEW x \in ToSet(a) PROVE x \in ToSet(k) \/ x = s[n + 1]
          BY <3>2, <3>3, <4>1 DEF ToSet
        <4>2. ASSUME NEW x, x \in ToSet(k) \/ x = s[n + 1] PROVE x \in ToSet(a)
          BY <3>2, <3>3, <4>2 DEF ToSet
        <4>. QED
          BY <4>1, <4>2
      <3>5. \A x : x \in ToSet(a) <=> x \in Firsts(n + 1) /\ x \notin gone
        <4>. HIDE DEF Firsts
        <4>. QED
          BY <2>1, <2>3, <2>5, <3>4 DEF k
      <3>6. ASSUME IsInjective(s) PROVE IsInjective(a)
        <4>1. s[n + 1] \notin Firsts(n)
          <5>1. \A i \in 1 .. n : i # n + 1
            BY <2>2
          <5>. QED
            BY <1>2, <2>2, <3>6, <5>1 DEF IsInjective
        <4>2. s[n + 1] \notin ToSet(k)
          <5>. HIDE DEF Firsts
          <5>. QED
            BY <2>1, <4>1 DEF k
        <4>3. IsInjective(k)
          BY <2>1, <3>6 DEF k
        <4>. QED
          BY <3>2, <3>3, <4>2, <4>3 DEF IsInjective, ToSet
      <3>7. ASSUME ToSet(s) \cap gone = {}
            PROVE  Len(a) = n + 1 /\ \A i \in 1 .. n + 1 : a[i] = s[i]
        <4>1. Len(k) = n /\ \A i \in 1 .. n : k[i] = s[i]
          BY <2>1, <3>7 DEF k
        <4>. QED
          BY <2>2, <3>2, <4>1
      <3>. HIDE DEF Firsts
      <3>. QED
        BY <2>2, <3>1, <3>2, <3>5, <3>6, <3>7 DEF a
    <2>. QED
      BY <2>4, <2>5
  <1>6. N \in P
    <2>. HIDE DEF P
    <2>1. \A n \in 0 .. N : n \in P
      BY <1>2, <1>4, <1>5, NatInd
    <2>. QED
      BY <1>2, <2>1
  <1>7. \A x : x \in Firsts(N) <=> x \in ToSet(s)
    BY <1>2 DEF ToSet
  <1>8. ToSet(s) \cap gone = {} => kept[N] = s
    BY <1>2, <1>6, SeqEqual
  <1>. HIDE DEF Firsts
  <1>. QED
    BY <1>1, <1>6, <1>7, <1>8

\* The end of a sequence that has grown by one.
LEMMA AppendedOnce ==
    ASSUME NEW S, NEW s \in Seq(S), NEW x \in S
    PROVE  /\ Append(s, x) \in Seq(S)
           /\ \A y : y \in ToSet(Append(s, x)) <=> y \in ToSet(s) \/ y = x
           /\ IsInjective(s) /\ x \notin ToSet(s) => IsInjective(Append(s, x))
           /\ Last(Append(s, x)) = x
  <1>. DEFINE a == Append(s, x)
  <1>1. /\ a \in Seq(S) /\ Len(a) = Len(s) + 1 /\ a[Len(s) + 1] = x
        /\ \A i \in 1 .. Len(s) : a[i] = s[i]
    BY AppendProperties
  <1>2. Len(s) \in Nat /\ DOMAIN s = 1 .. Len(s) /\ DOMAIN a = 1 .. Len(s) + 1
    BY <1>1, LenProperties
  <1>. HIDE DEF a
  <1>3. \A i : i \in DOMAIN a <=> i \in DOMAIN s \/ i = Len(s) + 1
    BY <1>2
  <1>4. \A y : y \in ToSet(a) <=> y \in ToSet(s) \/ y = x
    <2>1. ASSUME NEW y \in ToSet(a) PROVE y \in ToSet(s) \/ y = x
      BY <1>1, <1>2, <1>3, <2>1 DEF ToSet
    <2>2. ASSUME NEW y, y \in ToSet(s) \/ y = x PROVE y \in ToSet(a)
      BY <1>1, <1>2, <1>3, <2>2 DEF ToSet
    <2>. QED
      BY <2>1, <2>2
  <1>5. ASSUME IsInjective(s), x \notin ToSet(s) PROVE IsInjective(a)
    BY <1>1, <1>2, <1>3, <1>5 DEF IsInjective, ToSet
  <1>6. Last(a) = x
    BY <1>1 DEF Last
  <1>. QED
    BY <1>1, <1>4, <1>5, <1>6 DEF a

\* Two sequences in a row name what either does, and once if they share nothing.
LEMMA ConcatOnce ==
    ASSUME NEW S, NEW s \in Seq(S), NEW t \in Seq(S)
    PROVE  /\ s \o t \in Seq(S)
           /\ \A y : y \in ToSet(s \o t) <=> y \in ToSet(s) \/ y \in ToSet(t)
           /\ IsInjective(s) /\ IsInjective(t) /\ ToSet(s) \cap ToSet(t) = {} => IsInjective(s \o t)
  <1>. DEFINE a == s \o t
  <1>1. /\ a \in Seq(S) /\ Len(a) = Len(s) + Len(t)
        /\ \A i \in 1 .. Len(s) + Len(t) : a[i] = IF i <= Len(s) THEN s[i] ELSE t[i - Len(s)]
    BY ConcatProperties
  <1>2. /\ Len(s) \in Nat /\ DOMAIN s = 1 .. Len(s) /\ Len(t) \in Nat /\ DOMAIN t = 1 .. Len(t)
        /\ DOMAIN a = 1 .. Len(s) + Len(t)
    BY <1>1, LenProperties
  <1>. HIDE DEF a
  <1>3. /\ \A i \in DOMAIN s : i \in DOMAIN a /\ a[i] = s[i]
        /\ \A i \in DOMAIN t : Len(s) + i \in DOMAIN a /\ a[Len(s) + i] = t[i]
        /\ \A i \in DOMAIN a : \/ i \in DOMAIN s /\ a[i] = s[i]
                               \/ i - Len(s) \in DOMAIN t /\ a[i] = t[i - Len(s)]
        /\ \A i, j \in DOMAIN a : i - Len(s) = j - Len(s) => i = j
    <2>1. \A i \in DOMAIN s : i \in DOMAIN a /\ a[i] = s[i]
      BY <1>1, <1>2
    <2>2. \A i \in DOMAIN t : Len(s) + i \in DOMAIN a /\ ~(Len(s) + i <= Len(s)) /\ (Len(s) + i) - Len(s) = i
      BY <1>2
    <2>3. \A i \in DOMAIN a : i \in DOMAIN s \/ (i - Len(s) \in DOMAIN t /\ ~(i <= Len(s)))
      BY <1>2
    <2>4. \A i, j \in DOMAIN a : i - Len(s) = j - Len(s) => i = j
      BY <1>2
    <2>. QED
      BY <1>1, <1>2, <2>1, <2>2, <2>3, <2>4
  <1>4. \A y : y \in ToSet(a) <=> y \in ToSet(s) \/ y \in ToSet(t)
    <2>1. ASSUME NEW y \in ToSet(a) PROVE y \in ToSet(s) \/ y \in ToSet(t)
      BY <1>3, <2>1 DEF ToSet
    <2>2. ASSUME NEW y, y \in ToSet(s) \/ y \in ToSet(t) PROVE y \in ToSet(a)
      BY <1>3, <2>2 DEF ToSet
    <2>. QED
      BY <2>1, <2>2
  <1>5. ASSUME IsInjective(s), IsInjective(t), ToSet(s) \cap ToSet(t) = {} PROVE IsInjective(a)
    <2>. SUFFICES ASSUME NEW i \in DOMAIN a, NEW j \in DOMAIN a, a[i] = a[j] PROVE i = j
      BY DEF IsInjective
    <2>1. CASE i \in DOMAIN s /\ a[i] = s[i] /\ j \in DOMAIN s /\ a[j] = s[j]
      BY <1>5, <2>1 DEF IsInjective
    <2>2. CASE i - Len(s) \in DOMAIN t /\ a[i] = t[i - Len(s)] /\ j - Len(s) \in DOMAIN t /\ a[j] = t[j - Len(s)]
      <3>1. i - Len(s) = j - Len(s)
        BY <1>5, <2>2 DEF IsInjective
      <3>. QED
        BY <1>3, <3>1
    <2>3. ~(\E k \in DOMAIN s, l \in DOMAIN t : s[k] = t[l])
      BY <1>5 DEF ToSet
    <2>. QED
      BY <1>3, <2>1, <2>2, <2>3
  <1>. QED
    BY <1>1, <1>4, <1>5 DEF a

\* A listing of a finite set names each of its elements once.
LEMMA ListingsOf ==
    ASSUME NEW S, IsFiniteSet(S), NEW order \in SetToSeqs(S)
    PROVE  /\ order \in Seq(S) /\ IsInjective(order)
           /\ Len(order) = Cardinality(S) /\ DOMAIN order = 1 .. Len(order)
           /\ \A x : x \in ToSet(order) <=> x \in S
  <1>. DEFINE n == Cardinality(S)
  <1>1. n \in Nat
    BY FS_CardinalityType
  <1>2. order \in [1 .. n -> S] /\ \A i, j \in 1 .. n : i # j => order[i] # order[j]
    BY DEF SetToSeqs
  <1>3. order \in Seq(S) /\ Len(order) = n /\ DOMAIN order = 1 .. Len(order)
    BY <1>1, <1>2, SeqDef
  <1>4. order \in Injection(1 .. n, S)
    BY <1>2 DEF Injection, IsInjective
  <1>5. IsFiniteSet(1 .. n) /\ Cardinality(1 .. n) = n
    BY <1>1, FS_Interval
  <1>6. order \in Surjection(1 .. n, S)
    BY <1>4, <1>5, FS_Injection
  <1>7. \A x : x \in ToSet(order) <=> x \in S
    BY <1>2, <1>6 DEF Surjection, ToSet
  <1>8. IsInjective(order)
    BY <1>2 DEF IsInjective
  <1>. QED
    BY <1>3, <1>7, <1>8
-----------------------------------------------------------------------------
(* What is on the wire and in the agent.                                   *)

AllScales == Scales \cup Rescales
ShownType == [sequence : Nat, source : Rect, destination : Rect, visible : BOOLEAN]
CreateMessage ==
    {m \in {WindowCreate(id, parent, Width, Height) : id \in Ids, parent \in Ids \cup {0}} :
        m.parent \in Parents[m.id]}
ToAgentMessage ==
    {HelloAck} \cup {OutputConfig(s) : s \in AllScales} \cup CreateMessage
    \cup {WindowPresent(id, p) : id \in Ids, p \in ShownType}
    \cup {WindowActivate(id) : id \in Ids} \cup {WindowDestroy(id) : id \in Ids}

ProxyType ==
    [owners : Seq(Ids), alive : BOOLEAN, width : {Width}, height : {Height},
     framebuffer : {{}}, frameSequence : {0}, presentation : ShownType, physical : Rect,
     buttons : SUBSET PointerButtons, tracking : BOOLEAN, focused : BOOLEAN,
     keys : SUBSET Keys]

\* A set of at most one window, whose HWND is there.
OneAlive(s) == s = {} \/ \E id \in DOMAIN proxies : proxies[id].alive /\ s = {id}

AgentTypeOK ==
    /\ agent \in {"running", "quitting", "exited"} /\ exitCode \in {"success", "failure"}
    /\ outputScale = {} \/ \E s \in AllScales : outputScale = {s}
    /\ DOMAIN proxies \subseteq Ids /\ \A id \in DOMAIN proxies : proxies[id] \in ProxyType
    /\ DOMAIN pending \subseteq DOMAIN proxies /\ \A id \in DOMAIN pending : pending[id] \in ShownType
    /\ dispatchPosted \in BOOLEAN /\ dispatches = IF dispatchPosted THEN 1 ELSE 0
    /\ cursor \in CursorPoints /\ held \subseteq PointerButtons
    /\ OneAlive(capture) /\ OneAlive(focus)

\* A popup whose HWND is there has the owners of its parent, and its parent,
\* whose HWNDs are there as well; a window that is nobody's popup keeps its own.
PopupOf(px, id, parent) ==
    /\ px[parent].alive /\ px[id].owners = Append(px[parent].owners, parent)
    /\ \A o \in ToSet(px[id].owners) :
          o \in DOMAIN px /\ o # id /\ ToSet(px[o].owners) \subseteq ToSet(px[id].owners)
    /\ px[Head(px[id].owners)].owners = <<>>
Owned(px, id) ==
    IF px[id].owners = <<>> THEN px[id].alive
    ELSE px[id].alive => \E parent \in DOMAIN px : PopupOf(px, id, parent)
OwnersInv == \A id \in DOMAIN proxies : Owned(proxies, id)

StackInv ==
    /\ stack \in Seq(Ids) /\ IsInjective(stack)
    /\ \A id : id \in ToSet(stack) <=> id \in DOMAIN proxies /\ proxies[id].owners = <<>>

ExporterTypeOK ==
    /\ sent \in Nat
    /\ newest \in [Ids -> [sequence : Nat, visible : BOOLEAN]]
    /\ unacked \in [Ids -> SUBSET Nat]
    /\ front \subseteq Ids

WireTypeOK ==
    /\ toAgent \in Seq(ToAgentMessage)
    /\ serverSocket \in {"open", "closed"} /\ agentSocket \in {"open", "closed"}

TypeInv == AgentTypeOK /\ OwnersInv /\ StackInv /\ ExporterTypeOK /\ WireTypeOK
-----------------------------------------------------------------------------
\* What a message to the agent is, by its type.
LEMMA ToAgentKinds ==
    ASSUME NEW m \in ToAgentMessage
    PROVE  /\ m.type = "OUTPUT_CONFIG" => \E s \in AllScales : m = OutputConfig(s)
           /\ m.type = "WINDOW_CREATE" =>
                 \E id \in Ids : \E parent \in Parents[id] : m = WindowCreate(id, parent, Width, Height)
           /\ m.type = "WINDOW_PRESENT" => \E id \in Ids, p \in ShownType : m = WindowPresent(id, p)
           /\ m.type = "WINDOW_ACTIVATE" => \E id \in Ids : m = WindowActivate(id)
           /\ m.type = "WINDOW_DESTROY" => \E id \in Ids : m = WindowDestroy(id)
           /\ m.type \in {"HELLO_ACK", "OUTPUT_CONFIG", "WINDOW_CREATE", "WINDOW_PRESENT",
                          "WINDOW_ACTIVATE", "WINDOW_DESTROY"}
  <1>1. \A id, parent : LET c == WindowCreate(id, parent, Width, Height)
                         IN  c.id = id /\ c.parent = parent /\ c.type = "WINDOW_CREATE"
    BY DEF WindowCreate
  <1>2. m \in CreateMessage =>
           \E id \in Ids : \E parent \in Parents[id] : m = WindowCreate(id, parent, Width, Height)
    <2>. SUFFICES ASSUME m \in CreateMessage
                  PROVE  \E id \in Ids : \E parent \in Parents[id] : m = WindowCreate(id, parent, Width, Height)
      OBVIOUS
    <2>1. PICK id \in Ids, parent \in Ids \cup {0} : m = WindowCreate(id, parent, Width, Height)
      BY DEF CreateMessage
    <2>2. parent \in Parents[id]
      BY <1>1, <2>1 DEF CreateMessage
    <2>. QED
      BY <2>1, <2>2
  <1>3. m \in CreateMessage => m.type = "WINDOW_CREATE"
    BY <1>1, <1>2
  <1>. QED
    BY <1>2, <1>3 DEF ToAgentMessage, HelloAck, OutputConfig, WindowPresent, WindowActivate,
         WindowDestroy

\* The messages the exporter makes are messages to the agent.
LEMMA ToAgentForms ==
    /\ HelloAck \in ToAgentMessage
    /\ \A s \in AllScales : OutputConfig(s) \in ToAgentMessage
    /\ \A id \in Ids : \A parent \in Parents[id] : WindowCreate(id, parent, Width, Height) \in ToAgentMessage
    /\ \A id \in Ids, p \in ShownType : WindowPresent(id, p) \in ToAgentMessage
    /\ \A id \in Ids : WindowActivate(id) \in ToAgentMessage /\ WindowDestroy(id) \in ToAgentMessage
  <1>1. ASSUME NEW id \in Ids, NEW parent \in Parents[id]
        PROVE  WindowCreate(id, parent, Width, Height) \in CreateMessage
    <2>1. parent \in Ids \cup {0}
      BY ExporterAssumption
    <2>2. /\ WindowCreate(id, parent, Width, Height).id = id
          /\ WindowCreate(id, parent, Width, Height).parent = parent
      BY DEF WindowCreate
    <2>. QED
      BY <2>1, <2>2 DEF CreateMessage
  <1>. QED
    BY <1>1 DEF ToAgentMessage

\* A numbered region is a presentation.
LEMMA PresentationType ==
    ASSUME NEW r \in Regions, NEW n \in Nat
    PROVE  /\ Presentation(r, n) \in ShownType /\ r.visible \in BOOLEAN
           /\ Presentation(r, n).sequence = n /\ Presentation(r, n).visible = r.visible
           /\ Presentation(r, n).destination = r.destination
  BY ExporterAssumption DEF Presentation, ShownType

\* The output scales are valid scales (cw_scale_is_valid).
LEMMA ScalesAreScales == \A s \in AllScales : s \in Scale /\ ScaleIsValid(s)
  BY ExporterAssumption DEF AllScales

\* A window of its own and a popup, seen from its top-level window.
LEMMA OwnersFacts ==
    ASSUME AgentTypeOK, OwnersInv, NEW id \in DOMAIN proxies, proxies[id].alive
    PROVE  /\ TopLevel(id) \in DOMAIN proxies /\ proxies[TopLevel(id)].owners = <<>>
           /\ \A o \in ToSet(proxies[id].owners) :
                 /\ o \in DOMAIN proxies /\ o # id
                 /\ ToSet(proxies[o].owners) \subseteq ToSet(proxies[id].owners)
           /\ FocusOf(id) \in DOMAIN proxies /\ proxies[FocusOf(id)].alive
           /\ ~IsPopup(id) => FocusOf(id) = id /\ TopLevel(id) = id
  <1>1. CASE proxies[id].owners = <<>>
    <2>1. ToSet(<<>>) = {}
      BY DEF ToSet
    <2>. QED
      BY <1>1, <2>1 DEF TopLevel, IsPopup, FocusOf
  <1>2. CASE proxies[id].owners # <<>>
    <2>1. PICK parent \in DOMAIN proxies : PopupOf(proxies, id, parent)
      BY <1>2 DEF OwnersInv, Owned
    <2>2. proxies[parent].owners \in Seq(Ids) /\ parent \in Ids /\ proxies[id].owners \in Seq(Ids)
      BY DEF AgentTypeOK, ProxyType
    <2>3. Last(proxies[id].owners) = parent
      BY <2>1, <2>2, AppendedOnce DEF PopupOf
    <2>4. Head(proxies[id].owners) \in ToSet(proxies[id].owners)
      BY <1>2, <2>2 DEF ToSet
    <2>. QED
      BY <1>2, <2>1, <2>3, <2>4 DEF TopLevel, IsPopup, FocusOf, PopupOf
  <1>. QED
    BY <1>1, <1>2
-----------------------------------------------------------------------------
(* What the user and Win32 may do to the agent.                            *)

\* What an action of the user leaves of a proxy.
SameButForInput(a, b) ==
    /\ a.owners = b.owners /\ a.alive = b.alive
    /\ a.presentation = b.presentation /\ a.physical = b.physical
InputChanges(new) ==
    /\ DOMAIN new = DOMAIN proxies
    /\ \A id \in DOMAIN proxies : new[id] \in ProxyType /\ SameButForInput(new[id], proxies[id])

\* One window's input state changes, and the rest of every window stays.
LEMMA OneChange ==
    ASSUME AgentTypeOK, NEW id \in DOMAIN proxies
    PROVE  /\ InputChanges(proxies)
           /\ \A t \in BOOLEAN : InputChanges([proxies EXCEPT ![id].tracking = t])
           /\ \A t \in SUBSET PointerButtons : InputChanges([proxies EXCEPT ![id].buttons = t])
           /\ \A t \in SUBSET Keys : InputChanges([proxies EXCEPT ![id].keys = t])
           /\ InputChanges([proxies EXCEPT ![id] = Unfocused(id)])
  <1>1. \A i \in DOMAIN proxies : proxies[i] \in ProxyType /\ SameButForInput(proxies[i], proxies[i])
    BY DEF AgentTypeOK, SameButForInput
  <1>2. \A new \in ProxyType : SameButForInput(new, proxies[id]) =>
           InputChanges([proxies EXCEPT ![id] = new])
    <2>. HIDE DEF SameButForInput
    <2>. QED
      BY <1>1 DEF InputChanges
  <1>3. /\ \A t \in BOOLEAN : LET new == [proxies[id] EXCEPT !.tracking = t]
                              IN  new \in ProxyType /\ SameButForInput(new, proxies[id])
        /\ \A t \in SUBSET PointerButtons : LET new == [proxies[id] EXCEPT !.buttons = t]
                                            IN  new \in ProxyType /\ SameButForInput(new, proxies[id])
        /\ \A t \in SUBSET Keys : LET new == [proxies[id] EXCEPT !.keys = t]
                                  IN  new \in ProxyType /\ SameButForInput(new, proxies[id])
        /\ LET new == Unfocused(id) IN  new \in ProxyType /\ SameButForInput(new, proxies[id])
    BY <1>1 DEF ProxyType, SameButForInput, Unfocused
  <1>4. InputChanges(proxies)
    BY <1>1 DEF InputChanges
  <1>5. \A t \in BOOLEAN : [proxies EXCEPT ![id].tracking = t]
           = [proxies EXCEPT ![id] = [proxies[id] EXCEPT !.tracking = t]]
    OBVIOUS
  <1>6. \A t \in SUBSET PointerButtons : [proxies EXCEPT ![id].buttons = t]
           = [proxies EXCEPT ![id] = [proxies[id] EXCEPT !.buttons = t]]
    OBVIOUS
  <1>7. \A t \in SUBSET Keys : [proxies EXCEPT ![id].keys = t]
           = [proxies EXCEPT ![id] = [proxies[id] EXCEPT !.keys = t]]
    OBVIOUS
  <1>. HIDE DEF SameButForInput, InputChanges
  <1>. QED
    BY <1>2, <1>3, <1>4, <1>5, <1>6, <1>7

\* The proxies after a change of focus to f, field by field.
LEMMA FocusedOnFacts ==
    ASSUME AgentTypeOK, NEW f \in DOMAIN proxies
    PROVE  /\ DOMAIN FocusedOn(f) = DOMAIN proxies
           /\ \A i \in DOMAIN proxies :
                 /\ FocusedOn(f)[i] \in ProxyType /\ SameButForInput(FocusedOn(f)[i], proxies[i])
                 /\ FocusedOn(f)[i].buttons = proxies[i].buttons
                 /\ FocusedOn(f)[i].tracking = proxies[i].tracking
                 /\ FocusedOn(f)[i].focused = IF i = f THEN ~IsPopup(i)
                                              ELSE IF i \in focus THEN FALSE ELSE proxies[i].focused
                 /\ FocusedOn(f)[i].keys = IF i # f /\ i \in focus THEN {} ELSE proxies[i].keys
  <1>1. \A i \in DOMAIN proxies : proxies[i] \in ProxyType
    BY DEF AgentTypeOK
  <1>2. DOMAIN FocusedOn(f) = DOMAIN proxies
    BY DEF FocusedOn
  <1>3. ASSUME NEW i \in DOMAIN proxies
        PROVE  /\ FocusedOn(f)[i] \in ProxyType /\ SameButForInput(FocusedOn(f)[i], proxies[i])
               /\ FocusedOn(f)[i].buttons = proxies[i].buttons
               /\ FocusedOn(f)[i].tracking = proxies[i].tracking
               /\ FocusedOn(f)[i].focused = IF i = f THEN ~IsPopup(i)
                                            ELSE IF i \in focus THEN FALSE ELSE proxies[i].focused
               /\ FocusedOn(f)[i].keys = IF i # f /\ i \in focus THEN {} ELSE proxies[i].keys
    <2>1. FocusedOn(f)[i] = IF i = f THEN [proxies[i] EXCEPT !.focused = ~IsPopup(i)]
                            ELSE IF i \in focus THEN Unfocused(i) ELSE proxies[i]
      BY DEF FocusedOn
    <2>2. (~IsPopup(i)) \in BOOLEAN
      BY DEF IsPopup
    <2>3. CASE i = f
      <3>1. FocusedOn(f)[i] = [proxies[i] EXCEPT !.focused = ~IsPopup(i)]
        BY <2>1, <2>3
      <3>. QED
        BY <1>1, <2>2, <2>3, <3>1 DEF ProxyType, SameButForInput
    <2>4. CASE i # f /\ i \in focus
      <3>1. FocusedOn(f)[i] = Unfocused(i)
        BY <2>1, <2>4
      <3>. QED
        BY <1>1, <2>4, <3>1 DEF ProxyType, SameButForInput, Unfocused
    <2>5. CASE i # f /\ i \notin focus
      <3>1. FocusedOn(f)[i] = proxies[i]
        BY <2>1, <2>5
      <3>. QED
        BY <1>1, <2>5, <3>1 DEF ProxyType, SameButForInput
    <2>. QED
      BY <2>3, <2>4, <2>5
  <1>. QED
    BY <1>2, <1>3

\* The same with a button down on a window.
PressedOn(f, id, button) == [FocusedOn(f) EXCEPT ![id].buttons = @ \cup {button}]
\* What a press makes of the windows g that the focus change left.
PressedFrom(g, id, button, new) ==
    /\ DOMAIN new = DOMAIN proxies
    /\ \A i \in DOMAIN proxies :
          /\ new[i] \in ProxyType /\ SameButForInput(new[i], proxies[i])
          /\ new[i].buttons = IF i = id THEN proxies[i].buttons \cup {button} ELSE proxies[i].buttons
          /\ new[i].tracking = proxies[i].tracking
          /\ new[i].focused = g[i].focused
          /\ new[i].keys = g[i].keys

\* A press changes the buttons of one window after the focus has moved.
LEMMA PressedOnFacts ==
    ASSUME AgentTypeOK, NEW f \in DOMAIN proxies, NEW id \in DOMAIN proxies, NEW button \in PointerButtons
    PROVE  PressedFrom(FocusedOn(f), id, button, PressedOn(f, id, button))
  <1>. DEFINE g == FocusedOn(f)
              new == PressedOn(f, id, button)
  <1>1. /\ DOMAIN g = DOMAIN proxies
        /\ \A i \in DOMAIN proxies :
                 /\ g[i] \in ProxyType /\ SameButForInput(g[i], proxies[i])
                 /\ g[i].buttons = proxies[i].buttons
                 /\ g[i].tracking = proxies[i].tracking
    BY FocusedOnFacts
  <1>2. new = [g EXCEPT ![id].buttons = @ \cup {button}]
    BY DEF PressedOn
  <1>. HIDE DEF g, new
  <1>3. DOMAIN new = DOMAIN proxies /\ \A i \in DOMAIN proxies :
           new[i] = IF i = id THEN [g[id] EXCEPT !.buttons = @ \cup {button}] ELSE g[i]
    BY <1>1, <1>2
  <1>4. new[id] = [g[id] EXCEPT !.buttons = @ \cup {button}] /\ g[id] \in ProxyType
    BY <1>1, <1>3
  <1>5. /\ new[id] \in ProxyType /\ SameButForInput(new[id], g[id])
        /\ new[id].buttons = g[id].buttons \cup {button}
        /\ new[id].tracking = g[id].tracking /\ new[id].focused = g[id].focused
        /\ new[id].keys = g[id].keys
    BY <1>4 DEF ProxyType, SameButForInput
  <1>6. SameButForInput(new[id], proxies[id])
    BY <1>1, <1>5 DEF SameButForInput
  <1>. HIDE DEF SameButForInput
  <1>7. DOMAIN new = DOMAIN proxies
    BY <1>3
  <1>8. ASSUME NEW i \in DOMAIN proxies
        PROVE  /\ new[i] \in ProxyType /\ SameButForInput(new[i], proxies[i])
               /\ new[i].buttons = IF i = id THEN proxies[i].buttons \cup {button} ELSE proxies[i].buttons
               /\ new[i].tracking = proxies[i].tracking
               /\ new[i].focused = g[i].focused
               /\ new[i].keys = g[i].keys
    BY <1>1, <1>3, <1>5, <1>6
  <1>9. PressedFrom(g, id, button, new)
    BY <1>7, <1>8 DEF PressedFrom
  <1>. QED
    BY <1>9 DEF g, new

\* Mouse messages come to a window that is there.
LEMMA TargetsAreAlive ==
    ASSUME AgentTypeOK, NEW point, NEW id \in Target(point)
    PROVE  id \in DOMAIN proxies /\ proxies[id].alive
  BY DEF Target, AgentTypeOK, OneAlive, Covers, IsShown

Raises == \E f \in DOMAIN proxies : proxies[f].alive /\ stack' = Raised(f) /\ focus' # focus
UserEffect ==
    /\ agent = "running"
    /\ UNCHANGED <<applicationVars, toAgent, serverSocket, agentSocket>>
    /\ InputChanges(proxies')
    /\ OneAlive(capture') /\ OneAlive(focus')
    /\ held' \subseteq PointerButtons /\ cursor' \in CursorPoints
    /\ UNCHANGED stack \/ Raises

\* What any mouse or keyboard message can do to windows, capture, focus and stack.
LEMMA UserEffects ==
    ASSUME AgentTypeOK, OwnersInv, PointerStep \/ FocusStep
    PROVE  UserEffect
  <1>1. /\ \A id \in DOMAIN proxies : proxies[id] \in ProxyType
        /\ OneAlive(capture) /\ OneAlive(focus) /\ OneAlive({})
        /\ held \subseteq PointerButtons /\ cursor \in CursorPoints
    BY DEF AgentTypeOK, OneAlive
  <1>2. \A id \in DOMAIN proxies : proxies[id].buttons \subseteq PointerButtons /\ proxies[id].keys \subseteq Keys
    BY <1>1 DEF ProxyType
  <1>3. InputChanges(proxies)
    BY DEF InputChanges, AgentTypeOK, SameButForInput
  <1>m. ASSUME NEW point \in CursorPoints, MouseMove(point) PROVE UserEffect
    <2>1. /\ agent = "running" /\ cursor' = point
          /\ UNCHANGED <<applicationVars, held, capture, focus, stack>>
      BY <1>m DEF MouseMove
    <2>2. CASE UNCHANGED <<wireVars, proxies>>
      BY <1>1, <1>3, <2>1, <2>2 DEF UserEffect, wireVars
    <2>3. ASSUME NEW id \in Target(point), proxies' = [proxies EXCEPT ![id].tracking = TRUE],
                 NEW x, Send(x)
          PROVE  UserEffect
      <3>1. InputChanges(proxies')
        BY <2>3, TargetsAreAlive, OneChange
      <3>. QED
        BY <1>1, <2>1, <2>3, <3>1 DEF UserEffect, Send
    <2>. QED
      BY <1>m, <2>2, <2>3, Zenon DEF MouseMove
  <1>l. ASSUME NEW id \in DOMAIN proxies, MouseLeave(id) PROVE UserEffect
    <2>1. /\ agent = "running" /\ UNCHANGED <<applicationVars, desktopVars>>
          /\ proxies' = [proxies EXCEPT ![id].tracking = FALSE]
      BY <1>l DEF MouseLeave
    <2>2. UNCHANGED <<toAgent, serverSocket, agentSocket>>
      BY <1>l DEF MouseLeave, Send, wireVars
    <2>3. InputChanges(proxies')
      BY <2>1, OneChange
    <2>. QED
      BY <1>1, <2>1, <2>2, <2>3 DEF UserEffect, desktopVars
  <1>w. ASSUME MouseWheel PROVE UserEffect
    <2>1. UNCHANGED agentVars /\ agent = "running" /\ UNCHANGED <<toAgent, serverSocket, agentSocket>>
      BY <1>w DEF MouseWheel, Send
    <2>2. UNCHANGED <<applicationVars, proxies, cursor, held, capture, focus, stack>>
      BY <2>1 DEF agentVars, desktopVars
    <2>. QED
      BY <1>1, <1>3, <2>1, <2>2 DEF UserEffect
  <1>d. ASSUME NEW button \in PointerButtons, ButtonDown(button) PROVE UserEffect
    <2>1. /\ agent = "running" /\ held' = held \cup {button}
          /\ UNCHANGED <<applicationVars, cursor>>
      BY <1>d DEF ButtonDown
    <2>2. CASE UNCHANGED <<wireVars, proxies, capture, focus, stack>>
      BY <1>1, <1>3, <2>1, <2>2 DEF UserEffect, wireVars
    <2>3. ASSUME NEW id \in Target(cursor), NEW f, f = FocusOf(id), focus' = {f}, stack' = Activated(f),
                 \/ /\ proxies' = [FocusedOn(f) EXCEPT ![id].buttons = @ \cup {button}]
                    /\ capture' = {id}
                 \/ /\ proxies' = FocusedOn(f)
                    /\ UNCHANGED capture,
                 NEW x, Send(x)
          PROVE  UserEffect
      <3>1. id \in DOMAIN proxies /\ proxies[id].alive
        BY TargetsAreAlive
      <3>2. f \in DOMAIN proxies /\ proxies[f].alive
        BY <2>3, <3>1, OwnersFacts
      <3>3. InputChanges(proxies')
        <4>1. CASE proxies' = FocusedOn(f)
          BY <3>2, <4>1, FocusedOnFacts DEF InputChanges
        <4>2. CASE proxies' = [FocusedOn(f) EXCEPT ![id].buttons = @ \cup {button}]
          <5>1. proxies' = PressedOn(f, id, button)
            BY <4>2 DEF PressedOn
          <5>. DEFINE new == PressedOn(f, id, button)
          <5>2. PressedFrom(FocusedOn(f), id, button, new)
            BY <3>1, <3>2, PressedOnFacts
          <5>3. InputChanges(new)
            <6>. HIDE DEF new
            <6>. QED
              BY <5>2 DEF PressedFrom, InputChanges
          <5>. QED
            BY <5>1, <5>3
        <4>. QED
          BY <2>3, <4>1, <4>2
      <3>4. OneAlive(capture') /\ OneAlive(focus')
        BY <1>1, <2>3, <3>1, <3>2 DEF OneAlive
      <3>5. UNCHANGED stack \/ Raises
        BY <2>3, <3>2 DEF Activated, Raises
      <3>. QED
        BY <1>1, <2>1, <2>3, <3>3, <3>4, <3>5 DEF UserEffect, Send
    <2>. QED
      BY <1>d, <2>2, <2>3, Zenon DEF ButtonDown
  <1>u. ASSUME NEW button \in PointerButtons, ButtonUp(button) PROVE UserEffect
    <2>1. /\ agent = "running" /\ held' = held \ {button}
          /\ UNCHANGED <<applicationVars, cursor, focus, stack>>
      BY <1>u DEF ButtonUp
    <2>2. CASE UNCHANGED <<wireVars, proxies, capture>>
      BY <1>1, <1>3, <2>1, <2>2 DEF UserEffect, wireVars
    <2>3. ASSUME NEW id \in Target(cursor),
                 proxies' = [proxies EXCEPT ![id].buttons = @ \ {button}],
                 capture' = IF proxies'[id].buttons = {} THEN capture \ {id} ELSE capture,
                 NEW x, Send(x)
          PROVE  UserEffect
      <3>1. id \in DOMAIN proxies
        BY TargetsAreAlive
      <3>2. InputChanges(proxies')
        <4>1. proxies[id].buttons \ {button} \in SUBSET PointerButtons
          BY <1>2, <3>1
        <4>. QED
          BY <2>3, <3>1, <4>1, OneChange
      <3>3. OneAlive(capture')
        BY <1>1, <2>3 DEF OneAlive
      <3>. QED
        BY <1>1, <2>1, <2>3, <3>2, <3>3 DEF UserEffect, Send
    <2>. QED
      BY <1>u, <2>2, <2>3, Zenon DEF ButtonUp
  <1>t. ASSUME CaptureTaken PROVE UserEffect
    <2>1. /\ agent = "running" /\ capture' = {}
          /\ UNCHANGED <<applicationVars, cursor, held, focus, stack>>
      BY <1>t DEF CaptureTaken
    <2>2. PICK id \in capture : proxies' = [proxies EXCEPT ![id].buttons = {}] /\ Send(LoseCapture(id))
      BY <1>t DEF CaptureTaken
    <2>3. id \in DOMAIN proxies
      BY <1>1, <2>2 DEF OneAlive
    <2>4. InputChanges(proxies')
      BY <2>2, <2>3, OneChange
    <2>. QED
      BY <1>1, <2>1, <2>2, <2>4 DEF UserEffect, Send
  <1>f. ASSUME FocusLeaves PROVE UserEffect
    <2>1. /\ agent = "running" /\ focus' = {}
          /\ UNCHANGED <<applicationVars, cursor, held, capture, stack>>
      BY <1>f DEF FocusLeaves
    <2>2. PICK id \in focus : proxies' = [proxies EXCEPT ![id] = Unfocused(id)] /\ Send(LoseFocus(id))
      BY <1>f DEF FocusLeaves
    <2>3. id \in DOMAIN proxies
      BY <1>1, <2>2 DEF OneAlive
    <2>4. InputChanges(proxies')
      BY <2>2, <2>3, OneChange
    <2>. QED
      BY <1>1, <2>1, <2>2, <2>4 DEF UserEffect, Send
  <1>c. ASSUME NEW id \in DOMAIN proxies, FocusComes(id) PROVE UserEffect
    <2>1. /\ agent = "running" /\ proxies[id].alive /\ focus = {} /\ focus' = {id}
          /\ stack' = Raised(id) /\ proxies' = FocusedOn(id)
          /\ UNCHANGED <<applicationVars, cursor, held, capture>>
          /\ UNCHANGED <<toAgent, serverSocket, agentSocket>>
      BY <1>c DEF FocusComes, Send
    <2>2. InputChanges(proxies')
      BY <2>1, FocusedOnFacts DEF InputChanges
    <2>3. OneAlive(focus') /\ Raises
      BY <2>1 DEF OneAlive, Raises
    <2>. QED
      BY <1>1, <2>1, <2>2, <2>3 DEF UserEffect
  <1>k. ASSUME NEW key \in Keys, NEW down \in BOOLEAN, Key(key, down) PROVE UserEffect
    <2>1. agent = "running" /\ UNCHANGED <<applicationVars, desktopVars>>
      BY <1>k DEF Key
    <2>2. PICK id \in focus :
             /\ proxies' = [proxies EXCEPT ![id].keys = IF down THEN @ \cup {key} ELSE @ \ {key}]
             /\ Send(<<KeyboardKey(id, key, down)>>)
      BY <1>k DEF Key
    <2>3. id \in DOMAIN proxies
      BY <1>1, <2>2 DEF OneAlive
    <2>. DEFINE keys == IF down THEN proxies[id].keys \cup {key} ELSE proxies[id].keys \ {key}
    <2>4. keys \in SUBSET Keys
      BY <1>2, <2>3
    <2>5. proxies' = [proxies EXCEPT ![id].keys = keys]
      BY <2>2
    <2>. HIDE DEF keys
    <2>6. InputChanges(proxies')
      BY <2>3, <2>4, <2>5, OneChange
    <2>. QED
      BY <1>1, <2>1, <2>2, <2>6 DEF UserEffect, Send, desktopVars
  <1>. QED
    BY <1>m, <1>l, <1>w, <1>d, <1>u, <1>t, <1>f, <1>c, <1>k DEF PointerStep, FocusStep
-----------------------------------------------------------------------------
\* The windows are finitely many.
LEMMA FiniteIds == IsFiniteSet(Ids) /\ \A S \in SUBSET Ids : IsFiniteSet(S)
  BY ExporterAssumption, FS_Subset

\* Physical rectangles are rectangles.
LEMMA PhysicalType ==
    ASSUME NEW p
    PROVE  PhysicalDestination(p) \subseteq Rect
  <1>1. \A s : LogicalRectToPhysical(p.destination, s) \subseteq Rect
    BY DEF LogicalRectToPhysical
  <1>. QED
    BY <1>1 DEF PhysicalDestination

\* What a new window shows is typed.
LEMMA EmptyType == Hidden \in ShownType /\ EmptyRect \in Rect
  <1>1. 0 \in I32
    BY MaxIntAssumption DEF I32
  <1>2. EmptyRect \in Rect
    BY <1>1 DEF EmptyRect, Rect
  <1>. QED
    BY <1>2 DEF Hidden, ShownType

\* Owners and HWNDs are as they were, whatever windows there are besides.
KeepsOwners(old, new) ==
    /\ DOMAIN old \subseteq DOMAIN new
    /\ \A id \in DOMAIN old : new[id].owners = old[id].owners /\ new[id].alive = old[id].alive

\* A popup keeps the chain it belongs to when its owners stay as they were.
LEMMA PopupKept ==
    ASSUME NEW old, NEW new, KeepsOwners(old, new), NEW id \in DOMAIN old, Owned(old, id),
           old[id].owners \in Seq(Ids)
    PROVE  Owned(new, id)
  <1>1. new[id].owners = old[id].owners /\ new[id].alive = old[id].alive
    BY DEF KeepsOwners
  <1>2. CASE old[id].owners = <<>>
    BY <1>1, <1>2 DEF Owned
  <1>3. CASE old[id].owners # <<>> /\ old[id].alive
    <2>1. PICK parent \in DOMAIN old : PopupOf(old, id, parent)
      BY <1>3 DEF Owned
    <2>2. Head(old[id].owners) \in ToSet(old[id].owners)
      BY <1>3 DEF ToSet
    <2>3. Head(old[id].owners) \in DOMAIN old
      BY <2>1, <2>2 DEF PopupOf
    <2>4. PopupOf(new, id, parent)
      BY <1>1, <2>1, <2>3 DEF KeepsOwners, PopupOf
    <2>. QED
      BY <1>1, <1>3, <2>1, <2>4 DEF Owned, KeepsOwners
  <1>. QED
    BY <1>1, <1>2, <1>3 DEF Owned

AppInv == AgentTypeOK /\ OwnersInv /\ StackInv

\* Owners and stack are as they were when no window came, went or was raised.
LEMMA OwnersKept ==
    ASSUME AppInv, KeepsOwners(proxies, proxies'), DOMAIN proxies' = DOMAIN proxies
    PROVE  OwnersInv' /\ (UNCHANGED stack => StackInv')
  <1>1. \A id \in DOMAIN proxies : proxies[id].owners \in Seq(Ids)
    BY DEF AppInv, AgentTypeOK, ProxyType
  <1>2. \A id \in DOMAIN proxies : Owned(proxies', id)
    BY <1>1, PopupKept DEF OwnersInv, AppInv
  <1>. QED
    BY <1>2 DEF OwnersInv, KeepsOwners, StackInv, AppInv

\* Raising a window puts its top-level window last and loses none.
LEMMA RaisedType ==
    ASSUME AppInv, NEW id \in DOMAIN proxies, proxies[id].alive
    PROVE  /\ Raised(id) \in Seq(Ids) /\ IsInjective(Raised(id))
           /\ \A i : i \in ToSet(Raised(id)) <=> i \in ToSet(stack)
           /\ Last(Raised(id)) = TopLevel(id)
  <1>. DEFINE top == TopLevel(id)
              rest == Removed(stack, {top})
  <1>1. top \in DOMAIN proxies /\ proxies[top].owners = <<>>
    BY OwnersFacts DEF AppInv
  <1>2. stack \in Seq(Ids) /\ IsInjective(stack) /\ top \in ToSet(stack) /\ top \in Ids
    BY <1>1 DEF AppInv, StackInv, AgentTypeOK
  <1>3. /\ rest \in Seq(Ids) /\ IsInjective(rest)
        /\ \A i : i \in ToSet(rest) <=> i \in ToSet(stack) /\ i # top
    BY <1>2, RemovedProperties
  <1>4. Raised(id) = Append(rest, top)
    BY DEF Raised
  <1>. HIDE DEF rest, top
  <1>5. /\ Raised(id) \in Seq(Ids) /\ IsInjective(Raised(id)) /\ Last(Raised(id)) = top
        /\ \A i : i \in ToSet(Raised(id)) <=> i \in ToSet(rest) \/ i = top
    BY <1>2, <1>3, <1>4, AppendedOnce
  <1>. QED
    BY <1>2, <1>3, <1>5 DEF top

\* The user's messages leave everything typed.
LEMMA UserKeepsTypes ==
    ASSUME AppInv, UserEffect
    PROVE  AppInv'
  <1>1. /\ UNCHANGED <<agent, exitCode, outputScale, pending, dispatchPosted, dispatches>>
        /\ DOMAIN proxies' = DOMAIN proxies
        /\ \A id \in DOMAIN proxies : proxies'[id] \in ProxyType
        /\ KeepsOwners(proxies, proxies')
    BY DEF UserEffect, applicationVars, InputChanges, SameButForInput, KeepsOwners
  <1>2. AgentTypeOK'
    <2>1. OneAlive(capture)' /\ OneAlive(focus)'
      BY <1>1 DEF UserEffect, OneAlive, KeepsOwners
    <2>. QED
      BY <1>1, <2>1 DEF UserEffect, AppInv, AgentTypeOK
  <1>3. StackInv'
    <2>1. CASE UNCHANGED stack
      BY <1>1, <2>1, OwnersKept
    <2>2. CASE Raises
      <3>1. /\ stack' \in Seq(Ids) /\ IsInjective(stack')
            /\ \A i : i \in ToSet(stack') <=> i \in ToSet(stack)
        BY <2>2, RaisedType DEF Raises
      <3>. QED
        BY <1>1, <3>1 DEF StackInv, AppInv, KeepsOwners
    <2>. QED
      BY <2>1, <2>2 DEF UserEffect
  <1>. QED
    BY <1>1, <1>2, <1>3, OwnersKept DEF AppInv

\* A new window has the owners of its parent and then its parent (apply_create).
LEMMA CreateKeepsTypes ==
    ASSUME AppInv, NEW id \in Ids, NEW parent \in Parents[id],
           AgentArrival = WindowCreate(id, parent, Width, Height), ReceiveCreate
    PROVE  AppInv'
  <1>1. AgentArrival.id = id /\ AgentArrival.parent = parent /\ AgentArrival.width = Width /\ AgentArrival.height = Height
    BY DEF WindowCreate
  <1>. DEFINE px == NewProxy(AgentArrival)
  <1>2. /\ id \notin DOMAIN proxies
        /\ parent # 0 => parent \in DOMAIN proxies /\ proxies[parent].alive
        /\ proxies' = [i \in DOMAIN proxies \cup {id} |-> IF i = id THEN px ELSE proxies[i]]
        /\ stack' = IF parent = 0 THEN Append(stack, id) ELSE stack
        /\ UNCHANGED <<applicationVars, cursor, held, capture, focus>>
    BY <1>1 DEF ReceiveCreate, CanCreate
  <1>3. \A i \in DOMAIN proxies : proxies[i] \in ProxyType /\ i \in Ids
    BY DEF AppInv, AgentTypeOK
  <1>4. OwnersOf(parent) \in Seq(Ids)
    <2>1. CASE parent = 0
      BY <2>1 DEF OwnersOf
    <2>2. CASE parent # 0
      <3>1. proxies[parent].owners \in Seq(Ids) /\ parent \in Ids
        BY <1>2, <1>3, <2>2 DEF ProxyType
      <3>. QED
        BY <2>2, <3>1, AppendedOnce DEF OwnersOf
    <2>. QED
      BY <2>1, <2>2
  <1>5. px.owners = OwnersOf(parent) /\ px.alive = TRUE
    BY <1>1 DEF NewProxy
  <1>6. px \in ProxyType
    BY <1>1, <1>4, EmptyType DEF NewProxy, ProxyType
  <1>. HIDE DEF px
  <1>7. /\ DOMAIN proxies' = DOMAIN proxies \cup {id} /\ proxies'[id] = px
        /\ \A i \in DOMAIN proxies : proxies'[i] = proxies[i] /\ i # id
    BY <1>2
  <1>8. AgentTypeOK'
    <2>1. \A s : OneAlive(s) => OneAlive(s)'
      BY <1>7 DEF OneAlive
    <2>2. UNCHANGED <<agent, exitCode, outputScale, pending, dispatchPosted, dispatches, cursor, held, capture, focus>>
      BY <1>2 DEF applicationVars
    <2>. QED
      BY <1>3, <1>6, <1>7, <2>1, <2>2 DEF AgentTypeOK, AppInv
  <1>9. OwnersInv'
    <2>1. ASSUME NEW i \in DOMAIN proxies PROVE Owned(proxies', i)
      <3>1. KeepsOwners(proxies, proxies')
        BY <1>7 DEF KeepsOwners
      <3>2. proxies[i].owners \in Seq(Ids)
        BY <1>3 DEF ProxyType
      <3>. QED
        BY <3>1, <3>2, PopupKept DEF AppInv, OwnersInv
    <2>2. Owned(proxies', id)
      <3>1. CASE parent = 0
        BY <1>5, <1>7, <3>1 DEF Owned, OwnersOf
      <3>2. CASE parent # 0
        <4>. DEFINE up == proxies[parent].owners
        <4>1. parent \in DOMAIN proxies /\ proxies[parent].alive /\ parent \in Ids /\ up \in Seq(Ids)
          BY <1>2, <1>3, <3>2 DEF ProxyType
        <4>2. px.owners = Append(up, parent)
          BY <1>5, <3>2 DEF OwnersOf
        <4>3. /\ \A o : o \in ToSet(px.owners) <=> o \in ToSet(up) \/ o = parent
              /\ px.owners # <<>>
          BY <4>1, <4>2, AppendedOnce
        <4>4. \A o \in ToSet(up) : o \in DOMAIN proxies /\ ToSet(proxies[o].owners) \subseteq ToSet(up)
          BY <4>1, OwnersFacts DEF AppInv
        <4>5. Head(px.owners) \in DOMAIN proxies /\ proxies[Head(px.owners)].owners = <<>>
          <5>1. CASE up = <<>>
            BY <4>1, <4>2, <5>1
          <5>2. CASE up # <<>>
            <6>1. Head(px.owners) = Head(up)
              BY <4>1, <4>2, <5>2
            <6>2. Head(up) = TopLevel(parent)
              BY <5>2 DEF TopLevel, IsPopup
            <6>. QED
              BY <4>1, <6>1, <6>2, OwnersFacts DEF AppInv
          <5>. QED
            BY <5>1, <5>2
        <4>6. PopupOf(proxies', id, parent)
          BY <1>7, <4>1, <4>2, <4>3, <4>4, <4>5 DEF PopupOf
        <4>. QED
          BY <1>7, <4>1, <4>3, <4>6 DEF Owned
      <3>. QED
        BY <3>1, <3>2
    <2>. QED
      BY <1>7, <2>1, <2>2 DEF OwnersInv
  <1>10. StackInv'
    <2>1. CASE parent = 0
      <3>1. id \notin ToSet(stack) /\ stack \in Seq(Ids) /\ IsInjective(stack)
        BY <1>2 DEF AppInv, StackInv
      <3>2. /\ stack' \in Seq(Ids) /\ IsInjective(stack')
            /\ \A i : i \in ToSet(stack') <=> i \in ToSet(stack) \/ i = id
        BY <1>2, <2>1, <3>1, AppendedOnce
      <3>3. px.owners = <<>>
        BY <1>5, <2>1 DEF OwnersOf
      <3>. QED
        BY <1>7, <3>2, <3>3 DEF AppInv, StackInv
    <2>2. CASE parent # 0
      <3>1. px.owners # <<>> /\ stack' = stack
        <4>1. proxies[parent].owners \in Seq(Ids) /\ parent \in Ids
          BY <1>2, <1>3, <2>2 DEF ProxyType
        <4>. QED
          BY <1>2, <1>5, <2>2, <4>1 DEF OwnersOf
      <3>. QED
        BY <1>2, <1>7, <3>1 DEF AppInv, StackInv
    <2>. QED
      BY <2>1, <2>2
  <1>. QED
    BY <1>8, <1>9, <1>10 DEF AppInv
-----------------------------------------------------------------------------
\* A destroyed window leaves the maps and the stack, its popups stay without an
\* HWND, and what is left is typed as before (apply_destroy).
LEMMA DestroyKeepsTypes ==
    ASSUME AppInv, NEW id \in Ids, AgentArrival = WindowDestroy(id), ReceiveDestroy
    PROVE  AppInv'
  <1>. DEFINE gone == {id} \cup OwnedBy(id)
  <1>1. /\ id \in DOMAIN proxies /\ proxies' = WithoutWindow(id)
        /\ capture' = capture \ gone /\ focus' = focus \ gone
        /\ stack' = Removed(stack, {id}) /\ pending' = Without(pending, id)
        /\ agent' = IF DOMAIN proxies = {id} THEN "quitting" ELSE agent
        /\ UNCHANGED <<exitCode, outputScale, dispatchPosted, dispatches, cursor, held>>
    BY DEF ReceiveDestroy, WindowDestroy
  <1>2. \A i \in DOMAIN proxies : proxies[i] \in ProxyType /\ i \in Ids
    BY DEF AppInv, AgentTypeOK
  <1>3. DOMAIN proxies' = DOMAIN proxies \ {id}
    BY <1>1 DEF WithoutWindow
  <1>4. ASSUME NEW i \in DOMAIN proxies \ {id}
        PROVE  /\ proxies'[i] \in ProxyType
               /\ proxies'[i].owners = proxies[i].owners
               /\ proxies'[i].alive <=> proxies[i].alive /\ id \notin ToSet(proxies[i].owners)
               /\ i \notin gone <=> ~proxies[i].alive \/ id \notin ToSet(proxies[i].owners)
    <2>1. proxies'[i] = IF i \in OwnedBy(id)
                        THEN [proxies[i] EXCEPT !.alive = FALSE,
                                !.buttons = IF i \in capture THEN {} ELSE @]
                        ELSE proxies[i]
      BY <1>1 DEF WithoutWindow
    <2>2. i \in OwnedBy(id) <=> proxies[i].alive /\ id \in ToSet(proxies[i].owners)
      BY DEF OwnedBy
    <2>3. proxies[i] \in ProxyType /\ proxies[i].alive \in BOOLEAN
      BY <1>2 DEF ProxyType
    <2>4. CASE i \in OwnedBy(id)
      <3>. DEFINE b == IF i \in capture THEN {} ELSE proxies[i].buttons
      <3>1. proxies'[i] = [proxies[i] EXCEPT !.alive = FALSE, !.buttons = b]
        BY <2>1, <2>4
      <3>2. b \subseteq PointerButtons
        BY <2>3 DEF ProxyType
      <3>. HIDE DEF b
      <3>. QED
        BY <2>2, <2>3, <2>4, <3>1, <3>2 DEF ProxyType
    <2>5. CASE i \notin OwnedBy(id)
      BY <2>1, <2>2, <2>3, <2>5
    <2>. QED
      BY <2>4, <2>5
  <1>. HIDE DEF gone
  <1>5. AgentTypeOK'
    <2>1. ASSUME NEW c \in DOMAIN proxies, proxies[c].alive, c \notin gone
          PROVE  c \in DOMAIN proxies' /\ proxies'[c].alive
      <3>1. c # id
        BY <2>1 DEF gone
      <3>. QED
        BY <1>3, <1>4, <2>1, <3>1
    <2>2. OneAlive(capture)' /\ OneAlive(focus)'
      <3>1. \A s : OneAlive(s) => (s \ gone = {} \/ \E c \in DOMAIN proxies' : proxies'[c].alive /\ s \ gone = {c})
        BY <2>1 DEF OneAlive
      <3>2. OneAlive(capture) /\ OneAlive(focus)
        BY DEF AppInv, AgentTypeOK
      <3>. QED
        BY <1>1, <3>1, <3>2 DEF OneAlive
    <2>3. /\ DOMAIN pending' \subseteq DOMAIN proxies'
          /\ \A i \in DOMAIN pending' : pending'[i] \in ShownType
      BY <1>1, <1>3 DEF Without, AppInv, AgentTypeOK
    <2>4. DOMAIN proxies' \subseteq Ids /\ \A i \in DOMAIN proxies' : proxies'[i] \in ProxyType
      BY <1>2, <1>3, <1>4
    <2>. QED
      BY <1>1, <2>2, <2>3, <2>4 DEF AppInv, AgentTypeOK
  <1>6. ASSUME NEW i \in DOMAIN proxies' PROVE Owned(proxies', i)
    <2>1. /\ i \in DOMAIN proxies \ {id} /\ Owned(proxies, i)
          /\ proxies[i].owners \in Seq(Ids)
      BY <1>2, <1>3, <1>6 DEF AppInv, OwnersInv, ProxyType
    <2>2. CASE proxies[i].owners = <<>>
      <3>1. ToSet(<<>>) = {}
        BY DEF ToSet
      <3>. QED
        BY <1>4, <2>1, <2>2, <3>1 DEF Owned
    <2>3. CASE proxies[i].owners # <<>> /\ proxies'[i].alive
      <3>1. proxies[i].alive /\ id \notin ToSet(proxies[i].owners)
        BY <1>4, <2>1, <2>3
      <3>2. PICK parent \in DOMAIN proxies : PopupOf(proxies, i, parent)
        BY <2>1, <2>3, <3>1 DEF Owned
      <3>3. proxies[parent].owners \in Seq(Ids) /\ parent \in Ids
        BY <1>2 DEF ProxyType
      <3>4. proxies[parent].alive /\ proxies[i].owners = Append(proxies[parent].owners, parent)
        BY <3>2 DEF PopupOf
      <3>5. parent \in ToSet(proxies[i].owners) /\ ToSet(proxies[parent].owners) \subseteq ToSet(proxies[i].owners)
        BY <3>3, <3>4, AppendedOnce
      <3>6. parent \in DOMAIN proxies \ {id} /\ id \notin ToSet(proxies[parent].owners)
        BY <3>1, <3>5
      <3>7. proxies'[parent].alive /\ proxies'[parent].owners = proxies[parent].owners
        BY <1>4, <3>4, <3>6
      <3>8. ASSUME NEW o \in ToSet(proxies[i].owners)
            PROVE  /\ o \in DOMAIN proxies' /\ o # i /\ o \in DOMAIN proxies \ {id}
                   /\ ToSet(proxies'[o].owners) \subseteq ToSet(proxies[i].owners)
        <4>1. o # id /\ o # i /\ o \in DOMAIN proxies \ {id}
              /\ ToSet(proxies[o].owners) \subseteq ToSet(proxies[i].owners)
          BY <3>1, <3>2 DEF PopupOf
        <4>. QED
          BY <1>3, <1>4, <4>1
      <3>9. proxies'[Head(proxies[i].owners)].owners = <<>>
        <4>1. Head(proxies[i].owners) \in ToSet(proxies[i].owners)
          BY <2>1, <2>3 DEF ToSet
        <4>2. proxies[Head(proxies[i].owners)].owners = <<>>
          BY <3>2 DEF PopupOf
        <4>. QED
          BY <1>4, <3>8, <4>1, <4>2
      <3>10. PopupOf(proxies', i, parent)
        BY <1>4, <2>1, <3>4, <3>7, <3>8, <3>9 DEF PopupOf
      <3>. QED
        BY <1>3, <1>4, <2>1, <2>3, <3>6, <3>10 DEF Owned
    <2>. QED
      BY <1>4, <2>1, <2>2, <2>3 DEF Owned
  <1>7. StackInv'
    <2>1. stack \in Seq(Ids) /\ IsInjective(stack)
          /\ \A i : i \in ToSet(stack) <=> i \in DOMAIN proxies /\ proxies[i].owners = <<>>
      BY DEF AppInv, StackInv
    <2>2. /\ stack' \in Seq(Ids) /\ IsInjective(stack')
          /\ \A i : i \in ToSet(stack') <=> i \in ToSet(stack) /\ i # id
      BY <1>1, <2>1, RemovedProperties
    <2>3. \A i : i \in ToSet(stack') <=> i \in DOMAIN proxies' /\ proxies'[i].owners = <<>>
      BY <1>3, <1>4, <2>1, <2>2
    <2>. QED
      BY <2>2, <2>3 DEF StackInv
  <1>. QED
    BY <1>5, <1>6, <1>7 DEF AppInv, OwnersInv

\* What the dispatch makes of the proxies.
AppliedAll == [id \in DOMAIN proxies |-> IF id \in Ready THEN Applied(id, pending[id]) ELSE proxies[id]]
\* Each window after a dispatch, field by field.
LEMMA AppliedFacts ==
    ASSUME AppInv, \A id \in Ready : Presentable(id, pending[id])
    PROVE  /\ DOMAIN AppliedAll = DOMAIN proxies
           /\ \A id \in DOMAIN proxies :
                 /\ AppliedAll[id] \in ProxyType
                 /\ AppliedAll[id].owners = proxies[id].owners /\ AppliedAll[id].alive = proxies[id].alive
                 /\ AppliedAll[id].presentation = IF id \in Ready THEN pending[id] ELSE proxies[id].presentation
                 /\ AppliedAll[id].physical =
                       IF id \notin Ready THEN proxies[id].physical
                       ELSE IF pending[id].visible THEN CHOOSE r \in PhysicalDestination(pending[id]) : TRUE
                       ELSE EmptyRect
                 /\ AppliedAll[id].buttons = proxies[id].buttons /\ AppliedAll[id].keys = proxies[id].keys
                 /\ AppliedAll[id].tracking = proxies[id].tracking /\ AppliedAll[id].focused = proxies[id].focused
                 /\ id \in Ready /\ pending[id].visible => proxies[id].alive
  <1>1. \A id \in DOMAIN proxies : proxies[id] \in ProxyType
    BY DEF AppInv, AgentTypeOK
  <1>2. DOMAIN AppliedAll = DOMAIN proxies
    BY DEF AppliedAll
  <1>3. ASSUME NEW id \in DOMAIN proxies
        PROVE  /\ AppliedAll[id] \in ProxyType
               /\ AppliedAll[id].owners = proxies[id].owners /\ AppliedAll[id].alive = proxies[id].alive
               /\ AppliedAll[id].presentation = IF id \in Ready THEN pending[id] ELSE proxies[id].presentation
               /\ AppliedAll[id].physical =
                     IF id \notin Ready THEN proxies[id].physical
                     ELSE IF pending[id].visible THEN CHOOSE r \in PhysicalDestination(pending[id]) : TRUE
                     ELSE EmptyRect
               /\ AppliedAll[id].buttons = proxies[id].buttons /\ AppliedAll[id].keys = proxies[id].keys
               /\ AppliedAll[id].tracking = proxies[id].tracking /\ AppliedAll[id].focused = proxies[id].focused
               /\ id \in Ready /\ pending[id].visible => proxies[id].alive
    <2>1. CASE id \notin Ready
      <3>1. AppliedAll[id] = proxies[id]
        BY <2>1 DEF AppliedAll
      <3>. QED
        BY <1>1, <2>1, <3>1
    <2>2. CASE id \in Ready
      <3>. DEFINE p == pending[id]
                  drawn == IF p.visible THEN CHOOSE r \in PhysicalDestination(p) : TRUE ELSE EmptyRect
      <3>1. AppliedAll[id] = [proxies[id] EXCEPT !.presentation = p, !.physical = drawn]
        BY <2>2 DEF AppliedAll, Applied
      <3>2. p \in ShownType
        BY <2>2 DEF Ready, AppInv, AgentTypeOK
      <3>3. drawn \in Rect
        BY <2>2, PhysicalType, EmptyType DEF Presentable
      <3>4. p.visible => proxies[id].alive
        BY <2>2 DEF Presentable
      <3>5. drawn = IF pending[id].visible THEN CHOOSE r \in PhysicalDestination(pending[id]) : TRUE ELSE EmptyRect
        OBVIOUS
      <3>. HIDE DEF drawn, p
      <3>6. /\ AppliedAll[id] \in ProxyType
            /\ AppliedAll[id].owners = proxies[id].owners /\ AppliedAll[id].alive = proxies[id].alive
            /\ AppliedAll[id].presentation = p /\ AppliedAll[id].physical = drawn
            /\ AppliedAll[id].buttons = proxies[id].buttons /\ AppliedAll[id].keys = proxies[id].keys
            /\ AppliedAll[id].tracking = proxies[id].tracking /\ AppliedAll[id].focused = proxies[id].focused
        <4>. HIDE DEF AppliedAll
        <4>. QED
          BY <1>1, <3>1, <3>2, <3>3 DEF ProxyType
      <3>7. p = pending[id]
        BY DEF p
      <3>. QED
        BY <2>2, <3>4, <3>5, <3>6, <3>7
    <2>. QED
      BY <2>1, <2>2
  <1>. QED
    BY <1>2, <1>3

\* The windows a dispatch puts on top.
ShownFirst(order) == Removed(order, {id \in Ready : ~pending[id].visible \/ IsShown(id) \/ IsPopup(id)})
\* What a dispatch shows comes on top, and only that (update_layered_window).
LEMMA StackedFacts ==
    ASSUME AppInv, NEW order \in SetToSeqs(Ready)
    PROVE  /\ order \in Seq(Ready) /\ IsInjective(order) /\ ToSet(order) = Ready
           /\ DOMAIN order = 1 .. Len(order)
           /\ Ready = DOMAIN pending
           /\ ShownFirst(order) \in Seq(Ids)
           /\ \A id : id \in ToSet(ShownFirst(order)) <=>
                         id \in Ready /\ pending[id].visible /\ ~IsShown(id) /\ ~IsPopup(id)
           /\ StackedBy(order) = Removed(stack, ToSet(ShownFirst(order))) \o ShownFirst(order)
           /\ StackedBy(order) \in Seq(Ids) /\ IsInjective(StackedBy(order))
           /\ \A id : id \in ToSet(StackedBy(order)) <=> id \in ToSet(stack)
  <1>. DEFINE shows == ShownFirst(order)
              rest == Removed(stack, ToSet(shows))
  <1>1. Ready \subseteq Ids /\ Ready = DOMAIN pending
    BY DEF Ready, AppInv, AgentTypeOK
  <1>2. /\ order \in Seq(Ready) /\ IsInjective(order) /\ DOMAIN order = 1 .. Len(order)
        /\ \A x : x \in ToSet(order) <=> x \in Ready
    BY <1>1, FiniteIds, ListingsOf
  <1>3. order \in Seq(Ids)
    BY <1>1, <1>2
  <1>4. /\ shows \in Seq(Ids) /\ IsInjective(shows)
        /\ \A x : x \in ToSet(shows) <=>
              x \in ToSet(order) /\ x \notin {id \in Ready : ~pending[id].visible \/ IsShown(id) \/ IsPopup(id)}
    BY <1>2, <1>3, RemovedProperties DEF ShownFirst
  <1>5. \A id : id \in ToSet(shows) <=> id \in Ready /\ pending[id].visible /\ ~IsShown(id) /\ ~IsPopup(id)
    BY <1>2, <1>4
  <1>6. /\ stack \in Seq(Ids) /\ IsInjective(stack)
        /\ \A id : id \in ToSet(stack) <=> id \in DOMAIN proxies /\ proxies[id].owners = <<>>
    BY DEF AppInv, StackInv
  <1>7. \A id \in ToSet(shows) : id \in ToSet(stack)
    BY <1>5, <1>6 DEF Ready, IsPopup
  <1>8. StackedBy(order) = rest \o shows
    BY DEF StackedBy, OnTop, ShownFirst
  <1>. HIDE DEF shows
  <1>9. /\ rest \in Seq(Ids) /\ IsInjective(rest)
        /\ \A x : x \in ToSet(rest) <=> x \in ToSet(stack) /\ x \notin ToSet(shows)
    BY <1>6, RemovedProperties
  <1>. HIDE DEF rest
  <1>10. ToSet(rest) \cap ToSet(shows) = {}
    BY <1>9
  <1>11. /\ rest \o shows \in Seq(Ids) /\ IsInjective(rest \o shows)
         /\ \A y : y \in ToSet(rest \o shows) <=> y \in ToSet(rest) \/ y \in ToSet(shows)
    BY <1>4, <1>9, <1>10, ConcatOnce
  <1>. QED
    BY <1>1, <1>2, <1>4, <1>5, <1>7, <1>8, <1>9, <1>11 DEF shows, rest

\* A dispatch leaves everything typed (apply_pending_presents).
LEMMA DispatchKeepsTypes ==
    ASSUME AppInv, DispatchPresents
    PROVE  AppInv'
  <1>1. /\ dispatches > 0 /\ dispatches' = dispatches - 1 /\ dispatchPosted' = FALSE
        /\ \A id \in Ready : Presentable(id, pending[id])
        /\ proxies' = AppliedAll /\ pending' = Empty
        /\ UNCHANGED <<agent, exitCode, outputScale, cursor, held, capture, focus>>
    BY DEF DispatchPresents, TakeDispatch, AppliedAll
  <1>2. PICK order \in SetToSeqs(Ready) : stack' = StackedBy(order)
    BY DEF DispatchPresents
  <1>3. /\ DOMAIN proxies' = DOMAIN proxies /\ KeepsOwners(proxies, proxies')
        /\ \A id \in DOMAIN proxies : proxies'[id] \in ProxyType
    BY <1>1, AppliedFacts DEF KeepsOwners
  <1>4. AgentTypeOK'
    <2>1. OneAlive(capture)' /\ OneAlive(focus)'
      BY <1>1, <1>3 DEF AppInv, AgentTypeOK, OneAlive, KeepsOwners
    <2>2. dispatches' = 0
      BY <1>1 DEF AppInv, AgentTypeOK
    <2>3. DOMAIN pending' = {}
      BY <1>1 DEF Empty
    <2>. QED
      BY <1>1, <1>3, <2>1, <2>2, <2>3 DEF AppInv, AgentTypeOK
  <1>5. StackInv'
    <2>1. /\ stack' \in Seq(Ids) /\ IsInjective(stack')
          /\ \A id : id \in ToSet(stack') <=> id \in ToSet(stack)
      BY <1>2, StackedFacts
    <2>. QED
      BY <1>3, <2>1 DEF AppInv, StackInv, KeepsOwners
  <1>. QED
    BY <1>3, <1>4, <1>5, OwnersKept DEF AppInv
-----------------------------------------------------------------------------
\* Without windows everything is trivially in order.
LEMMA NothingLeft ==
    ASSUME AppInv, DOMAIN proxies' = {}, DOMAIN pending' = {}, capture' = {}, focus' = {}, stack' = <<>>,
           agent' \in {"running", "quitting", "exited"}, exitCode' \in {"success", "failure"},
           UNCHANGED <<outputScale, cursor, held>>, dispatchPosted' \in BOOLEAN,
           dispatches' = IF dispatchPosted' THEN 1 ELSE 0
    PROVE  AppInv'
  <1>1. OneAlive(capture)' /\ OneAlive(focus)'
    BY DEF OneAlive
  <1>2. AgentTypeOK'
    BY <1>1 DEF AppInv, AgentTypeOK
  <1>3. <<>> \in Seq(Ids) /\ IsInjective(<<>>) /\ ToSet(<<>>) = {}
    BY DEF IsInjective, ToSet
  <1>4. StackInv'
    BY <1>3 DEF StackInv
  <1>. QED
    BY <1>2, <1>4 DEF AppInv, OwnersInv

\* The message at the head of the stream is one the exporter makes.
LEMMA ArrivalIsTyped ==
    ASSUME WireTypeOK, toAgent # <<>>
    PROVE  AgentArrival \in ToAgentMessage /\ Tail(toAgent) \in Seq(ToAgentMessage)
  BY HeadTailProperties DEF WireTypeOK, AgentArrival

\* The exporter sends no frames and no new sizes here.
LEMMA NoFramesArrive ==
    ASSUME WireTypeOK
    PROVE  ~ReceiveResize /\ ~ReceiveFrame /\ ~ReceiveDamage
  <1>1. toAgent # <<>> => AgentArrival.type \notin {"WINDOW_RESIZE", "WINDOW_FRAME", "WINDOW_DAMAGE"}
    BY ArrivalIsTyped, ToAgentKinds
  <1>. QED
    BY <1>1 DEF ReceiveResize, ReceiveFrame, ReceiveDamage, AgentArrived, AgentArrival

\* So does a connection that fails (fail_connection).
LEMMA FailKeepsTypes ==
    ASSUME AppInv, NEW words, FailConnection(words), dispatchPosted' \in BOOLEAN,
           dispatches' = IF dispatchPosted' THEN 1 ELSE 0
    PROVE  AppInv'
  BY NothingLeft DEF FailConnection, Empty

\* The thread's own steps leave everything typed.
LEMMA AgentKeepsTypes ==
    ASSUME AppInv, WireTypeOK, AgentStep
    PROVE  AppInv' /\ WireTypeOK'
  <1>1. CASE ReceiveHelloAck
    <2>1. UNCHANGED <<agent, exitCode, outputScale, pending, dispatchPosted, dispatches,
                      proxies, cursor, held, capture, focus, stack>>
          /\ toAgent # <<>> /\ Answer(<<>>)
      BY <1>1 DEF ReceiveHelloAck, AgentArrived, agentVars, applicationVars, desktopVars
    <2>2. AppInv'
      BY <2>1 DEF AppInv, AgentTypeOK, OwnersInv, StackInv, OneAlive
    <2>. QED
      BY <2>1, <2>2, ArrivalIsTyped DEF Answer, WireTypeOK
  <1>2. CASE ReceiveOutputConfig
    <2>1. /\ UNCHANGED <<agent, exitCode, pending, dispatchPosted, dispatches, proxies,
                         cursor, held, capture, focus, stack>>
          /\ toAgent # <<>> /\ Answer(<<>>) /\ outputScale' = {AgentArrival.scale}
          /\ AgentArrival.type = "OUTPUT_CONFIG"
      BY <1>2 DEF ReceiveOutputConfig, AgentArrived, AgentArrival, desktopVars
    <2>2. AgentArrival.scale \in AllScales
      <3>1. PICK s \in AllScales : AgentArrival = OutputConfig(s)
        BY <2>1, ArrivalIsTyped, ToAgentKinds
      <3>. QED
        BY <3>1 DEF OutputConfig
    <2>3. AgentTypeOK'
      BY <2>1, <2>2 DEF AppInv, AgentTypeOK, OneAlive
    <2>4. OwnersInv' /\ StackInv'
      BY <2>1 DEF AppInv, OwnersInv, StackInv
    <2>. QED
      BY <2>1, <2>3, <2>4, ArrivalIsTyped DEF Answer, WireTypeOK, AppInv
  <1>3. CASE ReceiveCreate
    <2>1. toAgent # <<>> /\ AgentArrival.type = "WINDOW_CREATE" /\ Answer(<<>>)
      BY <1>3 DEF ReceiveCreate, AgentArrived, AgentArrival
    <2>2. PICK id \in Ids : \E parent \in Parents[id] : AgentArrival = WindowCreate(id, parent, Width, Height)
      BY <2>1, ArrivalIsTyped, ToAgentKinds
    <2>. QED
      BY <1>3, <2>1, <2>2, CreateKeepsTypes, ArrivalIsTyped DEF Answer, WireTypeOK
  <1>4. CASE ReceivePresent
    <2>1. /\ toAgent # <<>> /\ AgentArrival.type = "WINDOW_PRESENT" /\ Answer(<<>>)
          /\ AgentArrival.id \in DOMAIN proxies
          /\ pending' = KeepNewest(AgentArrival.id, AgentArrival.presentation)
          /\ dispatchPosted' = TRUE /\ dispatches' = PostOnce
          /\ UNCHANGED <<agent, exitCode, outputScale, proxies, cursor, held, capture, focus, stack>>
      BY <1>4 DEF ReceivePresent, AgentArrived, AgentArrival, desktopVars
    <2>2. AgentArrival.presentation \in ShownType
      <3>1. PICK id \in Ids, p \in ShownType : AgentArrival = WindowPresent(id, p)
        BY <2>1, ArrivalIsTyped, ToAgentKinds
      <3>. QED
        BY <3>1 DEF WindowPresent
    <2>3. DOMAIN pending' \subseteq DOMAIN proxies /\ \A id \in DOMAIN pending' : pending'[id] \in ShownType
      BY <2>1, <2>2 DEF KeepNewest, AppInv, AgentTypeOK
    <2>4. dispatches' = 1
      BY <2>1 DEF PostOnce, AppInv, AgentTypeOK
    <2>5. AgentTypeOK'
      BY <2>1, <2>3, <2>4 DEF AppInv, AgentTypeOK, OneAlive
    <2>6. OwnersInv' /\ StackInv'
      BY <2>1 DEF AppInv, OwnersInv, StackInv
    <2>. QED
      BY <2>1, <2>5, <2>6, ArrivalIsTyped DEF Answer, WireTypeOK, AppInv
  <1>5. CASE ReceiveActivate
    <2>1. /\ toAgent # <<>> /\ Answer(<<>>)
          /\ AgentArrival.id \in DOMAIN proxies
          /\ stack' = IF IsShown(AgentArrival.id) THEN Raised(AgentArrival.id) ELSE stack
          /\ UNCHANGED <<agent, exitCode, outputScale, pending, dispatchPosted, dispatches,
                         proxies, cursor, held, capture, focus>>
      BY <1>5 DEF ReceiveActivate, AgentArrived, AgentArrival, applicationVars
    <2>2. AgentTypeOK' /\ OwnersInv'
      BY <2>1 DEF AppInv, AgentTypeOK, OwnersInv, OneAlive
    <2>3. StackInv'
      <3>1. CASE UNCHANGED stack
        BY <2>1, <3>1 DEF AppInv, StackInv
      <3>2. CASE IsShown(AgentArrival.id) /\ stack' = Raised(AgentArrival.id)
        <4>1. /\ stack' \in Seq(Ids) /\ IsInjective(stack')
              /\ \A i : i \in ToSet(stack') <=> i \in ToSet(stack)
          BY <2>1, <3>2, RaisedType DEF IsShown
        <4>. QED
          BY <2>1, <4>1 DEF AppInv, StackInv
      <3>. QED
        BY <2>1, <3>1, <3>2
    <2>. QED
      BY <2>1, <2>2, <2>3, ArrivalIsTyped DEF Answer, WireTypeOK, AppInv
  <1>6. CASE ReceiveDestroy
    <2>1. /\ toAgent # <<>> /\ AgentArrival.type = "WINDOW_DESTROY"
          /\ toAgent' = Tail(toAgent) /\ UNCHANGED <<serverSocket, agentSocket>>
      BY <1>6 DEF ReceiveDestroy, AgentArrived, AgentArrival, Answer
    <2>2. PICK id \in Ids : AgentArrival = WindowDestroy(id)
      BY <2>1, ArrivalIsTyped, ToAgentKinds
    <2>. QED
      BY <1>6, <2>1, <2>2, DestroyKeepsTypes, ArrivalIsTyped DEF WireTypeOK
  <1>7. ASSUME NEW words, FailConnection(words), dispatchPosted' \in BOOLEAN,
               dispatches' = IF dispatchPosted' THEN 1 ELSE 0
        PROVE  AppInv' /\ WireTypeOK'
    <2>1. toAgent' = <<>> /\ agentSocket' = "closed" /\ UNCHANGED serverSocket
      BY <1>7 DEF FailConnection
    <2>. QED
      BY <1>7, <2>1, FailKeepsTypes DEF WireTypeOK
  <1>8. CASE SocketFails
    <2>1. FailConnection(<<>>) /\ UNCHANGED <<dispatchPosted, dispatches>>
      BY <1>8 DEF SocketFails
    <2>. QED
      BY <1>7, <2>1 DEF AppInv, AgentTypeOK
  <1>9. CASE DispatchPresents
    <2>1. UNCHANGED <<toAgent, serverSocket, agentSocket>>
      BY <1>9 DEF DispatchPresents, Send
    <2>. QED
      BY <1>9, <2>1, DispatchKeepsTypes DEF WireTypeOK
  <1>10. CASE DispatchFails
    <2>1. TakeDispatch /\ \E words : FailConnection(words)
      BY <1>10 DEF DispatchFails
    <2>2. dispatchPosted' = FALSE /\ dispatches' = 0
      BY <2>1 DEF TakeDispatch, AppInv, AgentTypeOK
    <2>. QED
      BY <1>7, <2>1, <2>2
  <1>11. CASE Exit
    <2>1. /\ agent' = "exited" /\ agentSocket' = "closed" /\ toAgent' = <<>>
          /\ UNCHANGED <<serverSocket, exitCode, outputScale, pending, dispatchPosted, dispatches,
                         proxies, cursor, held, capture, focus, stack>>
      BY <1>11 DEF Exit, desktopVars
    <2>2. AppInv'
      BY <2>1 DEF AppInv, AgentTypeOK, OwnersInv, StackInv, OneAlive
    <2>. QED
      BY <2>1, <2>2 DEF WireTypeOK
  <1>. QED
    BY <1>1, <1>2, <1>3, <1>4, <1>5, <1>6, <1>8, <1>9, <1>10, <1>11, NoFramesArrive DEF AgentStep

\* So do the exporter's.
LEMMA ExporterKeepsTypes ==
    ASSUME TypeInv, ExporterStep \/ ExporterReads
    PROVE  TypeInv'
  <1>. DEFINE Idle == UNCHANGED <<agent, exitCode, outputScale, pending, dispatchPosted, dispatches,
                                  proxies, cursor, held, capture, focus, stack>>
  <1>1. ASSUME Idle PROVE AppInv'
    BY <1>1 DEF TypeInv, AppInv, AgentTypeOK, OwnersInv, StackInv, OneAlive
  <1>2. UNCHANGED agentVars => Idle
    BY DEF agentVars, applicationVars, desktopVars
  <1>. HIDE DEF Idle
  <1>3. ASSUME NEW m \in ToAgentMessage, ExporterSends(m)
        PROVE  AppInv' /\ WireTypeOK' /\ sent' = sent + 1
    <2>1. UNCHANGED agentVars /\ toAgent' = <<m>> /\ UNCHANGED <<serverSocket, agentSocket>> /\ sent' = sent + 1
      BY <1>3 DEF ExporterSends
    <2>. QED
      BY <1>1, <1>2, <2>1 DEF WireTypeOK, TypeInv
  <1>4. sent + 1 \in Nat
    BY DEF TypeInv, ExporterTypeOK
  <1>5. CASE SendConfig
    <2>1. PICK s \in Rescales : ExporterSends(OutputConfig(s))
      BY <1>5 DEF SendConfig
    <2>2. OutputConfig(s) \in ToAgentMessage
      BY ToAgentForms DEF AllScales
    <2>3. UNCHANGED <<newest, unacked, front>>
      BY <1>5 DEF SendConfig
    <2>. QED
      BY <1>3, <1>4, <2>1, <2>2, <2>3 DEF TypeInv, AppInv, ExporterTypeOK
  <1>6. ASSUME NEW id \in Ids, SendCreate(id) PROVE TypeInv'
    <2>1. PICK parent \in Parents[id] : ExporterSends(WindowCreate(id, parent, Width, Height))
      BY <1>6 DEF SendCreate
    <2>2. newest' = [newest EXCEPT ![id] = NoPresent] /\ front' = {} /\ UNCHANGED unacked
      BY <1>6 DEF SendCreate
    <2>. QED
      BY <1>3, <1>4, <2>1, <2>2, ToAgentForms DEF TypeInv, AppInv, ExporterTypeOK, NoPresent
  <1>7. ASSUME NEW id \in Ids, SendPresent(id) PROVE TypeInv'
    <2>1. PICK r \in Regions :
             /\ ExporterSends(WindowPresent(id, Presentation(r, sent + 1)))
             /\ newest' = [newest EXCEPT ![id] = [sequence |-> sent + 1, visible |-> r.visible]]
             /\ front' = IF r.visible = newest[id].visible THEN front ELSE {}
      BY <1>7 DEF SendPresent
    <2>2. unacked' = [unacked EXCEPT ![id] = @ \cup {sent + 1}]
      BY <1>7 DEF SendPresent
    <2>3. Presentation(r, sent + 1) \in ShownType /\ r.visible \in BOOLEAN
      BY <1>4, PresentationType
    <2>4. WindowPresent(id, Presentation(r, sent + 1)) \in ToAgentMessage
      BY <2>3, ToAgentForms
    <2>. QED
      BY <1>3, <1>4, <2>1, <2>2, <2>3, <2>4 DEF TypeInv, AppInv, ExporterTypeOK
  <1>8. ASSUME NEW id \in Ids, SendActivate(id) \/ SendDestroy(id) PROVE TypeInv'
    <2>1. ExporterSends(WindowActivate(id)) \/ ExporterSends(WindowDestroy(id))
      BY <1>8 DEF SendActivate, SendDestroy
    <2>2. front' \subseteq Ids /\ UNCHANGED <<newest, unacked>>
      BY <1>8 DEF SendActivate, SendDestroy
    <2>. QED
      BY <1>3, <1>4, <2>1, <2>2, ToAgentForms DEF TypeInv, AppInv, ExporterTypeOK
  <1>9. CASE ExporterCloses
    <2>1. serverSocket' = "closed" /\ UNCHANGED <<toAgent, agentSocket, agentVars, sent, newest, unacked, front>>
      BY <1>9 DEF ExporterCloses, exporterVars
    <2>. QED
      BY <1>1, <1>2, <2>1 DEF TypeInv, AppInv, WireTypeOK, ExporterTypeOK
  <1>10. CASE ExporterReads
    <2>1. UNCHANGED <<toAgent, serverSocket, agentSocket, agentVars, sent, newest, front>>
      BY <1>10 DEF ExporterReads
    <2>2. unacked' = unacked \/ \E m : unacked' = [unacked EXCEPT ![m.id] = @ \ {m.sequence}]
      BY <1>10 DEF ExporterReads
    <2>3. unacked' \in [Ids -> SUBSET Nat]
      BY <2>2 DEF TypeInv, ExporterTypeOK
    <2>. QED
      BY <1>1, <1>2, <2>1, <2>3 DEF TypeInv, AppInv, WireTypeOK, ExporterTypeOK
  <1>. QED
    BY <1>5, <1>6, <1>7, <1>8, <1>9, <1>10 DEF ExporterStep

\* Every step keeps TypeInv.
LEMMA TypeStep ==
    ASSUME TypeInv, [Next]_vars
    PROVE  TypeInv'
  <1>1. CASE UNCHANGED vars
    <2>1. UNCHANGED <<toAgent, toServer, serverSocket, agentSocket, agent, exitCode, outputScale, pending,
                      dispatchPosted, dispatches, proxies, cursor, held, capture, focus, stack,
                      sent, newest, unacked, known, front>>
      BY <1>1 DEF vars, wireVars, agentVars, applicationVars, desktopVars, exporterVars
    <2>. QED
      BY <2>1 DEF TypeInv, AgentTypeOK, OwnersInv, StackInv, WireTypeOK, ExporterTypeOK, OneAlive
  <1>2. CASE ThreadStep
    <2>1. AppInv' /\ WireTypeOK' /\ UNCHANGED <<sent, newest, unacked, known, front>>
      BY <1>2, AgentKeepsTypes DEF ThreadStep, TypeInv, AppInv, exporterVars
    <2>. QED
      BY <2>1 DEF TypeInv, AppInv, ExporterTypeOK
  <1>3. CASE UserStep
    <2>1. PointerStep \/ FocusStep
      BY <1>3 DEF UserStep
    <2>2. UserEffect
      BY <2>1, UserEffects DEF TypeInv
    <2>3. AppInv' /\ WireTypeOK'
      BY <2>2, UserKeepsTypes DEF TypeInv, AppInv, WireTypeOK, UserEffect
    <2>4. UNCHANGED <<sent, newest, unacked>> /\ front' \in {front, {}}
      BY <1>3 DEF UserStep
    <2>. QED
      BY <2>3, <2>4 DEF TypeInv, AppInv, ExporterTypeOK
  <1>. QED
    BY <1>1, <1>2, <1>3, ExporterKeepsTypes DEF Next
-----------------------------------------------------------------------------
\* What Init says of the wire: the handshake, the windows, perhaps a
\* presentation of each.
LEMMA FirstMessages ==
    ASSUME Init
    PROVE  \E s \in Scales, parents \in [Ids -> Ids \cup {0}] :
              /\ \A id \in Ids : parents[id] \in Parents[id]
              /\ \E order \in Orders(parents) :
                    \/ /\ toAgent = <<HelloAck, OutputConfig(s)>> \o Creates(order, parents)
                       /\ newest = [id \in Ids |-> NoPresent]
                    \/ \E r \in Regions :
                       /\ toAgent = <<HelloAck, OutputConfig(s)>> \o Creates(order, parents)
                                                                  \o Presents(order, r)
                       /\ newest = FirstPresents(order, r)
  BY DEF Init

\* An order of the windows names each once, and makes typed messages.
LEMMA FirstTypes ==
    ASSUME NEW parents \in [Ids -> Ids \cup {0}], \A id \in Ids : parents[id] \in Parents[id],
           NEW order \in Orders(parents)
    PROVE  /\ order \in Seq(Ids) /\ IsInjective(order) /\ DOMAIN order = 1 .. Len(order)
           /\ Len(order) \in Nat /\ Len(order) = Cardinality(Ids)
           /\ \A id \in Ids : \E i \in DOMAIN order : order[i] = id
           /\ Creates(order, parents) \in Seq(ToAgentMessage)
           /\ \A r \in Regions : /\ Presents(order, r) \in Seq(ToAgentMessage)
                                 /\ FirstPresents(order, r) \in [Ids -> [sequence : Nat, visible : BOOLEAN]]
                                 /\ \A i \in DOMAIN order : FirstPresents(order, r)[order[i]].sequence = i
                                 /\ \A id \in Ids : FirstPresents(order, r)[id].visible = r.visible
  <1>1. order \in SetToSeqs(Ids)
    BY DEF Orders
  <1>2. /\ order \in Seq(Ids) /\ IsInjective(order) /\ DOMAIN order = 1 .. Len(order)
        /\ Len(order) \in Nat /\ Len(order) = Cardinality(Ids)
        /\ \A x : x \in ToSet(order) <=> x \in Ids
    BY <1>1, FiniteIds, ListingsOf, LenProperties
  <1>3. \A i \in 1 .. Len(order) : order[i] \in Ids
    BY <1>2, ElementOfSeq
  <1>4. \A id \in Ids : \E i \in DOMAIN order : order[i] = id
    BY <1>2 DEF ToSet
  <1>5. Creates(order, parents) \in Seq(ToAgentMessage)
    <2>. DEFINE M == ToAgentMessage
                f(i) == WindowCreate(order[i], parents[order[i]], Width, Height)
    <2>1. \A i \in 1 .. Len(order) : f(i) \in M
      BY <1>3, ToAgentForms
    <2>2. Creates(order, parents) = [i \in 1 .. Len(order) |-> f(i)]
      BY <1>2 DEF Creates
    <2>. HIDE DEF M, f
    <2>3. [i \in 1 .. Len(order) |-> f(i)] \in Seq(M)
      BY <1>2, <2>1, IsASeq
    <2>. QED
      BY <2>2, <2>3 DEF M
  <1>6. ASSUME NEW r \in Regions
        PROVE  /\ Presents(order, r) \in Seq(ToAgentMessage)
               /\ FirstPresents(order, r) \in [Ids -> [sequence : Nat, visible : BOOLEAN]]
               /\ \A i \in DOMAIN order : FirstPresents(order, r)[order[i]].sequence = i
               /\ \A id \in Ids : FirstPresents(order, r)[id].visible = r.visible
    <2>. DEFINE M == ToAgentMessage
                f(i) == WindowPresent(order[i], Presentation(r, i))
                place(id) == CHOOSE i \in DOMAIN order : order[i] = id
    <2>1. \A i \in 1 .. Len(order) : f(i) \in M
      BY <1>3, <1>2, ToAgentForms, PresentationType
    <2>2. Presents(order, r) = [i \in 1 .. Len(order) |-> f(i)]
      BY <1>2 DEF Presents
    <2>3. [i \in 1 .. Len(order) |-> f(i)] \in Seq(M)
      <3>. HIDE DEF M, f
      <3>. QED
        BY <1>2, <2>1, IsASeq
    <2>4. \A id \in Ids : place(id) \in DOMAIN order /\ order[place(id)] = id
      BY <1>4
    <2>5. \A i \in DOMAIN order : place(order[i]) = i
      BY <1>2, <1>3, <2>4 DEF IsInjective
    <2>6. FirstPresents(order, r) = [id \in Ids |-> [sequence |-> place(id), visible |-> r.visible]]
      BY DEF FirstPresents
    <2>7. r.visible \in BOOLEAN /\ \A id \in Ids : place(id) \in Nat
      BY <1>2, <2>4, PresentationType
    <2>. DEFINE first(id) == [sequence |-> place(id), visible |-> r.visible]
    <2>. HIDE DEF place
    <2>8. FirstPresents(order, r) = [id \in Ids |-> first(id)]
      BY <2>6
    <2>9. \A id \in Ids : first(id) \in [sequence : Nat, visible : BOOLEAN]
                           /\ first(id).sequence = place(id) /\ first(id).visible = r.visible
      BY <2>7
    <2>. HIDE DEF first
    <2>10. /\ FirstPresents(order, r) \in [Ids -> [sequence : Nat, visible : BOOLEAN]]
           /\ \A i \in DOMAIN order : FirstPresents(order, r)[order[i]].sequence = i
           /\ \A id \in Ids : FirstPresents(order, r)[id].visible = r.visible
      BY <1>2, <1>3, <2>5, <2>8, <2>9
    <2>. QED
      BY <2>2, <2>3, <2>10
  <1>. QED
    BY <1>2, <1>4, <1>5, <1>6

\* The first state is typed.
LEMMA TypeInit ==
    ASSUME Init
    PROVE  TypeInv
  <1>1. PICK s \in Scales, parents \in [Ids -> Ids \cup {0}] :
              /\ \A id \in Ids : parents[id] \in Parents[id]
              /\ \E order \in Orders(parents) :
                    \/ /\ toAgent = <<HelloAck, OutputConfig(s)>> \o Creates(order, parents)
                       /\ newest = [id \in Ids |-> NoPresent]
                    \/ \E r \in Regions :
                       /\ toAgent = <<HelloAck, OutputConfig(s)>> \o Creates(order, parents)
                                                                  \o Presents(order, r)
                       /\ newest = FirstPresents(order, r)
    BY FirstMessages
  <1>2. PICK order \in Orders(parents) :
                    \/ /\ toAgent = <<HelloAck, OutputConfig(s)>> \o Creates(order, parents)
                       /\ newest = [id \in Ids |-> NoPresent]
                    \/ \E r \in Regions :
                       /\ toAgent = <<HelloAck, OutputConfig(s)>> \o Creates(order, parents)
                                                                  \o Presents(order, r)
                       /\ newest = FirstPresents(order, r)
    BY <1>1
  <1>3. /\ Creates(order, parents) \in Seq(ToAgentMessage)
        /\ \A r \in Regions : /\ Presents(order, r) \in Seq(ToAgentMessage)
                              /\ FirstPresents(order, r) \in [Ids -> [sequence : Nat, visible : BOOLEAN]]
    BY <1>1, FirstTypes
  <1>4. <<HelloAck, OutputConfig(s)>> \in Seq(ToAgentMessage)
    BY ToAgentForms DEF AllScales
  <1>5. toAgent \in Seq(ToAgentMessage) /\ newest \in [Ids -> [sequence : Nat, visible : BOOLEAN]]
    <2>. DEFINE head == <<HelloAck, OutputConfig(s)>>
                M == ToAgentMessage
                creates == Creates(order, parents)
    <2>. HIDE DEF M
    <2>1. head \o creates \in Seq(M) /\ \A r \in Regions : head \o creates \o Presents(order, r) \in Seq(M)
      <3>. HIDE DEF head, creates
      <3>1. head \in Seq(M) /\ creates \in Seq(M) /\ \A r \in Regions : Presents(order, r) \in Seq(M)
        BY <1>3, <1>4 DEF M, head, creates
      <3>2. head \o creates \in Seq(M)
        BY <3>1, ConcatProperties
      <3>. QED
        BY <3>1, <3>2, ConcatProperties
    <2>. DEFINE presents(r) == Presents(order, r)
    <2>2. toAgent = head \o creates \/ \E r \in Regions : toAgent = head \o creates \o presents(r)
      BY <1>2
    <2>3. toAgent \in Seq(M)
      <3>. HIDE DEF head, creates
      <3>. QED
        BY <2>1, <2>2
    <2>4. [id \in Ids |-> NoPresent] \in [Ids -> [sequence : Nat, visible : BOOLEAN]]
      BY DEF NoPresent
    <2>5. newest \in [Ids -> [sequence : Nat, visible : BOOLEAN]]
      BY <1>2, <1>3, <2>4
    <2>. QED
      BY <2>3, <2>5 DEF M
  <1>6. WireTypeOK
    BY <1>5 DEF Init, WireTypeOK
  <1>7. ExporterTypeOK
    BY <1>5, FiniteIds, FS_CardinalityType DEF Init, ExporterTypeOK
  <1>8. AgentTypeOK /\ OwnersInv
    BY DEF Init, AgentInit, AgentTypeOK, OneAlive, OwnersInv, Empty
  <1>9. StackInv
    <2>1. <<>> \in Seq(Ids) /\ IsInjective(<<>>) /\ ToSet(<<>>) = {}
      BY DEF IsInjective, ToSet
    <2>. QED
      BY <2>1 DEF Init, AgentInit, StackInv, Empty
  <1>. QED
    BY <1>6, <1>7, <1>8, <1>9 DEF TypeInv

\* The types of every variable and every message, that popups belong to a
\* top-level window that is alive with them, and that the stack lists the
\* top-level windows: what all other invariants rest on.
THEOREM TypesInvariant == Spec => []TypeInv
  <1>1. TypeInv /\ [Next]_vars => TypeInv'
    BY TypeStep
  <1>. QED
    BY <1>1, TypeInit, PTL DEF Spec

\* The agent's state is well typed: ids are the exporter's, the capture and
\* the focus belong to one window that exists, the stacking order names each
\* top-level proxy once and no popup, and at most one dispatch is posted.
THEOREM AgentTypes == Spec => []TypeOK
  <1>1. ASSUME TypeInv PROVE TypeOK
    <2>1. AgentTypeOK /\ StackInv
      BY <1>1 DEF TypeInv
    <2>2. outputScale \in SUBSET Scale /\ Cardinality(outputScale) <= 1
      <3>1. CASE outputScale = {}
        BY <3>1, FS_EmptySet
      <3>2. ASSUME NEW s \in AllScales, outputScale = {s}
            PROVE  outputScale \in SUBSET Scale /\ Cardinality(outputScale) <= 1
        <4>1. s \in Scale
          BY ScalesAreScales
        <4>2. Cardinality({s}) = 1
          BY FS_Singleton
        <4>. QED
          BY <3>2, <4>1, <4>2
      <3>. QED
        BY <2>1, <3>1, <3>2 DEF AgentTypeOK
    <2>3. \A s : OneAlive(s) => s \subseteq DOMAIN proxies /\ Cardinality(s) <= 1
      <3>1. Cardinality({}) <= 1 /\ \A x : Cardinality({x}) <= 1
        BY FS_EmptySet, FS_Singleton
      <3>. QED
        BY <3>1 DEF OneAlive
    <2>4. \A s \in {capture, focus} : s \subseteq DOMAIN proxies /\ Cardinality(s) <= 1
      BY <2>1, <2>3 DEF AgentTypeOK
    <2>5. \A id \in DOMAIN proxies :
             /\ proxies[id].physical \in Rect
             /\ proxies[id].buttons \subseteq PointerButtons /\ proxies[id].keys \subseteq Keys
             /\ proxies[id].tracking \in BOOLEAN /\ proxies[id].focused \in BOOLEAN
      BY <2>1 DEF AgentTypeOK, ProxyType
    <2>6. IsInjective(stack) /\ ToSet(stack) = {id \in DOMAIN proxies : ~IsPopup(id)}
      BY <2>1 DEF StackInv, IsPopup
    <2>. QED
      BY <2>1, <2>2, <2>4, <2>5, <2>6 DEF AgentTypeOK, TypeOK
  <1>. QED
    BY <1>1, TypesInvariant, PTL
-----------------------------------------------------------------------------
(* From the exporter's newest presentation to the screen.                  *)

Matches(p, n) == p.sequence = n.sequence /\ p.visible = n.visible
Ahead == ToSet(toAgent)
PresentAhead(id) == \E m \in Ahead : m.type = "WINDOW_PRESENT" /\ m.id = id
CreateAhead(id)  == \E m \in Ahead : m.type = "WINDOW_CREATE" /\ m.id = id

\* No window is created after one was presented.
PresentsLast(s) ==
    \A i, j \in DOMAIN s : i < j /\ s[i].type = "WINDOW_PRESENT" => s[j].type # "WINDOW_CREATE"

\* The newest presentation is on its way, or it is queued, or it is shown.
FlowOf(id) ==
    /\ \A m \in Ahead : m.type = "WINDOW_PRESENT" /\ m.id = id => Matches(m.presentation, newest[id])
    /\ ~PresentAhead(id) =>
          IF CreateAhead(id) THEN newest[id] = NoPresent
          ELSE id \in DOMAIN proxies =>
                  IF id \in DOMAIN pending THEN Matches(pending[id], newest[id])
                  ELSE Matches(proxies[id].presentation, newest[id])
FlowInv == agentSocket = "open" => PresentsLast(toAgent) /\ \A id \in Ids : FlowOf(id)

\* The members of a sequence are its head and those of its tail.
LEMMA TailElements ==
    ASSUME NEW M, NEW s \in Seq(M), s # <<>>
    PROVE  /\ \A m : m \in ToSet(s) <=> m = Head(s) \/ m \in ToSet(Tail(s))
           /\ \A i \in DOMAIN Tail(s) : i + 1 \in DOMAIN s /\ Tail(s)[i] = s[i + 1]
           /\ 1 \in DOMAIN s /\ s[1] = Head(s)
  <1>. DEFINE t == Tail(s)
  <1>1. /\ Len(s) \in Nat /\ Len(s) >= 1 /\ DOMAIN s = 1 .. Len(s) /\ Head(s) = s[1]
        /\ Len(t) = Len(s) - 1 /\ DOMAIN t = 1 .. Len(s) - 1 /\ \A i \in 1 .. Len(s) - 1 : t[i] = s[i + 1]
    <2>1. Len(s) \in Nat /\ DOMAIN s = 1 .. Len(s) /\ Len(s) >= 1 /\ Head(s) = s[1]
      BY LenProperties, EmptySeq
    <2>2. Tail(s) \in Seq(M) /\ Len(Tail(s)) = Len(s) - 1
      BY HeadTailProperties
    <2>3. \A i \in 1 .. Len(Tail(s)) : Tail(s)[i] = s[i + 1]
      BY HeadTailProperties
    <2>. QED
      BY <2>1, <2>2, <2>3, LenProperties
  <1>. HIDE DEF t
  <1>2. \A i \in DOMAIN s : i = 1 \/ (i - 1 \in DOMAIN t /\ t[i - 1] = s[i])
    <2>1. \A i \in DOMAIN s : i = 1 \/ (i - 1 \in 1 .. Len(s) - 1 /\ (i - 1) + 1 = i)
      BY <1>1
    <2>. QED
      BY <1>1, <2>1
  <1>3. \A i \in DOMAIN t : i + 1 \in DOMAIN s /\ t[i] = s[i + 1]
    BY <1>1
  <1>4. \A m : m \in ToSet(s) => m = Head(s) \/ m \in ToSet(t)
    BY <1>1, <1>2 DEF ToSet
  <1>5. \A m : m = Head(s) \/ m \in ToSet(t) => m \in ToSet(s)
    BY <1>1, <1>3 DEF ToSet
  <1>. QED
    BY <1>1, <1>3, <1>4, <1>5 DEF t

\* Reading the head leaves presentations after the windows they are of.
LEMMA PresentsLastKept ==
    ASSUME NEW M, NEW s \in Seq(M), s # <<>>, PresentsLast(s)
    PROVE  /\ PresentsLast(Tail(s))
           /\ Head(s).type = "WINDOW_PRESENT" => \A m \in ToSet(Tail(s)) : m.type # "WINDOW_CREATE"
  <1>1. \A i \in DOMAIN Tail(s) : i + 1 \in DOMAIN s /\ Tail(s)[i] = s[i + 1] /\ i \in Nat /\ i >= 1
    BY TailElements, HeadTailProperties, LenProperties
  <1>2. 1 \in DOMAIN s /\ s[1] = Head(s)
    BY TailElements
  <1>. HIDE DEF ToSet
  <1>3. ASSUME NEW i \in DOMAIN Tail(s), NEW j \in DOMAIN Tail(s), i < j,
               Tail(s)[i].type = "WINDOW_PRESENT"
        PROVE  Tail(s)[j].type # "WINDOW_CREATE"
    <2>1. i + 1 < j + 1
      BY <1>1, <1>3
    <2>. QED
      BY <1>1, <1>3, <2>1 DEF PresentsLast
  <1>4. ASSUME NEW i \in DOMAIN Tail(s), Head(s).type = "WINDOW_PRESENT" PROVE Tail(s)[i].type # "WINDOW_CREATE"
    <2>1. 1 < i + 1
      BY <1>1
    <2>. QED
      BY <1>1, <1>2, <1>4, <2>1 DEF PresentsLast
  <1>. QED
    BY <1>3, <1>4 DEF PresentsLast, ToSet

\* Messages without a presentation, then messages without a window.
LEMMA PresentsAfterCreates ==
    ASSUME NEW M, NEW s \in Seq(M), NEW t \in Seq(M),
           \A m \in ToSet(s) : m.type # "WINDOW_PRESENT", \A m \in ToSet(t) : m.type # "WINDOW_CREATE"
    PROVE  PresentsLast(s \o t)
  <1>1. /\ Len(s) \in Nat /\ DOMAIN s = 1 .. Len(s) /\ Len(t) \in Nat /\ DOMAIN t = 1 .. Len(t)
        /\ Len(s \o t) = Len(s) + Len(t) /\ DOMAIN (s \o t) = 1 .. Len(s) + Len(t)
        /\ \A i \in 1 .. Len(s) + Len(t) : (s \o t)[i] = IF i <= Len(s) THEN s[i] ELSE t[i - Len(s)]
    BY ConcatProperties, LenProperties
  <1>. SUFFICES ASSUME NEW i \in 1 .. Len(s) + Len(t), NEW j \in 1 .. Len(s) + Len(t), i < j,
                       (s \o t)[i].type = "WINDOW_PRESENT"
                PROVE  (s \o t)[j].type # "WINDOW_CREATE"
    BY <1>1 DEF PresentsLast
  <1>2. ~(i <= Len(s))
    <2>1. i <= Len(s) => i \in DOMAIN s /\ (s \o t)[i] = s[i]
      BY <1>1
    <2>. QED
      BY <2>1 DEF ToSet
  <1>3. ~(j <= Len(s)) /\ j - Len(s) \in DOMAIN t
    BY <1>1, <1>2
  <1>4. (s \o t)[j] = t[j - Len(s)]
    BY <1>1, <1>3
  <1>. QED
    BY <1>3, <1>4 DEF ToSet

\* At first the newest presentation of each window is on its way, or there is none.
LEMMA FlowInit ==
    ASSUME Init
    PROVE  FlowInv
  <1>1. PICK s \in Scales, parents \in [Ids -> Ids \cup {0}] :
              /\ \A id \in Ids : parents[id] \in Parents[id]
              /\ \E order \in Orders(parents) :
                    \/ /\ toAgent = <<HelloAck, OutputConfig(s)>> \o Creates(order, parents)
                       /\ newest = [id \in Ids |-> NoPresent]
                    \/ \E r \in Regions :
                       /\ toAgent = <<HelloAck, OutputConfig(s)>> \o Creates(order, parents)
                                                                  \o Presents(order, r)
                       /\ newest = FirstPresents(order, r)
    BY FirstMessages
  <1>2. PICK order \in Orders(parents) :
                    \/ /\ toAgent = <<HelloAck, OutputConfig(s)>> \o Creates(order, parents)
                       /\ newest = [id \in Ids |-> NoPresent]
                    \/ \E r \in Regions :
                       /\ toAgent = <<HelloAck, OutputConfig(s)>> \o Creates(order, parents)
                                                                  \o Presents(order, r)
                       /\ newest = FirstPresents(order, r)
    BY <1>1
  <1>. DEFINE M == ToAgentMessage
              head == <<HelloAck, OutputConfig(s)>>
              creates == Creates(order, parents)
              first == head \o creates
  <1>3. /\ \A i \in DOMAIN order : order[i] \in Ids
        /\ \A id \in Ids : \E i \in DOMAIN order : order[i] = id
        /\ creates \in Seq(M)
        /\ \A r \in Regions : /\ Presents(order, r) \in Seq(M)
                              /\ \A i \in DOMAIN order : FirstPresents(order, r)[order[i]].sequence = i
                              /\ \A id \in Ids : FirstPresents(order, r)[id].visible = r.visible
    <2>1. /\ order \in Seq(Ids) /\ DOMAIN order = 1 .. Len(order)
          /\ \A id \in Ids : \E i \in DOMAIN order : order[i] = id
          /\ Creates(order, parents) \in Seq(ToAgentMessage)
          /\ \A r \in Regions : /\ Presents(order, r) \in Seq(ToAgentMessage)
                                /\ \A i \in DOMAIN order : FirstPresents(order, r)[order[i]].sequence = i
                                /\ \A id \in Ids : FirstPresents(order, r)[id].visible = r.visible
      BY <1>1, FirstTypes
    <2>2. \A i \in DOMAIN order : order[i] \in Ids
      BY <2>1, ElementOfSeq
    <2>. QED
      BY <2>1, <2>2
  <1>4. head \in Seq(M) /\ \A m \in ToSet(head) : m.type \notin {"WINDOW_PRESENT", "WINDOW_CREATE"}
    <2>1. head \in Seq(M)
      BY ToAgentForms DEF AllScales
    <2>2. DOMAIN head = {1, 2} /\ head[1].type = "HELLO_ACK" /\ head[2].type = "OUTPUT_CONFIG"
      BY DEF HelloAck, OutputConfig
    <2>. QED
      BY <2>1, <2>2 DEF ToSet
  <1>5. \A m \in ToSet(creates) : m.type = "WINDOW_CREATE"
    BY DEF Creates, ToSet, WindowCreate
  <1>. HIDE DEF M, head, creates
  <1>6. /\ first \in Seq(M) /\ \A m \in ToSet(first) : m.type # "WINDOW_PRESENT"
    <2>1. first \in Seq(M) /\ \A m : m \in ToSet(first) <=> m \in ToSet(head) \/ m \in ToSet(creates)
      BY <1>3, <1>4, ConcatOnce
    <2>. QED
      BY <1>4, <1>5, <2>1
  <1>. HIDE DEF first
  <1>7. DOMAIN proxies = {}
    BY DEF Init, AgentInit, Empty
  <1>8. CASE toAgent = first /\ newest = [id \in Ids |-> NoPresent]
    <2>1. PresentsLast(toAgent)
      BY <1>6, <1>8 DEF PresentsLast, ToSet
    <2>. QED
      BY <1>6, <1>7, <1>8, <2>1 DEF FlowInv, FlowOf, PresentAhead, CreateAhead, Ahead
  <1>9. ASSUME NEW r \in Regions, toAgent = first \o Presents(order, r), newest = FirstPresents(order, r)
        PROVE  FlowInv
    <2>. DEFINE presents == Presents(order, r)
    <2>1. /\ DOMAIN presents = DOMAIN order
          /\ \A i \in DOMAIN order : /\ presents[i].type = "WINDOW_PRESENT" /\ presents[i].id = order[i]
                                     /\ presents[i].presentation.sequence = i
                                     /\ presents[i].presentation.visible = r.visible
      BY DEF Presents, WindowPresent, Presentation
    <2>2. presents \in Seq(M)
      BY <1>3
    <2>. HIDE DEF presents
    <2>3. \A m \in ToSet(presents) : /\ m.type = "WINDOW_PRESENT" /\ m.id \in Ids
                                     /\ Matches(m.presentation, newest[m.id])
      BY <1>3, <1>9, <2>1 DEF ToSet, Matches
    <2>4. /\ toAgent = first \o presents
          /\ \A m : m \in ToSet(toAgent) <=> m \in ToSet(first) \/ m \in ToSet(presents)
      BY <1>6, <1>9, <2>2, ConcatOnce DEF presents
    <2>5. PresentsLast(toAgent)
      BY <1>6, <2>2, <2>3, <2>4, PresentsAfterCreates
    <2>6. \A id \in Ids : \E m \in ToSet(presents) : m.id = id
      BY <1>3, <2>1 DEF ToSet
    <2>7. \A id \in Ids : PresentAhead(id)
      BY <2>3, <2>4, <2>6 DEF PresentAhead, Ahead
    <2>8. \A id \in Ids : FlowOf(id)
      BY <1>6, <2>3, <2>4, <2>7 DEF FlowOf, Ahead
    <2>. QED
      BY <2>5, <2>8 DEF FlowInv
  <1>. QED
    BY <1>2, <1>8, <1>9 DEF first, head, creates

\* A window that goes leaves the presentations of the others.
LEMMA PresentationsStay ==
    ASSUME AgentTypeOK, NEW old
    PROVE  /\ DOMAIN WithoutWindow(old) = DOMAIN proxies \ {old}
           /\ \A id \in DOMAIN proxies : id # old =>
                 WithoutWindow(old)[id].presentation = proxies[id].presentation
  <1>. DEFINE new == WithoutWindow(old)
  <1>1. DOMAIN new = DOMAIN proxies \ {old}
    BY DEF WithoutWindow
  <1>2. ASSUME NEW id \in DOMAIN proxies, id # old
        PROVE  new[id].presentation = proxies[id].presentation
    <2>1. PICK q \in ProxyType : q = proxies[id]
      BY DEF AgentTypeOK
    <2>2. CASE id \in OwnedBy(old)
      <3>1. PICK b : b = IF id \in capture THEN {} ELSE q.buttons
        OBVIOUS
      <3>2. new[id] = [q EXCEPT !.alive = FALSE, !.buttons = b]
        BY <1>2, <2>1, <2>2, <3>1 DEF WithoutWindow
      <3>. QED
        BY <2>1, <3>2 DEF ProxyType
    <2>3. CASE id \notin OwnedBy(old)
      BY <1>2, <2>3 DEF WithoutWindow
    <2>. QED
      BY <2>2, <2>3
  <1>. QED
    BY <1>1, <1>2

\* What reading a message that neither creates nor presents a window leaves.
LEMMA FlowPastOthers ==
    ASSUME FlowInv, toAgent \in Seq(ToAgentMessage), toAgent # <<>>, toAgent' = Tail(toAgent),
           AgentArrival.type \notin {"WINDOW_PRESENT", "WINDOW_CREATE"},
           UNCHANGED <<newest, agentSocket>>, DOMAIN proxies' \subseteq DOMAIN proxies,
           \A id \in DOMAIN proxies' :
              /\ proxies'[id].presentation = proxies[id].presentation
              /\ id \in DOMAIN pending' <=> id \in DOMAIN pending
              /\ id \in DOMAIN pending => pending'[id] = pending[id]
    PROVE  FlowInv'
  <1>. SUFFICES ASSUME agentSocket = "open" PROVE PresentsLast(toAgent') /\ \A id \in Ids : FlowOf(id)'
    BY DEF FlowInv
  <1>1. PresentsLast(toAgent) /\ \A id \in Ids : FlowOf(id)
    BY DEF FlowInv
  <1>2. PresentsLast(toAgent')
    BY <1>1, PresentsLastKept
  <1>3. \A m : m \in Ahead <=> m = AgentArrival \/ m \in Ahead'
    BY TailElements DEF Ahead, AgentArrival
  <1>4. ASSUME NEW id \in Ids PROVE FlowOf(id)'
    <2>1. (PresentAhead(id)' <=> PresentAhead(id)) /\ (CreateAhead(id)' <=> CreateAhead(id))
      BY <1>3 DEF PresentAhead, CreateAhead
    <2>2. FlowOf(id)
      BY <1>1
    <2>. QED
      BY <1>3, <2>1, <2>2 DEF FlowOf, Matches
  <1>. QED
    BY <1>2, <1>4

\* Nothing is read or sent, and every window shows what it showed.
LEMMA FlowStays ==
    ASSUME FlowInv, UNCHANGED <<toAgent, newest, agentSocket, pending>>, DOMAIN proxies' = DOMAIN proxies,
           \A id \in DOMAIN proxies : proxies'[id].presentation = proxies[id].presentation
    PROVE  FlowInv'
  <1>1. \A id : (PresentAhead(id)' <=> PresentAhead(id)) /\ (CreateAhead(id)' <=> CreateAhead(id)) /\ Ahead' = Ahead
    BY DEF PresentAhead, CreateAhead, Ahead
  <1>2. \A id \in Ids : FlowOf(id) => FlowOf(id)'
    BY <1>1 DEF FlowOf, Matches
  <1>. QED
    BY <1>2 DEF FlowInv

\* The thread moves the newest presentation on: to the queue, then to the window.
LEMMA ThreadKeepsFlow ==
    ASSUME TypeInv, FlowInv, ThreadStep
    PROVE  FlowInv'
  <1>. SUFFICES ASSUME agentSocket' = "open" PROVE FlowInv'
    BY DEF FlowInv
  <1>1. AgentStep /\ UNCHANGED newest
    BY DEF ThreadStep, exporterVars
  <1>2. toAgent \in Seq(ToAgentMessage) /\ WireTypeOK /\ AgentTypeOK
    BY DEF TypeInv, WireTypeOK
  <1>3. toAgent # <<>> => AgentArrival \in ToAgentMessage
    BY <1>2, ArrivalIsTyped
  <1>a. CASE ReceiveHelloAck \/ ReceiveOutputConfig \/ ReceiveActivate
    <2>1. /\ toAgent # <<>> /\ toAgent' = Tail(toAgent) /\ UNCHANGED <<agentSocket, proxies, pending>>
          /\ AgentArrival.type \notin {"WINDOW_PRESENT", "WINDOW_CREATE"}
      BY <1>a DEF ReceiveHelloAck, ReceiveOutputConfig, ReceiveActivate, AgentArrived, AgentArrival, Answer,
                  agentVars, applicationVars
    <2>. QED
      BY <1>1, <1>2, <2>1, FlowPastOthers
  <1>b. CASE ReceiveCreate
    <2>1. toAgent # <<>> /\ AgentArrival.type = "WINDOW_CREATE" /\ toAgent' = Tail(toAgent)
          /\ UNCHANGED <<agentSocket, pending>>
      BY <1>b DEF ReceiveCreate, AgentArrived, AgentArrival, Answer, applicationVars
    <2>. DEFINE new == AgentArrival.id
    <2>2. new \in Ids
      <3>1. PICK id \in Ids : \E parent \in Parents[id] : AgentArrival = WindowCreate(id, parent, Width, Height)
        BY <1>3, <2>1, ToAgentKinds
      <3>. QED
        BY <3>1 DEF WindowCreate
    <2>3. /\ new \notin DOMAIN proxies
          /\ proxies' = [id \in DOMAIN proxies \cup {new} |->
                            IF id = new THEN NewProxy(AgentArrival) ELSE proxies[id]]
      BY <1>b DEF ReceiveCreate, CanCreate
    <2>4. NewProxy(AgentArrival).presentation = Hidden
      BY DEF NewProxy
    <2>5. PresentsLast(toAgent) /\ \A id \in Ids : FlowOf(id)
      BY <2>1 DEF FlowInv
    <2>6. PresentsLast(toAgent')
      BY <1>2, <2>1, <2>5, PresentsLastKept
    <2>7. \A m : m \in Ahead <=> m = AgentArrival \/ m \in Ahead'
      BY <1>2, <2>1, TailElements DEF Ahead, AgentArrival
    <2>8. ASSUME NEW id \in Ids PROVE FlowOf(id)'
      <3>1. PresentAhead(id)' <=> PresentAhead(id)
        BY <2>1, <2>7 DEF PresentAhead
      <3>2. CASE id # new
        <4>1. CreateAhead(id)' <=> CreateAhead(id)
          BY <2>7, <3>2 DEF CreateAhead
        <4>2. (id \in DOMAIN proxies' <=> id \in DOMAIN proxies) /\ (id \in DOMAIN proxies => proxies'[id] = proxies[id])
          BY <2>3, <3>2
        <4>. HIDE DEF new
        <4>. QED
          BY <1>1, <2>1, <2>5, <2>7, <3>1, <4>1, <4>2 DEF FlowOf, Matches
      <3>3. CASE id = new
        <4>1. CreateAhead(id)
          BY <2>1, <2>7, <3>3 DEF CreateAhead
        <4>2. proxies'[id].presentation = Hidden /\ id \notin DOMAIN pending'
          BY <1>2, <2>1, <2>3, <2>4, <3>3 DEF AgentTypeOK
        <4>3. Matches(Hidden, NoPresent)
          BY DEF Matches, Hidden, NoPresent
        <4>. HIDE DEF new
        <4>. QED
          BY <1>1, <2>1, <2>5, <2>7, <3>1, <4>1, <4>2, <4>3 DEF FlowOf, Matches
      <3>. QED
        BY <3>2, <3>3
    <2>. QED
      BY <2>6, <2>8 DEF FlowInv
  <1>c. CASE ReceivePresent
    <2>1. /\ toAgent # <<>> /\ AgentArrival.type = "WINDOW_PRESENT" /\ toAgent' = Tail(toAgent)
          /\ UNCHANGED <<agentSocket, proxies>>
          /\ pending' = KeepNewest(AgentArrival.id, AgentArrival.presentation)
      BY <1>c DEF ReceivePresent, AgentArrived, AgentArrival, Answer
    <2>. DEFINE shown == AgentArrival.id
    <2>2. PresentsLast(toAgent) /\ \A id \in Ids : FlowOf(id)
      BY <2>1 DEF FlowInv
    <2>3. PresentsLast(toAgent') /\ \A m \in Ahead' : m.type # "WINDOW_CREATE"
      BY <1>2, <2>1, <2>2, PresentsLastKept DEF AgentArrival, Ahead
    <2>4. \A m : m \in Ahead <=> m = AgentArrival \/ m \in Ahead'
      BY <1>2, <2>1, TailElements DEF Ahead, AgentArrival
    <2>5. /\ DOMAIN pending' = DOMAIN pending \cup {shown} /\ pending'[shown] = AgentArrival.presentation
          /\ \A id \in DOMAIN pending : id # shown => pending'[id] = pending[id]
      BY <2>1 DEF KeepNewest
    <2>6. ASSUME NEW id \in Ids PROVE FlowOf(id)'
      <3>1. ~CreateAhead(id)'
        BY <2>3 DEF CreateAhead
      <3>2. ~CreateAhead(id)
        BY <2>1, <2>3, <2>4 DEF CreateAhead
      <3>3. CASE id = shown
        <4>1. Matches(AgentArrival.presentation, newest[id])
          BY <2>1, <2>2, <2>4, <3>3 DEF FlowOf
        <4>. QED
          BY <1>1, <2>1, <2>2, <2>4, <2>5, <3>1, <3>3, <4>1 DEF FlowOf, Matches
      <3>4. CASE id # shown
        <4>1. PresentAhead(id)' <=> PresentAhead(id)
          BY <2>4, <3>4 DEF PresentAhead
        <4>2. (id \in DOMAIN pending' <=> id \in DOMAIN pending) /\ (id \in DOMAIN pending => pending'[id] = pending[id])
          BY <2>5, <3>4
        <4>. HIDE DEF shown
        <4>. QED
          BY <1>1, <2>1, <2>2, <2>4, <3>1, <3>2, <4>1, <4>2 DEF FlowOf, Matches
      <3>. QED
        BY <3>3, <3>4
    <2>. QED
      BY <2>3, <2>6 DEF FlowInv
  <1>d. CASE ReceiveDestroy
    <2>. DEFINE old == AgentArrival.id
    <2>1. /\ toAgent # <<>> /\ AgentArrival.type = "WINDOW_DESTROY" /\ toAgent' = Tail(toAgent)
          /\ UNCHANGED agentSocket
          /\ pending' = Without(pending, old) /\ proxies' = WithoutWindow(old)
      BY <1>d DEF ReceiveDestroy, AgentArrived, AgentArrival, Answer
    <2>2. DOMAIN proxies' = DOMAIN proxies \ {old}
      BY <2>1 DEF WithoutWindow
    <2>3. \A id \in DOMAIN proxies' : id \in DOMAIN proxies /\ proxies[id] \in ProxyType
      BY <1>2, <2>2 DEF AgentTypeOK
    <2>4. \A id \in DOMAIN proxies' : proxies'[id].presentation = proxies[id].presentation
      BY <1>2, <2>1, <2>2, PresentationsStay
    <2>5. \A id \in DOMAIN proxies' : /\ id \in DOMAIN pending' <=> id \in DOMAIN pending
                                      /\ id \in DOMAIN pending => pending'[id] = pending[id]
      BY <2>1, <2>2 DEF Without
    <2>. QED
      BY <1>1, <1>2, <2>1, <2>2, <2>4, <2>5, FlowPastOthers
  <1>e. CASE DispatchPresents
    <2>1. /\ UNCHANGED <<toAgent, agentSocket>> /\ pending' = Empty /\ proxies' = AppliedAll
          /\ \A id \in Ready : Presentable(id, pending[id])
      BY <1>e DEF DispatchPresents, AppliedAll, Send
    <2>2. /\ DOMAIN proxies' = DOMAIN proxies
          /\ \A id \in DOMAIN proxies : proxies'[id].presentation =
                IF id \in Ready THEN pending[id] ELSE proxies[id].presentation
      BY <2>1, AppliedFacts DEF TypeInv, AppInv
    <2>3. Ready = DOMAIN pending /\ DOMAIN pending' = {}
      BY <1>2, <2>1 DEF Ready, AgentTypeOK, Empty
    <2>4. \A id : (PresentAhead(id)' <=> PresentAhead(id)) /\ (CreateAhead(id)' <=> CreateAhead(id)) /\ Ahead' = Ahead
      BY <2>1 DEF PresentAhead, CreateAhead, Ahead
    <2>5. \A id \in Ids : FlowOf(id) => FlowOf(id)'
      BY <1>1, <2>2, <2>3, <2>4 DEF FlowOf, Matches
    <2>. QED
      BY <2>1, <2>5 DEF FlowInv
  <1>f. CASE SocketFails \/ DispatchFails \/ Exit
    BY <1>f DEF SocketFails, DispatchFails, Exit, FailConnection
  <1>. QED
    BY <1>1, <1>2, <1>a, <1>b, <1>c, <1>d, <1>e, <1>f, NoFramesArrive DEF AgentStep

\* A new message from the exporter.
LEMMA ExporterKeepsFlow ==
    ASSUME TypeInv, FlowInv, ExporterStep \/ ExporterReads
    PROVE  FlowInv'
  <1>1. UNCHANGED agentVars => UNCHANGED <<proxies, pending>>
    BY DEF agentVars, applicationVars
  <1>2. ASSUME NEW m, ExporterSends(m)
        PROVE  /\ toAgent = <<>> /\ UNCHANGED <<agentSocket, proxies, pending>> /\ toAgent' = <<m>>
               /\ Ahead = {} /\ Ahead' = {m} /\ PresentsLast(toAgent') /\ agentSocket = "open"
    <2>1. toAgent = <<>> /\ UNCHANGED <<agentSocket, proxies, pending>> /\ toAgent' = <<m>> /\ agentSocket = "open"
      BY <1>1, <1>2 DEF ExporterSends
    <2>2. Ahead = {} /\ Ahead' = {m} /\ PresentsLast(toAgent')
      BY <2>1 DEF Ahead, ToSet, PresentsLast
    <2>. QED
      BY <2>1, <2>2
  <1>3. ASSUME NEW m, ExporterSends(m), NEW id \in Ids, newest'[id] = newest[id],
               m.type \notin {"WINDOW_PRESENT", "WINDOW_CREATE"} \/ m.id # id
        PROVE  FlowOf(id)'
    <2>1. FlowOf(id) /\ ~PresentAhead(id) /\ ~CreateAhead(id) /\ ~PresentAhead(id)' /\ ~CreateAhead(id)'
      BY <1>2, <1>3 DEF FlowInv, PresentAhead, CreateAhead
    <2>. QED
      BY <1>2, <1>3, <2>1 DEF FlowOf, Matches
  <1>4. ASSUME NEW m, ExporterSends(m), UNCHANGED newest, m.type \notin {"WINDOW_PRESENT", "WINDOW_CREATE"}
        PROVE  FlowInv'
    BY <1>2, <1>3, <1>4 DEF FlowInv
  <1>5. CASE SendConfig \/ \E id \in Ids : SendActivate(id) \/ SendDestroy(id)
    <2>1. UNCHANGED newest /\ \E m : ExporterSends(m) /\ m.type \notin {"WINDOW_PRESENT", "WINDOW_CREATE"}
      <3>1. \A id, s : /\ OutputConfig(s).type = "OUTPUT_CONFIG"
                       /\ WindowActivate(id).type = "WINDOW_ACTIVATE" /\ WindowDestroy(id).type = "WINDOW_DESTROY"
        BY DEF OutputConfig, WindowActivate, WindowDestroy
      <3>2. UNCHANGED newest
        BY <1>5 DEF SendConfig, SendActivate, SendDestroy
      <3>3. \/ \E s \in Rescales : ExporterSends(OutputConfig(s))
            \/ \E id \in Ids : ExporterSends(WindowActivate(id)) \/ ExporterSends(WindowDestroy(id))
        BY <1>5 DEF SendConfig, SendActivate, SendDestroy
      <3>. QED
        BY <3>1, <3>2, <3>3
    <2>. QED
      BY <1>4, <2>1
  <1>6. ASSUME NEW id \in Ids, SendCreate(id) PROVE FlowInv'
    <2>1. PICK parent : ExporterSends(WindowCreate(id, parent, Width, Height))
      BY <1>6 DEF SendCreate
    <2>. DEFINE m == WindowCreate(id, parent, Width, Height)
    <2>2. m.type = "WINDOW_CREATE" /\ m.id = id /\ ExporterSends(m)
      BY <2>1 DEF WindowCreate
    <2>3. newest' = [newest EXCEPT ![id] = NoPresent] /\ newest \in [Ids -> [sequence : Nat, visible : BOOLEAN]]
      BY <1>6 DEF SendCreate, TypeInv, ExporterTypeOK
    <2>. HIDE DEF m
    <2>4. ASSUME NEW i \in Ids PROVE FlowOf(i)'
      <3>1. CASE i # id
        BY <1>3, <2>2, <2>3, <3>1
      <3>2. CASE i = id
        <4>1. ~PresentAhead(i)' /\ CreateAhead(i)' /\ \A a \in Ahead' : a.type # "WINDOW_PRESENT"
          BY <1>2, <2>2, <3>2 DEF PresentAhead, CreateAhead
        <4>. QED
          BY <2>3, <3>2, <4>1 DEF FlowOf
      <3>. QED
        BY <3>1, <3>2
    <2>. QED
      BY <1>2, <2>2, <2>4 DEF FlowInv
  <1>7. ASSUME NEW id \in Ids, SendPresent(id) PROVE FlowInv'
    <2>1. PICK r \in Regions :
             /\ ExporterSends(WindowPresent(id, Presentation(r, sent + 1)))
             /\ newest' = [newest EXCEPT ![id] = [sequence |-> sent + 1, visible |-> r.visible]]
      BY <1>7 DEF SendPresent
    <2>. DEFINE m == WindowPresent(id, Presentation(r, sent + 1))
    <2>2. m.type = "WINDOW_PRESENT" /\ m.id = id /\ ExporterSends(m) /\ newest \in [Ids -> [sequence : Nat, visible : BOOLEAN]]
      BY <2>1 DEF WindowPresent, TypeInv, ExporterTypeOK
    <2>3. Matches(m.presentation, newest'[id])
      BY <2>1, <2>2 DEF WindowPresent, Presentation, Matches
    <2>. HIDE DEF m
    <2>4. ASSUME NEW i \in Ids PROVE FlowOf(i)'
      <3>1. CASE i # id
        <4>1. newest'[i] = newest[i]
          BY <2>1, <2>2, <3>1
        <4>. QED
          BY <1>3, <2>2, <3>1, <4>1
      <3>2. CASE i = id
        <4>1. PresentAhead(i)'
          BY <1>2, <2>2, <3>2 DEF PresentAhead
        <4>. QED
          BY <1>2, <2>2, <2>3, <3>2, <4>1 DEF FlowOf
      <3>. QED
        BY <3>1, <3>2
    <2>. QED
      BY <1>2, <2>2, <2>4 DEF FlowInv
  <1>8. CASE ExporterCloses \/ ExporterReads
    <2>1. UNCHANGED <<toAgent, newest, agentSocket, proxies, pending>>
      BY <1>1, <1>8 DEF ExporterCloses, ExporterReads, exporterVars
    <2>. QED
      BY <2>1, FlowStays
  <1>. QED
    BY <1>5, <1>6, <1>7, <1>8 DEF ExporterStep

\* Every step keeps FlowInv.
LEMMA FlowStep ==
    ASSUME TypeInv, FlowInv, [Next]_vars
    PROVE  FlowInv'
  <1>1. CASE UNCHANGED vars
    <2>1. UNCHANGED <<toAgent, newest, agentSocket, proxies, pending>>
      BY <1>1 DEF vars, wireVars, agentVars, applicationVars, exporterVars
    <2>. QED
      BY <2>1, FlowStays
  <1>2. CASE UserStep
    <2>1. UserEffect /\ UNCHANGED newest
      BY <1>2, UserEffects DEF UserStep, TypeInv
    <2>2. UNCHANGED <<toAgent, agentSocket, pending>> /\ InputChanges(proxies')
      BY <2>1 DEF UserEffect, applicationVars
    <2>. QED
      BY <2>1, <2>2, FlowStays DEF InputChanges, SameButForInput
  <1>. QED
    BY <1>1, <1>2, ThreadKeepsFlow, ExporterKeepsFlow DEF Next

\* A window shows the newest presentation sent to it once none is queued or on
\* its way (queue_present keeps the newest, apply_pending_presents applies what
\* is kept): for any number of windows and presentations, however many were
\* skipped.
THEOREM NewestShown == Spec => []NewestIsShown
  <1>1. TypeInv /\ FlowInv /\ [Next]_vars => FlowInv'
    BY FlowStep
  <1>2. TypeInv /\ FlowInv => NewestIsShown
    <2>. SUFFICES ASSUME TypeInv, FlowInv, Drained, toAgent = <<>>, DOMAIN pending = {}, NEW id \in DOMAIN proxies
                  PROVE  proxies[id].presentation.sequence = newest[id].sequence
      BY DEF NewestIsShown
    <2>1. id \in Ids /\ FlowOf(id)
      BY DEF TypeInv, AgentTypeOK, FlowInv, Drained
    <2>2. Ahead = {}
      BY DEF Ahead, ToSet
    <2>. QED
      BY <2>1, <2>2 DEF FlowOf, PresentAhead, CreateAhead, Matches
  <1>. QED
    BY <1>1, <1>2, FlowInit, TypesInvariant, PTL DEF Spec
-----------------------------------------------------------------------------
(* What a reader of the agent's messages knows.                            *)

KnownType == [shown : Nat, entered : BOOLEAN, buttons : SUBSET PointerButtons,
              focused : BOOLEAN, keys : SUBSET Keys]
ReaderType == [known : [Ids -> KnownType], unacked : [Ids -> SUBSET Nat]]
Reader == [known |-> known, unacked |-> unacked]

\* What makes a message one that a reader in state r expects, and the state it
\* is in after it.
Sensible(r, m) ==
    /\ m.id \in Ids
    /\ m.type \in PointerTypes \cup {"WINDOW_PRESENT_ACK", "POINTER_CAPTURE_LOST",
                                     "KEYBOARD_FOCUS", "KEYBOARD_KEY"}
    /\ m.type = "WINDOW_PRESENT_ACK" => m.sequence \in r.unacked[m.id]
    /\ m.type \in PointerTypes => m.location.sequence = r.known[m.id].shown
    /\ m.type \in {"POINTER_MOTION", "POINTER_LEAVE"} => r.known[m.id].entered
    /\ m.type = "POINTER_CAPTURE_LOST" => r.known[m.id].buttons # {}
    /\ m.type = "KEYBOARD_FOCUS" => m.focused # r.known[m.id].focused /\ r.known[m.id].keys = {}
    /\ m.type = "KEYBOARD_KEY" =>
          r.known[m.id].focused /\ (m.down \/ m.key \in r.known[m.id].keys)
Read(r, m) ==
    [known |-> [r.known EXCEPT ![m.id] = After(@, m)],
     unacked |-> IF m.type = "WINDOW_PRESENT_ACK"
                 THEN [r.unacked EXCEPT ![m.id] = @ \ {m.sequence}] ELSE r.unacked]

\* A reader in state r who reads the messages s expects each, and is in state
\* last after them.
Reads(r, s, last) ==
    /\ \E S : s \in Seq(S)
    /\ \E h : /\ h[0] = r /\ h[Len(s)] = last
              /\ \A n \in 0 .. Len(s) : h[n] \in ReaderType
              /\ \A n \in 1 .. Len(s) : Sensible(h[n - 1], s[n]) /\ h[n] = Read(h[n - 1], s[n])

\* A sequence over a set is one over any larger set.
LEMMA SeqOfMore ==
    ASSUME NEW S, NEW T, S \subseteq T, NEW s \in Seq(S)
    PROVE  s \in Seq(T)
  OBVIOUS

\* Nothing to read changes nothing.
LEMMA ReadsNothing ==
    ASSUME NEW r \in ReaderType
    PROVE  Reads(r, <<>>, r)
  <1>. DEFINE h == [n \in {0} |-> r]
  <1>1. <<>> \in Seq({}) /\ Len(<<>>) = 0
    OBVIOUS
  <1>2. h[0] = r /\ (\A n \in 0 .. 0 : h[n] \in ReaderType) /\ 1 .. 0 = {}
    OBVIOUS
  <1>. HIDE DEF h
  <1>3. \E g : /\ g[0] = r /\ g[Len(<<>>)] = r /\ \A n \in 0 .. Len(<<>>) : g[n] \in ReaderType
               /\ \A n \in 1 .. Len(<<>>) : Sensible(g[n - 1], <<>>[n]) /\ g[n] = Read(g[n - 1], <<>>[n])
    BY <1>1, <1>2
  <1>. QED
    BY <1>1, <1>3 DEF Reads

\* One message.
LEMMA ReadsOne ==
    ASSUME NEW r \in ReaderType, NEW m, Sensible(r, m), Read(r, m) \in ReaderType
    PROVE  Reads(r, <<m>>, Read(r, m))
  <1>. DEFINE s == <<m>>
              last == Read(r, m)
              h == [n \in 0 .. 1 |-> IF n = 0 THEN r ELSE last]
  <1>1. s \in Seq({m}) /\ Len(s) = 1 /\ s[1] = m
    OBVIOUS
  <1>. HIDE DEF s, last
  <1>2. h[0] = r /\ h[1] = last /\ \A n \in 0 .. 1 : h[n] \in ReaderType
    BY DEF last
  <1>. HIDE DEF h
  <1>3. \A n \in 1 .. 1 : n = 1 /\ n - 1 = 0
    OBVIOUS
  <1>4. \A n \in 1 .. 1 : Sensible(h[n - 1], s[n]) /\ h[n] = Read(h[n - 1], s[n])
    BY <1>1, <1>2, <1>3 DEF last
  <1>5. Reads(r, s, last)
    BY <1>1, <1>2, <1>4 DEF Reads
  <1>. QED
    BY <1>5 DEF s, last

\* One lot of messages and then another.
LEMMA ReadsBoth ==
    ASSUME NEW r, NEW s, NEW mid, NEW t, NEW last, Reads(r, s, mid), Reads(mid, t, last)
    PROVE  Reads(r, s \o t, last)
  <1>1. PICK S : s \in Seq(S)
    BY DEF Reads
  <1>2. PICK T : t \in Seq(T)
    BY DEF Reads
  <1>. DEFINE M == S \cup T
              a == s \o t
              k == Len(s)
              l == Len(t)
  <1>3. s \in Seq(M) /\ t \in Seq(M)
    BY <1>1, <1>2, SeqOfMore
  <1>4. /\ a \in Seq(M) /\ Len(a) = k + l /\ k \in Nat /\ l \in Nat
        /\ \A n \in 1 .. k + l : a[n] = IF n <= k THEN s[n] ELSE t[n - k]
    BY <1>3, ConcatProperties, LenProperties
  <1>5. PICK g : /\ g[0] = r /\ g[k] = mid
                 /\ \A n \in 0 .. k : g[n] \in ReaderType
                 /\ \A n \in 1 .. k : Sensible(g[n - 1], s[n]) /\ g[n] = Read(g[n - 1], s[n])
    BY DEF Reads
  <1>6. PICK h : /\ h[0] = mid /\ h[l] = last
                 /\ \A n \in 0 .. l : h[n] \in ReaderType
                 /\ \A n \in 1 .. l : Sensible(h[n - 1], t[n]) /\ h[n] = Read(h[n - 1], t[n])
    BY DEF Reads
  <1>. DEFINE f == [n \in 0 .. k + l |-> IF n <= k THEN g[n] ELSE h[n - k]]
  <1>. HIDE DEF M, a, k, l
  <1>7. /\ \A n \in 0 .. k : f[n] = g[n]
        /\ \A n \in 0 .. l : f[k + n] = h[n]
    <2>1. \A n \in 0 .. k : n \in 0 .. k + l /\ n <= k
      BY <1>4
    <2>2. \A n \in 1 .. l : k + n \in 0 .. k + l /\ ~(k + n <= k) /\ (k + n) - k = n
      BY <1>4
    <2>3. k + 0 = k /\ k \in 0 .. k /\ \A n \in 0 .. l : n = 0 \/ n \in 1 .. l
      BY <1>4
    <2>4. \A n \in 0 .. k : f[n] = g[n]
      BY <2>1
    <2>5. \A n \in 1 .. l : f[k + n] = h[n]
      BY <2>2
    <2>. HIDE DEF f
    <2>. QED
      BY <1>5, <1>6, <2>3, <2>4, <2>5
  <1>8. /\ \A n \in 1 .. k : a[n] = s[n] /\ n - 1 \in 0 .. k
        /\ \A n \in 1 .. l : a[k + n] = t[n] /\ n - 1 \in 0 .. l /\ (k + n) - 1 = k + (n - 1)
    BY <1>4
  <1>. HIDE DEF f
  <1>9. \A n \in 1 .. k : Sensible(f[n - 1], a[n]) /\ f[n] = Read(f[n - 1], a[n])
    BY <1>4, <1>5, <1>7, <1>8
  <1>10. ASSUME NEW n \in 1 .. l
         PROVE  Sensible(f[(k + n) - 1], a[k + n]) /\ f[k + n] = Read(f[(k + n) - 1], a[k + n])
    BY <1>4, <1>6, <1>7, <1>8
  <1>11. \A n \in 1 .. k + l : n \in 1 .. k \/ \E i \in 1 .. l : n = k + i
    <2>1. \A n \in 1 .. k + l : n \in 1 .. k \/ (n - k \in 1 .. l /\ n = k + (n - k))
      BY <1>4
    <2>. QED
      BY <2>1
  <1>12. \A n \in 1 .. Len(a) : Sensible(f[n - 1], a[n]) /\ f[n] = Read(f[n - 1], a[n])
    BY <1>4, <1>9, <1>10, <1>11
  <1>13. \A n \in 0 .. k + l : n \in 0 .. k \/ \E i \in 0 .. l : n = k + i
    <2>1. \A n \in 0 .. k + l : n \in 0 .. k \/ (n - k \in 0 .. l /\ n = k + (n - k))
      BY <1>4
    <2>. QED
      BY <2>1
  <1>14. \A n \in 0 .. Len(a) : f[n] \in ReaderType
    <2>. SUFFICES ASSUME NEW n \in 0 .. k + l PROVE f[n] \in ReaderType
      BY <1>4
    <2>1. CASE n \in 0 .. k
      BY <1>5, <1>7, <2>1
    <2>2. ASSUME NEW i \in 0 .. l, n = k + i PROVE f[n] \in ReaderType
      BY <1>6, <1>7, <2>2
    <2>. QED
      BY <1>13, <2>1, <2>2
  <1>15. f[0] = r /\ f[Len(a)] = last
    BY <1>4, <1>5, <1>6, <1>7
  <1>. QED
    BY <1>4, <1>12, <1>14, <1>15 DEF Reads, a

\* The head of what reads well makes sense, and the tail reads well after it.
LEMMA ReadsFirst ==
    ASSUME NEW r, NEW s, NEW last, Reads(r, s, last), s # <<>>
    PROVE  Sensible(r, Head(s)) /\ Reads(Read(r, Head(s)), Tail(s), last)
  <1>1. PICK S : s \in Seq(S)
    BY DEF Reads
  <1>. DEFINE k == Len(s)
              t == Tail(s)
              m == Head(s)
  <1>2. PICK h : /\ h[0] = r /\ h[k] = last
                 /\ \A n \in 0 .. k : h[n] \in ReaderType
                 /\ \A n \in 1 .. k : Sensible(h[n - 1], s[n]) /\ h[n] = Read(h[n - 1], s[n])
    BY DEF Reads
  <1>3. /\ k \in Nat /\ k >= 1 /\ t \in Seq(S) /\ Len(t) = k - 1 /\ m = s[1]
        /\ \A n \in 1 .. Len(t) : t[n] = s[n + 1]
    BY <1>1, HeadTailProperties, LenProperties, EmptySeq
  <1>. DEFINE g == [n \in 0 .. k - 1 |-> h[n + 1]]
  <1>. HIDE DEF k, t, m
  <1>4. Sensible(r, m) /\ h[1] = Read(r, m)
    <2>1. 1 \in 1 .. k /\ 1 - 1 = 0
      BY <1>3
    <2>. QED
      BY <1>2, <1>3, <2>1
  <1>5. /\ \A n \in 0 .. k - 1 : g[n] = h[n + 1] /\ n + 1 \in 0 .. k
        /\ \A n \in 1 .. k - 1 : n + 1 \in 1 .. k /\ (n + 1) - 1 = n /\ n - 1 \in 0 .. k - 1 /\ (n - 1) + 1 = n
        /\ 0 + 1 = 1 /\ (k - 1) + 1 = k /\ 0 \in 0 .. k - 1 /\ k - 1 \in 0 .. k - 1
    BY <1>3
  <1>. HIDE DEF g
  <1>6. \A n \in 1 .. Len(t) : Sensible(g[n - 1], t[n]) /\ g[n] = Read(g[n - 1], t[n])
    <2>. SUFFICES ASSUME NEW n \in 1 .. k - 1
                  PROVE  Sensible(g[n - 1], t[n]) /\ g[n] = Read(g[n - 1], t[n])
      BY <1>3
    <2>1. t[n] = s[n + 1] /\ g[n - 1] = h[n] /\ g[n] = h[n + 1]
      <3>1. n \in 0 .. k - 1
        BY <1>3
      <3>2. g[n - 1] = h[(n - 1) + 1]
        BY <1>5
      <3>. QED
        BY <1>3, <1>5, <3>1, <3>2
    <2>2. Sensible(h[(n + 1) - 1], s[n + 1]) /\ h[n + 1] = Read(h[(n + 1) - 1], s[n + 1])
      BY <1>2, <1>5
    <2>. QED
      BY <1>5, <2>1, <2>2
  <1>7. g[0] = Read(r, m) /\ g[Len(t)] = last /\ \A n \in 0 .. Len(t) : g[n] \in ReaderType
    BY <1>2, <1>3, <1>4, <1>5
  <1>. QED
    BY <1>3, <1>4, <1>6, <1>7 DEF Reads, t, m
-----------------------------------------------------------------------------
\* The reader's state with other knowledge of one window.
With(r, id, k) == [known |-> [r.known EXCEPT ![id] = k], unacked |-> r.unacked]

\* A reader that learns of one window.
LEMMA WithFacts ==
    ASSUME NEW r \in ReaderType, NEW id \in Ids, NEW k \in KnownType
    PROVE  /\ With(r, id, k) \in ReaderType
           /\ With(r, id, k).unacked = r.unacked
           /\ \A i \in Ids : With(r, id, k).known[i] = IF i = id THEN k ELSE r.known[i]
           /\ k = r.known[id] => With(r, id, k) = r
           /\ \A l : With(With(r, id, k), id, l) = With(r, id, l)
  <1>1. r.known \in [Ids -> KnownType] /\ r.unacked \in [Ids -> SUBSET Nat]
        /\ r = [known |-> r.known, unacked |-> r.unacked]
    BY DEF ReaderType
  <1>. HIDE DEF KnownType
  <1>. QED
    BY <1>1 DEF With, ReaderType

\* One message about the input of a window.
LEMMA ReadsInput ==
    ASSUME NEW r \in ReaderType, NEW m, Sensible(r, m), m.type # "WINDOW_PRESENT_ACK",
           After(r.known[m.id], m) \in KnownType
    PROVE  Reads(r, <<m>>, With(r, m.id, After(r.known[m.id], m)))
  <1>1. m.id \in Ids
    BY DEF Sensible
  <1>2. Read(r, m) = With(r, m.id, After(r.known[m.id], m))
    BY DEF Read, With
  <1>3. Read(r, m) \in ReaderType
    BY <1>1, <1>2, WithFacts
  <1>. QED
    BY <1>2, <1>3, ReadsOne

\* A sequence of releases, one for each key that is down: what is left at the
\* end is a window without a key.
LEMMA Listing ==
    ASSUME NEW S, IsFiniteSet(S)
    PROVE  /\ SetToSeq(S) \in Seq(S) /\ IsInjective(SetToSeq(S))
           /\ DOMAIN SetToSeq(S) = 1 .. Len(SetToSeq(S))
           /\ \A x : x \in ToSet(SetToSeq(S)) <=> x \in S
           /\ S = {} => SetToSeq(S) = <<>>
  <1>. DEFINE n == Cardinality(S)
              Lists(f) == f \in [1 .. n -> S] /\ IsInjective(f)
  <1>1. n \in Nat
    BY FS_CardinalityType
  <1>2. \E f : Lists(f)
    <2>1. ExistsBijection(1 .. n, S)
      BY FS_CardinalityType
    <2>2. PICK f : f \in Bijection(1 .. n, S)
      BY <2>1 DEF ExistsBijection
    <2>. QED
      BY <2>2 DEF Bijection, Injection, IsInjective
  <1>. DEFINE s == SetToSeq(S)
  <1>3. Lists(s)
    BY <1>2 DEF SetToSeq
  <1>4. s \in Seq(S) /\ DOMAIN s = 1 .. n /\ Len(s) = n
    BY <1>1, <1>3, SeqDef
  <1>5. s \in Injection(1 .. n, S)
    BY <1>3 DEF Injection
  <1>6. IsFiniteSet(1 .. n) /\ Cardinality(1 .. n) = n
    BY <1>1, FS_Interval
  <1>7. s \in Surjection(1 .. n, S)
    BY <1>5, <1>6, FS_Injection
  <1>8. \A x : x \in ToSet(s) <=> x \in S
    BY <1>3, <1>7 DEF Surjection, ToSet
  <1>9. S = {} => s = <<>>
    BY <1>4, FS_EmptySet
  <1>. QED
    BY <1>3, <1>4, <1>8, <1>9

\* release_pressed_keys, to a reader who knows the window's keys and focus.
LEMMA ReadsReleases ==
    ASSUME NEW r \in ReaderType, NEW id \in Ids, NEW keys, keys = r.known[id].keys,
           keys # {} => r.known[id].focused,
           NEW releases, NEW order, order = SetToSeq(keys),
           releases = [i \in DOMAIN order |-> KeyboardKey(id, order[i], FALSE)]
    PROVE  Reads(r, releases, With(r, id, [r.known[id] EXCEPT !.keys = {}]))
  <1>. DEFINE k == r.known[id]
              N == Len(order)
              Rest(n) == {x \in keys : \A i \in 1 .. n : x # order[i]}
              K(n) == [k EXCEPT !.keys = Rest(n)]
              h == [n \in 0 .. N |-> With(r, id, K(n))]
  <1>1. k \in KnownType /\ keys \in SUBSET Keys /\ IsFiniteSet(keys) /\ \A n : Rest(n) \in SUBSET Keys
    <2>1. k \in KnownType
      BY DEF ReaderType
    <2>2. keys \subseteq Keys
      BY <2>1 DEF KnownType
    <2>. QED
      BY <2>1, <2>2, KeysAssumption, FS_Subset
  <1>2. /\ order \in Seq(keys) /\ IsInjective(order) /\ DOMAIN order = 1 .. N /\ N \in Nat
        /\ \A x : x \in ToSet(order) <=> x \in keys
    BY <1>1, Listing, LenProperties
  <1>3. \A n \in 1 .. N : order[n] \in keys
    BY <1>2 DEF ToSet
  <1>4. /\ releases \in Seq({KeyboardKey(id, x, FALSE) : x \in keys}) /\ Len(releases) = N
        /\ \A n \in 1 .. N : releases[n] = KeyboardKey(id, order[n], FALSE)
    <2>. DEFINE M == {KeyboardKey(id, x, FALSE) : x \in keys}
                f(i) == KeyboardKey(id, order[i], FALSE)
    <2>1. releases = [i \in 1 .. N |-> f(i)]
      BY <1>2
    <2>2. \A i \in 1 .. N : f(i) \in M
      BY <1>3
    <2>3. releases \in Seq(M) /\ Len(releases) = N /\ \A n \in 1 .. N : releases[n] = f(n)
      <3>. HIDE DEF M, f
      <3>1. releases \in Seq(M)
        BY <1>2, <2>1, <2>2, IsASeq
      <3>2. DOMAIN releases = 1 .. N
        BY <2>1
      <3>. QED
        BY <1>2, <2>1, <3>1, <3>2, LenProperties
    <2>. QED
      BY <2>3
  <1>5. Rest(0) = keys /\ Rest(N) = {}
    BY <1>2 DEF ToSet
  <1>6. \A n \in 1 .. N : order[n] \in Rest(n - 1) /\ Rest(n) = Rest(n - 1) \ {order[n]}
    <2>. SUFFICES ASSUME NEW n \in 1 .. N
                  PROVE  order[n] \in Rest(n - 1) /\ Rest(n) = Rest(n - 1) \ {order[n]}
      OBVIOUS
    <2>1. \A i : i \in 1 .. n <=> i \in 1 .. n - 1 \/ i = n
      BY <1>2
    <2>2. \A i \in 1 .. n - 1 : i # n /\ i \in DOMAIN order /\ n \in DOMAIN order
      BY <1>2
    <2>3. order[n] \in Rest(n - 1)
      BY <1>3, <1>2, <2>2 DEF IsInjective
    <2>4. \A x : x \in Rest(n) <=> x \in Rest(n - 1) /\ x # order[n]
      BY <2>1
    <2>. QED
      BY <2>3, <2>4
  <1>7. \A n : K(n) \in KnownType /\ K(n).keys = Rest(n) /\ K(n).focused = k.focused
    <2>. HIDE DEF Rest, k
    <2>. QED
      BY <1>1 DEF KnownType
  <1>8. \A n \in 0 .. N : h[n] = With(r, id, K(n)) /\ h[n] \in ReaderType /\ h[n].known[id] = K(n)
    <2>. HIDE DEF K
    <2>. QED
      BY <1>7, WithFacts
  <1>9. K(0) = k /\ K(N) = [k EXCEPT !.keys = {}]
    <2>. HIDE DEF Rest
    <2>1. k = [k EXCEPT !.keys = k.keys]
      BY <1>1 DEF KnownType
    <2>. QED
      BY <1>5, <2>1
  <1>10. ASSUME NEW n \in 1 .. N PROVE Sensible(h[n - 1], releases[n]) /\ h[n] = Read(h[n - 1], releases[n])
    <2>. DEFINE m == releases[n]
    <2>1. /\ m.id = id /\ m.type = "KEYBOARD_KEY" /\ m.key = order[n] /\ m.down = FALSE
      BY <1>4 DEF KeyboardKey
    <2>2. n - 1 \in 0 .. N /\ n \in 0 .. N
      BY <1>2
    <2>3. keys # {}
      BY <1>3
    <2>4. h[n - 1].known[id].focused /\ order[n] \in h[n - 1].known[id].keys
      <3>. HIDE DEF h, K, Rest
      <3>. QED
        BY <1>6, <1>7, <1>8, <2>2, <2>3
    <2>. HIDE DEF m, h
    <2>5. Sensible(h[n - 1], m)
      BY <2>1, <2>4 DEF Sensible, PointerTypes
    <2>6. After(K(n - 1), m) = K(n)
      <3>1. After(K(n - 1), m) = [K(n - 1) EXCEPT !.keys = Rest(n - 1) \ {order[n]}]
        <4>. HIDE DEF K, Rest
        <4>. QED
          BY <1>7, <2>1 DEF After
      <3>2. \A a, b : [[k EXCEPT !.keys = a] EXCEPT !.keys = b] = [k EXCEPT !.keys = b]
        BY <1>1 DEF KnownType
      <3>. HIDE DEF Rest, k
      <3>. QED
        BY <1>6, <3>1, <3>2
    <2>7. Read(h[n - 1], m) = With(h[n - 1], id, After(h[n - 1].known[id], m))
      BY <2>1 DEF Read, With
    <2>8. Read(h[n - 1], m) = With(With(r, id, K(n - 1)), id, K(n))
      <3>. HIDE DEF K
      <3>. QED
        BY <1>8, <2>2, <2>6, <2>7
    <2>9. Read(h[n - 1], m) = h[n]
      <3>. HIDE DEF K
      <3>. QED
        BY <1>7, <1>8, <2>2, <2>8, WithFacts
    <2>. QED
      BY <2>5, <2>9 DEF m
  <1>11. h[0] = r /\ h[N] = With(r, id, [k EXCEPT !.keys = {}])
    <2>1. 0 \in 0 .. N /\ N \in 0 .. N
      BY <1>2
    <2>2. With(r, id, k) = r
      BY <1>1, WithFacts
    <2>. HIDE DEF h, K
    <2>. QED
      BY <1>8, <1>9, <2>1, <2>2
  <1>. HIDE DEF h, K
  <1>. QED
    BY <1>4, <1>8, <1>10, <1>11 DEF Reads
-----------------------------------------------------------------------------
\* The reader's state after acknowledgements of what was queued for some
\* windows.
Acked(r, S) ==
    [known |-> [id \in Ids |-> IF id \in S THEN [r.known[id] EXCEPT !.shown = pending[id].sequence]
                               ELSE r.known[id]],
     unacked |-> [id \in Ids |-> IF id \in S THEN r.unacked[id] \ {pending[id].sequence}
                                 ELSE r.unacked[id]]]

\* What a reader of the ACKs of some windows knows.
LEMMA AckedFacts ==
    ASSUME NEW r \in ReaderType, NEW S, \A id \in S : pending[id].sequence \in Nat
    PROVE  /\ Acked(r, S) \in ReaderType
           /\ \A id \in Ids : id \in S =>
                 /\ Acked(r, S).known[id] = [r.known[id] EXCEPT !.shown = pending[id].sequence]
                 /\ Acked(r, S).unacked[id] = r.unacked[id] \ {pending[id].sequence}
           /\ \A id \in Ids : id \notin S =>
                 Acked(r, S).known[id] = r.known[id] /\ Acked(r, S).unacked[id] = r.unacked[id]
  <1>. DEFINE know(id) == IF id \in S THEN [r.known[id] EXCEPT !.shown = pending[id].sequence]
                          ELSE r.known[id]
              wait(id) == IF id \in S THEN r.unacked[id] \ {pending[id].sequence} ELSE r.unacked[id]
  <1>1. r.known \in [Ids -> KnownType] /\ r.unacked \in [Ids -> SUBSET Nat]
    BY DEF ReaderType
  <1>2. ASSUME NEW id \in Ids PROVE know(id) \in KnownType /\ wait(id) \in SUBSET Nat
    <2>1. r.known[id] \in KnownType /\ r.unacked[id] \in SUBSET Nat
      BY <1>1
    <2>2. \A n \in Nat : [r.known[id] EXCEPT !.shown = n] \in KnownType
      BY <2>1 DEF KnownType
    <2>. HIDE DEF KnownType
    <2>. QED
      BY <2>1, <2>2
  <1>3. Acked(r, S) = [known |-> [id \in Ids |-> know(id)], unacked |-> [id \in Ids |-> wait(id)]]
    BY DEF Acked
  <1>4. \A id \in Ids : Acked(r, S).known[id] = know(id) /\ Acked(r, S).unacked[id] = wait(id)
    <2>. HIDE DEF know, wait
    <2>. QED
      BY <1>3
  <1>5. Acked(r, S) \in ReaderType
    <2>. HIDE DEF know, wait, KnownType
    <2>. QED
      BY <1>2, <1>3 DEF ReaderType
  <1>. QED
    BY <1>4, <1>5

\* The ACKs of a dispatch read well in any order (apply_pending_presents).
LEMMA ReadsAcks ==
    ASSUME NEW r \in ReaderType, NEW order \in Seq(Ids), IsInjective(order),
           \A id \in ToSet(order) : pending[id].sequence \in Nat /\ pending[id].sequence \in r.unacked[id]
    PROVE  Reads(r, Acks(order), Acked(r, ToSet(order)))
  <1>. DEFINE N == Len(order)
              Done(n) == {order[i] : i \in 1 .. n}
              h == [n \in 0 .. N |-> Acked(r, Done(n))]
              acks == Acks(order)
  <1>1. N \in Nat /\ DOMAIN order = 1 .. N /\ \A i \in 1 .. N : order[i] \in Ids
    BY LenProperties, ElementOfSeq
  <1>2. /\ Len(acks) = N /\ \E S : acks \in Seq(S)
        /\ \A n \in 1 .. N : acks[n] = PresentAck(order[n], pending[order[n]].sequence)
    <2>. DEFINE f(i) == PresentAck(order[i], pending[order[i]].sequence)
                M == {f(i) : i \in 1 .. N}
    <2>1. acks = [i \in 1 .. N |-> f(i)]
      BY <1>1 DEF Acks
    <2>2. \A i \in 1 .. N : f(i) \in M
      OBVIOUS
    <2>3. acks \in Seq(M) /\ Len(acks) = N /\ \A n \in 1 .. N : acks[n] = f(n)
      <3>. HIDE DEF M, f, acks
      <3>1. acks \in Seq(M)
        BY <1>1, <2>1, <2>2, IsASeq
      <3>2. DOMAIN acks = 1 .. N
        BY <2>1
      <3>. QED
        BY <1>1, <2>1, <3>1, <3>2, LenProperties
    <2>. HIDE DEF M
    <2>. QED
      BY <2>3
  <1>3. \A n \in 0 .. N : \A id \in Done(n) : pending[id].sequence \in Nat /\ id \in ToSet(order)
    BY <1>1 DEF ToSet
  <1>4. Done(0) = {} /\ Done(N) = ToSet(order)
    BY <1>1 DEF ToSet
  <1>5. \A n \in 1 .. N : order[n] \notin Done(n - 1) /\ order[n] \in ToSet(order)
                          /\ \A x : x \in Done(n) <=> x \in Done(n - 1) \/ x = order[n]
    <2>. SUFFICES ASSUME NEW n \in 1 .. N
                  PROVE  order[n] \notin Done(n - 1) /\ order[n] \in ToSet(order)
                         /\ \A x : x \in Done(n) <=> x \in Done(n - 1) \/ x = order[n]
      OBVIOUS
    <2>1. \A i : i \in 1 .. n <=> i \in 1 .. n - 1 \/ i = n
      BY <1>1
    <2>2. \A i \in 1 .. n - 1 : i # n /\ i \in DOMAIN order /\ n \in DOMAIN order
      BY <1>1
    <2>3. order[n] \notin Done(n - 1)
      BY <1>1, <2>2 DEF IsInjective
    <2>4. \A x : x \in Done(n) <=> x \in Done(n - 1) \/ x = order[n]
      BY <2>1
    <2>. QED
      BY <1>1, <2>3, <2>4 DEF ToSet
  <1>6. \A n \in 0 .. N : h[n] = Acked(r, Done(n)) /\ h[n] \in ReaderType
    <2>. HIDE DEF Done
    <2>. QED
      BY <1>3, AckedFacts
  <1>. HIDE DEF Done
  <1>7. ASSUME NEW n \in 1 .. N PROVE Sensible(h[n - 1], acks[n]) /\ h[n] = Read(h[n - 1], acks[n])
    <2>. DEFINE m == acks[n]
                id == order[n]
                before == Acked(r, Done(n - 1))
                after == Acked(r, Done(n))
    <2>1. m.type = "WINDOW_PRESENT_ACK" /\ m.id = id /\ m.sequence = pending[id].sequence
      <3>1. m = PresentAck(order[n], pending[order[n]].sequence)
        BY <1>2
      <3>. HIDE DEF m
      <3>. QED
        BY <3>1 DEF PresentAck
    <2>2. n - 1 \in 0 .. N /\ n \in 0 .. N /\ id \in Ids
      BY <1>1
    <2>3. h[n - 1] = before /\ h[n] = after /\ before \in ReaderType /\ after \in ReaderType
      <3>. HIDE DEF h
      <3>. QED
        BY <1>6, <2>2
    <2>4. pending[id].sequence \in r.unacked[id] /\ pending[id].sequence \in Nat
      BY <1>5
    <2>5. /\ \A i \in Ids : i \in Done(n - 1) =>
                /\ before.known[i] = [r.known[i] EXCEPT !.shown = pending[i].sequence]
                /\ before.unacked[i] = r.unacked[i] \ {pending[i].sequence}
          /\ \A i \in Ids : i \notin Done(n - 1) => before.known[i] = r.known[i] /\ before.unacked[i] = r.unacked[i]
          /\ \A i \in Ids : i \in Done(n) =>
                /\ after.known[i] = [r.known[i] EXCEPT !.shown = pending[i].sequence]
                /\ after.unacked[i] = r.unacked[i] \ {pending[i].sequence}
          /\ \A i \in Ids : i \notin Done(n) => after.known[i] = r.known[i] /\ after.unacked[i] = r.unacked[i]
      BY <1>3, <2>2, AckedFacts
    <2>6. Sensible(h[n - 1], m)
      <3>1. before.unacked[id] = r.unacked[id]
        BY <1>5, <2>2, <2>5
      <3>. HIDE DEF m, id, before
      <3>. QED
        BY <2>1, <2>2, <2>3, <2>4, <3>1 DEF Sensible, PointerTypes
    <2>. HIDE DEF m, before, after
    <2>7. After(before.known[id], m) = [before.known[id] EXCEPT !.shown = pending[id].sequence]
      BY <2>1 DEF After
    <2>8. Read(before, m) = [known |-> [before.known EXCEPT ![id] = [before.known[id] EXCEPT !.shown = pending[id].sequence]],
                             unacked |-> [before.unacked EXCEPT ![id] = @ \ {pending[id].sequence}]]
      BY <2>1, <2>7 DEF Read
    <2>9. before.known \in [Ids -> KnownType] /\ before.unacked \in [Ids -> SUBSET Nat]
          /\ after.known \in [Ids -> KnownType] /\ after.unacked \in [Ids -> SUBSET Nat]
          /\ after = [known |-> after.known, unacked |-> after.unacked]
      BY <2>3 DEF ReaderType
    <2>10. after.known = [before.known EXCEPT ![id] = [before.known[id] EXCEPT !.shown = pending[id].sequence]]
      <3>. HIDE DEF KnownType, id
      <3>1. before.known[id] = r.known[id] /\ after.known[id] = [r.known[id] EXCEPT !.shown = pending[id].sequence]
        BY <1>5, <2>2, <2>5 DEF id
      <3>2. ASSUME NEW i \in Ids, i # id PROVE after.known[i] = before.known[i]
        <4>1. i \in Done(n) <=> i \in Done(n - 1)
          BY <1>5, <3>2 DEF id
        <4>2. CASE i \in Done(n)
          BY <2>5, <4>1, <4>2
        <4>3. CASE i \notin Done(n)
          BY <2>5, <4>1, <4>3
        <4>. QED
          BY <4>2, <4>3
      <3>. QED
        BY <2>2, <2>9, <3>1, <3>2
    <2>11. after.unacked = [before.unacked EXCEPT ![id] = @ \ {pending[id].sequence}]
      <3>. HIDE DEF id
      <3>1. before.unacked[id] = r.unacked[id] /\ after.unacked[id] = r.unacked[id] \ {pending[id].sequence}
        BY <1>5, <2>2, <2>5 DEF id
      <3>2. ASSUME NEW i \in Ids, i # id PROVE after.unacked[i] = before.unacked[i]
        <4>1. i \in Done(n) <=> i \in Done(n - 1)
          BY <1>5, <3>2 DEF id
        <4>2. CASE i \in Done(n)
          BY <2>5, <4>1, <4>2
        <4>3. CASE i \notin Done(n)
          BY <2>5, <4>1, <4>3
        <4>. QED
          BY <4>2, <4>3
      <3>. QED
        BY <2>2, <2>9, <3>1, <3>2
    <2>12. Read(before, m) = after
      BY <2>8, <2>9, <2>10, <2>11
    <2>. QED
      BY <2>3, <2>6, <2>12 DEF m
  <1>8. h[0] = r /\ h[N] = Acked(r, ToSet(order))
    <2>1. 0 \in 0 .. N /\ N \in 0 .. N
      BY <1>1
    <2>2. r.known \in [Ids -> KnownType] /\ r.unacked \in [Ids -> SUBSET Nat]
          /\ r = [known |-> r.known, unacked |-> r.unacked]
      BY DEF ReaderType
    <2>3. Acked(r, {}) = r
      <3>1. r.known = [id \in Ids |-> r.known[id]] /\ r.unacked = [id \in Ids |-> r.unacked[id]]
        BY <2>2
      <3>2. Acked(r, {}) = [known |-> [id \in Ids |-> r.known[id]], unacked |-> [id \in Ids |-> r.unacked[id]]]
        BY DEF Acked
      <3>. QED
        BY <2>2, <3>1, <3>2
    <2>. HIDE DEF h
    <2>. QED
      BY <1>4, <1>6, <2>1, <2>3
  <1>. HIDE DEF h, acks
  <1>9. \A n \in 0 .. N : h[n] \in ReaderType
    BY <1>6
  <1>. QED
    BY <1>2, <1>7, <1>8, <1>9 DEF Reads, acks
-----------------------------------------------------------------------------
\* What a reader has to know of a window's input, and of one that is gone.
KnowsProxy(k, p) ==
    /\ k.buttons = p.buttons /\ k.keys = p.keys /\ k.focused = p.focused
    /\ p.tracking => k.entered
    /\ p.presentation.visible => k.shown = p.presentation.sequence
KnowsNothing(k) == k.buttons = {} /\ k.keys = {} /\ ~k.focused
InputAgrees(r, px) ==
    \A id \in Ids : IF id \in DOMAIN px THEN KnowsProxy(r.known[id], px[id]) ELSE KnowsNothing(r.known[id])

\* The messages s tell a reader who knows the windows px that they are now new.
TellsTo(px, s, new) ==
    \A r \in ReaderType : InputAgrees(r, px) =>
       \E last \in ReaderType : Reads(r, s, last) /\ last.unacked = r.unacked /\ InputAgrees(last, new)

\* What is told in two parts.
LEMMA TellsBoth ==
    ASSUME NEW px, NEW s, NEW mid, NEW t, NEW new, TellsTo(px, s, mid), TellsTo(mid, t, new)
    PROVE  TellsTo(px, s \o t, new)
  <1>. SUFFICES ASSUME NEW r \in ReaderType, InputAgrees(r, px)
                PROVE  \E last \in ReaderType : Reads(r, s \o t, last) /\ last.unacked = r.unacked /\ InputAgrees(last, new)
    BY DEF TellsTo
  <1>1. PICK r1 \in ReaderType : Reads(r, s, r1) /\ r1.unacked = r.unacked /\ InputAgrees(r1, mid)
    BY DEF TellsTo
  <1>2. PICK r2 \in ReaderType : Reads(r1, t, r2) /\ r2.unacked = r1.unacked /\ InputAgrees(r2, new)
    BY <1>1 DEF TellsTo
  <1>3. Reads(r, s \o t, r2)
    BY <1>1, <1>2, ReadsBoth
  <1>. QED
    BY <1>1, <1>2, <1>3

\* A window that is only drawn, changed or moved, one that is new, and one that
\* goes without any input left need no message.
NothingToTell(px, new) ==
    /\ \A id \in DOMAIN new :
          IF id \in DOMAIN px
          THEN /\ new[id].buttons = px[id].buttons /\ new[id].keys = px[id].keys
               /\ new[id].focused = px[id].focused
               /\ new[id].tracking => px[id].tracking
               /\ new[id].presentation = px[id].presentation
          ELSE /\ new[id].buttons = {} /\ new[id].keys = {} /\ new[id].focused = FALSE
               /\ ~new[id].tracking /\ ~new[id].presentation.visible
    /\ \A id \in DOMAIN px \ DOMAIN new : px[id].buttons = {} /\ px[id].keys = {} /\ ~px[id].focused

\* A change a reader cannot see leaves it agreeing.
LEMMA AgreesStill ==
    ASSUME NEW px, NEW new, NothingToTell(px, new), NEW r \in ReaderType, InputAgrees(r, px)
    PROVE  InputAgrees(r, new)
  <1>1. \A id \in Ids : r.known[id].focused \in BOOLEAN
    BY DEF ReaderType, KnownType
  <1>2. ASSUME NEW id \in Ids
        PROVE  IF id \in DOMAIN new THEN KnowsProxy(r.known[id], new[id]) ELSE KnowsNothing(r.known[id])
    <2>1. CASE id \in DOMAIN new /\ id \in DOMAIN px
      <3>1. KnowsProxy(r.known[id], px[id])
        BY <2>1 DEF InputAgrees
      <3>2. /\ new[id].buttons = px[id].buttons /\ new[id].keys = px[id].keys
            /\ new[id].focused = px[id].focused
            /\ new[id].tracking => px[id].tracking
            /\ new[id].presentation = px[id].presentation
        BY <2>1 DEF NothingToTell
      <3>. QED
        BY <2>1, <3>1, <3>2 DEF KnowsProxy
    <2>2. CASE id \in DOMAIN new /\ id \notin DOMAIN px
      <3>1. KnowsNothing(r.known[id])
        BY <2>2 DEF InputAgrees
      <3>. QED
        BY <1>1, <2>2, <3>1 DEF KnowsProxy, KnowsNothing, NothingToTell
    <2>3. CASE id \notin DOMAIN new /\ id \in DOMAIN px
      <3>1. KnowsProxy(r.known[id], px[id])
        BY <2>3 DEF InputAgrees
      <3>. QED
        BY <2>3, <3>1 DEF KnowsProxy, KnowsNothing, NothingToTell
    <2>4. CASE id \notin DOMAIN new /\ id \notin DOMAIN px
      BY <2>4 DEF InputAgrees
    <2>. QED
      BY <2>1, <2>2, <2>3, <2>4
  <1>. QED
    BY <1>2 DEF InputAgrees

\* A change nobody needs to be told of.
LEMMA TellsNothing ==
    ASSUME NEW px, NEW new, NothingToTell(px, new)
    PROVE  TellsTo(px, <<>>, new)
  BY ReadsNothing, AgreesStill DEF TellsTo

\* The same after something was told.
LEMMA TellsMore ==
    ASSUME NEW px, NEW s, NEW mid, TellsTo(px, s, mid), NEW new, NothingToTell(mid, new)
    PROVE  TellsTo(px, s, new)
  <1>. SUFFICES ASSUME NEW r \in ReaderType, InputAgrees(r, px)
                PROVE  \E last \in ReaderType : Reads(r, s, last) /\ last.unacked = r.unacked /\ InputAgrees(last, new)
    BY DEF TellsTo
  <1>1. PICK r1 \in ReaderType : Reads(r, s, r1) /\ r1.unacked = r.unacked /\ InputAgrees(r1, mid)
    BY DEF TellsTo
  <1>. QED
    BY <1>1, AgreesStill

\* One message about one window.
LEMMA TellsOne ==
    ASSUME NEW px, NEW id \in DOMAIN px, id \in Ids, NEW new, DOMAIN new = DOMAIN px,
           \A i \in DOMAIN px : i # id => new[i] = px[i],
           NEW m, m.id = id, m.type # "WINDOW_PRESENT_ACK",
           \A r \in ReaderType : KnowsProxy(r.known[id], px[id]) =>
              /\ Sensible(r, m) /\ After(r.known[id], m) \in KnownType
              /\ KnowsProxy(After(r.known[id], m), new[id])
    PROVE  TellsTo(px, <<m>>, new)
  <1>. SUFFICES ASSUME NEW r \in ReaderType, InputAgrees(r, px)
                PROVE  \E last \in ReaderType : Reads(r, <<m>>, last) /\ last.unacked = r.unacked /\ InputAgrees(last, new)
    BY DEF TellsTo
  <1>. DEFINE k == After(r.known[id], m)
              last == With(r, id, k)
  <1>1. Sensible(r, m) /\ k \in KnownType /\ KnowsProxy(k, new[id])
    BY DEF InputAgrees
  <1>2. Reads(r, <<m>>, last)
    BY <1>1, ReadsInput
  <1>3. last \in ReaderType /\ last.unacked = r.unacked
        /\ \A i \in Ids : last.known[i] = IF i = id THEN k ELSE r.known[i]
    BY <1>1, WithFacts
  <1>. HIDE DEF last, k
  <1>4. InputAgrees(last, new)
    BY <1>1, <1>3 DEF InputAgrees
  <1>. QED
    BY <1>2, <1>3, <1>4

\* The pointer, at a place the window is shown.
LEMMA TellsPointer ==
    ASSUME NEW px, NEW id \in DOMAIN px, id \in Ids, px[id] \in ProxyType,
           NEW l, px[id].presentation.visible, l.sequence = px[id].presentation.sequence
    PROVE  /\ TellsTo(px, <<PointerLocation("POINTER_ENTER", id, l)>>, [px EXCEPT ![id].tracking = TRUE])
           /\ px[id].tracking => TellsTo(px, <<PointerLocation("POINTER_MOTION", id, l)>>, px)
           /\ TellsTo(px, <<PointerLocation("POINTER_WHEEL", id, l)>>, px)
           /\ px[id].tracking =>
                 TellsTo(px, <<PointerLocation("POINTER_LEAVE", id, l)>>, [px EXCEPT ![id].tracking = FALSE])
           /\ \A button \in PointerButtons :
                 /\ TellsTo(px, <<PointerButton(id, l, button, TRUE)>>, [px EXCEPT ![id].buttons = @ \cup {button}])
                 /\ TellsTo(px, <<PointerButton(id, l, button, FALSE)>>, [px EXCEPT ![id].buttons = @ \ {button}])
  <1>. DEFINE p == px[id]
              At(type) == PointerLocation(type, id, l)
  <1>1. \A type : At(type).type = type /\ At(type).id = id /\ At(type).location = l
    BY DEF PointerLocation
  <1>2. \A r \in ReaderType : r.known[id] \in KnownType
    BY DEF ReaderType
  <1>3. TellsTo(px, <<PointerLocation("POINTER_ENTER", id, l)>>, [px EXCEPT ![id].tracking = TRUE])
    <2>. DEFINE m == At("POINTER_ENTER")
                new == [px EXCEPT ![id].tracking = TRUE]
    <2>1. /\ DOMAIN new = DOMAIN px /\ \A i \in DOMAIN px : i # id => new[i] = px[i]
          /\ new[id] = [p EXCEPT !.tracking = TRUE]
      OBVIOUS
    <2>2. m.type = "POINTER_ENTER" /\ m.id = id /\ m.location.sequence = p.presentation.sequence
      BY <1>1
    <2>. HIDE DEF m, new
    <2>3. ASSUME NEW r \in ReaderType, KnowsProxy(r.known[id], p)
          PROVE  Sensible(r, m) /\ After(r.known[id], m) \in KnownType /\ KnowsProxy(After(r.known[id], m), new[id])
      <3>1. After(r.known[id], m) = [r.known[id] EXCEPT !.entered = TRUE]
        BY <2>2 DEF After
      <3>2. Sensible(r, m)
        BY <2>2, <2>3 DEF Sensible, KnowsProxy, PointerTypes
      <3>3. PICK k \in KnownType : k = r.known[id]
        BY <1>2, <2>3
      <3>4. PICK q \in ProxyType : q = p
        OBVIOUS
      <3>5. [k EXCEPT !.entered = TRUE] \in KnownType /\ KnowsProxy([k EXCEPT !.entered = TRUE], [q EXCEPT !.tracking = TRUE])
        BY <2>3, <3>3, <3>4 DEF KnownType, KnowsProxy, ProxyType
      <3>. QED
        BY <2>1, <3>1, <3>2, <3>3, <3>4, <3>5
    <2>4. TellsTo(px, <<m>>, new)
      BY <2>1, <2>2, <2>3, TellsOne
    <2>. QED
      BY <2>4 DEF m, new
  <1>4. ASSUME NEW type \in {"POINTER_MOTION", "POINTER_WHEEL"}, type = "POINTER_MOTION" => p.tracking
        PROVE  TellsTo(px, <<At(type)>>, px)
    <2>. DEFINE m == At(type)
    <2>1. m.type = type /\ m.id = id /\ m.location.sequence = p.presentation.sequence
      BY <1>1
    <2>. HIDE DEF m
    <2>2. ASSUME NEW r \in ReaderType, KnowsProxy(r.known[id], p)
          PROVE  Sensible(r, m) /\ After(r.known[id], m) \in KnownType /\ KnowsProxy(After(r.known[id], m), px[id])
      <3>1. After(r.known[id], m) = r.known[id]
        BY <1>4, <2>1 DEF After
      <3>2. Sensible(r, m)
        BY <1>4, <2>1, <2>2 DEF Sensible, KnowsProxy, PointerTypes
      <3>. QED
        BY <1>2, <2>2, <3>1, <3>2
    <2>3. TellsTo(px, <<m>>, px)
      <3>1. m.type # "WINDOW_PRESENT_ACK"
        BY <1>4, <2>1
      <3>. QED
        BY <2>1, <2>2, <3>1, TellsOne
    <2>. QED
      BY <2>3 DEF m
  <1>5. ASSUME p.tracking
        PROVE  TellsTo(px, <<PointerLocation("POINTER_LEAVE", id, l)>>, [px EXCEPT ![id].tracking = FALSE])
    <2>. DEFINE m == At("POINTER_LEAVE")
                new == [px EXCEPT ![id].tracking = FALSE]
    <2>1. /\ DOMAIN new = DOMAIN px /\ \A i \in DOMAIN px : i # id => new[i] = px[i]
          /\ new[id] = [p EXCEPT !.tracking = FALSE]
      OBVIOUS
    <2>2. m.type = "POINTER_LEAVE" /\ m.id = id /\ m.location.sequence = p.presentation.sequence
      BY <1>1
    <2>. HIDE DEF m, new
    <2>3. ASSUME NEW r \in ReaderType, KnowsProxy(r.known[id], p)
          PROVE  Sensible(r, m) /\ After(r.known[id], m) \in KnownType /\ KnowsProxy(After(r.known[id], m), new[id])
      <3>1. After(r.known[id], m) = [r.known[id] EXCEPT !.entered = FALSE]
        BY <2>2 DEF After
      <3>2. Sensible(r, m)
        BY <1>5, <2>2, <2>3 DEF Sensible, KnowsProxy, PointerTypes
      <3>. QED
        BY <1>2, <2>1, <2>3, <3>1, <3>2 DEF KnownType, KnowsProxy, ProxyType
    <2>4. TellsTo(px, <<m>>, new)
      BY <2>1, <2>2, <2>3, TellsOne
    <2>. QED
      BY <2>4 DEF m, new
  <1>6. ASSUME NEW button \in PointerButtons, NEW down \in BOOLEAN, NEW left,
               left = IF down THEN p.buttons \cup {button} ELSE p.buttons \ {button}
        PROVE  TellsTo(px, <<PointerButton(id, l, button, down)>>, [px EXCEPT ![id].buttons = left])
    <2>. DEFINE m == PointerButton(id, l, button, down)
                new == [px EXCEPT ![id].buttons = left]
    <2>1. /\ DOMAIN new = DOMAIN px /\ \A i \in DOMAIN px : i # id => new[i] = px[i]
          /\ new[id] = [p EXCEPT !.buttons = left]
      OBVIOUS
    <2>2. m.type = "POINTER_BUTTON" /\ m.id = id /\ m.location.sequence = p.presentation.sequence
          /\ m.button = button /\ m.down = down
      BY DEF PointerButton
    <2>. HIDE DEF m, new
    <2>3. ASSUME NEW r \in ReaderType, KnowsProxy(r.known[id], p)
          PROVE  Sensible(r, m) /\ After(r.known[id], m) \in KnownType /\ KnowsProxy(After(r.known[id], m), new[id])
      <3>1. After(r.known[id], m) = [r.known[id] EXCEPT !.buttons = left]
        <4>1. r.known[id].buttons = p.buttons
          BY <2>3 DEF KnowsProxy
        <4>. QED
          BY <1>6, <2>2, <4>1 DEF After
      <3>2. Sensible(r, m)
        BY <2>2, <2>3 DEF Sensible, KnowsProxy, PointerTypes
      <3>3. left \in SUBSET PointerButtons
        BY <1>6 DEF ProxyType
      <3>. QED
        BY <1>2, <2>1, <2>3, <3>1, <3>2, <3>3 DEF KnownType, KnowsProxy, ProxyType
    <2>4. TellsTo(px, <<m>>, new)
      BY <2>1, <2>2, <2>3, TellsOne
    <2>. QED
      BY <2>4 DEF m, new
  <1>7. ASSUME NEW button \in PointerButtons
        PROVE  /\ TellsTo(px, <<PointerButton(id, l, button, TRUE)>>, [px EXCEPT ![id].buttons = @ \cup {button}])
               /\ TellsTo(px, <<PointerButton(id, l, button, FALSE)>>, [px EXCEPT ![id].buttons = @ \ {button}])
    BY <1>6
  <1>. QED
    BY <1>3, <1>4, <1>5, <1>7

\* A capture that is lost with a button down.
LEMMA TellsCaptureLost ==
    ASSUME NEW px, NEW id \in DOMAIN px, id \in Ids, px[id] \in ProxyType, px[id].buttons # {}
    PROVE  TellsTo(px, <<CaptureLostMessage(id)>>, [px EXCEPT ![id].buttons = {}])
  <1>. DEFINE m == CaptureLostMessage(id)
              new == [px EXCEPT ![id].buttons = {}]
  <1>1. /\ DOMAIN new = DOMAIN px /\ \A i \in DOMAIN px : i # id => new[i] = px[i]
        /\ new[id] = [px[id] EXCEPT !.buttons = {}]
    OBVIOUS
  <1>2. m.type = "POINTER_CAPTURE_LOST" /\ m.id = id
    BY DEF CaptureLostMessage
  <1>. HIDE DEF m, new
  <1>3. ASSUME NEW r \in ReaderType, KnowsProxy(r.known[id], px[id])
        PROVE  Sensible(r, m) /\ After(r.known[id], m) \in KnownType /\ KnowsProxy(After(r.known[id], m), new[id])
    <2>1. After(r.known[id], m) = [r.known[id] EXCEPT !.buttons = {}] /\ r.known[id] \in KnownType
      BY <1>2 DEF After, ReaderType
    <2>2. Sensible(r, m)
      BY <1>2, <1>3 DEF Sensible, KnowsProxy, PointerTypes
    <2>. QED
      BY <1>1, <1>3, <2>1, <2>2 DEF KnownType, KnowsProxy, ProxyType
  <1>4. TellsTo(px, <<m>>, new)
    BY <1>1, <1>2, <1>3, TellsOne
  <1>. QED
    BY <1>4 DEF m, new

\* The focus changes with no key down.
LEMMA TellsFocus ==
    ASSUME NEW px, NEW id \in DOMAIN px, id \in Ids, px[id] \in ProxyType, px[id].keys = {},
           NEW gained \in BOOLEAN, px[id].focused # gained
    PROVE  TellsTo(px, <<KeyboardFocus(id, gained)>>, [px EXCEPT ![id].focused = gained])
  <1>. DEFINE m == KeyboardFocus(id, gained)
              new == [px EXCEPT ![id].focused = gained]
  <1>1. /\ DOMAIN new = DOMAIN px /\ \A i \in DOMAIN px : i # id => new[i] = px[i]
        /\ new[id] = [px[id] EXCEPT !.focused = gained]
    OBVIOUS
  <1>2. m.type = "KEYBOARD_FOCUS" /\ m.id = id /\ m.focused = gained
    BY DEF KeyboardFocus
  <1>. HIDE DEF m, new
  <1>3. ASSUME NEW r \in ReaderType, KnowsProxy(r.known[id], px[id])
        PROVE  Sensible(r, m) /\ After(r.known[id], m) \in KnownType /\ KnowsProxy(After(r.known[id], m), new[id])
    <2>1. After(r.known[id], m) = [r.known[id] EXCEPT !.focused = gained] /\ r.known[id] \in KnownType
      BY <1>2 DEF After, ReaderType
    <2>2. Sensible(r, m)
      BY <1>2, <1>3 DEF Sensible, KnowsProxy, PointerTypes
    <2>. QED
      BY <1>1, <1>3, <2>1, <2>2 DEF KnownType, KnowsProxy, ProxyType
  <1>4. TellsTo(px, <<m>>, new)
    BY <1>1, <1>2, <1>3, TellsOne
  <1>. QED
    BY <1>4 DEF m, new

\* A key of the focused window.
LEMMA TellsKey ==
    ASSUME NEW px, NEW id \in DOMAIN px, id \in Ids, px[id] \in ProxyType, px[id].focused,
           NEW key \in Keys, NEW down \in BOOLEAN, down \/ key \in px[id].keys,
           NEW left, left = IF down THEN px[id].keys \cup {key} ELSE px[id].keys \ {key}
    PROVE  TellsTo(px, <<KeyboardKey(id, key, down)>>, [px EXCEPT ![id].keys = left])
  <1>. DEFINE m == KeyboardKey(id, key, down)
              new == [px EXCEPT ![id].keys = left]
  <1>1. /\ DOMAIN new = DOMAIN px /\ \A i \in DOMAIN px : i # id => new[i] = px[i]
        /\ new[id] = [px[id] EXCEPT !.keys = left]
    OBVIOUS
  <1>2. m.type = "KEYBOARD_KEY" /\ m.id = id /\ m.key = key /\ m.down = down
    BY DEF KeyboardKey
  <1>. HIDE DEF m, new
  <1>3. ASSUME NEW r \in ReaderType, KnowsProxy(r.known[id], px[id])
        PROVE  Sensible(r, m) /\ After(r.known[id], m) \in KnownType /\ KnowsProxy(After(r.known[id], m), new[id])
    <2>1. r.known[id].keys = px[id].keys /\ r.known[id] \in KnownType
      BY <1>3 DEF KnowsProxy, ReaderType
    <2>2. After(r.known[id], m) = [r.known[id] EXCEPT !.keys = left]
      BY <1>2, <2>1 DEF After
    <2>3. Sensible(r, m)
      BY <1>2, <1>3 DEF Sensible, KnowsProxy, PointerTypes
    <2>4. left \in SUBSET Keys
      BY DEF ProxyType
    <2>. QED
      BY <1>1, <1>3, <2>1, <2>2, <2>3, <2>4 DEF KnownType, KnowsProxy, ProxyType
  <1>4. TellsTo(px, <<m>>, new)
    BY <1>1, <1>2, <1>3, TellsOne
  <1>. QED
    BY <1>4 DEF m, new

\* WM_KILLFOCUS: the keys first, then the focus.
LEMMA TellsLoseFocus ==
    ASSUME NEW px, NEW id \in DOMAIN px, id \in Ids, px[id] \in ProxyType,
           px[id].keys = proxies[id].keys, px[id].focused = proxies[id].focused,
           px[id].keys # {} => px[id].focused
    PROVE  TellsTo(px, LoseFocus(id), [px EXCEPT ![id] = [px[id] EXCEPT !.keys = {}, !.focused = FALSE]])
  <1>. DEFINE mid == [px EXCEPT ![id].keys = {}]
              order == SetToSeq(proxies[id].keys)
  <1>1. /\ DOMAIN mid = DOMAIN px /\ \A i \in DOMAIN px : i # id => mid[i] = px[i]
        /\ mid[id] = [px[id] EXCEPT !.keys = {}]
    OBVIOUS
  <1>. HIDE DEF mid
  <1>2. TellsTo(px, ReleaseKeys(id), mid)
    <2>. SUFFICES ASSUME NEW r \in ReaderType, InputAgrees(r, px)
                  PROVE  \E last \in ReaderType : /\ Reads(r, ReleaseKeys(id), last) /\ last.unacked = r.unacked
                                                  /\ InputAgrees(last, mid)
      BY DEF TellsTo
    <2>. DEFINE k == r.known[id]
                l == [k EXCEPT !.keys = {}]
                last == With(r, id, l)
    <2>1. KnowsProxy(k, px[id]) /\ k \in KnownType
      BY DEF InputAgrees, ReaderType
    <2>2. proxies[id].keys = k.keys /\ (k.keys # {} => k.focused)
      BY <2>1 DEF KnowsProxy
    <2>3. ReleaseKeys(id) = [i \in DOMAIN order |-> KeyboardKey(id, order[i], FALSE)]
      BY DEF ReleaseKeys
    <2>4. Reads(r, ReleaseKeys(id), last)
      <3>. DEFINE keys == proxies[id].keys
                  releases == ReleaseKeys(id)
                  listing == SetToSeq(keys)
      <3>1. /\ keys = r.known[id].keys /\ (keys # {} => r.known[id].focused)
            /\ listing = SetToSeq(keys)
            /\ releases = [i \in DOMAIN listing |-> KeyboardKey(id, listing[i], FALSE)]
        BY <2>2, <2>3
      <3>. HIDE DEF keys, releases, listing
      <3>2. Reads(r, releases, With(r, id, [r.known[id] EXCEPT !.keys = {}]))
        BY <3>1, ReadsReleases
      <3>. QED
        BY <3>2 DEF releases
    <2>5. l \in KnownType /\ KnowsProxy(l, mid[id])
      BY <1>1, <2>1 DEF KnownType, KnowsProxy, ProxyType
    <2>. HIDE DEF l
    <2>6. last \in ReaderType /\ last.unacked = r.unacked
          /\ \A i \in Ids : last.known[i] = IF i = id THEN l ELSE r.known[i]
      BY <2>5, WithFacts
    <2>. HIDE DEF last
    <2>7. InputAgrees(last, mid)
      BY <1>1, <2>5, <2>6 DEF InputAgrees
    <2>. QED
      BY <2>4, <2>6, <2>7
  <1>3. mid[id] \in ProxyType /\ mid[id].keys = {} /\ mid[id].focused = proxies[id].focused /\ mid[id].focused \in BOOLEAN
    BY <1>1 DEF ProxyType
  <1>. DEFINE new == [px EXCEPT ![id] = [px[id] EXCEPT !.keys = {}, !.focused = FALSE]]
  <1>4. new = [mid EXCEPT ![id].focused = FALSE]
    BY <1>1 DEF mid
  <1>5. CASE proxies[id].focused
    <2>1. TellsTo(mid, <<KeyboardFocus(id, FALSE)>>, new)
      BY <1>1, <1>3, <1>4, <1>5, TellsFocus
    <2>2. LoseFocus(id) = ReleaseKeys(id) \o <<KeyboardFocus(id, FALSE)>>
      BY <1>5 DEF LoseFocus
    <2>. HIDE DEF new
    <2>3. TellsTo(px, LoseFocus(id), new)
      BY <1>2, <2>1, <2>2, TellsBoth
    <2>. QED
      BY <2>3 DEF new
  <1>6. CASE ~proxies[id].focused
    <2>1. TellsTo(mid, <<>>, new)
      <3>1. mid[id].focused = FALSE
        BY <1>3, <1>6
      <3>2. NothingToTell(mid, new)
        <4>1. \A a \in ProxyType : a.focused = FALSE => [a EXCEPT !.focused = FALSE] = a
          BY DEF ProxyType
        <4>2. [mid[id] EXCEPT !.focused = FALSE] = mid[id]
          BY <1>3, <3>1, <4>1
        <4>3. DOMAIN new = DOMAIN mid /\ \A i \in DOMAIN mid : new[i] = mid[i]
          <5>. HIDE DEF new
          <5>. QED
            BY <1>1, <1>4, <4>2
        <4>. HIDE DEF new
        <4>. QED
          BY <4>3 DEF NothingToTell
      <3>. HIDE DEF new
      <3>. QED
        BY <3>2, TellsNothing
    <2>2. LoseFocus(id) = ReleaseKeys(id) \o <<>>
      BY <1>6 DEF LoseFocus
    <2>. HIDE DEF new
    <2>3. TellsTo(px, LoseFocus(id), new)
      BY <1>2, <2>1, <2>2, TellsBoth
    <2>. QED
      BY <2>3 DEF new
  <1>. QED
    BY <1>5, <1>6
-----------------------------------------------------------------------------
\* Keys go to the window with the focus, which is nobody's popup, and buttons
\* to the one with the capture.
InputInv(px, cap) ==
    \A id \in DOMAIN px :
       /\ px[id].keys # {} => px[id].focused
       /\ px[id].focused => px[id].owners = <<>>
       /\ px[id].buttons # {} => id \in cap

Open == agentSocket = "open" /\ serverSocket = "open"

\* What is told reaches the wire as it is while the connection is open.
LEMMA TellsWhatIsSent ==
    ASSUME toServer = <<>>, Open, NEW s, NEW new, TellsTo(proxies, s, new), toServer' = Sent(s)
    PROVE  TellsTo(proxies, toServer', new)
  <1>1. toServer' = <<>> \o s
    BY DEF Sent, Open
  <1>2. TellsTo(proxies, <<>>, proxies)
    BY TellsNothing DEF NothingToTell
  <1>. QED
    BY <1>1, <1>2, TellsBoth

\* A location is one on the presentation that is shown (make_pointer_location).
LEMMA LocationFacts ==
    ASSUME NEW id, NEW point, NEW l \in LocationAt(id, point)
    PROVE  proxies[id].presentation.visible /\ l.sequence = proxies[id].presentation.sequence
  <1>1. proxies[id].presentation.visible
    BY DEF LocationAt
  <1>. DEFINE p == proxies[id].presentation
              client == [x |-> point.x - proxies[id].physical.x, y |-> point.y - proxies[id].physical.y]
              At(c) == [sequence |-> p.sequence, client |-> c,
                        output |-> [x |-> p.destination.x + c.x, y |-> p.destination.y + c.y]]
              C == UNION {PhysicalFragmentLocalToLogical(p.destination, s, client) : s \in outputScale}
  <1>2. LocationAt(id, point) = {k \in {At(c) : c \in C} : k.output \in Point}
    BY <1>1 DEF LocationAt
  <1>. HIDE DEF C
  <1>3. PICK c \in C : l = At(c)
    BY <1>2
  <1>. QED
    BY <1>1, <1>3

\* WM_KILLFOCUS to the one window and WM_SETFOCUS to the other tell it.
LEMMA TellsFocusMessages ==
    ASSUME AppInv, InputInv(proxies, capture), NEW f \in DOMAIN proxies
    PROVE  TellsTo(proxies, FocusMessages(f), FocusedOn(f)) /\ InputInv(FocusedOn(f), capture)
  <1>1. \A id \in DOMAIN proxies : id \in Ids /\ proxies[id] \in ProxyType
    BY DEF AppInv, AgentTypeOK
  <1>2. /\ DOMAIN FocusedOn(f) = DOMAIN proxies
        /\ \A i \in DOMAIN proxies :
              /\ SameButForInput(FocusedOn(f)[i], proxies[i])
              /\ FocusedOn(f)[i].buttons = proxies[i].buttons
              /\ FocusedOn(f)[i].tracking = proxies[i].tracking
              /\ FocusedOn(f)[i].focused = IF i = f THEN ~IsPopup(i)
                                           ELSE IF i \in focus THEN FALSE ELSE proxies[i].focused
              /\ FocusedOn(f)[i].keys = IF i # f /\ i \in focus THEN {} ELSE proxies[i].keys
    BY FocusedOnFacts DEF AppInv
  <1>. DEFINE new == FocusedOn(f)
  <1>. HIDE DEF new
  <1>2b. \A i \in DOMAIN proxies :
            /\ new[i].buttons = proxies[i].buttons /\ new[i].tracking = proxies[i].tracking
            /\ new[i].presentation = proxies[i].presentation
    BY <1>2 DEF new, SameButForInput
  <1>3. InputInv(new, capture)
    BY <1>2 DEF InputInv, SameButForInput, IsPopup, new
  <1>4. /\ proxies[f].keys # {} => proxies[f].focused
        /\ proxies[f].focused => ~IsPopup(f)
        /\ proxies[f].focused \in BOOLEAN
    BY <1>1 DEF InputInv, IsPopup, ProxyType
  \* What the window that gains the focus says.
  <1>5. ASSUME NEW px, DOMAIN px = DOMAIN proxies, px[f] = proxies[f],
               \A i \in DOMAIN proxies \ {f} :
                  /\ px[i].buttons = proxies[i].buttons /\ px[i].tracking = proxies[i].tracking
                  /\ px[i].presentation = proxies[i].presentation
                  /\ px[i].focused = IF i \in focus THEN FALSE ELSE proxies[i].focused
                  /\ px[i].keys = IF i \in focus THEN {} ELSE proxies[i].keys
        PROVE  TellsTo(px, GainFocus(f), new)
    <2>1. CASE proxies[f].focused \/ IsPopup(f)
      <3>1. proxies[f].focused = ~IsPopup(f)
        BY <1>4, <2>1 DEF IsPopup
      <3>2. NothingToTell(px, new)
        <4>1. ASSUME NEW i \in DOMAIN proxies
              PROVE  /\ new[i].buttons = px[i].buttons /\ new[i].keys = px[i].keys
                     /\ new[i].focused = px[i].focused /\ new[i].tracking = px[i].tracking
                     /\ new[i].presentation = px[i].presentation
          <5>1. CASE i = f
            BY <1>2, <1>5, <3>1, <5>1 DEF new, SameButForInput
          <5>2. CASE i # f /\ i \in focus
            <6>1. new[i].focused = FALSE /\ new[i].keys = {}
              BY <1>2, <5>2 DEF new
            <6>2. px[i].focused = FALSE /\ px[i].keys = {}
              BY <1>5, <5>2
            <6>. QED
              BY <1>2b, <1>5, <5>2, <6>1, <6>2
          <5>3. CASE i # f /\ i \notin focus
            <6>1. new[i].focused = proxies[i].focused /\ new[i].keys = proxies[i].keys
              BY <1>2, <5>3 DEF new
            <6>2. px[i].focused = proxies[i].focused /\ px[i].keys = proxies[i].keys
              BY <1>5, <5>3
            <6>. QED
              BY <1>2b, <1>5, <5>3, <6>1, <6>2
          <5>. QED
            BY <5>1, <5>2, <5>3
        <4>. QED
          BY <1>2, <1>5, <4>1 DEF NothingToTell, new
      <3>3. GainFocus(f) = <<>>
        BY <2>1 DEF GainFocus
      <3>. QED
        BY <3>2, <3>3, TellsNothing
    <2>2. CASE ~(proxies[f].focused \/ IsPopup(f))
      <3>. DEFINE mid == [px EXCEPT ![f].focused = TRUE]
      <3>1. /\ DOMAIN mid = DOMAIN px /\ \A i \in DOMAIN px : i # f => mid[i] = px[i]
            /\ mid[f] = [px[f] EXCEPT !.focused = TRUE]
        BY <1>5
      <3>2. TellsTo(px, <<KeyboardFocus(f, TRUE)>>, mid)
        <4>1. px[f].keys = {} /\ px[f].focused # TRUE /\ px[f] \in ProxyType
          BY <1>1, <1>4, <1>5, <2>2
        <4>. QED
          BY <1>1, <1>5, <4>1, TellsFocus
      <3>. HIDE DEF mid
      <3>3. /\ mid[f].buttons = proxies[f].buttons /\ mid[f].tracking = proxies[f].tracking
            /\ mid[f].presentation = proxies[f].presentation /\ mid[f].keys = proxies[f].keys
            /\ mid[f].focused = TRUE
        BY <1>1, <1>5, <3>1 DEF ProxyType
      <3>4. new[f].focused = TRUE
        BY <1>2, <2>2 DEF new
      <3>5. NothingToTell(mid, new)
        <4>1. ASSUME NEW i \in DOMAIN proxies
              PROVE  /\ new[i].buttons = mid[i].buttons /\ new[i].keys = mid[i].keys
                     /\ new[i].focused = mid[i].focused /\ new[i].tracking = mid[i].tracking
                     /\ new[i].presentation = mid[i].presentation
          <5>1. CASE i = f
            BY <1>2, <3>3, <3>4, <5>1 DEF new, SameButForInput
          <5>2. CASE i # f /\ i \in focus
            <6>1. new[i].focused = FALSE /\ new[i].keys = {}
              BY <1>2, <5>2 DEF new
            <6>2. px[i].focused = FALSE /\ px[i].keys = {}
              BY <1>5, <5>2
            <6>3. mid[i] = px[i]
              BY <1>5, <3>1, <5>2
            <6>. QED
              BY <1>2b, <1>5, <5>2, <6>1, <6>2, <6>3
          <5>3. CASE i # f /\ i \notin focus
            <6>1. new[i].focused = proxies[i].focused /\ new[i].keys = proxies[i].keys
              BY <1>2, <5>3 DEF new
            <6>2. px[i].focused = proxies[i].focused /\ px[i].keys = proxies[i].keys
              BY <1>5, <5>3
            <6>3. mid[i] = px[i]
              BY <1>5, <3>1, <5>3
            <6>. QED
              BY <1>2b, <1>5, <5>3, <6>1, <6>2, <6>3
          <5>. QED
            BY <5>1, <5>2, <5>3
        <4>. QED
          BY <1>2, <1>5, <3>1, <4>1 DEF NothingToTell, new
      <3>6. GainFocus(f) = <<KeyboardFocus(f, TRUE)>>
        BY <2>2 DEF GainFocus
      <3>. QED
        BY <3>2, <3>5, <3>6, TellsMore
    <2>. QED
      BY <2>1, <2>2
  <1>6. CASE focus \in {{}, {f}}
    <2>1. FocusMessages(f) = <<>> \o GainFocus(f)
      BY <1>6 DEF FocusMessages
    <2>2. TellsTo(proxies, <<>>, proxies)
      BY TellsNothing DEF NothingToTell
    <2>3. TellsTo(proxies, GainFocus(f), new)
      BY <1>5, <1>6
    <2>. QED
      BY <1>3, <2>1, <2>2, <2>3, TellsBoth DEF new
  <1>7. ASSUME NEW c \in DOMAIN proxies, focus = {c}, c # f
        PROVE  TellsTo(proxies, FocusMessages(f), new)
    <2>1. FocusMessages(f) = LoseFocus(c) \o GainFocus(f)
      BY <1>7 DEF FocusMessages
    <2>. DEFINE mid == [proxies EXCEPT ![c] = [proxies[c] EXCEPT !.keys = {}, !.focused = FALSE]]
    <2>2. TellsTo(proxies, LoseFocus(c), mid)
      <3>1. proxies[c].keys # {} => proxies[c].focused
        BY DEF InputInv
      <3>. QED
        BY <1>1, <3>1, TellsLoseFocus
    <2>3. /\ DOMAIN mid = DOMAIN proxies /\ \A i \in DOMAIN proxies : i # c => mid[i] = proxies[i]
          /\ mid[c] = [proxies[c] EXCEPT !.keys = {}, !.focused = FALSE]
      OBVIOUS
    <2>. HIDE DEF mid
    <2>4. /\ mid[c].keys = {} /\ mid[c].focused = FALSE /\ mid[c].buttons = proxies[c].buttons
          /\ mid[c].tracking = proxies[c].tracking /\ mid[c].presentation = proxies[c].presentation
      BY <1>1, <2>3 DEF ProxyType
    <2>5. TellsTo(mid, GainFocus(f), new)
      BY <1>5, <1>7, <2>3, <2>4
    <2>. QED
      BY <2>1, <2>2, <2>5, TellsBoth
  <1>8. focus = {} \/ \E c \in DOMAIN proxies : focus = {c}
    BY DEF AppInv, AgentTypeOK, OneAlive
  <1>. QED
    BY <1>3, <1>6, <1>7, <1>8 DEF new
-----------------------------------------------------------------------------
\* WM_MOUSEMOVE tells the reader what it changes.
LEMMA TellsMouseMove ==
    ASSUME AppInv, InputInv(proxies, capture), toServer = <<>>, Open, NEW point \in CursorPoints, MouseMove(point)
    PROVE  TellsTo(proxies, toServer', proxies') /\ InputInv(proxies', capture')
  <1>1. CASE UNCHANGED <<wireVars, proxies, capture>>
    <2>1. toServer' = <<>> /\ proxies' = proxies /\ capture' = capture
      BY <1>1 DEF wireVars
    <2>2. TellsTo(proxies, <<>>, proxies)
      BY TellsNothing DEF NothingToTell
    <2>. QED
      BY <2>1, <2>2
  <1>2. ASSUME NEW id \in Target(point), NEW l \in LocationAt(id, point),
               Send((IF proxies[id].tracking
                     THEN <<>> ELSE <<PointerLocation("POINTER_ENTER", id, l)>>)
                    \o <<PointerLocation("POINTER_MOTION", id, l)>>),
               proxies' = [proxies EXCEPT ![id].tracking = TRUE]
        PROVE  TellsTo(proxies, toServer', proxies') /\ InputInv(proxies', capture')
    <2>1. id \in DOMAIN proxies /\ id \in Ids /\ proxies[id] \in ProxyType
      BY TargetsAreAlive DEF AppInv, AgentTypeOK
    <2>2. proxies[id].presentation.visible /\ l.sequence = proxies[id].presentation.sequence
      BY LocationFacts
    <2>. DEFINE enter == <<PointerLocation("POINTER_ENTER", id, l)>>
                motion == <<PointerLocation("POINTER_MOTION", id, l)>>
                mid == [proxies EXCEPT ![id].tracking = TRUE]
                said == (IF proxies[id].tracking THEN <<>> ELSE enter) \o motion
    <2>3. /\ DOMAIN mid = DOMAIN proxies /\ \A i \in DOMAIN proxies : i # id => mid[i] = proxies[i]
          /\ mid[id] = [proxies[id] EXCEPT !.tracking = TRUE]
      BY <2>1
    <2>4. /\ TellsTo(proxies, enter, mid)
          /\ proxies[id].tracking => TellsTo(proxies, motion, proxies)
      BY <2>1, <2>2, TellsPointer
    <2>. HIDE DEF mid
    <2>5. /\ mid[id] \in ProxyType /\ mid[id].presentation = proxies[id].presentation
          /\ mid[id].tracking /\ mid[id].buttons = proxies[id].buttons
          /\ mid[id].keys = proxies[id].keys /\ mid[id].focused = proxies[id].focused
          /\ mid[id].owners = proxies[id].owners
      BY <2>1, <2>3 DEF ProxyType
    <2>6. TellsTo(mid, motion, mid)
      BY <2>1, <2>2, <2>3, <2>5, TellsPointer
    <2>. HIDE DEF enter, motion
    <2>7. TellsTo(proxies, said, mid)
      <3>1. CASE proxies[id].tracking
        <4>1. NothingToTell(proxies, mid)
          BY <2>3, <2>5, <3>1 DEF NothingToTell
        <4>2. said = <<>> \o motion /\ TellsTo(proxies, <<>>, proxies)
          BY <3>1, TellsNothing DEF NothingToTell
        <4>3. TellsTo(proxies, said, proxies)
          BY <2>4, <3>1, <4>2, TellsBoth
        <4>. QED
          BY <4>1, <4>3, TellsMore
      <3>2. CASE ~proxies[id].tracking
        <4>1. said = enter \o motion
          BY <3>2
        <4>. QED
          BY <2>4, <2>6, <4>1, TellsBoth
      <3>. QED
        BY <3>1, <3>2
    <2>8. proxies' = mid /\ toServer' = Sent(said) /\ capture' = capture
      BY <1>2 DEF mid, Send, enter, motion, MouseMove
    <2>9. TellsTo(proxies, toServer', mid)
      <3>. HIDE DEF said
      <3>. QED
        BY <2>7, <2>8, TellsWhatIsSent
    <2>10. InputInv(mid, capture)
      BY <2>3, <2>5 DEF InputInv
    <2>. QED
      BY <2>8, <2>9, <2>10
  <1>3. capture' = capture
    BY DEF MouseMove
  <1>. QED
    BY <1>1, <1>2, <1>3 DEF MouseMove

\* So does WM_MOUSELEAVE.
LEMMA TellsMouseLeave ==
    ASSUME AppInv, InputInv(proxies, capture), toServer = <<>>, Open, NEW id \in DOMAIN proxies, MouseLeave(id)
    PROVE  TellsTo(proxies, toServer', proxies') /\ InputInv(proxies', capture')
  <1>1. id \in Ids /\ proxies[id] \in ProxyType /\ proxies[id].tracking
    BY DEF AppInv, AgentTypeOK, MouseLeave
  <1>. DEFINE new == [proxies EXCEPT ![id].tracking = FALSE]
  <1>2. /\ DOMAIN new = DOMAIN proxies /\ \A i \in DOMAIN proxies : i # id => new[i] = proxies[i]
        /\ new[id] = [proxies[id] EXCEPT !.tracking = FALSE]
    OBVIOUS
  <1>3. proxies' = new /\ capture' = capture
    BY DEF MouseLeave, desktopVars
  <1>4. ASSUME NEW l \in LocationAt(id, cursor), Send(<<PointerLocation("POINTER_LEAVE", id, l)>>)
        PROVE  TellsTo(proxies, toServer', new)
    <2>1. proxies[id].presentation.visible /\ l.sequence = proxies[id].presentation.sequence
      BY LocationFacts
    <2>2. TellsTo(proxies, <<PointerLocation("POINTER_LEAVE", id, l)>>, new)
      BY <1>1, <2>1, TellsPointer
    <2>3. toServer' = Sent(<<PointerLocation("POINTER_LEAVE", id, l)>>)
      BY <1>4 DEF Send
    <2>. HIDE DEF new
    <2>. QED
      BY <2>2, <2>3, TellsWhatIsSent
  <1>. HIDE DEF new
  <1>5. /\ new[id].presentation = proxies[id].presentation
        /\ ~new[id].tracking /\ new[id].buttons = proxies[id].buttons
        /\ new[id].keys = proxies[id].keys /\ new[id].focused = proxies[id].focused
        /\ new[id].owners = proxies[id].owners
    BY <1>1, <1>2 DEF ProxyType
  <1>6. CASE UNCHANGED wireVars
    <2>1. toServer' = <<>>
      BY <1>6 DEF wireVars
    <2>2. NothingToTell(proxies, new)
      BY <1>2, <1>5 DEF NothingToTell
    <2>. QED
      BY <1>3, <2>1, <2>2, TellsNothing, <1>2, <1>5 DEF InputInv
  <1>7. InputInv(new, capture)
    BY <1>2, <1>5 DEF InputInv
  <1>. QED
    BY <1>3, <1>4, <1>6, <1>7 DEF MouseLeave

\* So does the wheel, which changes nothing.
LEMMA TellsMouseWheel ==
    ASSUME AppInv, InputInv(proxies, capture), toServer = <<>>, Open, MouseWheel
    PROVE  TellsTo(proxies, toServer', proxies') /\ InputInv(proxies', capture')
  <1>1. PICK id \in Target(cursor) : \E l \in LocationAt(id, cursor) :
           Send(<<PointerLocation("POINTER_WHEEL", id, l)>>)
    BY DEF MouseWheel
  <1>2. PICK l \in LocationAt(id, cursor) : Send(<<PointerLocation("POINTER_WHEEL", id, l)>>)
    BY <1>1
  <1>3. id \in DOMAIN proxies /\ id \in Ids /\ proxies[id] \in ProxyType
    BY TargetsAreAlive DEF AppInv, AgentTypeOK
  <1>4. proxies[id].presentation.visible /\ l.sequence = proxies[id].presentation.sequence
    BY LocationFacts
  <1>5. TellsTo(proxies, <<PointerLocation("POINTER_WHEEL", id, l)>>, proxies)
    BY <1>3, <1>4, TellsPointer
  <1>6. toServer' = Sent(<<PointerLocation("POINTER_WHEEL", id, l)>>) /\ proxies' = proxies /\ capture' = capture
    BY <1>2 DEF Send, MouseWheel, agentVars, desktopVars
  <1>. QED
    BY <1>5, <1>6, TellsWhatIsSent

\* So does a press: the focus first, then the button.
LEMMA TellsButtonDown ==
    ASSUME AppInv, InputInv(proxies, capture), toServer = <<>>, Open,
           NEW button \in PointerButtons, ButtonDown(button)
    PROVE  TellsTo(proxies, toServer', proxies') /\ InputInv(proxies', capture')
  <1>0. AgentTypeOK /\ OwnersInv
    BY DEF AppInv
  <1>1. CASE UNCHANGED <<wireVars, proxies, capture>>
    <2>1. toServer' = <<>> /\ proxies' = proxies /\ capture' = capture
      BY <1>1 DEF wireVars
    <2>2. TellsTo(proxies, <<>>, proxies)
      BY TellsNothing DEF NothingToTell
    <2>. QED
      BY <2>1, <2>2
  <1>2. ASSUME NEW id \in Target(cursor)
        PROVE  /\ id \in DOMAIN proxies /\ id \in Ids
               /\ FocusOf(id) \in DOMAIN proxies
    BY <1>0, TargetsAreAlive, OwnersFacts DEF AppInv, AgentTypeOK
  <1>3. ASSUME NEW id \in Target(cursor), proxies' = FocusedOn(FocusOf(id)), Send(FocusMessages(FocusOf(id))),
               UNCHANGED capture
        PROVE  TellsTo(proxies, toServer', proxies') /\ InputInv(proxies', capture')
    <2>. DEFINE f == FocusOf(id)
    <2>1. TellsTo(proxies, FocusMessages(f), FocusedOn(f)) /\ InputInv(FocusedOn(f), capture)
      BY <1>2, TellsFocusMessages
    <2>2. toServer' = Sent(FocusMessages(f))
      BY <1>3 DEF Send
    <2>. HIDE DEF f
    <2>3. TellsTo(proxies, toServer', FocusedOn(f))
      BY <2>1, <2>2, TellsWhatIsSent
    <2>. QED
      BY <1>3, <2>1, <2>3 DEF f
  <1>4. ASSUME NEW id \in Target(cursor), NEW l \in LocationAt(id, cursor),
               proxies' = PressedOn(FocusOf(id), id, button), capture' = {id},
               Send(FocusMessages(FocusOf(id)) \o <<PointerButton(id, l, button, TRUE)>>)
        PROVE  TellsTo(proxies, toServer', proxies') /\ InputInv(proxies', capture')
    <2>. DEFINE f == FocusOf(id)
                mid == FocusedOn(f)
                new == PressedOn(f, id, button)
                press == <<PointerButton(id, l, button, TRUE)>>
    <2>1. f \in DOMAIN proxies /\ id \in DOMAIN proxies /\ id \in Ids
      BY <1>2
    <2>. HIDE DEF f
    <2>2. TellsTo(proxies, FocusMessages(f), mid) /\ InputInv(mid, capture)
      BY <2>1, TellsFocusMessages
    <2>3. proxies[id].presentation.visible /\ l.sequence = proxies[id].presentation.sequence
      BY LocationFacts
    <2>4. /\ DOMAIN mid = DOMAIN proxies /\ mid[id] \in ProxyType
          /\ \A i \in DOMAIN proxies : SameButForInput(mid[i], proxies[i]) /\ mid[i].buttons = proxies[i].buttons
      BY <1>0, <2>1, FocusedOnFacts
    <2>5. mid[id].presentation = proxies[id].presentation
      BY <2>1, <2>4 DEF SameButForInput
    <2>6. TellsTo(mid, press, new)
      <3>. HIDE DEF mid
      <3>1. TellsTo(mid, press, [mid EXCEPT ![id].buttons = @ \cup {button}])
        BY <2>1, <2>3, <2>4, <2>5, TellsPointer
      <3>. QED
        BY <3>1 DEF PressedOn, mid
    <2>7. InputInv(new, {id})
      <3>0. PressedFrom(mid, id, button, new)
        BY <1>0, <2>1, PressedOnFacts
      <3>1. /\ DOMAIN new = DOMAIN proxies
            /\ \A i \in DOMAIN proxies :
                 /\ SameButForInput(new[i], proxies[i])
                 /\ i # id => new[i].buttons = proxies[i].buttons
                 /\ new[i].focused = mid[i].focused
                 /\ new[i].keys = mid[i].keys
        <4>. HIDE DEF new, mid
        <4>. QED
          BY <3>0 DEF PressedFrom
      <3>2. \A i \in capture : i = id
        BY <1>0, <1>4 DEF AgentTypeOK, OneAlive, Target
      <3>. HIDE DEF new, mid
      <3>3. ASSUME NEW i \in DOMAIN new
            PROVE  /\ new[i].keys # {} => new[i].focused
                   /\ new[i].focused => new[i].owners = <<>>
                   /\ new[i].buttons # {} => i = id
        <4>1. /\ mid[i].keys # {} => mid[i].focused
              /\ mid[i].focused => mid[i].owners = <<>>
              /\ proxies[i].buttons # {} => i \in capture
          BY <2>2, <2>4, <3>1 DEF InputInv
        <4>2. new[i].focused = mid[i].focused /\ new[i].keys = mid[i].keys /\ new[i].owners = mid[i].owners
          BY <2>4, <3>1 DEF SameButForInput
        <4>3. i # id => new[i].buttons = proxies[i].buttons
          BY <3>1
        <4>. QED
          BY <3>2, <4>1, <4>2, <4>3
      <3>. QED
        BY <3>3 DEF InputInv
    <2>8. toServer' = Sent(FocusMessages(f) \o press)
      BY <1>4 DEF Send, f
    <2>9. TellsTo(proxies, FocusMessages(f) \o press, new)
      <3>. HIDE DEF mid, new, press
      <3>. QED
        BY <2>2, <2>6, TellsBoth
    <2>10. TellsTo(proxies, toServer', new)
      <3>. DEFINE said == FocusMessages(f) \o press
      <3>. HIDE DEF mid, new, press, said
      <3>1. toServer' = Sent(said) /\ TellsTo(proxies, said, new)
        BY <2>8, <2>9 DEF said
      <3>. QED
        BY <3>1, TellsWhatIsSent
    <2>. QED
      BY <1>4, <2>7, <2>10 DEF f
  <1>. QED
    BY <1>1, <1>3, <1>4 DEF ButtonDown, PressedOn

\* So does a release.
LEMMA TellsButtonUp ==
    ASSUME AppInv, InputInv(proxies, capture), toServer = <<>>, Open,
           NEW button \in PointerButtons, ButtonUp(button)
    PROVE  TellsTo(proxies, toServer', proxies') /\ InputInv(proxies', capture')
  <1>1. CASE UNCHANGED <<wireVars, proxies, capture>>
    <2>1. toServer' = <<>> /\ proxies' = proxies /\ capture' = capture
      BY <1>1 DEF wireVars
    <2>2. TellsTo(proxies, <<>>, proxies)
      BY TellsNothing DEF NothingToTell
    <2>. QED
      BY <2>1, <2>2
  <1>2. ASSUME NEW id \in Target(cursor), NEW l \in LocationAt(id, cursor),
               proxies' = [proxies EXCEPT ![id].buttons = @ \ {button}],
               capture' = IF proxies'[id].buttons = {} THEN capture \ {id} ELSE capture,
               Send(<<PointerButton(id, l, button, FALSE)>>)
        PROVE  TellsTo(proxies, toServer', proxies') /\ InputInv(proxies', capture')
    <2>. DEFINE new == [proxies EXCEPT ![id].buttons = @ \ {button}]
    <2>1. id \in DOMAIN proxies /\ id \in Ids /\ proxies[id] \in ProxyType
      BY TargetsAreAlive DEF AppInv, AgentTypeOK
    <2>2. proxies[id].presentation.visible /\ l.sequence = proxies[id].presentation.sequence
      BY LocationFacts
    <2>3. /\ DOMAIN new = DOMAIN proxies /\ \A i \in DOMAIN proxies : i # id => new[i] = proxies[i]
          /\ new[id] = [proxies[id] EXCEPT !.buttons = @ \ {button}]
      BY <2>1
    <2>4. TellsTo(proxies, <<PointerButton(id, l, button, FALSE)>>, new)
      BY <2>1, <2>2, TellsPointer
    <2>5. toServer' = Sent(<<PointerButton(id, l, button, FALSE)>>)
      BY <1>2 DEF Send
    <2>6. proxies' = new
      BY <1>2
    <2>. HIDE DEF new
    <2>7. TellsTo(proxies, toServer', new)
      BY <2>4, <2>5, TellsWhatIsSent
    <2>8. /\ new[id].buttons \subseteq proxies[id].buttons
          /\ new[id].keys = proxies[id].keys /\ new[id].focused = proxies[id].focused
          /\ new[id].owners = proxies[id].owners
      BY <2>1, <2>3 DEF ProxyType
    <2>9. \A i : i \in capture /\ (i # id \/ new[id].buttons # {}) => i \in capture'
      BY <1>2, <2>6
    <2>10. InputInv(new, capture')
      <3>1. ASSUME NEW i \in DOMAIN new
            PROVE  /\ new[i].keys # {} => new[i].focused
                   /\ new[i].focused => new[i].owners = <<>>
                   /\ new[i].buttons # {} => i \in capture'
        <4>1. /\ proxies[i].keys # {} => proxies[i].focused
              /\ proxies[i].focused => proxies[i].owners = <<>>
              /\ proxies[i].buttons # {} => i \in capture
          BY <2>3 DEF InputInv
        <4>2. CASE i = id
          BY <2>8, <2>9, <4>1, <4>2
        <4>3. CASE i # id
          BY <2>3, <2>9, <4>1, <4>3
        <4>. QED
          BY <4>2, <4>3
      <3>. QED
        BY <3>1 DEF InputInv
    <2>. QED
      BY <2>6, <2>7, <2>10
  <1>. QED
    BY <1>1, <1>2 DEF ButtonUp
-----------------------------------------------------------------------------
\* So does WM_CAPTURECHANGED.
LEMMA TellsCaptureTaken ==
    ASSUME AppInv, InputInv(proxies, capture), toServer = <<>>, Open, CaptureTaken
    PROVE  TellsTo(proxies, toServer', proxies') /\ InputInv(proxies', capture')
  <1>1. PICK id \in capture : proxies' = [proxies EXCEPT ![id].buttons = {}] /\ Send(LoseCapture(id))
    BY DEF CaptureTaken
  <1>2. id \in DOMAIN proxies /\ id \in Ids /\ proxies[id] \in ProxyType /\ capture = {id}
    BY <1>1 DEF AppInv, AgentTypeOK, OneAlive
  <1>. DEFINE new == [proxies EXCEPT ![id].buttons = {}]
  <1>3. /\ DOMAIN new = DOMAIN proxies /\ \A i \in DOMAIN proxies : i # id => new[i] = proxies[i]
        /\ new[id] = [proxies[id] EXCEPT !.buttons = {}]
    BY <1>2
  <1>4. proxies[id].buttons # {} => TellsTo(proxies, <<CaptureLostMessage(id)>>, new)
    BY <1>2, TellsCaptureLost
  <1>5. proxies' = new /\ toServer' = Sent(LoseCapture(id))
    BY <1>1 DEF Send
  <1>. HIDE DEF new
  <1>6. /\ new[id].buttons = {} /\ new[id].keys = proxies[id].keys /\ new[id].focused = proxies[id].focused
        /\ new[id].tracking = proxies[id].tracking
        /\ new[id].owners = proxies[id].owners /\ new[id].presentation = proxies[id].presentation
    BY <1>2, <1>3 DEF ProxyType
  <1>7. TellsTo(proxies, LoseCapture(id), new)
    <2>1. CASE proxies[id].buttons # {}
      BY <1>4, <2>1 DEF LoseCapture
    <2>2. CASE proxies[id].buttons = {}
      <3>1. LoseCapture(id) = <<>>
        BY <2>2 DEF LoseCapture
      <3>2. NothingToTell(proxies, new)
        BY <1>3, <1>6, <2>2 DEF NothingToTell
      <3>. QED
        BY <3>1, <3>2, TellsNothing
    <2>. QED
      BY <2>1, <2>2
  <1>8. InputInv(new, {})
    BY <1>2, <1>3, <1>6 DEF InputInv
  <1>9. capture' = {}
    BY DEF CaptureTaken
  <1>10. TellsTo(proxies, toServer', new)
    BY <1>5, <1>7, TellsWhatIsSent
  <1>. QED
    BY <1>5, <1>8, <1>9, <1>10

\* So does losing the focus to another application.
LEMMA TellsFocusLeaves ==
    ASSUME AppInv, InputInv(proxies, capture), toServer = <<>>, Open, FocusLeaves
    PROVE  TellsTo(proxies, toServer', proxies') /\ InputInv(proxies', capture')
  <1>1. PICK id \in focus : proxies' = [proxies EXCEPT ![id] = Unfocused(id)] /\ Send(LoseFocus(id))
    BY DEF FocusLeaves
  <1>2. id \in DOMAIN proxies /\ id \in Ids /\ proxies[id] \in ProxyType
    BY <1>1 DEF AppInv, AgentTypeOK, OneAlive
  <1>. DEFINE mid == [proxies EXCEPT ![id] = [proxies[id] EXCEPT !.keys = {}, !.focused = FALSE]]
              new == [proxies EXCEPT ![id] = Unfocused(id)]
  <1>3. TellsTo(proxies, LoseFocus(id), mid)
    <2>1. proxies[id].keys # {} => proxies[id].focused
      BY <1>2 DEF InputInv
    <2>. QED
      BY <1>2, <2>1, TellsLoseFocus
  <1>4. /\ DOMAIN new = DOMAIN mid /\ DOMAIN mid = DOMAIN proxies
        /\ \A i \in DOMAIN proxies : i # id => new[i] = mid[i] /\ new[i] = proxies[i]
        /\ mid[id] = [proxies[id] EXCEPT !.keys = {}, !.focused = FALSE]
        /\ new[id] = Unfocused(id)
    BY <1>2
  <1>5. proxies' = new /\ toServer' = Sent(LoseFocus(id)) /\ capture' = capture
    BY <1>1 DEF Send, FocusLeaves
  <1>. HIDE DEF mid, new
  <1>6. /\ mid[id].keys = {} /\ mid[id].focused = FALSE /\ mid[id].buttons = proxies[id].buttons
        /\ mid[id].tracking = proxies[id].tracking /\ mid[id].presentation = proxies[id].presentation
    BY <1>2, <1>4 DEF ProxyType
  <1>7. /\ new[id].keys = {} /\ new[id].focused = FALSE /\ new[id].buttons = proxies[id].buttons
        /\ new[id].tracking = proxies[id].tracking /\ new[id].presentation = proxies[id].presentation
        /\ new[id].owners = proxies[id].owners
    BY <1>2, <1>4 DEF ProxyType, Unfocused
  <1>8. NothingToTell(mid, new)
    BY <1>4, <1>6, <1>7 DEF NothingToTell
  <1>9. TellsTo(proxies, LoseFocus(id), new)
    BY <1>3, <1>8, TellsMore
  <1>10. InputInv(new, capture)
    BY <1>2, <1>4, <1>7 DEF InputInv
  <1>11. TellsTo(proxies, toServer', new)
    BY <1>5, <1>9, TellsWhatIsSent
  <1>. QED
    BY <1>5, <1>10, <1>11

\* So does getting it back.
LEMMA TellsFocusComes ==
    ASSUME AppInv, InputInv(proxies, capture), toServer = <<>>, Open, NEW id \in DOMAIN proxies, FocusComes(id)
    PROVE  TellsTo(proxies, toServer', proxies') /\ InputInv(proxies', capture')
  <1>1. TellsTo(proxies, FocusMessages(id), FocusedOn(id)) /\ InputInv(FocusedOn(id), capture)
    BY TellsFocusMessages
  <1>2. toServer' = Sent(FocusMessages(id)) /\ proxies' = FocusedOn(id) /\ capture' = capture
    BY DEF FocusComes, Send
  <1>3. TellsTo(proxies, toServer', FocusedOn(id))
    BY <1>1, <1>2, TellsWhatIsSent
  <1>. QED
    BY <1>1, <1>2, <1>3

\* So does a key (send_key).
LEMMA TellsKeyPress ==
    ASSUME AppInv, InputInv(proxies, capture), toServer = <<>>, Open,
           NEW key \in Keys, NEW down \in BOOLEAN, Key(key, down)
    PROVE  TellsTo(proxies, toServer', proxies') /\ InputInv(proxies', capture')
  <1>1. PICK id \in focus :
           /\ proxies[id].focused /\ (down \/ key \in proxies[id].keys)
           /\ proxies' = [proxies EXCEPT ![id].keys = IF down THEN @ \cup {key} ELSE @ \ {key}]
           /\ Send(<<KeyboardKey(id, key, down)>>)
    BY DEF Key
  <1>2. id \in DOMAIN proxies /\ id \in Ids /\ proxies[id] \in ProxyType
    BY <1>1 DEF AppInv, AgentTypeOK, OneAlive
  <1>. DEFINE left == IF down THEN proxies[id].keys \cup {key} ELSE proxies[id].keys \ {key}
              new == [proxies EXCEPT ![id].keys = left]
  <1>3. proxies' = new
    BY <1>1
  <1>4. TellsTo(proxies, <<KeyboardKey(id, key, down)>>, new)
    <2>. DEFINE l == left
    <2>1. l = IF down THEN proxies[id].keys \cup {key} ELSE proxies[id].keys \ {key}
      OBVIOUS
    <2>. HIDE DEF l
    <2>2. TellsTo(proxies, <<KeyboardKey(id, key, down)>>, [proxies EXCEPT ![id].keys = l])
      BY <1>1, <1>2, <2>1, TellsKey
    <2>. QED
      BY <2>2 DEF l
  <1>. HIDE DEF left
  <1>5. /\ DOMAIN new = DOMAIN proxies /\ \A i \in DOMAIN proxies : i # id => new[i] = proxies[i]
        /\ new[id] = [proxies[id] EXCEPT !.keys = left]
    BY <1>2
  <1>. HIDE DEF new
  <1>6. /\ new[id].focused = proxies[id].focused /\ new[id].buttons = proxies[id].buttons
        /\ new[id].owners = proxies[id].owners
    BY <1>2, <1>5 DEF ProxyType
  <1>7. InputInv(new, capture)
    BY <1>1, <1>2, <1>5, <1>6 DEF InputInv
  <1>8. toServer' = Sent(<<KeyboardKey(id, key, down)>>) /\ capture' = capture
    BY <1>1 DEF Send, Key, desktopVars
  <1>9. TellsTo(proxies, toServer', new)
    BY <1>4, <1>8, TellsWhatIsSent
  <1>. QED
    BY <1>3, <1>7, <1>8, <1>9

\* Whatever the user and Win32 do, the reader is told.
LEMMA UserTells ==
    ASSUME AppInv, InputInv(proxies, capture), toServer = <<>>, Open, PointerStep \/ FocusStep
    PROVE  TellsTo(proxies, toServer', proxies') /\ InputInv(proxies', capture')
  BY TellsMouseMove, TellsMouseLeave, TellsMouseWheel, TellsButtonDown, TellsButtonUp, TellsCaptureTaken,
     TellsFocusLeaves, TellsFocusComes, TellsKeyPress DEF PointerStep, FocusStep
-----------------------------------------------------------------------------
\* A new window has no input that a reader could have to know.
LEMMA CreateTells ==
    ASSUME AppInv, InputInv(proxies, capture), toServer = <<>>, Open, ReceiveCreate
    PROVE  TellsTo(proxies, toServer', proxies') /\ InputInv(proxies', capture')
  <1>. DEFINE id == AgentArrival.id
              fresh == NewProxy(AgentArrival)
  <1>1. /\ DOMAIN proxies' = DOMAIN proxies \cup {id} /\ id \notin DOMAIN proxies
        /\ proxies'[id] = fresh /\ \A i \in DOMAIN proxies : proxies'[i] = proxies[i]
        /\ capture' = capture /\ toServer' = Sent(<<>>)
    BY DEF ReceiveCreate, CanCreate, Answer
  <1>2. /\ fresh.buttons = {} /\ fresh.keys = {} /\ fresh.focused = FALSE /\ fresh.tracking = FALSE
        /\ fresh.presentation.visible = FALSE
    BY DEF NewProxy, Hidden
  <1>. HIDE DEF id, fresh
  <1>3. NothingToTell(proxies, proxies')
    BY <1>1, <1>2 DEF NothingToTell
  <1>4. InputInv(proxies', capture')
    BY <1>1, <1>2 DEF InputInv
  <1>5. TellsTo(proxies, <<>>, proxies')
    BY <1>3, TellsNothing
  <1>. QED
    BY <1>1, <1>4, <1>5, TellsWhatIsSent

\* apply_destroy speaks for the window and for the popups that go with it.
LEMMA DestroyTells ==
    ASSUME AppInv, InputInv(proxies, capture), toServer = <<>>, Open, ReceiveDestroy
    PROVE  TellsTo(proxies, toServer', proxies') /\ InputInv(proxies', capture')
  <1>. DEFINE id == AgentArrival.id
              owned == OwnedBy(id)
              lost == CaptureLostBy({id})
              left == LoseFocus(id)
              also == CaptureLostBy(owned)
  <1>1. /\ id \in DOMAIN proxies /\ proxies' = WithoutWindow(id)
        /\ capture' = capture \ ({id} \cup owned)
        /\ toServer' = Sent(lost \o left \o also)
    BY DEF ReceiveDestroy, Answer
  <1>2. \A i \in DOMAIN proxies : i \in Ids /\ proxies[i] \in ProxyType
    BY DEF AppInv, AgentTypeOK
  <1>3. /\ capture = {} \/ \E c \in DOMAIN proxies : capture = {c}
        /\ \A i \in DOMAIN proxies : proxies[i].buttons # {} => i \in capture
    BY DEF AppInv, AgentTypeOK, OneAlive, InputInv
  <1>4. owned \subseteq DOMAIN proxies /\ id \notin owned
    <2>1. OwnersInv /\ AgentTypeOK
      BY DEF AppInv
    <2>2. \A i \in owned : i \in DOMAIN proxies /\ proxies[i].alive /\ id \in ToSet(proxies[i].owners)
      BY DEF OwnedBy
    <2>. HIDE DEF owned, id
    <2>3. id \notin owned
      BY <2>1, <2>2, OwnersFacts
    <2>. QED
      BY <2>2, <2>3
  <1>. HIDE DEF id, owned
  <1>. DEFINE px1 == [proxies EXCEPT ![id].buttons = {}]
              px2 == [px1 EXCEPT ![id] = [px1[id] EXCEPT !.keys = {}, !.focused = FALSE]]
              px3 == [i \in DOMAIN proxies |->
                        IF i \in owned THEN [px2[i] EXCEPT !.buttons = {}] ELSE px2[i]]
  <1>5. /\ DOMAIN px1 = DOMAIN proxies /\ \A i \in DOMAIN proxies : i # id => px1[i] = proxies[i]
        /\ px1[id] = [proxies[id] EXCEPT !.buttons = {}]
    BY <1>1
  <1>6. TellsTo(proxies, lost, px1)
    <2>1. CASE id \in capture /\ proxies[id].buttons # {}
      <3>1. lost = <<CaptureLostMessage(id)>>
        <4>1. capture = {id}
          BY <1>3, <2>1
        <4>2. (CHOOSE i \in capture : TRUE) = id
          BY <4>1
        <4>. QED
          BY <2>1, <4>1, <4>2 DEF CaptureLostBy, LoseCapture
      <3>. QED
        BY <1>1, <1>2, <2>1, <3>1, TellsCaptureLost
    <2>2. CASE id \notin capture \/ proxies[id].buttons = {}
      <3>1. proxies[id].buttons = {}
        BY <1>1, <1>3, <2>2
      <3>2. lost = <<>>
        <4>1. CASE id \notin capture
          BY <4>1 DEF CaptureLostBy
        <4>2. CASE id \in capture
          <5>1. capture = {id}
            BY <1>3, <4>2
          <5>2. (CHOOSE i \in capture : TRUE) = id
            BY <5>1
          <5>. QED
            BY <3>1, <5>1, <5>2 DEF CaptureLostBy, LoseCapture
        <4>. QED
          BY <4>1, <4>2
      <3>. HIDE DEF px1
      <3>3. /\ px1[id].buttons = {} /\ px1[id].keys = proxies[id].keys /\ px1[id].focused = proxies[id].focused
            /\ px1[id].tracking = proxies[id].tracking /\ px1[id].presentation = proxies[id].presentation
        BY <1>1, <1>2, <1>5 DEF ProxyType
      <3>4. NothingToTell(proxies, px1)
        BY <1>5, <3>1, <3>3 DEF NothingToTell
      <3>. QED
        BY <3>2, <3>4, TellsNothing
    <2>. QED
      BY <2>1, <2>2
  <1>. HIDE DEF px1
  <1>7. /\ px1[id] \in ProxyType /\ px1[id].keys = proxies[id].keys /\ px1[id].focused = proxies[id].focused
        /\ px1[id].buttons = {}
    BY <1>1, <1>2, <1>5 DEF ProxyType
  <1>8. TellsTo(px1, left, px2)
    <2>1. px1[id].keys # {} => px1[id].focused
      BY <1>1, <1>7 DEF InputInv
    <2>. QED
      BY <1>1, <1>2, <1>5, <1>7, <2>1, TellsLoseFocus
  <1>9. /\ DOMAIN px2 = DOMAIN proxies /\ \A i \in DOMAIN proxies : i # id => px2[i] = proxies[i]
        /\ px2[id] = [px1[id] EXCEPT !.keys = {}, !.focused = FALSE]
    BY <1>1, <1>5
  <1>10. px2[id].keys = {} /\ px2[id].focused = FALSE /\ px2[id].buttons = {}
    <2>. HIDE DEF px2
    <2>. QED
      BY <1>7, <1>9 DEF ProxyType
  <1>. HIDE DEF px2
  <1>11. /\ DOMAIN px3 = DOMAIN proxies
         /\ \A i \in owned : px3[i] = [px2[i] EXCEPT !.buttons = {}]
         /\ \A i \in DOMAIN proxies : i \notin owned => px3[i] = px2[i]
    BY <1>4
  <1>. HIDE DEF px3
  <1>12. TellsTo(px2, also, px3)
    <2>1. \A i \in owned : i # id /\ px2[i] = proxies[i] /\ px2[i] \in ProxyType /\ i \in DOMAIN proxies
      BY <1>2, <1>4, <1>9
    <2>2. \A i \in owned : /\ px3[i].buttons = {} /\ px3[i].keys = px2[i].keys /\ px3[i].focused = px2[i].focused
                           /\ px3[i].tracking = px2[i].tracking /\ px3[i].presentation = px2[i].presentation
      <3>. SUFFICES ASSUME NEW i \in owned
                    PROVE  /\ px3[i].buttons = {} /\ px3[i].keys = px2[i].keys /\ px3[i].focused = px2[i].focused
                           /\ px3[i].tracking = px2[i].tracking /\ px3[i].presentation = px2[i].presentation
        OBVIOUS
      <3>1. PICK q \in ProxyType : px2[i] = q
        BY <2>1
      <3>2. px3[i] = [q EXCEPT !.buttons = {}]
        BY <1>11, <3>1
      <3>. QED
        BY <3>1, <3>2 DEF ProxyType
    <2>3. ASSUME NEW c \in owned, c \in capture, proxies[c].buttons # {}
          PROVE  TellsTo(px2, also, px3)
      <3>. DEFINE mid == [px2 EXCEPT ![c].buttons = {}]
      <3>1. capture = {c} /\ (CHOOSE i \in capture : TRUE) = c
        <4>1. capture = {c}
          BY <1>3, <2>3
        <4>2. (CHOOSE i \in capture : TRUE) = c
          BY <4>1
        <4>. QED
          BY <4>1, <4>2
      <3>2. also = <<CaptureLostMessage(c)>>
        BY <2>3, <3>1 DEF CaptureLostBy, LoseCapture
      <3>3. c \in DOMAIN px2 /\ c \in Ids /\ px2[c] \in ProxyType /\ px2[c].buttons # {}
        BY <1>2, <1>9, <2>1, <2>3
      <3>4. TellsTo(px2, <<CaptureLostMessage(c)>>, mid)
        BY <3>3, TellsCaptureLost
      <3>5. /\ DOMAIN mid = DOMAIN px2 /\ \A i \in DOMAIN px2 : i # c => mid[i] = px2[i]
            /\ mid[c] = [px2[c] EXCEPT !.buttons = {}]
        BY <3>3
      <3>. HIDE DEF mid
      <3>6. \A i \in owned : i # c => px2[i].buttons = {}
        BY <1>3, <2>1, <3>1
      <3>7. ASSUME NEW i \in DOMAIN proxies
            PROVE  /\ px3[i].buttons = mid[i].buttons /\ px3[i].keys = mid[i].keys
                   /\ px3[i].focused = mid[i].focused /\ px3[i].tracking = mid[i].tracking
                   /\ px3[i].presentation = mid[i].presentation
        <4>1. CASE i = c
          BY <1>11, <2>3, <3>5, <4>1
        <4>2. CASE i # c /\ i \in owned
          <5>1. px3[i].buttons = {} /\ px2[i].buttons = {} /\ mid[i] = px2[i]
            BY <1>9, <2>2, <3>5, <3>6, <4>2
          <5>. QED
            BY <2>2, <4>2, <5>1
        <4>3. CASE i # c /\ i \notin owned
          BY <1>9, <1>11, <3>5, <4>3
        <4>. QED
          BY <4>1, <4>2, <4>3
      <3>8. NothingToTell(mid, px3)
        BY <1>9, <1>11, <3>5, <3>7 DEF NothingToTell
      <3>. QED
        BY <3>2, <3>4, <3>8, TellsMore
    <2>4. CASE \A c \in owned : c \notin capture \/ proxies[c].buttons = {}
      <3>1. \A i \in owned : proxies[i].buttons = {}
        BY <1>3, <2>1, <2>4
      <3>2. also = <<>>
        <4>1. CASE capture \cap owned = {}
          BY <4>1 DEF CaptureLostBy
        <4>2. CASE capture \cap owned # {}
          <5>1. PICK c \in owned : capture = {c}
            BY <1>3, <4>2
          <5>2. (CHOOSE i \in capture : TRUE) = c
            BY <5>1
          <5>. QED
            BY <3>1, <4>2, <5>1, <5>2 DEF CaptureLostBy, LoseCapture
        <4>. QED
          BY <4>1, <4>2
      <3>3. NothingToTell(px2, px3)
        <4>1. ASSUME NEW i \in DOMAIN proxies
              PROVE  /\ px3[i].buttons = px2[i].buttons /\ px3[i].keys = px2[i].keys
                     /\ px3[i].focused = px2[i].focused /\ px3[i].tracking = px2[i].tracking
                     /\ px3[i].presentation = px2[i].presentation
          <5>1. CASE i \in owned
            BY <2>1, <2>2, <3>1, <5>1
          <5>2. CASE i \notin owned
            BY <1>11, <5>2
          <5>. QED
            BY <5>1, <5>2
        <4>. QED
          BY <1>9, <1>11, <4>1 DEF NothingToTell
      <3>. QED
        BY <3>2, <3>3, TellsNothing
    <2>. QED
      BY <2>3, <2>4
  <1>13. TellsTo(proxies, lost \o left \o also, px3)
    <2>. HIDE DEF lost, left, also
    <2>1. TellsTo(proxies, lost \o left, px2)
      BY <1>6, <1>8, TellsBoth
    <2>. QED
      BY <1>12, <2>1, TellsBoth
  <1>. DEFINE new == WithoutWindow(id)
  <1>14. /\ DOMAIN new = DOMAIN proxies \ {id}
         /\ \A i \in DOMAIN new : i \notin owned => new[i] = proxies[i]
         /\ \A i \in DOMAIN new : i \in owned =>
               /\ new[i].buttons = IF i \in capture THEN {} ELSE proxies[i].buttons
               /\ new[i].keys = proxies[i].keys /\ new[i].focused = proxies[i].focused
               /\ new[i].owners = proxies[i].owners
               /\ new[i].tracking = proxies[i].tracking /\ new[i].presentation = proxies[i].presentation
    <2>1. DOMAIN new = DOMAIN proxies \ {id}
      BY DEF WithoutWindow
    <2>2. ASSUME NEW i \in DOMAIN new, i \notin owned PROVE new[i] = proxies[i]
      BY <2>1, <2>2 DEF WithoutWindow, owned
    <2>3. ASSUME NEW i \in DOMAIN new, i \in owned
          PROVE  /\ new[i].buttons = IF i \in capture THEN {} ELSE proxies[i].buttons
                 /\ new[i].keys = proxies[i].keys /\ new[i].focused = proxies[i].focused
                 /\ new[i].owners = proxies[i].owners
                 /\ new[i].tracking = proxies[i].tracking /\ new[i].presentation = proxies[i].presentation
      <3>. DEFINE b == IF i \in capture THEN {} ELSE proxies[i].buttons
      <3>1. new[i] = [proxies[i] EXCEPT !.alive = FALSE, !.buttons = b]
        BY <2>1, <2>3 DEF WithoutWindow, owned
      <3>2. proxies[i] \in ProxyType
        BY <1>2, <2>1
      <3>. HIDE DEF new, b
      <3>3. /\ new[i].buttons = b
            /\ new[i].keys = proxies[i].keys /\ new[i].focused = proxies[i].focused
            /\ new[i].owners = proxies[i].owners
            /\ new[i].tracking = proxies[i].tracking /\ new[i].presentation = proxies[i].presentation
        BY <3>1, <3>2 DEF ProxyType
      <3>. QED
        BY <3>3 DEF b
    <2>. HIDE DEF new
    <2>. QED
      BY <2>1, <2>2, <2>3
  <1>. HIDE DEF new
  <1>15. \A i \in DOMAIN new : i \in owned => new[i].buttons = {}
    BY <1>3, <1>14
  <1>16. NothingToTell(px3, new)
    <2>1. ASSUME NEW i \in DOMAIN new
          PROVE  /\ new[i].buttons = px3[i].buttons /\ new[i].keys = px3[i].keys
                 /\ new[i].focused = px3[i].focused /\ new[i].tracking = px3[i].tracking
                 /\ new[i].presentation = px3[i].presentation
      <3>1. CASE i \in owned
        <4>1. px3[i] = [proxies[i] EXCEPT !.buttons = {}] /\ proxies[i] \in ProxyType
          BY <1>2, <1>4, <1>9, <1>11, <3>1
        <4>2. /\ px3[i].buttons = {} /\ px3[i].keys = proxies[i].keys /\ px3[i].focused = proxies[i].focused
              /\ px3[i].tracking = proxies[i].tracking /\ px3[i].presentation = proxies[i].presentation
          BY <4>1 DEF ProxyType
        <4>. QED
          BY <1>14, <1>15, <3>1, <4>2
      <3>2. CASE i \notin owned
        BY <1>9, <1>11, <1>14, <3>2
      <3>. QED
        BY <3>1, <3>2
    <2>2. px3[id] = px2[id]
      BY <1>1, <1>4, <1>11
    <2>. QED
      BY <1>1, <1>10, <1>11, <1>14, <2>1, <2>2 DEF NothingToTell
  <1>. HIDE DEF lost, left, also
  <1>17. TellsTo(proxies, lost \o left \o also, new)
    BY <1>13, <1>16, TellsMore
  <1>18. TellsTo(proxies, toServer', new)
    <2>. DEFINE said == lost \o left \o also
    <2>. HIDE DEF said
    <2>1. TellsTo(proxies, said, new) /\ toServer' = Sent(said)
      BY <1>1, <1>17 DEF said
    <2>. QED
      BY <2>1, TellsWhatIsSent
  <1>19. InputInv(new, capture')
    <2>1. ASSUME NEW i \in DOMAIN new
          PROVE  /\ new[i].keys # {} => new[i].focused
                 /\ new[i].focused => new[i].owners = <<>>
                 /\ new[i].buttons # {} => i \in capture'
      <3>1. /\ proxies[i].keys # {} => proxies[i].focused
            /\ proxies[i].focused => proxies[i].owners = <<>>
            /\ proxies[i].buttons # {} => i \in capture
        BY <1>14 DEF InputInv
      <3>2. CASE i \in owned
        BY <1>14, <1>15, <3>1, <3>2
      <3>3. CASE i \notin owned
        BY <1>1, <1>14, <3>1, <3>3
      <3>. QED
        BY <3>2, <3>3
    <2>. QED
      BY <2>1 DEF InputInv
  <1>20. proxies' = new
    BY <1>1 DEF new
  <1>. QED
    BY <1>18, <1>19, <1>20
-----------------------------------------------------------------------------
\* What is on its way to a window or queued for it is yet to be acknowledged,
\* and no two presentations of a window have the same number.
FlightAgrees(w, s, pend, n) ==
    /\ \A i \in DOMAIN s : s[i].type = "WINDOW_PRESENT" =>
          s[i].presentation.sequence \in w[s[i].id] /\ s[i].presentation.sequence <= n
    /\ \A i, j \in DOMAIN s :
          i # j /\ s[i].type = "WINDOW_PRESENT" /\ s[j].type = "WINDOW_PRESENT" /\ s[i].id = s[j].id
             => s[i].presentation.sequence # s[j].presentation.sequence
    /\ \A id \in DOMAIN pend :
          /\ pend[id].sequence \in w[id] /\ pend[id].sequence <= n
          /\ \A i \in DOMAIN s : s[i].type = "WINDOW_PRESENT" /\ s[i].id = id
                => s[i].presentation.sequence # pend[id].sequence

\* A reader expects each of the messages on their way, and knows the windows
\* after the last of them.
ReaderInv ==
    /\ \E last \in ReaderType :
          /\ Reads(Reader, toServer, last)
          /\ Open => InputAgrees(last, proxies) /\ FlightAgrees(last.unacked, toAgent, pending, sent)
    /\ Open => InputInv(proxies, capture)

\* ReaderInv of the next state, from its parts.
LEMMA ReaderNext ==
    ASSUME NEW last \in ReaderType, Reads(Reader', toServer', last),
           Open' => InputAgrees(last, proxies') /\ FlightAgrees(last.unacked, toAgent', pending', sent'),
           Open' => InputInv(proxies', capture')
    PROVE  ReaderInv'
  BY DEF ReaderInv

\* What reads nothing is at the end.
LEMMA NothingMoreToRead ==
    ASSUME NEW r, NEW last, Reads(r, <<>>, last)
    PROVE  last = r /\ r \in ReaderType
  <1>1. Len(<<>>) = 0
    OBVIOUS
  <1>. QED
    BY <1>1 DEF Reads

\* With nothing to read the reader knows the windows.
LEMMA ReaderIsUpToDate ==
    ASSUME ReaderInv, toServer = <<>>
    PROVE  /\ Reader \in ReaderType /\ Reads(Reader, <<>>, Reader)
           /\ Open => /\ InputAgrees(Reader, proxies) /\ FlightAgrees(unacked, toAgent, pending, sent)
                      /\ InputInv(proxies, capture)
  <1>1. PICK last \in ReaderType :
           /\ Reads(Reader, <<>>, last)
           /\ Open => InputAgrees(last, proxies) /\ FlightAgrees(last.unacked, toAgent, pending, sent)
    BY DEF ReaderInv
  <1>2. last = Reader
    BY <1>1, NothingMoreToRead
  <1>3. Reader.unacked = unacked
    BY DEF Reader
  <1>. QED
    BY <1>1, <1>2, <1>3 DEF ReaderInv

\* A message taken off the stream, or a queued presentation dropped.
LEMMA FlightShrinks ==
    ASSUME NEW w, NEW s, s # <<>>, NEW M, s \in Seq(M), NEW pend, NEW n, FlightAgrees(w, s, pend, n),
           NEW left, DOMAIN left \subseteq DOMAIN pend, \A id \in DOMAIN left : left[id] = pend[id]
    PROVE  FlightAgrees(w, Tail(s), left, n)
  <1>1. \A i \in DOMAIN Tail(s) : i + 1 \in DOMAIN s /\ Tail(s)[i] = s[i + 1] /\ i \in Nat
    BY TailElements, HeadTailProperties, LenProperties
  <1>. DEFINE t == Tail(s)
  <1>. HIDE DEF t
  <1>2. \A i \in DOMAIN t : i + 1 \in DOMAIN s /\ t[i] = s[i + 1] /\ i \in Nat
    BY <1>1 DEF t
  <1>3. \A i, j \in DOMAIN t : i # j => i + 1 # j + 1
    BY <1>2
  <1>4. FlightAgrees(w, t, left, n)
    BY <1>2, <1>3 DEF FlightAgrees
  <1>. QED
    BY <1>4 DEF t

\* A presentation goes from the stream to the queue, in the place of an older one.
LEMMA FlightLands ==
    ASSUME NEW w, NEW s, s # <<>>, NEW M, s \in Seq(M), NEW pend, NEW n, FlightAgrees(w, s, pend, n),
           Head(s).type = "WINDOW_PRESENT",
           NEW new, DOMAIN new = DOMAIN pend \cup {Head(s).id}, new[Head(s).id] = Head(s).presentation,
           \A id \in DOMAIN pend : id # Head(s).id => new[id] = pend[id]
    PROVE  FlightAgrees(w, Tail(s), new, n)
  <1>1. \A i \in DOMAIN Tail(s) : i + 1 \in DOMAIN s /\ Tail(s)[i] = s[i + 1] /\ i \in Nat /\ i >= 1
    BY TailElements, HeadTailProperties, LenProperties
  <1>2. 1 \in DOMAIN s /\ s[1] = Head(s)
    BY TailElements
  <1>. DEFINE t == Tail(s)
              h == Head(s)
  <1>. HIDE DEF t, h
  <1>3. \A i \in DOMAIN t : i + 1 \in DOMAIN s /\ t[i] = s[i + 1] /\ i + 1 # 1
    BY <1>1 DEF t
  <1>4. \A i, j \in DOMAIN t : i # j => i + 1 # j + 1
    BY <1>1 DEF t
  <1>5. /\ h.type = "WINDOW_PRESENT" /\ DOMAIN new = DOMAIN pend \cup {h.id} /\ new[h.id] = h.presentation
        /\ \A id \in DOMAIN pend : id # h.id => new[id] = pend[id]
        /\ 1 \in DOMAIN s /\ s[1] = h
    BY <1>2 DEF h
  <1>6. /\ \A i \in DOMAIN t : t[i].type = "WINDOW_PRESENT" =>
              t[i].presentation.sequence \in w[t[i].id] /\ t[i].presentation.sequence <= n
        /\ \A i, j \in DOMAIN t :
              i # j /\ t[i].type = "WINDOW_PRESENT" /\ t[j].type = "WINDOW_PRESENT" /\ t[i].id = t[j].id
                 => t[i].presentation.sequence # t[j].presentation.sequence
    BY <1>3, <1>4 DEF FlightAgrees
  <1>7. ASSUME NEW id \in DOMAIN new
        PROVE  /\ new[id].sequence \in w[id] /\ new[id].sequence <= n
               /\ \A i \in DOMAIN t : t[i].type = "WINDOW_PRESENT" /\ t[i].id = id
                     => t[i].presentation.sequence # new[id].sequence
    <2>1. CASE id = h.id
      BY <1>3, <1>5, <2>1 DEF FlightAgrees
    <2>2. CASE id # h.id
      <3>1. id \in DOMAIN pend /\ new[id] = pend[id]
        BY <1>5, <2>2
      <3>. QED
        BY <1>3, <3>1 DEF FlightAgrees
    <2>. QED
      BY <2>1, <2>2
  <1>8. FlightAgrees(w, t, new, n)
    BY <1>6, <1>7 DEF FlightAgrees
  <1>. QED
    BY <1>8 DEF t
-----------------------------------------------------------------------------
\* A dispatch acknowledges what it applies and nothing else.
LEMMA DispatchTells ==
    ASSUME TypeInv, toServer = <<>>, Open, DispatchPresents, NEW r \in ReaderType, InputAgrees(r, proxies),
           FlightAgrees(r.unacked, toAgent, pending, sent), InputInv(proxies, capture)
    PROVE  /\ \E last \in ReaderType :
                 /\ Reads(r, toServer', last) /\ InputAgrees(last, proxies')
                 /\ FlightAgrees(last.unacked, toAgent, pending', sent)
           /\ InputInv(proxies', capture')
  <1>0. AppInv /\ AgentTypeOK /\ toAgent \in Seq(ToAgentMessage)
    BY DEF TypeInv, AppInv, WireTypeOK
  <1>1. /\ proxies' = AppliedAll /\ pending' = Empty /\ capture' = capture
        /\ \A id \in Ready : Presentable(id, pending[id])
    BY DEF DispatchPresents, AppliedAll
  <1>2. PICK order \in SetToSeqs(Ready) : toServer' = Sent(Acks(order))
    BY DEF DispatchPresents, Send
  <1>3. toServer' = <<>> \o Acks(order)
    BY <1>2 DEF Sent, Open
  <1>4. /\ order \in Seq(Ready) /\ IsInjective(order) /\ ToSet(order) = Ready
        /\ Ready = DOMAIN pending /\ Ready \subseteq Ids
    BY <1>0, StackedFacts DEF AgentTypeOK
  <1>5. order \in Seq(Ids)
    BY <1>4
  <1>6. \A id \in Ready : pending[id].sequence \in Nat /\ pending[id].sequence \in r.unacked[id]
    BY <1>0, <1>4 DEF FlightAgrees, AgentTypeOK, ShownType
  <1>. DEFINE last == Acked(r, Ready)
  <1>7. Reads(r, Acks(order), last)
    BY <1>4, <1>5, <1>6, ReadsAcks
  <1>8. /\ last \in ReaderType
        /\ \A id \in Ids : id \in Ready =>
              /\ last.known[id] = [r.known[id] EXCEPT !.shown = pending[id].sequence]
              /\ last.unacked[id] = r.unacked[id] \ {pending[id].sequence}
        /\ \A id \in Ids : id \notin Ready =>
              last.known[id] = r.known[id] /\ last.unacked[id] = r.unacked[id]
    BY <1>6, AckedFacts
  <1>. HIDE DEF last
  <1>9. Reads(r, toServer', last)
    <2>1. Reads(r, <<>>, r)
      BY ReadsNothing
    <2>. QED
      BY <1>3, <1>7, <2>1, ReadsBoth
  <1>10. /\ DOMAIN AppliedAll = DOMAIN proxies
         /\ \A id \in DOMAIN proxies :
              /\ AppliedAll[id].owners = proxies[id].owners
              /\ AppliedAll[id].presentation = IF id \in Ready THEN pending[id] ELSE proxies[id].presentation
              /\ AppliedAll[id].buttons = proxies[id].buttons /\ AppliedAll[id].keys = proxies[id].keys
              /\ AppliedAll[id].tracking = proxies[id].tracking /\ AppliedAll[id].focused = proxies[id].focused
    BY <1>0, <1>1, AppliedFacts
  <1>11. InputAgrees(last, AppliedAll)
    <2>1. ASSUME NEW id \in Ids
          PROVE  IF id \in DOMAIN AppliedAll THEN KnowsProxy(last.known[id], AppliedAll[id])
                 ELSE KnowsNothing(last.known[id])
      <3>1. CASE id \in Ready
        <4>1. id \in DOMAIN proxies /\ KnowsProxy(r.known[id], proxies[id]) /\ r.known[id] \in KnownType
          BY <3>1 DEF InputAgrees, Ready, ReaderType
        <4>2. last.known[id] = [r.known[id] EXCEPT !.shown = pending[id].sequence]
          BY <1>8, <3>1
        <4>3. /\ last.known[id].buttons = r.known[id].buttons /\ last.known[id].keys = r.known[id].keys
              /\ last.known[id].focused = r.known[id].focused /\ last.known[id].entered = r.known[id].entered
              /\ last.known[id].shown = pending[id].sequence
          BY <4>1, <4>2 DEF KnownType
        <4>4. AppliedAll[id].presentation = pending[id]
          BY <1>10, <3>1, <4>1
        <4>. QED
          BY <1>10, <4>1, <4>3, <4>4 DEF KnowsProxy
      <3>2. CASE id \notin Ready /\ id \in DOMAIN proxies
        <4>1. KnowsProxy(r.known[id], proxies[id]) /\ last.known[id] = r.known[id]
          BY <1>8, <3>2 DEF InputAgrees
        <4>2. AppliedAll[id].presentation = proxies[id].presentation
          BY <1>10, <3>2
        <4>. QED
          BY <1>10, <3>2, <4>1, <4>2 DEF KnowsProxy
      <3>3. CASE id \notin DOMAIN proxies
        <4>1. KnowsNothing(r.known[id]) /\ id \notin Ready
          BY <3>3 DEF InputAgrees, Ready
        <4>. QED
          BY <1>8, <1>10, <3>3, <4>1
      <3>. QED
        BY <3>1, <3>2, <3>3
    <2>. QED
      BY <2>1 DEF InputAgrees
  <1>12. InputInv(AppliedAll, capture)
    BY <1>10 DEF InputInv
  <1>13. FlightAgrees(last.unacked, toAgent, Empty, sent)
    <2>1. \A id : id \in DOMAIN pending => last.unacked[id] = r.unacked[id] \ {pending[id].sequence}
      BY <1>4, <1>8
    <2>2. ASSUME NEW i \in DOMAIN toAgent, toAgent[i].type = "WINDOW_PRESENT" PROVE toAgent[i].id \in Ids
      <3>1. toAgent[i] \in ToAgentMessage
        BY <1>0, ElementOfSeq, LenProperties
      <3>2. PICK id \in Ids, p \in ShownType : toAgent[i] = WindowPresent(id, p)
        BY <2>2, <3>1, ToAgentKinds
      <3>. QED
        BY <3>2 DEF WindowPresent
    <2>3. ASSUME NEW i \in DOMAIN toAgent, toAgent[i].type = "WINDOW_PRESENT"
          PROVE  toAgent[i].presentation.sequence \in last.unacked[toAgent[i].id]
      <3>1. toAgent[i].id \in Ids
        BY <2>2, <2>3
      <3>2. CASE toAgent[i].id \in DOMAIN pending
        BY <2>1, <2>3, <3>2 DEF FlightAgrees
      <3>3. CASE toAgent[i].id \notin DOMAIN pending
        BY <1>4, <1>8, <2>3, <3>1, <3>3 DEF FlightAgrees
      <3>. QED
        BY <3>2, <3>3
    <2>4. DOMAIN Empty = {}
      BY DEF Empty
    <2>. QED
      BY <2>3, <2>4 DEF FlightAgrees
  <1>. QED
    BY <1>1, <1>8, <1>9, <1>11, <1>12, <1>13

\* The ACKs that are sent before the one presentation that cannot be applied.
LEMMA LastAcks ==
    ASSUME TypeInv, toServer = <<>>, Open, DispatchFails, NEW r \in ReaderType,
           FlightAgrees(r.unacked, toAgent, pending, sent)
    PROVE  \E last \in ReaderType : Reads(r, toServer', last)
  <1>0. AppInv /\ AgentTypeOK
    BY DEF TypeInv, AppInv
  <1>. DEFINE S == {id \in Ready : Presentable(id, pending[id])}
  <1>m. PICK order \in SetToSeqs(S) : \E done \in 0 .. Len(order) :
           FailConnection(Acks(SubSeq(order, 1, done)))
    BY DEF DispatchFails
  <1>1. PICK done \in 0 .. Len(order) : FailConnection(Acks(SubSeq(order, 1, done)))
    BY <1>m
  <1>2. S \subseteq Ids /\ S \subseteq DOMAIN pending /\ IsFiniteSet(S)
    BY <1>0, FiniteIds DEF Ready, AgentTypeOK
  <1>. HIDE DEF S
  <1>3. /\ order \in Seq(S) /\ IsInjective(order) /\ DOMAIN order = 1 .. Len(order)
        /\ \A x : x \in ToSet(order) <=> x \in S
    BY <1>2, ListingsOf
  <1>. DEFINE some == SubSeq(order, 1, done)
  <1>4. Len(order) \in Nat /\ done \in Nat /\ done <= Len(order)
    BY <1>3, LenProperties
  <1>5. /\ some \in Seq(S) /\ Len(some) = done /\ \A i \in 1 .. done : some[i] = order[i]
    BY <1>3, <1>4, SubSeqProperties
  <1>. HIDE DEF some
  <1>6. DOMAIN some = 1 .. done
    BY <1>5, LenProperties
  <1>7. IsInjective(some)
    BY <1>3, <1>4, <1>5, <1>6 DEF IsInjective
  <1>8. \A id \in ToSet(some) : id \in S
    BY <1>5, <1>6, ElementOfSeq DEF ToSet
  <1>9. \A id \in ToSet(some) : pending[id].sequence \in Nat /\ pending[id].sequence \in r.unacked[id]
    BY <1>0, <1>2, <1>8 DEF FlightAgrees, AgentTypeOK, ShownType
  <1>10. some \in Seq(Ids)
    BY <1>2, <1>5, SeqOfMore
  <1>11. Reads(r, Acks(some), Acked(r, ToSet(some)))
    BY <1>7, <1>9, <1>10, ReadsAcks
  <1>12. Acked(r, ToSet(some)) \in ReaderType
    BY <1>9, AckedFacts
  <1>13. toServer' = <<>> \o Acks(some)
    BY <1>1 DEF FailConnection, Sent, Open, some
  <1>14. Reads(r, <<>>, r)
    BY ReadsNothing
  <1>. QED
    BY <1>11, <1>12, <1>13, <1>14, ReadsBoth
-----------------------------------------------------------------------------
\* Once a side has closed the agent says nothing.
LEMMA ClosedSaysNothing ==
    ASSUME ~Open, AgentStep \/ PointerStep \/ FocusStep
    PROVE  toServer' = toServer /\ ~Open'
  <1>1. \A s : Sent(s) = toServer
    BY DEF Sent, Open
  <1>2. ASSUME NEW s, Send(s) PROVE toServer' = toServer /\ ~Open'
    BY <1>1, <1>2 DEF Send, Open
  <1>3. ASSUME NEW s, Answer(s) PROVE toServer' = toServer /\ ~Open'
    BY <1>1, <1>3 DEF Answer, Open
  <1>4. ASSUME NEW s, FailConnection(s) PROVE toServer' = toServer /\ ~Open'
    BY <1>1, <1>4 DEF FailConnection, Open
  <1>5. UNCHANGED wireVars => toServer' = toServer /\ ~Open'
    BY DEF wireVars, Open
  <1>6. CASE \/ ReceiveHelloAck \/ ReceiveOutputConfig \/ ReceiveCreate \/ ReceiveResize \/ ReceiveFrame
             \/ ReceiveDamage \/ ReceivePresent \/ ReceiveActivate \/ ReceiveDestroy
    BY <1>3, <1>6 DEF ReceiveHelloAck, ReceiveOutputConfig, ReceiveCreate, ReceiveResize, ReceiveFrame,
                      ReceiveDamage, ReceivePresent, ReceiveActivate, ReceiveDestroy
  <1>7. CASE SocketFails \/ DispatchFails
    BY <1>4, <1>7 DEF SocketFails, DispatchFails
  <1>8. CASE DispatchPresents
    BY <1>2, <1>8 DEF DispatchPresents
  <1>9. CASE Exit
    BY <1>9 DEF Exit, Open
  <1>10. CASE PointerStep
    <2>1. ASSUME NEW point, MouseMove(point) PROVE toServer' = toServer /\ ~Open'
      BY <1>2, <1>5, <2>1 DEF MouseMove, wireVars
    <2>2. ASSUME NEW id, MouseLeave(id) PROVE toServer' = toServer /\ ~Open'
      BY <1>2, <1>5, <2>2 DEF MouseLeave
    <2>3. ASSUME NEW button, ButtonDown(button) PROVE toServer' = toServer /\ ~Open'
      BY <1>2, <1>5, <2>3 DEF ButtonDown, wireVars
    <2>4. ASSUME NEW button, ButtonUp(button) PROVE toServer' = toServer /\ ~Open'
      BY <1>2, <1>5, <2>4 DEF ButtonUp, wireVars
    <2>5. CASE MouseWheel \/ CaptureTaken
      BY <1>2, <2>5 DEF MouseWheel, CaptureTaken
    <2>. QED
      BY <1>10, <2>1, <2>2, <2>3, <2>4, <2>5 DEF PointerStep
  <1>11. CASE FocusStep
    BY <1>2, <1>11 DEF FocusStep, FocusLeaves, FocusComes, Key
  <1>. QED
    BY <1>6, <1>7, <1>8, <1>9, <1>10, <1>11 DEF AgentStep

\* The thread's own steps keep ReaderInv.
LEMMA ThreadTells ==
    ASSUME TypeInv, ReaderInv, toServer = <<>>, ThreadStep
    PROVE  ReaderInv'
  <1>1. AgentStep /\ Reader' = Reader /\ sent' = sent
    BY DEF ThreadStep, exporterVars, Reader
  <1>2. /\ Reader \in ReaderType /\ Reads(Reader, <<>>, Reader)
        /\ Open => /\ InputAgrees(Reader, proxies) /\ FlightAgrees(unacked, toAgent, pending, sent)
                   /\ InputInv(proxies, capture)
    BY ReaderIsUpToDate
  <1>3. CASE ~Open
    BY <1>1, <1>2, <1>3, ClosedSaysNothing, ReaderNext
  <1>4. CASE Open
    <2>1. Reader.unacked = unacked /\ AppInv /\ toAgent \in Seq(ToAgentMessage)
      BY DEF Reader, TypeInv, AppInv, WireTypeOK
    <2>2. /\ InputAgrees(Reader, proxies) /\ FlightAgrees(Reader.unacked, toAgent, pending, sent)
          /\ InputInv(proxies, capture)
      BY <1>2, <1>4, <2>1
    <2>a. ASSUME TellsTo(proxies, toServer', proxies'), InputInv(proxies', capture'),
                 FlightAgrees(Reader.unacked, toAgent', pending', sent)
          PROVE  ReaderInv'
      <3>1. PICK last \in ReaderType :
               Reads(Reader, toServer', last) /\ last.unacked = Reader.unacked /\ InputAgrees(last, proxies')
        BY <1>2, <2>2, <2>a DEF TellsTo
      <3>2. FlightAgrees(last.unacked, toAgent', pending', sent')
        BY <1>1, <2>a, <3>1
      <3>. QED
        BY <1>1, <2>a, <3>1, <3>2, ReaderNext
    <2>b. CASE ReceiveHelloAck \/ ReceiveOutputConfig \/ ReceiveActivate \/ ReceivePresent
      <3>1. /\ toAgent # <<>> /\ toAgent' = Tail(toAgent) /\ proxies' = proxies /\ capture' = capture
            /\ toServer' = <<>>
        BY <2>b, <1>4 DEF ReceiveHelloAck, ReceiveOutputConfig, ReceiveActivate, ReceivePresent, AgentArrived, Answer,
                   agentVars, desktopVars, Sent, Open
      <3>2. TellsTo(proxies, <<>>, proxies)
        BY TellsNothing DEF NothingToTell
      <3>3. FlightAgrees(Reader.unacked, toAgent', pending', sent)
        <4>1. CASE pending' = pending
          <5>1. FlightAgrees(Reader.unacked, Tail(toAgent), pending, sent)
            BY <2>1, <2>2, <3>1, FlightShrinks
          <5>. QED
            BY <3>1, <4>1, <5>1
        <4>2. CASE ReceivePresent
          <5>1. /\ Head(toAgent).type = "WINDOW_PRESENT"
                /\ pending' = KeepNewest(Head(toAgent).id, Head(toAgent).presentation)
            BY <4>2 DEF ReceivePresent, AgentArrived, AgentArrival
          <5>. DEFINE new == KeepNewest(Head(toAgent).id, Head(toAgent).presentation)
          <5>2. /\ DOMAIN new = DOMAIN pending \cup {Head(toAgent).id}
                /\ new[Head(toAgent).id] = Head(toAgent).presentation
                /\ \A id \in DOMAIN pending : id # Head(toAgent).id => new[id] = pending[id]
            BY DEF KeepNewest
          <5>3. pending' = new
            BY <5>1
          <5>. HIDE DEF new
          <5>4. FlightAgrees(Reader.unacked, Tail(toAgent), new, sent)
            BY <2>1, <2>2, <3>1, <5>1, <5>2, FlightLands
          <5>. QED
            BY <3>1, <5>3, <5>4
        <4>. QED
          BY <2>b, <4>1, <4>2 DEF ReceiveHelloAck, ReceiveOutputConfig, ReceiveActivate, agentVars, applicationVars
      <3>. QED
        BY <2>2, <2>a, <3>1, <3>2, <3>3
    <2>c. CASE ReceiveCreate
      <3>1. toAgent # <<>> /\ toAgent' = Tail(toAgent) /\ pending' = pending
        BY <2>c DEF ReceiveCreate, AgentArrived, Answer, applicationVars
      <3>2. FlightAgrees(Reader.unacked, Tail(toAgent), pending, sent)
        BY <2>1, <2>2, <3>1, FlightShrinks
      <3>. QED
        BY <1>4, <2>1, <2>2, <2>a, <2>c, <3>1, <3>2, CreateTells
    <2>d. CASE ReceiveDestroy
      <3>1. toAgent # <<>> /\ toAgent' = Tail(toAgent) /\ pending' = Without(pending, AgentArrival.id)
        BY <2>d DEF ReceiveDestroy, AgentArrived, Answer
      <3>. DEFINE left == Without(pending, AgentArrival.id)
      <3>2. DOMAIN left \subseteq DOMAIN pending /\ \A id \in DOMAIN left : left[id] = pending[id]
        BY DEF Without
      <3>3. pending' = left
        BY <3>1
      <3>. HIDE DEF left
      <3>4. FlightAgrees(Reader.unacked, Tail(toAgent), left, sent)
        BY <2>1, <2>2, <3>1, <3>2, FlightShrinks
      <3>. QED
        BY <1>4, <2>1, <2>2, <2>a, <2>d, <3>1, <3>3, <3>4, DestroyTells
    <2>e. CASE DispatchPresents
      <3>1. /\ \E last \in ReaderType :
                  /\ Reads(Reader, toServer', last) /\ InputAgrees(last, proxies')
                  /\ FlightAgrees(last.unacked, toAgent, pending', sent)
            /\ InputInv(proxies', capture')
        BY <1>2, <1>4, <2>2, <2>e, DispatchTells
      <3>2. toAgent' = toAgent
        BY <2>e DEF DispatchPresents, Send
      <3>3. PICK last \in ReaderType :
                  /\ Reads(Reader, toServer', last) /\ InputAgrees(last, proxies')
                  /\ FlightAgrees(last.unacked, toAgent, pending', sent)
        BY <3>1
      <3>. QED
        BY <1>1, <3>1, <3>2, <3>3, ReaderNext
    <2>f. CASE DispatchFails
      <3>1. PICK last \in ReaderType : Reads(Reader, toServer', last)
        BY <1>2, <1>4, <2>2, <2>f, LastAcks
      <3>2. ~Open'
        BY <2>f DEF DispatchFails, FailConnection, Open
      <3>. QED
        BY <1>1, <3>1, <3>2, ReaderNext
    <2>g. CASE SocketFails \/ Exit
      <3>1. toServer' = <<>> /\ ~Open'
        BY <1>4, <2>g DEF SocketFails, FailConnection, Exit, Open, Sent
      <3>. QED
        BY <1>1, <1>2, <3>1, ReaderNext
    <2>. QED
      BY <1>1, <2>b, <2>c, <2>d, <2>e, <2>f, <2>g, NoFramesArrive DEF AgentStep, TypeInv
  <1>. QED
    BY <1>3, <1>4

\* So do the user's.
LEMMA UserStepTells ==
    ASSUME TypeInv, ReaderInv, toServer = <<>>, UserStep
    PROVE  ReaderInv'
  <1>1. (PointerStep \/ FocusStep) /\ Reader' = Reader /\ sent' = sent
    BY DEF UserStep, Reader
  <1>2. /\ Reader \in ReaderType /\ Reads(Reader, <<>>, Reader)
        /\ Open => /\ InputAgrees(Reader, proxies) /\ FlightAgrees(unacked, toAgent, pending, sent)
                   /\ InputInv(proxies, capture)
    BY ReaderIsUpToDate
  <1>3. CASE ~Open
    BY <1>1, <1>2, <1>3, ClosedSaysNothing, ReaderNext
  <1>4. CASE Open
    <2>1. TellsTo(proxies, toServer', proxies') /\ InputInv(proxies', capture')
      BY <1>1, <1>2, <1>4, UserTells DEF TypeInv, AppInv
    <2>2. PICK last \in ReaderType :
             Reads(Reader, toServer', last) /\ last.unacked = Reader.unacked /\ InputAgrees(last, proxies')
      BY <1>2, <1>4, <2>1 DEF TellsTo
    <2>3. toAgent' = toAgent /\ pending' = pending
      BY <1>1, UserEffects DEF TypeInv, UserEffect, applicationVars
    <2>4. FlightAgrees(last.unacked, toAgent', pending', sent')
      <3>1. Reader.unacked = unacked
        BY DEF Reader
      <3>. QED
        BY <1>1, <1>2, <1>4, <2>2, <2>3, <3>1
    <2>. QED
      BY <1>1, <2>1, <2>2, <2>4, ReaderNext
  <1>. QED
    BY <1>3, <1>4

\* A new presentation has a number no other has.
LEMMA ExporterTells ==
    ASSUME TypeInv, ReaderInv, toServer = <<>>, ExporterStep
    PROVE  ReaderInv'
  <1>1. /\ Reader \in ReaderType /\ Reads(Reader, <<>>, Reader)
        /\ Open => /\ InputAgrees(Reader, proxies) /\ FlightAgrees(unacked, toAgent, pending, sent)
                   /\ InputInv(proxies, capture)
    BY ReaderIsUpToDate
  <1>2. UNCHANGED agentVars => proxies' = proxies /\ pending' = pending /\ capture' = capture
    BY DEF agentVars, applicationVars, desktopVars
  <1>3. CASE ExporterCloses
    <2>1. toServer' = <<>> /\ ~Open' /\ Reader' = Reader
      BY <1>3 DEF ExporterCloses, Open, exporterVars, Reader
    <2>. QED
      BY <1>1, <2>1, ReaderNext
  <1>4. ASSUME NEW m, ExporterSends(m)
        PROVE  /\ Open /\ toAgent = <<>> /\ toAgent' = <<m>> /\ sent' = sent + 1 /\ toServer' = <<>>
               /\ known' = known /\ proxies' = proxies /\ pending' = pending /\ capture' = capture
    BY <1>2, <1>4 DEF ExporterSends, Open
  <1>5. sent \in Nat /\ DOMAIN pending \subseteq Ids /\ unacked \in [Ids -> SUBSET Nat]
        /\ \A id \in DOMAIN pending : pending[id].sequence \in Nat
    BY DEF TypeInv, ExporterTypeOK, AgentTypeOK, ShownType
  <1>6. ASSUME NEW m, ExporterSends(m), m.type # "WINDOW_PRESENT", unacked' = unacked
        PROVE  ReaderInv'
    <2>1. Reader' = Reader /\ Reader.unacked = unacked
      BY <1>4, <1>6 DEF Reader
    <2>2. FlightAgrees(unacked, <<m>>, pending, sent + 1)
      <3>1. \A id \in DOMAIN pending : pending[id].sequence \in unacked[id] /\ pending[id].sequence <= sent
        BY <1>1, <1>4, <1>6 DEF FlightAgrees
      <3>2. \A id \in DOMAIN pending : pending[id].sequence \in unacked[id] /\ pending[id].sequence <= sent + 1
        BY <1>5, <3>1
      <3>3. DOMAIN <<m>> = {1} /\ <<m>>[1] = m
        OBVIOUS
      <3>. DEFINE s == <<m>>
      <3>4. DOMAIN s = {1} /\ s[1] = m
        BY <3>3
      <3>. HIDE DEF s
      <3>5. FlightAgrees(unacked, s, pending, sent + 1)
        BY <1>6, <3>2, <3>4 DEF FlightAgrees
      <3>. QED
        BY <3>5 DEF s
    <2>. QED
      BY <1>1, <1>4, <1>6, <2>1, <2>2, ReaderNext
  <1>7. CASE SendConfig \/ \E id \in Ids : SendCreate(id) \/ SendActivate(id) \/ SendDestroy(id)
    <2>1. \A id, parent, s : /\ OutputConfig(s).type # "WINDOW_PRESENT"
                             /\ WindowCreate(id, parent, Width, Height).type # "WINDOW_PRESENT"
                             /\ WindowActivate(id).type # "WINDOW_PRESENT" /\ WindowDestroy(id).type # "WINDOW_PRESENT"
      BY DEF OutputConfig, WindowCreate, WindowActivate, WindowDestroy
    <2>2. unacked' = unacked
      BY <1>7 DEF SendConfig, SendCreate, SendActivate, SendDestroy
    <2>3. \/ \E s \in Rescales : ExporterSends(OutputConfig(s))
          \/ \E id \in Ids : \/ \E parent \in Parents[id] : ExporterSends(WindowCreate(id, parent, Width, Height))
                             \/ ExporterSends(WindowActivate(id)) \/ ExporterSends(WindowDestroy(id))
      BY <1>7 DEF SendConfig, SendCreate, SendActivate, SendDestroy
    <2>. QED
      BY <1>6, <2>1, <2>2, <2>3
  <1>8. ASSUME NEW id \in Ids, SendPresent(id) PROVE ReaderInv'
    <2>1. PICK r \in Regions : ExporterSends(WindowPresent(id, Presentation(r, sent + 1)))
      BY <1>8 DEF SendPresent
    <2>. DEFINE m == WindowPresent(id, Presentation(r, sent + 1))
                w == [unacked EXCEPT ![id] = @ \cup {sent + 1}]
                reader == [known |-> known, unacked |-> w]
    <2>2. m.type = "WINDOW_PRESENT" /\ m.id = id /\ m.presentation.sequence = sent + 1
      BY DEF WindowPresent, Presentation
    <2>3. ExporterSends(m) /\ unacked' = w
      BY <1>8, <2>1 DEF SendPresent
    <2>. HIDE DEF m
    <2>4. /\ w \in [Ids -> SUBSET Nat] /\ sent + 1 \in w[id]
          /\ \A i \in Ids : unacked[i] \subseteq w[i]
      BY <1>5
    <2>. HIDE DEF w
    <2>5. Reader' = reader /\ reader.unacked = w /\ reader.known = known
      BY <1>4, <2>3 DEF Reader
    <2>6. reader \in ReaderType /\ InputAgrees(reader, proxies)
      <3>1. Reader.known = known /\ known \in [Ids -> KnownType]
        BY <1>1 DEF Reader, ReaderType
      <3>2. InputAgrees(Reader, proxies)
        BY <1>1, <1>4, <2>3
      <3>3. reader \in ReaderType
        <4>. HIDE DEF KnownType
        <4>. QED
          BY <2>4, <3>1 DEF ReaderType
      <3>. QED
        BY <3>1, <3>2, <3>3 DEF InputAgrees
    <2>. HIDE DEF reader
    <2>7. FlightAgrees(w, <<m>>, pending, sent + 1)
      <3>1. \A i \in DOMAIN pending : pending[i].sequence \in unacked[i] /\ pending[i].sequence <= sent
        BY <1>1, <1>4, <2>3 DEF FlightAgrees
      <3>2. \A i \in DOMAIN pending : /\ pending[i].sequence \in w[i] /\ pending[i].sequence <= sent + 1
                                      /\ pending[i].sequence # sent + 1
        BY <1>5, <2>4, <3>1
      <3>. DEFINE s == <<m>>
      <3>4. DOMAIN s = {1} /\ s[1] = m
        OBVIOUS
      <3>. HIDE DEF s
      <3>5. FlightAgrees(w, s, pending, sent + 1)
        <4>1. \A i \in DOMAIN s : s[i].presentation.sequence \in w[s[i].id] /\ s[i].presentation.sequence <= sent + 1
          BY <1>5, <2>2, <2>4, <3>4
        <4>2. \A i, j \in DOMAIN s : i = j
          BY <3>4
        <4>3. ASSUME NEW i \in DOMAIN pending
              PROVE  \A j \in DOMAIN s : s[j].presentation.sequence # pending[i].sequence
          BY <2>2, <3>2, <3>4
        <4>. QED
          BY <3>2, <4>1, <4>2, <4>3 DEF FlightAgrees
      <3>. QED
        BY <3>5 DEF s
    <2>8. Reads(reader, <<>>, reader)
      BY <2>6, ReadsNothing
    <2>. QED
      BY <1>1, <1>4, <2>3, <2>5, <2>6, <2>7, <2>8, ReaderNext
  <1>. QED
    BY <1>3, <1>7, <1>8 DEF ExporterStep

\* So does reading, which is what it is about.
LEMMA ReadingTells ==
    ASSUME TypeInv, ReaderInv, ExporterReads
    PROVE  ReaderInv'
  <1>1. /\ toServer # <<>> /\ toServer' = Tail(toServer)
        /\ known' = [known EXCEPT ![Head(toServer).id] = After(@, Head(toServer))]
        /\ unacked' = IF Head(toServer).type = "WINDOW_PRESENT_ACK"
                      THEN [unacked EXCEPT ![Head(toServer).id] = @ \ {Head(toServer).sequence}] ELSE unacked
        /\ UNCHANGED <<toAgent, serverSocket, agentSocket, sent, proxies, pending, capture>>
    BY DEF ExporterReads, agentVars, applicationVars, desktopVars
  <1>2. Reader' = Read(Reader, Head(toServer))
    BY <1>1 DEF Reader, Read
  <1>3. PICK last \in ReaderType :
          /\ Reads(Reader, toServer, last)
          /\ Open => InputAgrees(last, proxies) /\ FlightAgrees(last.unacked, toAgent, pending, sent)
    BY DEF ReaderInv
  <1>4. Reads(Reader', toServer', last)
    BY <1>1, <1>2, <1>3, ReadsFirst
  <1>5. Open' <=> Open
    BY <1>1 DEF Open
  <1>. QED
    BY <1>1, <1>3, <1>4, <1>5, ReaderNext DEF ReaderInv
-----------------------------------------------------------------------------
\* What is on its way at first is to be acknowledged, and numbered apart.
LEMMA FirstFlights ==
    ASSUME Init
    PROVE  FlightAgrees(unacked, toAgent, pending, sent)
  <1>1. PICK s \in Scales, parents \in [Ids -> Ids \cup {0}] :
              /\ \A id \in Ids : parents[id] \in Parents[id]
              /\ \E order \in Orders(parents) :
                    \/ /\ toAgent = <<HelloAck, OutputConfig(s)>> \o Creates(order, parents)
                       /\ newest = [id \in Ids |-> NoPresent]
                    \/ \E r \in Regions :
                       /\ toAgent = <<HelloAck, OutputConfig(s)>> \o Creates(order, parents)
                                                                  \o Presents(order, r)
                       /\ newest = FirstPresents(order, r)
    BY FirstMessages
  <1>2. PICK order \in Orders(parents) :
                    \/ /\ toAgent = <<HelloAck, OutputConfig(s)>> \o Creates(order, parents)
                       /\ newest = [id \in Ids |-> NoPresent]
                    \/ \E r \in Regions :
                       /\ toAgent = <<HelloAck, OutputConfig(s)>> \o Creates(order, parents)
                                                                  \o Presents(order, r)
                       /\ newest = FirstPresents(order, r)
    BY <1>1
  <1>. DEFINE M == ToAgentMessage
              head == <<HelloAck, OutputConfig(s)>>
              creates == Creates(order, parents)
              first == head \o creates
  <1>3. /\ IsInjective(order) /\ DOMAIN order = 1 .. Len(order) /\ Len(order) \in Nat
        /\ Len(order) = Cardinality(Ids)
        /\ \A i \in DOMAIN order : order[i] \in Ids
        /\ creates \in Seq(M)
        /\ \A r \in Regions : /\ Presents(order, r) \in Seq(M)
                              /\ \A i \in DOMAIN order : FirstPresents(order, r)[order[i]].sequence = i
    <2>1. /\ order \in Seq(Ids) /\ IsInjective(order) /\ DOMAIN order = 1 .. Len(order) /\ Len(order) \in Nat
          /\ Len(order) = Cardinality(Ids)
          /\ Creates(order, parents) \in Seq(ToAgentMessage)
          /\ \A r \in Regions : /\ Presents(order, r) \in Seq(ToAgentMessage)
                                /\ \A i \in DOMAIN order : FirstPresents(order, r)[order[i]].sequence = i
      BY <1>1, FirstTypes
    <2>2. \A i \in DOMAIN order : order[i] \in Ids
      BY <2>1, ElementOfSeq
    <2>. QED
      BY <2>1, <2>2
  <1>4. head \in Seq(M) /\ \A m \in ToSet(head) : m.type \notin {"WINDOW_PRESENT", "WINDOW_CREATE"}
    <2>1. head \in Seq(M)
      BY ToAgentForms DEF AllScales
    <2>2. DOMAIN head = {1, 2} /\ head[1].type = "HELLO_ACK" /\ head[2].type = "OUTPUT_CONFIG"
      BY DEF HelloAck, OutputConfig
    <2>. QED
      BY <2>1, <2>2 DEF ToSet
  <1>5. \A m \in ToSet(creates) : m.type = "WINDOW_CREATE"
    BY DEF Creates, ToSet, WindowCreate
  <1>. HIDE DEF M, head, creates
  <1>6. /\ first \in Seq(M) /\ \A m \in ToSet(first) : m.type # "WINDOW_PRESENT"
    <2>1. first \in Seq(M) /\ \A m : m \in ToSet(first) <=> m \in ToSet(head) \/ m \in ToSet(creates)
      BY <1>3, <1>4, ConcatOnce
    <2>. QED
      BY <1>4, <1>5, <2>1
  <1>. HIDE DEF first
  <1>7. DOMAIN pending = {} /\ sent = Len(order) /\ \A id \in Ids : unacked[id] = {newest[id].sequence} \ {0}
    BY <1>3 DEF Init, AgentInit, Empty
  <1>8. CASE toAgent = first
    BY <1>6, <1>7, <1>8 DEF FlightAgrees, ToSet
  <1>9. ASSUME NEW r \in Regions, toAgent = first \o Presents(order, r), newest = FirstPresents(order, r)
        PROVE  FlightAgrees(unacked, toAgent, pending, sent)
    <2>. DEFINE presents == Presents(order, r)
                n == Len(first)
    <2>1. /\ DOMAIN presents = DOMAIN order
          /\ \A i \in DOMAIN order : /\ presents[i].id = order[i]
                                     /\ presents[i].presentation.sequence = i
      BY DEF Presents, WindowPresent, Presentation
    <2>2. presents \in Seq(M)
      BY <1>3
    <2>3. toAgent = first \o presents
      BY <1>9
    <2>. HIDE DEF presents
    <2>4. Len(presents) = Len(order) /\ n \in Nat /\ DOMAIN first = 1 .. n
      BY <1>3, <1>6, <2>1, <2>2, LenProperties
    <2>5. /\ DOMAIN toAgent = 1 .. n + Len(order)
          /\ \A i \in 1 .. n + Len(order) : toAgent[i] = IF i <= n THEN first[i] ELSE presents[i - n]
      <3>1. /\ Len(first \o presents) = Len(first) + Len(presents) /\ first \o presents \in Seq(M)
            /\ \A i \in 1 .. Len(first) + Len(presents) :
                  (first \o presents)[i] = IF i <= Len(first) THEN first[i] ELSE presents[i - Len(first)]
        BY <1>6, <2>2, ConcatProperties
      <3>. QED
        BY <2>3, <2>4, <3>1, LenProperties
    <2>6. \A i \in 1 .. n : toAgent[i].type # "WINDOW_PRESENT"
      <3>1. ASSUME NEW i \in 1 .. n PROVE toAgent[i] = first[i] /\ first[i] \in ToSet(first)
        BY <1>3, <2>4, <2>5 DEF ToSet
      <3>. QED
        BY <1>6, <3>1
    <2>7. ASSUME NEW i \in DOMAIN toAgent, toAgent[i].type = "WINDOW_PRESENT"
          PROVE  /\ i - n \in DOMAIN order /\ toAgent[i].id = order[i - n]
                 /\ toAgent[i].presentation.sequence = i - n
      <3>1. ~(i <= n) /\ i \in 1 .. n + Len(order)
        BY <2>4, <2>5, <2>6, <2>7
      <3>2. i - n \in DOMAIN order /\ toAgent[i] = presents[i - n]
        BY <1>3, <2>4, <2>5, <3>1
      <3>. QED
        BY <2>1, <3>2
    <2>8. \A k \in DOMAIN order : k \in unacked[order[k]] /\ k <= sent
      <3>1. ASSUME NEW k \in DOMAIN order PROVE k \in unacked[order[k]] /\ k <= sent
        <4>1. order[k] \in Ids /\ newest[order[k]].sequence = k /\ k \in 1 .. Len(order)
          BY <1>3, <1>9
        <4>2. unacked[order[k]] = {newest[order[k]].sequence} \ {0}
          BY <1>7, <4>1
        <4>. QED
          BY <1>3, <1>7, <4>1, <4>2
      <3>. QED
        BY <3>1
    <2>9. \A i, j \in DOMAIN toAgent : i # j => i - n # j - n
      BY <2>4, <2>5, <1>3
    <2>10. \A i, j \in DOMAIN order : order[i] = order[j] => i = j
      BY <1>3 DEF IsInjective
    <2>. QED
      BY <1>7, <2>7, <2>8, <2>9, <2>10 DEF FlightAgrees
  <1>. QED
    BY <1>2, <1>8, <1>9 DEF first, head, creates

\* The first state has a reader that knows nothing, of windows that hold nothing.
LEMMA ReaderInit ==
    ASSUME Init
    PROVE  ReaderInv
  <1>1. toServer = <<>> /\ DOMAIN proxies = {} /\ known = [id \in Ids |-> Untouched]
    BY DEF Init, AgentInit, Empty
  <1>2. Untouched \in KnownType /\ KnowsNothing(Untouched)
    BY DEF Untouched, KnownType, KnowsNothing
  <1>3. unacked \in [Ids -> SUBSET Nat]
    BY TypeInit DEF TypeInv, ExporterTypeOK
  <1>. HIDE DEF Untouched
  <1>4. Reader \in ReaderType /\ Reader.unacked = unacked /\ Reader.known = known
    <2>1. known \in [Ids -> KnownType]
      <3>. HIDE DEF KnownType
      <3>. QED
        BY <1>1, <1>2
    <2>. HIDE DEF KnownType
    <2>. QED
      BY <1>3, <2>1 DEF Reader, ReaderType
  <1>5. Reads(Reader, <<>>, Reader)
    BY <1>4, ReadsNothing
  <1>6. InputAgrees(Reader, proxies) /\ InputInv(proxies, capture)
    BY <1>1, <1>2, <1>4 DEF InputAgrees, InputInv
  <1>. QED
    BY <1>1, <1>4, <1>5, <1>6, FirstFlights DEF ReaderInv

\* What is on its way to the exporter reads well to the end, and leaves its
\* reader knowing what the proxies hold; what is on its way to the agent is
\* still to be acknowledged.
THEOREM ReaderInvariant == Spec => []ReaderInv
  <1>1. ASSUME TypeInv, ReaderInv, [Next]_vars PROVE ReaderInv'
    <2>1. CASE UNCHANGED vars
      <3>1. UNCHANGED <<toAgent, toServer, serverSocket, agentSocket, proxies, pending, capture, sent, unacked, known>>
        BY <2>1 DEF vars, wireVars, agentVars, applicationVars, desktopVars, exporterVars
      <3>2. Reader' = Reader /\ Open' = Open
        BY <3>1 DEF Reader, Open
      <3>3. PICK last \in ReaderType :
          /\ Reads(Reader, toServer, last)
          /\ Open => InputAgrees(last, proxies) /\ FlightAgrees(last.unacked, toAgent, pending, sent)
        BY <1>1 DEF ReaderInv
      <3>. QED
        BY <1>1, <3>1, <3>2, <3>3, ReaderNext DEF ReaderInv
    <2>. QED
      BY <1>1, <2>1, ThreadTells, UserStepTells, ExporterTells, ReadingTells DEF Next
  <1>. QED
    BY <1>1, ReaderInit, TypesInvariant, PTL DEF Spec

\* Each message the agent sends makes sense to a reader of those before it, for
\* any number of windows, buttons, keys and events: an ACK answers a PRESENT
\* and answers it once, input names the presentation acknowledged last, the
\* pointer enters before it moves or leaves, a capture is lost only with a
\* button down, and keys come and go with the focus (apply_pending_presents,
\* apply_destroy, release_pressed_keys and the window procedure).
THEOREM MessagesAlwaysMakeSense == Spec => []MessagesMakeSense
  <1>1. ASSUME ReaderInv PROVE MessagesMakeSense
    <2>. SUFFICES ASSUME toServer # <<>>
                  PROVE  LET m == Head(toServer)
                             k == known[m.id]
                         IN  CASE m.type = "WINDOW_PRESENT_ACK"   -> m.sequence \in unacked[m.id]
                               [] m.type \in PointerTypes         ->
                                     /\ m.location.sequence = k.shown
                                     /\ m.type \in {"POINTER_MOTION", "POINTER_LEAVE"} => k.entered
                               [] m.type = "POINTER_CAPTURE_LOST" -> k.buttons # {}
                               [] m.type = "KEYBOARD_FOCUS"       -> m.focused # k.focused /\ k.keys = {}
                               [] m.type = "KEYBOARD_KEY"         -> k.focused /\ (m.down \/ m.key \in k.keys)
      BY DEF MessagesMakeSense
    <2>. DEFINE m == Head(toServer)
                k == known[m.id]
    <2>1. Sensible(Reader, m)
      BY <1>1, ReadsFirst DEF ReaderInv
    <2>2. Reader.known = known /\ Reader.unacked = unacked
      BY DEF Reader
    <2>. HIDE DEF m
    <2>3. /\ m.type \in PointerTypes \cup {"WINDOW_PRESENT_ACK", "POINTER_CAPTURE_LOST",
                                           "KEYBOARD_FOCUS", "KEYBOARD_KEY"}
          /\ m.type = "WINDOW_PRESENT_ACK" => m.sequence \in unacked[m.id]
          /\ m.type \in PointerTypes => m.location.sequence = k.shown
          /\ m.type \in {"POINTER_MOTION", "POINTER_LEAVE"} => k.entered
          /\ m.type = "POINTER_CAPTURE_LOST" => k.buttons # {}
          /\ m.type = "KEYBOARD_FOCUS" => m.focused # k.focused /\ k.keys = {}
          /\ m.type = "KEYBOARD_KEY" => k.focused /\ (m.down \/ m.key \in k.keys)
      BY <2>1, <2>2 DEF Sensible
    <2>. DEFINE Sense == CASE m.type = "WINDOW_PRESENT_ACK"   -> m.sequence \in unacked[m.id]
                           [] m.type \in PointerTypes         ->
                                 /\ m.location.sequence = k.shown
                                 /\ m.type \in {"POINTER_MOTION", "POINTER_LEAVE"} => k.entered
                           [] m.type = "POINTER_CAPTURE_LOST" -> k.buttons # {}
                           [] m.type = "KEYBOARD_FOCUS"       -> m.focused # k.focused /\ k.keys = {}
                           [] m.type = "KEYBOARD_KEY"         -> k.focused /\ (m.down \/ m.key \in k.keys)
    <2>4. Sense
      <3>1. CASE m.type = "WINDOW_PRESENT_ACK"
        BY <2>3, <3>1 DEF PointerTypes
      <3>2. CASE m.type \in PointerTypes
        BY <2>3, <3>2 DEF PointerTypes
      <3>3. CASE m.type = "POINTER_CAPTURE_LOST"
        BY <2>3, <3>3 DEF PointerTypes
      <3>4. CASE m.type = "KEYBOARD_FOCUS"
        BY <2>3, <3>4 DEF PointerTypes
      <3>5. CASE m.type = "KEYBOARD_KEY"
        BY <2>3, <3>5 DEF PointerTypes
      <3>. QED
        BY <2>3, <3>1, <3>2, <3>3, <3>4, <3>5
    <2>. QED
      BY <2>4 DEF m
  <1>. QED
    BY <1>1, ReaderInvariant, PTL

\* A reader of all the agent's messages knows which buttons and keys are down
\* and which window has the focus, also after windows were hidden, destroyed
\* with their popups, or lost the mouse to something else: what the proxies,
\* Win32 and the reader keep of the input is the same.
THEOREM ReaderAlwaysKnowsTheInput == Spec => []ReaderKnowsTheInput
  <1>1. ASSUME ReaderInv, AgentTypeOK PROVE ReaderKnowsTheInput
    <2>. SUFFICES ASSUME Drained, NEW id \in Ids
                  PROVE  IF id \in DOMAIN proxies
                         THEN /\ known[id].buttons = proxies[id].buttons
                              /\ known[id].keys = proxies[id].keys
                              /\ known[id].focused = proxies[id].focused
                         ELSE known[id].buttons = {} /\ known[id].keys = {} /\ ~known[id].focused
      BY DEF ReaderKnowsTheInput
    <2>1. InputAgrees(Reader, proxies)
      BY <1>1, ReaderIsUpToDate DEF Drained, Open
    <2>2. Reader.known = known
      BY DEF Reader
    <2>. QED
      BY <2>1, <2>2 DEF InputAgrees, KnowsProxy, KnowsNothing
  <1>2. TypeInv => AgentTypeOK
    BY DEF TypeInv
  <1>. QED
    BY <1>1, <1>2, TypesInvariant, ReaderInvariant, PTL
-----------------------------------------------------------------------------
(* The window activated last.                                              *)

ActivateAhead == \E m \in Ahead : m.type = "WINDOW_ACTIVATE"

\* While a window is to be in front, nothing on its way or queued shows or
\* hides another, and the window is on top once its ACTIVATE is read.
FrontInv ==
    agentSocket = "open" /\ front # {} =>
       /\ \E id \in Ids : front = {id}
       /\ \A m \in Ahead : /\ m.type \in {"WINDOW_ACTIVATE", "WINDOW_PRESENT", "OUTPUT_CONFIG"}
                           /\ m.type = "WINDOW_ACTIVATE" => m.id \in front
       /\ \A id \in DOMAIN pending : pending[id].visible = newest[id].visible
       /\ \A id \in DOMAIN proxies : proxies[id].presentation.visible = newest[id].visible
       /\ ~ActivateAhead => \A id \in front \cap DOMAIN proxies :
             proxies[id].presentation.visible /\ proxies[id].alive /\ proxies[id].owners = <<>>
                => Last(stack) = id

\* A step that takes no ACTIVATE off the stream and shows, hides and raises
\* nothing leaves the window in front.
LEMMA FrontStays ==
    ASSUME FrontInv, agentSocket = "open", front' = front, stack' = stack, newest' = newest,
           \A m : m \in Ahead' => m \in Ahead,
           ActivateAhead' <=> ActivateAhead,
           \A id \in DOMAIN pending' : id \in DOMAIN pending /\ pending'[id] = pending[id],
           \A id \in DOMAIN proxies' :
              /\ id \in DOMAIN proxies
              /\ \/ proxies'[id].presentation = proxies[id].presentation
                 \/ id \in DOMAIN pending /\ proxies'[id].presentation = pending[id]
              /\ proxies'[id].alive = proxies[id].alive /\ proxies'[id].owners = proxies[id].owners
    PROVE  FrontInv'
  <1>. SUFFICES ASSUME front # {}
                PROVE  FrontInv'
    BY DEF FrontInv
  <1>1. /\ \E id \in Ids : front = {id}
        /\ \A m \in Ahead : /\ m.type \in {"WINDOW_ACTIVATE", "WINDOW_PRESENT", "OUTPUT_CONFIG"}
                            /\ m.type = "WINDOW_ACTIVATE" => m.id \in front
        /\ \A id \in DOMAIN pending : pending[id].visible = newest[id].visible
        /\ \A id \in DOMAIN proxies : proxies[id].presentation.visible = newest[id].visible
        /\ ~ActivateAhead => \A id \in front \cap DOMAIN proxies :
             proxies[id].presentation.visible /\ proxies[id].alive /\ proxies[id].owners = <<>>
                => Last(stack) = id
    BY DEF FrontInv
  <1>2. \A id \in DOMAIN pending' : pending'[id].visible = newest[id].visible
    BY <1>1
  <1>3. \A id \in DOMAIN proxies' : proxies'[id].presentation.visible = newest[id].visible
    BY <1>1
  <1>4. \A id \in DOMAIN proxies' : proxies'[id].presentation.visible = proxies[id].presentation.visible
    BY <1>1, <1>3
  <1>5. ~ActivateAhead' => \A id \in front \cap DOMAIN proxies' :
             proxies'[id].presentation.visible /\ proxies'[id].alive /\ proxies'[id].owners = <<>>
                => Last(stack) = id
    BY <1>1, <1>4
  <1>6. \A m \in Ahead' : /\ m.type \in {"WINDOW_ACTIVATE", "WINDOW_PRESENT", "OUTPUT_CONFIG"}
                          /\ m.type = "WINDOW_ACTIVATE" => m.id \in front
    BY <1>1
  <1>. QED
    BY <1>1, <1>2, <1>3, <1>5, <1>6 DEF FrontInv

\* A dispatch raises nothing when it shows nothing that was hidden.
LEMMA DispatchRaisesNothing ==
    ASSUME AppInv, NEW order \in SetToSeqs(Ready),
           \A id \in Ready : pending[id].visible => IsShown(id)
    PROVE  StackedBy(order) = stack
  <1>. DEFINE shows == ShownFirst(order)
  <1>1. /\ shows \in Seq(Ids) /\ \A id : id \notin ToSet(shows)
        /\ StackedBy(order) = Removed(stack, ToSet(shows)) \o shows
    BY StackedFacts
  <1>. HIDE DEF shows
  <1>2. shows = <<>>
    <2>1. ASSUME Len(shows) # 0 PROVE FALSE
      <3>1. 1 \in DOMAIN shows
        BY <1>1, <2>1, LenProperties
      <3>. QED
        BY <1>1, <3>1 DEF ToSet
    <2>. QED
      BY <1>1, <2>1, EmptySeq
  <1>3. stack \in Seq(Ids) /\ ToSet(stack) \cap ToSet(shows) = {}
    BY <1>1 DEF AppInv, StackInv
  <1>4. Removed(stack, ToSet(shows)) = stack
    BY <1>3, RemovedProperties
  <1>5. stack \o <<>> = stack
    BY <1>3
  <1>. QED
    BY <1>1, <1>2, <1>4, <1>5

\* The thread's own steps keep the window in front.
LEMMA ThreadKeepsFront ==
    ASSUME TypeInv, FlowInv, FrontInv, ThreadStep
    PROVE  FrontInv'
  <1>. SUFFICES ASSUME agentSocket' = "open", front # {} PROVE FrontInv'
    BY DEF FrontInv, ThreadStep, exporterVars
  <1>1. AgentStep /\ UNCHANGED <<newest, front>>
    BY DEF ThreadStep, exporterVars
  <1>2. toAgent \in Seq(ToAgentMessage) /\ AgentTypeOK /\ AppInv /\ WireTypeOK
    BY DEF TypeInv, WireTypeOK, AppInv
  <1>3. ASSUME toAgent # <<>>, toAgent' = Tail(toAgent), agentSocket = "open"
        PROVE  /\ \A m : m \in Ahead <=> m = AgentArrival \/ m \in Ahead'
               /\ AgentArrival.type # "WINDOW_ACTIVATE" => (ActivateAhead' <=> ActivateAhead)
               /\ AgentArrival.type \in {"WINDOW_ACTIVATE", "WINDOW_PRESENT", "OUTPUT_CONFIG"}
               /\ AgentArrival.type = "WINDOW_ACTIVATE" => AgentArrival.id \in front
    <2>1. \A m : m \in Ahead <=> m = AgentArrival \/ m \in Ahead'
      BY <1>2, <1>3, TailElements DEF Ahead, AgentArrival
    <2>2. AgentArrival.type # "WINDOW_ACTIVATE" => (ActivateAhead' <=> ActivateAhead)
      BY <2>1 DEF ActivateAhead
    <2>. QED
      BY <1>3, <2>1, <2>2 DEF FrontInv
  <1>a. CASE ReceiveHelloAck \/ ReceiveCreate \/ ReceiveDestroy
    <2>1. toAgent # <<>> /\ toAgent' = Tail(toAgent) /\ agentSocket = "open"
          /\ AgentArrival.type \in {"HELLO_ACK", "WINDOW_CREATE", "WINDOW_DESTROY"}
      BY <1>a DEF ReceiveHelloAck, ReceiveCreate, ReceiveDestroy, AgentArrived, AgentArrival, Answer
    <2>. QED
      BY <1>3, <2>1
  <1>b. CASE ReceiveOutputConfig
    <2>1. /\ toAgent # <<>> /\ toAgent' = Tail(toAgent) /\ agentSocket = "open"
          /\ AgentArrival.type = "OUTPUT_CONFIG" /\ UNCHANGED <<pending, proxies, stack>>
      BY <1>b DEF ReceiveOutputConfig, AgentArrived, AgentArrival, Answer, desktopVars
    <2>. QED
      BY <1>1, <1>3, <2>1, FrontStays
  <1>c. CASE ReceiveActivate
    <2>. DEFINE id == AgentArrival.id
    <2>1. /\ toAgent # <<>> /\ toAgent' = Tail(toAgent) /\ agentSocket = "open"
          /\ AgentArrival.type = "WINDOW_ACTIVATE" /\ UNCHANGED <<pending, proxies>>
          /\ id \in DOMAIN proxies
          /\ stack' = IF IsShown(id) THEN Raised(id) ELSE stack
      BY <1>c DEF ReceiveActivate, AgentArrived, AgentArrival, Answer, applicationVars
    <2>2. front = {id}
      BY <1>3, <2>1 DEF FrontInv
    <2>3. IsShown(id) /\ proxies[id].owners = <<>> => Last(stack') = id
      BY <1>2, <2>1, RaisedType DEF IsShown, TopLevel, IsPopup
    <2>4. \A m \in Ahead' : m \in Ahead
      BY <1>3, <2>1
    <2>5. IsShown(id) <=> proxies[id].presentation.visible /\ proxies[id].alive
      BY DEF IsShown
    <2>6. /\ \E i \in Ids : front = {i}
          /\ \A m \in Ahead : /\ m.type \in {"WINDOW_ACTIVATE", "WINDOW_PRESENT", "OUTPUT_CONFIG"}
                              /\ m.type = "WINDOW_ACTIVATE" => m.id \in front
          /\ \A i \in DOMAIN pending : pending[i].visible = newest[i].visible
          /\ \A i \in DOMAIN proxies : proxies[i].presentation.visible = newest[i].visible
      BY <2>1 DEF FrontInv
    <2>. HIDE DEF id
    <2>7. \A i \in front \cap DOMAIN proxies :
             proxies[i].presentation.visible /\ proxies[i].alive /\ proxies[i].owners = <<>>
                => Last(stack') = i
      BY <2>2, <2>3, <2>5
    <2>. QED
      BY <1>1, <2>1, <2>4, <2>6, <2>7 DEF FrontInv
  <1>d. CASE ReceivePresent
    <2>. DEFINE id == AgentArrival.id
    <2>1. /\ toAgent # <<>> /\ toAgent' = Tail(toAgent) /\ agentSocket = "open"
          /\ AgentArrival.type = "WINDOW_PRESENT" /\ UNCHANGED <<proxies, stack>>
          /\ id \in DOMAIN proxies
          /\ pending' = KeepNewest(id, AgentArrival.presentation)
      BY <1>d DEF ReceivePresent, AgentArrived, AgentArrival, Answer, desktopVars
    <2>2. /\ DOMAIN pending' = DOMAIN pending \cup {id} /\ pending'[id] = AgentArrival.presentation
          /\ \A i \in DOMAIN pending : i # id => pending'[i] = pending[i]
      BY <2>1 DEF KeepNewest
    <2>3. AgentArrival.presentation.visible = newest[id].visible
      <3>1. id \in Ids /\ AgentArrival \in Ahead
        BY <1>2, <1>3, <2>1 DEF AgentTypeOK
      <3>. QED
        BY <2>1, <3>1 DEF FlowInv, FlowOf, Matches
    <2>4. /\ \E i \in Ids : front = {i}
          /\ \A m \in Ahead : /\ m.type \in {"WINDOW_ACTIVATE", "WINDOW_PRESENT", "OUTPUT_CONFIG"}
                              /\ m.type = "WINDOW_ACTIVATE" => m.id \in front
          /\ \A i \in DOMAIN pending : pending[i].visible = newest[i].visible
          /\ \A i \in DOMAIN proxies : proxies[i].presentation.visible = newest[i].visible
          /\ ~ActivateAhead => \A i \in front \cap DOMAIN proxies :
               proxies[i].presentation.visible /\ proxies[i].alive /\ proxies[i].owners = <<>>
                  => Last(stack) = i
      BY <2>1 DEF FrontInv
    <2>. HIDE DEF id
    <2>5. \A i \in DOMAIN pending' : pending'[i].visible = newest[i].visible
      BY <2>2, <2>3, <2>4
    <2>6. (ActivateAhead' <=> ActivateAhead) /\ \A m \in Ahead' : m \in Ahead
      BY <1>3, <2>1
    <2>. QED
      BY <1>1, <2>1, <2>4, <2>5, <2>6 DEF FrontInv
  <1>e. CASE DispatchPresents
    <2>1. /\ UNCHANGED <<toAgent, agentSocket>> /\ pending' = Empty /\ proxies' = AppliedAll
          /\ \A id \in Ready : Presentable(id, pending[id])
      BY <1>e DEF DispatchPresents, AppliedAll, Send
    <2>2. PICK order \in SetToSeqs(Ready) : stack' = StackedBy(order)
      BY <1>e DEF DispatchPresents
    <2>3. /\ DOMAIN proxies' = DOMAIN proxies
          /\ \A id \in DOMAIN proxies :
                /\ proxies'[id].alive = proxies[id].alive /\ proxies'[id].owners = proxies[id].owners
                /\ proxies'[id].presentation = IF id \in Ready THEN pending[id] ELSE proxies[id].presentation
      BY <1>2, <2>1, AppliedFacts
    <2>4. Ready = DOMAIN pending /\ DOMAIN pending' = {} /\ Ready \subseteq DOMAIN proxies
      BY <1>2, <2>1 DEF Ready, AgentTypeOK, Empty
    <2>5. \A id \in Ready : pending[id].visible => IsShown(id)
      BY <2>1, <2>4 DEF FrontInv, IsShown, Presentable
    <2>6. stack' = stack
      BY <1>2, <2>2, <2>5, DispatchRaisesNothing
    <2>7. Ahead' = Ahead /\ (ActivateAhead' <=> ActivateAhead)
      BY <2>1 DEF Ahead, ActivateAhead
    <2>8. \A id \in DOMAIN proxies' :
              /\ id \in DOMAIN proxies
              /\ \/ proxies'[id].presentation = proxies[id].presentation
                 \/ id \in DOMAIN pending /\ proxies'[id].presentation = pending[id]
              /\ proxies'[id].alive = proxies[id].alive /\ proxies'[id].owners = proxies[id].owners
      BY <2>3, <2>4
    <2>. QED
      BY <1>1, <2>1, <2>4, <2>6, <2>7, <2>8, FrontStays
  <1>f. CASE SocketFails \/ DispatchFails \/ Exit
    BY <1>f DEF SocketFails, DispatchFails, Exit, FailConnection
  <1>. QED
    BY <1>1, <1>2, <1>a, <1>b, <1>c, <1>d, <1>e, <1>f, NoFramesArrive DEF AgentStep

\* A step of the exporter, which activates a window only when every PRESENT is
\* acknowledged.
LEMMA ExporterKeepsFront ==
    ASSUME ActivateWaits, TypeInv, FlowInv, ReaderInv, FrontInv,
           (toServer = <<>> /\ ExporterStep) \/ ExporterReads
    PROVE  FrontInv'
  <1>1. UNCHANGED agentVars => UNCHANGED <<proxies, pending, stack>>
    BY DEF agentVars, applicationVars, desktopVars
  <1>2. ASSUME NEW m, ExporterSends(m)
        PROVE  /\ agentSocket = "open" /\ UNCHANGED <<agentSocket, proxies, pending, stack>>
               /\ toAgent = <<>> /\ Open /\ Ahead = {} /\ Ahead' = {m} /\ ~ActivateAhead
               /\ ActivateAhead' <=> m.type = "WINDOW_ACTIVATE"
    <2>1. toAgent = <<>> /\ toAgent' = <<m>> /\ agentSocket = "open" /\ serverSocket = "open"
          /\ UNCHANGED <<agentSocket, proxies, pending, stack>>
      BY <1>1, <1>2 DEF ExporterSends
    <2>2. Ahead = {} /\ Ahead' = {m}
      BY <2>1 DEF Ahead, ToSet
    <2>. QED
      BY <2>1, <2>2 DEF ActivateAhead, Open
  <1>a. CASE SendConfig
    <2>1. PICK s \in Rescales : ExporterSends(OutputConfig(s))
      BY <1>a DEF SendConfig
    <2>2. OutputConfig(s).type = "OUTPUT_CONFIG" /\ UNCHANGED <<newest, front>>
      BY <1>a DEF SendConfig, OutputConfig
    <2>. DEFINE m == OutputConfig(s)
    <2>3. /\ agentSocket = "open" /\ UNCHANGED <<agentSocket, proxies, pending, stack>>
          /\ Ahead' = {m} /\ ~ActivateAhead /\ ~ActivateAhead' /\ m.type = "OUTPUT_CONFIG"
      BY <1>2, <2>1, <2>2
    <2>. HIDE DEF m
    <2>. QED
      BY <2>2, <2>3 DEF FrontInv
  <1>b. CASE \E id \in Ids : SendCreate(id) \/ SendDestroy(id)
    BY <1>b DEF SendCreate, SendDestroy, FrontInv
  <1>c. ASSUME NEW id \in Ids, SendPresent(id) PROVE FrontInv'
    <2>1. PICK r \in Regions :
             /\ ExporterSends(WindowPresent(id, Presentation(r, sent + 1)))
             /\ newest' = [newest EXCEPT ![id] = [sequence |-> sent + 1, visible |-> r.visible]]
             /\ front' = IF r.visible = newest[id].visible THEN front ELSE {}
      BY <1>c DEF SendPresent
    <2>. DEFINE m == WindowPresent(id, Presentation(r, sent + 1))
    <2>2. m.type = "WINDOW_PRESENT"
      BY DEF WindowPresent
    <2>3. /\ agentSocket = "open" /\ UNCHANGED <<agentSocket, proxies, pending, stack>>
          /\ Ahead' = {m} /\ ~ActivateAhead /\ ~ActivateAhead'
      BY <1>2, <2>1, <2>2
    <2>. HIDE DEF m
    <2>. SUFFICES ASSUME r.visible = newest[id].visible, front # {} PROVE FrontInv'
      BY <2>1 DEF FrontInv
    <2>4. newest \in [Ids -> [sequence : Nat, visible : BOOLEAN]] /\ DOMAIN proxies \subseteq Ids
          /\ DOMAIN pending \subseteq Ids
      BY DEF TypeInv, ExporterTypeOK, AgentTypeOK
    <2>5. \A i \in Ids : newest'[i].visible = newest[i].visible
      BY <2>1, <2>4
    <2>6. front' = front
      BY <2>1
    <2>. QED
      BY <2>2, <2>3, <2>4, <2>5, <2>6 DEF FrontInv
  <1>d. ASSUME NEW id \in Ids, SendActivate(id), toServer = <<>> PROVE FrontInv'
    <2>1. /\ ExporterSends(WindowActivate(id)) /\ front' = {id} /\ UNCHANGED newest
          /\ \A i \in Ids : unacked[i] = {}
      BY <1>d DEF SendActivate
    <2>2. WindowActivate(id).type = "WINDOW_ACTIVATE" /\ WindowActivate(id).id = id
      BY DEF WindowActivate
    <2>. DEFINE m == WindowActivate(id)
    <2>3. /\ agentSocket = "open" /\ UNCHANGED <<agentSocket, proxies, pending, stack>>
          /\ Open /\ Ahead = {} /\ Ahead' = {m} /\ ActivateAhead'
          /\ m.type = "WINDOW_ACTIVATE" /\ m.id = id
      BY <1>2, <2>1, <2>2
    <2>. HIDE DEF m
    <2>4. DOMAIN pending = {}
      <3>1. FlightAgrees(unacked, toAgent, pending, sent)
        BY <1>d, <2>3, ReaderIsUpToDate
      <3>2. DOMAIN pending \subseteq Ids
        BY DEF TypeInv, AgentTypeOK
      <3>. QED
        BY <2>1, <3>1, <3>2 DEF FlightAgrees
    <2>5. ASSUME NEW i \in DOMAIN proxies PROVE proxies[i].presentation.visible = newest[i].visible
      <3>1. i \in Ids /\ FlowOf(i)
        BY <2>3 DEF TypeInv, AgentTypeOK, FlowInv
      <3>. QED
        BY <2>3, <2>4, <3>1 DEF FlowOf, PresentAhead, CreateAhead, Matches
    <2>. QED
      BY <2>1, <2>3, <2>4, <2>5 DEF FrontInv
  <1>e. CASE ExporterCloses \/ ExporterReads
    <2>1. UNCHANGED <<toAgent, agentSocket, proxies, pending, stack, newest, front>>
      BY <1>1, <1>e DEF ExporterCloses, ExporterReads, exporterVars
    <2>2. Ahead' = Ahead /\ (ActivateAhead' <=> ActivateAhead)
      BY <2>1 DEF Ahead, ActivateAhead
    <2>. QED
      BY <2>1, <2>2 DEF FrontInv
  <1>. QED
    BY <1>a, <1>b, <1>c, <1>d, <1>e DEF ExporterStep

\* Every step keeps FrontInv: what the user does counts only when it moves the
\* focus, and then another window may come in front.
LEMMA FrontStep ==
    ASSUME ActivateWaits, TypeInv, FlowInv, ReaderInv, FrontInv, [Next]_vars
    PROVE  FrontInv'
  <1>1. CASE UNCHANGED vars
    <2>1. UNCHANGED <<toAgent, agentSocket, proxies, pending, stack, newest, front>>
      BY <1>1 DEF vars, wireVars, agentVars, applicationVars, desktopVars, exporterVars
    <2>2. Ahead' = Ahead /\ (ActivateAhead' <=> ActivateAhead)
      BY <2>1 DEF Ahead, ActivateAhead
    <2>. QED
      BY <2>1, <2>2 DEF FrontInv
  <1>2. CASE UserStep
    <2>1. UserEffect /\ UNCHANGED newest /\ front' = IF focus' = focus THEN front ELSE {}
      BY <1>2, UserEffects DEF UserStep, TypeInv
    <2>. SUFFICES ASSUME focus' = focus, agentSocket = "open" PROVE FrontInv'
      BY <2>1 DEF FrontInv, UserEffect
    <2>2. UNCHANGED <<toAgent, pending, stack>> /\ InputChanges(proxies')
      BY <2>1 DEF UserEffect, applicationVars, Raises
    <2>3. Ahead' = Ahead /\ (ActivateAhead' <=> ActivateAhead)
      BY <2>2 DEF Ahead, ActivateAhead
    <2>4. /\ DOMAIN proxies' = DOMAIN proxies
          /\ \A id \in DOMAIN proxies :
                /\ proxies'[id].presentation = proxies[id].presentation
                /\ proxies'[id].alive = proxies[id].alive /\ proxies'[id].owners = proxies[id].owners
      BY <2>2 DEF InputChanges, SameButForInput
    <2>. QED
      BY <2>1, <2>2, <2>3, <2>4, FrontStays
  <1>. QED
    BY <1>1, <1>2, ThreadKeepsFront, ExporterKeepsFront DEF Next

\* The window the exporter put in front last is in front once nothing is queued
\* or on its way, for any windows, presentations and user, as long as the
\* exporter activates a window only after every PRESENT was acknowledged: a
\* window that is only moved or drawn again does not come before it
\* (bring_to_front, update_layered_window).
THEOREM ActivatedStaysInFront ==
    ASSUME ActivateWaits
    PROVE  Spec => []ActivatedIsInFront
  <1>1. TypeInv /\ FlowInv /\ [Next]_vars => FlowInv'
    BY FlowStep
  <1>2. Init => FrontInv
    BY DEF Init, FrontInv
  <1>3. TypeInv /\ FlowInv /\ ReaderInv /\ FrontInv /\ [Next]_vars => FrontInv'
    BY FrontStep
  <1>4. FrontInv => ActivatedIsInFront
    <2>. SUFFICES ASSUME FrontInv, Drained, toAgent = <<>>, NEW id \in front \cap DOMAIN proxies,
                         IsShown(id), ~IsPopup(id)
                  PROVE  Last(stack) = id
      BY DEF ActivatedIsInFront
    <2>1. ~ActivateAhead
      BY DEF ActivateAhead, Ahead, ToSet
    <2>. QED
      BY <2>1 DEF FrontInv, Drained, IsShown, IsPopup
  <1>. QED
    BY <1>1, <1>2, <1>3, <1>4, FlowInit, TypesInvariant, ReaderInvariant, PTL DEF Spec
-----------------------------------------------------------------------------
(* The pixels a window covers.  The exporter keeps the scale it started    *)
(* with.                                                                   *)

ConfigAhead == \E m \in Ahead : m.type = "OUTPUT_CONFIG"
OneConfig(s) ==
    \A i, j \in DOMAIN s : s[i].type = "OUTPUT_CONFIG" /\ s[j].type = "OUTPUT_CONFIG" => i = j

\* A presentation as the exporter makes it, seen from where it is to be shown.
Exported(p) == p.visible => \E r \in Regions : r.visible /\ r.destination = p.destination
Drawn(p) ==
    /\ PhysicalDestination(p.presentation) = {p.physical} /\ ~RectIsEmpty(p.physical)
    /\ p.presentation.destination.w = p.presentation.source.w
    /\ p.presentation.destination.h = p.presentation.source.h

\* The scale comes once and before any window, and what is shown was drawn
\* with it.
ScaleInv ==
    /\ OneConfig(toAgent) /\ (ConfigAhead => outputScale = {})
    /\ outputScale = {} => DOMAIN proxies = {}
    /\ \A id \in DOMAIN proxies : proxies[id].presentation.visible => Drawn(proxies[id])

\* Every presentation on its way, queued or shown was the exporter's.
RegionInv ==
    /\ \A m \in Ahead : m.type = "WINDOW_PRESENT" => Exported(m.presentation)
    /\ \A id \in DOMAIN pending : Exported(pending[id])
    /\ \A id \in DOMAIN proxies : Exported(proxies[id].presentation)

\* At first there is one scale on its way and no window.
LEMMA ScaleInit ==
    ASSUME Init
    PROVE  ScaleInv /\ RegionInv
  <1>1. PICK s \in Scales, parents \in [Ids -> Ids \cup {0}] :
              /\ \A id \in Ids : parents[id] \in Parents[id]
              /\ \E order \in Orders(parents) :
                    \/ toAgent = <<HelloAck, OutputConfig(s)>> \o Creates(order, parents)
                    \/ \E r \in Regions :
                       toAgent = <<HelloAck, OutputConfig(s)>> \o Creates(order, parents)
                                                               \o Presents(order, r)
    BY FirstMessages
  <1>2. PICK order \in Orders(parents) :
                    \/ toAgent = <<HelloAck, OutputConfig(s)>> \o Creates(order, parents)
                    \/ \E r \in Regions :
                       toAgent = <<HelloAck, OutputConfig(s)>> \o Creates(order, parents)
                                                               \o Presents(order, r)
    BY <1>1
  <1>. DEFINE M == ToAgentMessage
              head == <<HelloAck, OutputConfig(s)>>
              creates == Creates(order, parents)
              Other(t) == \A i \in DOMAIN t : t[i].type # "OUTPUT_CONFIG"
              From(t) == \A i \in DOMAIN t : t[i].type = "WINDOW_PRESENT" => Exported(t[i].presentation)
  <1>3. creates \in Seq(M) /\ \A r \in Regions : Presents(order, r) \in Seq(M)
    BY <1>1, FirstTypes
  <1>4. head \in Seq(M) /\ Len(head) = 2 /\ DOMAIN head = {1, 2}
        /\ head[1].type = "HELLO_ACK" /\ head[2].type = "OUTPUT_CONFIG"
    BY ToAgentForms DEF AllScales, HelloAck, OutputConfig
  <1>5. Other(creates) /\ From(creates)
    BY DEF Creates, WindowCreate
  <1>6. ASSUME NEW r \in Regions PROVE Other(Presents(order, r)) /\ From(Presents(order, r))
    <2>1. \A i \in DOMAIN Presents(order, r) :
             /\ Presents(order, r)[i].type = "WINDOW_PRESENT"
             /\ Presents(order, r)[i].presentation.visible = r.visible
             /\ Presents(order, r)[i].presentation.destination = r.destination
      BY DEF Presents, WindowPresent, Presentation
    <2>. QED
      BY <2>1 DEF Exported
  <1>. HIDE DEF M, head, creates, Other, From
  <1>7. ASSUME NEW t \in Seq(M), Other(t), From(t)
        PROVE  OneConfig(head \o t) /\ From(head \o t) /\ head \o t \in Seq(M)
    <2>1. /\ head \o t \in Seq(M)
          /\ \A i \in DOMAIN (head \o t) :
                \/ i \in {1, 2} /\ (head \o t)[i] = head[i]
                \/ i - 2 \in DOMAIN t /\ (head \o t)[i] = t[i - 2]
      <3>1. /\ head \o t \in Seq(M)
            /\ \A i \in DOMAIN (head \o t) :
                  \/ i \in DOMAIN head /\ (head \o t)[i] = head[i]
                  \/ i - Len(head) \in DOMAIN t /\ (head \o t)[i] = t[i - Len(head)]
        <4>1. head \in Seq(M)
          BY <1>4
        <4>. QED
          BY <4>1, ConcatProperties
      <3>. QED
        BY <1>4, <3>1
    <2>. DEFINE all == head \o t
    <2>. HIDE DEF all
    <2>2. \A i \in DOMAIN all : /\ all[i].type = "OUTPUT_CONFIG" => i = 2
                                /\ all[i].type = "WINDOW_PRESENT" => Exported(all[i].presentation)
      BY <1>4, <1>7, <2>1 DEF all, Other, From
    <2>. QED
      BY <2>1, <2>2 DEF all, OneConfig, From
  <1>8. ASSUME NEW t \in Seq(M), NEW u \in Seq(M), Other(t), Other(u), From(t), From(u)
        PROVE  Other(t \o u) /\ From(t \o u) /\ t \o u \in Seq(M)
    <2>1. /\ t \o u \in Seq(M)
          /\ \A i \in DOMAIN (t \o u) :
                \/ i \in DOMAIN t /\ (t \o u)[i] = t[i]
                \/ i - Len(t) \in DOMAIN u /\ (t \o u)[i] = u[i - Len(t)]
      BY ConcatProperties
    <2>. DEFINE all == t \o u
    <2>. HIDE DEF all
    <2>. QED
      BY <1>8, <2>1 DEF all, Other, From
  <1>9. OneConfig(toAgent) /\ From(toAgent)
    <2>1. CASE toAgent = <<HelloAck, OutputConfig(s)>> \o Creates(order, parents)
      BY <1>3, <1>5, <1>7, <2>1 DEF head, creates
    <2>2. ASSUME NEW r \in Regions,
                 toAgent = <<HelloAck, OutputConfig(s)>> \o Creates(order, parents) \o Presents(order, r)
          PROVE  OneConfig(toAgent) /\ From(toAgent)
      <3>. DEFINE presents == Presents(order, r)
      <3>1. presents \in Seq(M) /\ Other(presents) /\ From(presents)
        BY <1>3, <1>6
      <3>2. toAgent = (head \o creates) \o presents
        BY <2>2 DEF head, creates
      <3>. HIDE DEF presents
      <3>3. (head \o creates) \o presents = head \o (creates \o presents)
        <4>1. head \in Seq(M) /\ creates \in Seq(M) /\ presents \in Seq(M)
          BY <1>3, <1>4, <3>1
        <4>. HIDE DEF head, creates
        <4>. QED
          BY <4>1, ConcatAssociative
      <3>. QED
        BY <1>3, <1>5, <1>7, <1>8, <3>1, <3>2, <3>3
    <2>. QED
      BY <1>2, <2>1, <2>2
  <1>10. DOMAIN proxies = {} /\ DOMAIN pending = {} /\ outputScale = {}
    BY DEF Init, AgentInit, Empty
  <1>11. \A m \in Ahead : m.type = "WINDOW_PRESENT" => Exported(m.presentation)
    BY <1>9 DEF From, Ahead, ToSet
  <1>. QED
    BY <1>9, <1>10, <1>11 DEF ScaleInv, RegionInv

\* Reading the head leaves at most one scale on its way, and none after it.
LEMMA OneConfigKept ==
    ASSUME NEW M, NEW s \in Seq(M), s # <<>>, OneConfig(s)
    PROVE  /\ OneConfig(Tail(s))
           /\ Head(s).type = "OUTPUT_CONFIG" => \A m \in ToSet(Tail(s)) : m.type # "OUTPUT_CONFIG"
  <1>. DEFINE t == Tail(s)
  <1>1. \A i \in DOMAIN t : i + 1 \in DOMAIN s /\ t[i] = s[i + 1] /\ i \in Nat /\ i >= 1
    <2>1. t \in Seq(M)
      BY HeadTailProperties
    <2>. QED
      BY <2>1, TailElements, LenProperties
  <1>2. 1 \in DOMAIN s /\ s[1] = Head(s)
    BY TailElements
  <1>. HIDE DEF t
  <1>3. OneConfig(t)
    BY <1>1 DEF OneConfig
  <1>4. Head(s).type = "OUTPUT_CONFIG" => \A i \in DOMAIN t : t[i].type # "OUTPUT_CONFIG"
    BY <1>1, <1>2 DEF OneConfig
  <1>. QED
    BY <1>3, <1>4 DEF t, ToSet

\* Every window keeps what it shows, or goes; the scale stays.
LEMMA ScaleStays ==
    ASSUME ScaleInv, outputScale' = outputScale, OneConfig(toAgent'),
           \A m : m \in Ahead' => m \in Ahead,
           \A id \in DOMAIN proxies' :
              /\ id \in DOMAIN proxies /\ proxies'[id].presentation = proxies[id].presentation
              /\ proxies'[id].physical = proxies[id].physical
    PROVE  ScaleInv'
  <1>1. \A p : PhysicalDestination(p)' = PhysicalDestination(p)
    BY DEF PhysicalDestination
  <1>2. ASSUME NEW id \in DOMAIN proxies', proxies'[id].presentation.visible
        PROVE  Drawn(proxies[id])'
    <2>1. Drawn(proxies[id])
      BY <1>2 DEF ScaleInv
    <2>. QED
      BY <1>1, <1>2, <2>1 DEF Drawn, PhysicalDestination
  <1>3. ConfigAhead' => ConfigAhead
    BY DEF ConfigAhead
  <1>. QED
    BY <1>2, <1>3 DEF ScaleInv
-----------------------------------------------------------------------------
\* The thread's own steps: what is shown was drawn with the scale there is.
LEMMA ThreadKeepsScale ==
    ASSUME TypeInv, ScaleInv, AgentStep
    PROVE  ScaleInv'
  <1>2. toAgent \in Seq(ToAgentMessage) /\ AgentTypeOK /\ AppInv /\ WireTypeOK
    BY DEF TypeInv, WireTypeOK, AppInv
  <1>3. ASSUME toAgent # <<>>, toAgent' = Tail(toAgent)
        PROVE  /\ \A m : m \in Ahead <=> m = AgentArrival \/ m \in Ahead'
               /\ OneConfig(toAgent')
               /\ AgentArrival.type = "OUTPUT_CONFIG" => ConfigAhead /\ ~ConfigAhead'
    <2>1. \A m : m \in Ahead <=> m = AgentArrival \/ m \in Ahead'
      BY <1>2, <1>3, TailElements DEF Ahead, AgentArrival
    <2>2. /\ OneConfig(Tail(toAgent))
          /\ Head(toAgent).type = "OUTPUT_CONFIG" => \A m \in ToSet(Tail(toAgent)) : m.type # "OUTPUT_CONFIG"
      BY <1>2, <1>3, OneConfigKept DEF ScaleInv
    <2>. QED
      BY <1>3, <2>1, <2>2 DEF ConfigAhead, Ahead, AgentArrival
  <1>a. CASE ReceiveHelloAck \/ ReceiveActivate \/ ReceivePresent
    <2>1. toAgent # <<>> /\ toAgent' = Tail(toAgent) /\ UNCHANGED <<proxies, outputScale>>
      BY <1>a DEF ReceiveHelloAck, ReceiveActivate, ReceivePresent, AgentArrived, Answer,
                  agentVars, applicationVars
    <2>. QED
      BY <1>3, <2>1, ScaleStays
  <1>b. CASE ReceiveOutputConfig
    <2>1. /\ toAgent # <<>> /\ toAgent' = Tail(toAgent) /\ UNCHANGED proxies
          /\ AgentArrival.type = "OUTPUT_CONFIG" /\ outputScale' = {AgentArrival.scale}
      BY <1>b DEF ReceiveOutputConfig, AgentArrived, AgentArrival, Answer
    <2>2. DOMAIN proxies' = {}
      BY <1>3, <2>1 DEF ScaleInv
    <2>. QED
      BY <1>3, <2>1, <2>2 DEF ScaleInv
  <1>c. CASE ReceiveCreate
    <2>. DEFINE new == AgentArrival.id
    <2>1. /\ toAgent # <<>> /\ toAgent' = Tail(toAgent) /\ outputScale' = outputScale /\ outputScale # {}
          /\ proxies' = [id \in DOMAIN proxies \cup {new} |->
                            IF id = new THEN NewProxy(AgentArrival) ELSE proxies[id]]
      BY <1>c DEF ReceiveCreate, CanCreate, AgentArrived, Answer, applicationVars
    <2>2. ~NewProxy(AgentArrival).presentation.visible
      BY DEF NewProxy, Hidden
    <2>3. ~ConfigAhead'
      BY <1>3, <2>1 DEF ScaleInv, ConfigAhead
    <2>4. \A p : PhysicalDestination(p)' = PhysicalDestination(p)
      BY <2>1 DEF PhysicalDestination
    <2>5. ASSUME NEW id \in DOMAIN proxies', proxies'[id].presentation.visible
          PROVE  Drawn(proxies[id])'
      <3>1. id # new /\ id \in DOMAIN proxies /\ proxies'[id] = proxies[id]
        BY <2>1, <2>2, <2>5
      <3>2. Drawn(proxies[id])
        BY <2>5, <3>1 DEF ScaleInv
      <3>. QED
        BY <2>1, <3>1, <3>2 DEF Drawn, PhysicalDestination
    <2>. QED
      BY <1>3, <2>1, <2>3, <2>5 DEF ScaleInv
  <1>d. CASE ReceiveDestroy
    <2>. DEFINE old == AgentArrival.id
    <2>1. /\ toAgent # <<>> /\ toAgent' = Tail(toAgent) /\ outputScale' = outputScale
          /\ proxies' = WithoutWindow(old)
      BY <1>d DEF ReceiveDestroy, AgentArrived, Answer
    <2>2. DOMAIN proxies' = DOMAIN proxies \ {old}
      BY <2>1 DEF WithoutWindow
    <2>3. \A id \in DOMAIN proxies' : id \in DOMAIN proxies /\ proxies[id] \in ProxyType
      BY <1>2, <2>2 DEF AgentTypeOK
    <2>4. ASSUME NEW id \in DOMAIN proxies'
          PROVE  /\ proxies'[id].presentation = proxies[id].presentation
                 /\ proxies'[id].physical = proxies[id].physical
      <3>1. PICK p : p = proxies[id]
        OBVIOUS
      <3>2. PICK b : b = IF id \in capture THEN {} ELSE p.buttons
        OBVIOUS
      <3>3. p \in ProxyType /\ id \in DOMAIN proxies \ {old}
        BY <2>2, <2>3, <3>1
      <3>4. proxies'[id] = IF id \in OwnedBy(old)
                           THEN [p EXCEPT !.alive = FALSE, !.buttons = IF id \in capture THEN {} ELSE @]
                           ELSE p
        BY <2>1, <3>1, <3>3 DEF WithoutWindow
      <3>5. [p EXCEPT !.alive = FALSE, !.buttons = IF id \in capture THEN {} ELSE @]
               = [p EXCEPT !.alive = FALSE, !.buttons = b]
        BY <3>2, <3>3 DEF ProxyType
      <3>. HIDE DEF old
      <3>6. PICK q : q = [p EXCEPT !.alive = FALSE, !.buttons = b]
        OBVIOUS
      <3>7. q.presentation = p.presentation /\ q.physical = p.physical
        BY <3>3, <3>6 DEF ProxyType
      <3>8. proxies'[id] = p \/ proxies'[id] = q
        BY <3>4, <3>5, <3>6
      <3>. QED
        BY <3>1, <3>7, <3>8
    <2>. QED
      BY <1>3, <2>1, <2>3, <2>4, ScaleStays
  <1>e. CASE DispatchPresents
    <2>1. /\ UNCHANGED <<toAgent, outputScale>> /\ proxies' = AppliedAll
          /\ \A id \in Ready : Presentable(id, pending[id])
      BY <1>e DEF DispatchPresents, AppliedAll, Send
    <2>2. /\ DOMAIN proxies' = DOMAIN proxies
          /\ \A id \in DOMAIN proxies :
                /\ proxies'[id].presentation = IF id \in Ready THEN pending[id] ELSE proxies[id].presentation
                /\ proxies'[id].physical =
                       IF id \notin Ready THEN proxies[id].physical
                       ELSE IF pending[id].visible THEN CHOOSE r \in PhysicalDestination(pending[id]) : TRUE
                       ELSE EmptyRect
      BY <1>2, <2>1, AppliedFacts
    <2>3. Ahead' = Ahead /\ (ConfigAhead' <=> ConfigAhead)
      BY <2>1 DEF Ahead, ConfigAhead
    <2>4. ASSUME NEW id \in DOMAIN proxies, proxies'[id].presentation.visible
          PROVE  Drawn(proxies[id])'
      <3>1. CASE id \notin Ready
        <4>1. /\ proxies'[id].presentation = proxies[id].presentation
              /\ proxies'[id].physical = proxies[id].physical
          BY <2>2, <3>1
        <4>2. Drawn(proxies[id])
          BY <2>4, <4>1 DEF ScaleInv
        <4>. QED
          BY <2>1, <4>1, <4>2 DEF Drawn, PhysicalDestination
      <3>2. CASE id \in Ready
        <4>. DEFINE p == pending[id]
                    drawn == CHOOSE r \in PhysicalDestination(p) : TRUE
        <4>1. proxies'[id].presentation = p /\ p.visible /\ proxies'[id].physical = drawn
          BY <2>2, <2>4, <3>2
        <4>2. /\ p.destination.w = p.source.w /\ p.destination.h = p.source.h
              /\ \E r \in PhysicalDestination(p) : ~RectIsEmpty(r)
          BY <2>1, <3>2, <4>1 DEF Presentable
        <4>3. PICK r \in PhysicalDestination(p) : ~RectIsEmpty(r)
          BY <4>2
        <4>4. PhysicalDestination(p) = {r}
          <5>1. PICK s \in AllScales : outputScale = {s}
            BY <1>2, <4>3 DEF AgentTypeOK, PhysicalDestination
          <5>2. PhysicalDestination(p) = LogicalRectToPhysical(p.destination, s)
            BY <5>1 DEF PhysicalDestination
          <5>3. \A a, b \in LogicalRectToPhysical(p.destination, s) : a = b
            <6>1. p \in ShownType
              BY <1>2, <3>2 DEF Ready, AgentTypeOK
            <6>. QED
              BY <6>1, ScalesAreScales, PhysicalRectIsUnique DEF ShownType
          <5>. QED
            BY <4>3, <5>2, <5>3
        <4>5. drawn = r
          BY <4>4
        <4>. HIDE DEF p, drawn
        <4>. QED
          BY <2>1, <4>1, <4>2, <4>3, <4>4, <4>5 DEF Drawn, PhysicalDestination
      <3>. QED
        BY <3>1, <3>2
    <2>. QED
      BY <2>1, <2>2, <2>3, <2>4 DEF ScaleInv
  <1>f. CASE SocketFails \/ DispatchFails
    <2>1. /\ proxies' = Empty /\ toAgent' = <<>> /\ outputScale' = outputScale
      BY <1>f DEF SocketFails, DispatchFails, FailConnection
    <2>2. DOMAIN proxies' = {} /\ Ahead' = {} /\ OneConfig(toAgent')
      BY <2>1 DEF Empty, Ahead, ToSet, OneConfig
    <2>. QED
      BY <2>1, <2>2 DEF ScaleInv, ConfigAhead
  <1>g. CASE Exit
    <2>1. /\ proxies' = proxies /\ toAgent' = <<>> /\ outputScale' = outputScale
      BY <1>g DEF Exit
    <2>2. Ahead' = {} /\ OneConfig(toAgent')
      BY <2>1 DEF Ahead, ToSet, OneConfig
    <2>. QED
      BY <2>1, <2>2, ScaleStays
  <1>. QED
    BY <1>2, <1>a, <1>b, <1>c, <1>d, <1>e, <1>f, <1>g, NoFramesArrive DEF AgentStep

\* Every step does, as long as the exporter keeps its scale.
LEMMA ScaleStep ==
    ASSUME Rescales = {}, TypeInv, ScaleInv, [Next]_vars
    PROVE  ScaleInv'
  <1>1. UNCHANGED agentVars => UNCHANGED <<proxies, outputScale>>
    BY DEF agentVars, applicationVars
  <1>2. CASE UNCHANGED vars \/ ExporterCloses \/ ExporterReads
    <2>1. UNCHANGED <<toAgent, proxies, outputScale>>
      BY <1>1, <1>2 DEF vars, wireVars, ExporterCloses, ExporterReads
    <2>2. Ahead' = Ahead
      BY <2>1 DEF Ahead
    <2>. QED
      BY <2>1, <2>2, ScaleStays DEF ScaleInv
  <1>3. CASE UserStep
    <2>1. UserEffect
      BY <1>3, UserEffects DEF UserStep, TypeInv
    <2>2. UNCHANGED <<toAgent, outputScale>> /\ InputChanges(proxies')
      BY <2>1 DEF UserEffect, applicationVars
    <2>3. Ahead' = Ahead
      BY <2>2 DEF Ahead
    <2>4. \A id \in DOMAIN proxies' :
              /\ id \in DOMAIN proxies /\ proxies'[id].presentation = proxies[id].presentation
              /\ proxies'[id].physical = proxies[id].physical
      BY <2>2 DEF InputChanges, SameButForInput
    <2>. QED
      BY <2>2, <2>3, <2>4, ScaleStays DEF ScaleInv
  <1>4. ASSUME NEW m, ExporterSends(m), m.type # "OUTPUT_CONFIG" PROVE ScaleInv'
    <2>1. toAgent' = <<m>> /\ UNCHANGED <<proxies, outputScale>>
      BY <1>1, <1>4 DEF ExporterSends
    <2>2. DOMAIN toAgent' = {1} /\ toAgent'[1] = m /\ Ahead' = {m}
      BY <2>1 DEF Ahead, ToSet
    <2>3. OneConfig(toAgent') /\ ~ConfigAhead'
      BY <1>4, <2>2 DEF OneConfig, ConfigAhead
    <2>4. \A id \in DOMAIN proxies : proxies[id].presentation.visible => Drawn(proxies[id])'
      BY <2>1 DEF ScaleInv, Drawn, PhysicalDestination
    <2>. QED
      BY <2>1, <2>3, <2>4 DEF ScaleInv
  <1>5. CASE ExporterStep /\ ~ExporterCloses
    <2>1. \A id, parent, p :
             /\ WindowCreate(id, parent, Width, Height).type # "OUTPUT_CONFIG"
             /\ WindowPresent(id, p).type # "OUTPUT_CONFIG"
             /\ WindowActivate(id).type # "OUTPUT_CONFIG" /\ WindowDestroy(id).type # "OUTPUT_CONFIG"
      BY DEF WindowCreate, WindowPresent, WindowActivate, WindowDestroy
    <2>2. ~SendConfig
      BY DEF SendConfig
    <2>3. ASSUME NEW id \in Ids, SendCreate(id) \/ SendPresent(id) \/ SendActivate(id) \/ SendDestroy(id)
          PROVE  ScaleInv'
      BY <1>4, <2>1, <2>3 DEF SendCreate, SendPresent, SendActivate, SendDestroy
    <2>. QED
      BY <1>5, <2>2, <2>3 DEF ExporterStep
  <1>. QED
    BY <1>2, <1>3, <1>5, ThreadKeepsScale DEF Next, ThreadStep

\* A shown window covers the physical pixels of its destination under the
\* configured scale, for any windows, presentations and user, as long as the
\* exporter keeps its scale (apply_present, update_layered_window).
THEOREM ProxyStaysDrawnToScale ==
    ASSUME Rescales = {}
    PROVE  Spec => []ProxyIsDrawnToScale
  <1>1. TypeInv /\ ScaleInv /\ [Next]_vars => ScaleInv'
    BY ScaleStep
  <1>2. Init => ScaleInv
    BY ScaleInit
  <1>3. ScaleInv => ProxyIsDrawnToScale
    BY DEF ScaleInv, Drawn, ProxyIsDrawnToScale
  <1>. QED
    BY <1>1, <1>2, <1>3, TypesInvariant, PTL DEF Spec
-----------------------------------------------------------------------------
\* Every step keeps the presentations the exporter's.
LEMMA RegionStep ==
    ASSUME TypeInv, RegionInv, [Next]_vars
    PROVE  RegionInv'
  <1>1. UNCHANGED agentVars => UNCHANGED <<proxies, pending>>
    BY DEF agentVars, applicationVars
  <1>2. toAgent \in Seq(ToAgentMessage) /\ AgentTypeOK /\ AppInv /\ WireTypeOK
    BY DEF TypeInv, WireTypeOK, AppInv
  <1>s. ASSUME \A m \in Ahead' : m \in Ahead,
               \A id \in DOMAIN pending' : id \in DOMAIN pending /\ pending'[id] = pending[id],
               \A id \in DOMAIN proxies' :
                  /\ id \in DOMAIN proxies
                  /\ \/ proxies'[id].presentation = proxies[id].presentation
                     \/ id \in DOMAIN pending /\ proxies'[id].presentation = pending[id]
        PROVE  RegionInv'
    <2>1. \A m \in Ahead' : m.type = "WINDOW_PRESENT" => Exported(m.presentation)
      BY <1>s DEF RegionInv
    <2>2. \A id \in DOMAIN pending' : Exported(pending'[id])
      BY <1>s DEF RegionInv
    <2>3. \A id \in DOMAIN proxies' : Exported(proxies'[id].presentation)
      BY <1>s DEF RegionInv
    <2>. QED
      BY <2>1, <2>2, <2>3 DEF RegionInv, Exported
  <1>3. ASSUME toAgent # <<>>, toAgent' = Tail(toAgent)
        PROVE  \A m : m \in Ahead <=> m = AgentArrival \/ m \in Ahead'
    BY <1>2, <1>3, TailElements DEF Ahead, AgentArrival
  <1>4. CASE UNCHANGED vars \/ ExporterCloses \/ ExporterReads
    <2>1. UNCHANGED <<toAgent, proxies, pending>>
      BY <1>1, <1>4 DEF vars, wireVars, ExporterCloses, ExporterReads
    <2>2. Ahead' = Ahead
      BY <2>1 DEF Ahead
    <2>. QED
      BY <2>1, <2>2, <1>s
  <1>5. CASE UserStep
    <2>1. UserEffect
      BY <1>5, UserEffects DEF UserStep, TypeInv
    <2>2. UNCHANGED <<toAgent, pending>> /\ InputChanges(proxies')
      BY <2>1 DEF UserEffect, applicationVars
    <2>3. Ahead' = Ahead
      BY <2>2 DEF Ahead
    <2>. QED
      BY <2>2, <2>3, <1>s DEF InputChanges, SameButForInput
  <1>6. CASE ExporterStep /\ ~ExporterCloses
    <2>1. ASSUME NEW m, ExporterSends(m), m.type = "WINDOW_PRESENT" => Exported(m.presentation)
          PROVE  RegionInv'
      <3>1. toAgent' = <<m>> /\ UNCHANGED <<proxies, pending>>
        BY <1>1, <2>1 DEF ExporterSends
      <3>2. Ahead' = {m}
        BY <3>1 DEF Ahead, ToSet
      <3>3. \A p : Exported(p)' <=> Exported(p)
        BY DEF Exported
      <3>. QED
        BY <2>1, <3>1, <3>2, <3>3 DEF RegionInv, Exported
    <2>2. \A id, parent, s :
             /\ WindowCreate(id, parent, Width, Height).type # "WINDOW_PRESENT"
             /\ OutputConfig(s).type # "WINDOW_PRESENT"
             /\ WindowActivate(id).type # "WINDOW_PRESENT" /\ WindowDestroy(id).type # "WINDOW_PRESENT"
      BY DEF WindowCreate, OutputConfig, WindowActivate, WindowDestroy
    <2>3. ASSUME NEW id \in Ids, SendCreate(id) \/ SendActivate(id) \/ SendDestroy(id)
          PROVE  RegionInv'
      BY <2>1, <2>2, <2>3 DEF SendCreate, SendActivate, SendDestroy
    <2>4. SendConfig => RegionInv'
      BY <2>1, <2>2 DEF SendConfig
    <2>5. ASSUME NEW id \in Ids, SendPresent(id) PROVE RegionInv'
      <3>1. PICK r \in Regions : ExporterSends(WindowPresent(id, Presentation(r, sent + 1)))
        BY <2>5 DEF SendPresent
      <3>2. WindowPresent(id, Presentation(r, sent + 1)).presentation.visible = r.visible
            /\ WindowPresent(id, Presentation(r, sent + 1)).presentation.destination = r.destination
        BY DEF WindowPresent, Presentation
      <3>3. Exported(WindowPresent(id, Presentation(r, sent + 1)).presentation)
        BY <3>2 DEF Exported
      <3>. QED
        BY <2>1, <3>1, <3>3
    <2>. QED
      BY <1>6, <2>3, <2>4, <2>5 DEF ExporterStep
  <1>a. CASE ReceiveHelloAck \/ ReceiveActivate \/ ReceiveOutputConfig
    <2>1. toAgent # <<>> /\ toAgent' = Tail(toAgent) /\ UNCHANGED <<proxies, pending>>
      BY <1>a DEF ReceiveHelloAck, ReceiveActivate, ReceiveOutputConfig, AgentArrived, Answer,
                  agentVars, applicationVars
    <2>. QED
      BY <1>3, <2>1, <1>s
  <1>b. CASE ReceiveCreate
    <2>. DEFINE new == AgentArrival.id
    <2>1. /\ toAgent # <<>> /\ toAgent' = Tail(toAgent) /\ pending' = pending
          /\ proxies' = [id \in DOMAIN proxies \cup {new} |->
                            IF id = new THEN NewProxy(AgentArrival) ELSE proxies[id]]
      BY <1>b DEF ReceiveCreate, AgentArrived, Answer, applicationVars
    <2>2. Exported(NewProxy(AgentArrival).presentation)
      BY DEF NewProxy, Hidden, Exported
    <2>3. \A id \in DOMAIN proxies' : Exported(proxies'[id].presentation)
      BY <2>1, <2>2 DEF RegionInv
    <2>. QED
      BY <1>3, <2>1, <2>3 DEF RegionInv, Exported
  <1>c. CASE ReceivePresent
    <2>. DEFINE id == AgentArrival.id
    <2>1. /\ toAgent # <<>> /\ toAgent' = Tail(toAgent) /\ proxies' = proxies
          /\ AgentArrival.type = "WINDOW_PRESENT"
          /\ pending' = KeepNewest(id, AgentArrival.presentation)
      BY <1>c DEF ReceivePresent, AgentArrived, AgentArrival, Answer
    <2>2. Exported(AgentArrival.presentation)
      BY <1>3, <2>1 DEF RegionInv
    <2>3. \A i \in DOMAIN pending' : Exported(pending'[i])
      BY <2>1, <2>2 DEF RegionInv, KeepNewest
    <2>. QED
      BY <1>3, <2>1, <2>3 DEF RegionInv, Exported
  <1>d. CASE ReceiveDestroy
    <2>. DEFINE old == AgentArrival.id
    <2>1. /\ toAgent # <<>> /\ toAgent' = Tail(toAgent)
          /\ proxies' = WithoutWindow(old) /\ pending' = Without(pending, old)
      BY <1>d DEF ReceiveDestroy, AgentArrived, Answer
    <2>2. DOMAIN proxies' = DOMAIN proxies \ {old}
      BY <2>1 DEF WithoutWindow
    <2>3. \A id \in DOMAIN proxies' : id \in DOMAIN proxies /\ proxies[id] \in ProxyType
      BY <1>2, <2>2 DEF AgentTypeOK
    <2>4. \A id \in DOMAIN proxies' : proxies'[id].presentation = proxies[id].presentation
      BY <1>2, <2>1, <2>2, PresentationsStay
    <2>5. \A id \in DOMAIN pending' : id \in DOMAIN pending /\ pending'[id] = pending[id]
      BY <2>1 DEF Without
    <2>. QED
      BY <1>3, <2>1, <2>3, <2>4, <2>5, <1>s
  <1>e. CASE DispatchPresents
    <2>1. /\ toAgent' = toAgent /\ proxies' = AppliedAll /\ pending' = Empty
          /\ \A id \in Ready : Presentable(id, pending[id])
      BY <1>e DEF DispatchPresents, AppliedAll, Send
    <2>2. /\ DOMAIN proxies' = DOMAIN proxies
          /\ \A id \in DOMAIN proxies :
                proxies'[id].presentation = IF id \in Ready THEN pending[id] ELSE proxies[id].presentation
      BY <1>2, <2>1, AppliedFacts
    <2>3. Ahead' = Ahead /\ DOMAIN pending' = {}
      BY <2>1 DEF Ahead, Empty
    <2>. QED
      BY <2>1, <2>2, <2>3, <1>s DEF Ready
  <1>f. CASE SocketFails \/ DispatchFails
    <2>1. /\ proxies' = Empty /\ toAgent' = <<>> /\ pending' = Empty
      BY <1>f DEF SocketFails, DispatchFails, FailConnection
    <2>2. DOMAIN proxies' = {} /\ Ahead' = {} /\ DOMAIN pending' = {}
      BY <2>1 DEF Empty, Ahead, ToSet
    <2>. QED
      BY <2>2 DEF RegionInv
  <1>g. CASE Exit
    <2>1. UNCHANGED <<proxies, pending>> /\ toAgent' = <<>>
      BY <1>g DEF Exit
    <2>2. Ahead' = {}
      BY <2>1 DEF Ahead, ToSet
    <2>. QED
      BY <2>1, <2>2, <1>s
  <1>. QED
    BY <1>2, <1>4, <1>5, <1>6, <1>a, <1>b, <1>c, <1>d, <1>e, <1>f, <1>g, NoFramesArrive DEF AgentStep, Next, ThreadStep

\* A destination on the output: one that is not empty, each of whose pixels
\* has 32-bit coordinates.
OnTheOutput(destination) ==
    /\ ~RectIsEmpty(destination)
    /\ RectRight(destination) - 1 \in I32 /\ RectBottom(destination) - 1 \in I32

\* physical_fragment_local_to_logical finds a logical pixel of the fragment for
\* every physical one.
LEMMA PixelHasALocation ==
    ASSUME NEW fragment \in Rect, NEW s \in Scale, ~RectIsEmpty(fragment),
           NEW physical \in LogicalRectToPhysical(fragment, s),
           NEW x \in 0 .. physical.w - 1, NEW y \in 0 .. physical.h - 1
    PROVE  \E c \in PhysicalFragmentLocalToLogical(fragment, s, [x |-> x, y |-> y]) :
              c.x \in 0 .. fragment.w - 1 /\ c.y \in 0 .. fragment.h - 1
  <1>1. RectIsValid(fragment) /\ physical \in Rect /\ RectIsValid(physical)
    BY DEF LogicalRectToPhysical
  <1>2. /\ fragment.w \in Int /\ fragment.h \in Int /\ fragment.w > 0 /\ fragment.h > 0
        /\ physical.w \in Int /\ physical.h \in Int /\ physical.w > 0 /\ physical.h > 0
        /\ x \in Int /\ y \in Int /\ fragment.w \in I32 /\ fragment.h \in I32
    BY <1>1, MaxIntAssumption DEF RectIsValid, RectIsEmpty, Rect, I32
  <1>. DEFINE cx == (x * fragment.w) \div physical.w
              cy == (y * fragment.h) \div physical.h
              c == [x |-> cx, y |-> cy]
  <1>3. cx \in 0 .. fragment.w - 1
    BY <1>2, ProportionKeepsSides
  <1>4. cy \in 0 .. fragment.h - 1
    BY <1>2, ProportionKeepsSides
  <1>5. ~RectIsEmpty(physical)
    BY <1>2 DEF RectIsEmpty
  <1>. DEFINE local == [x |-> x, y |-> y]
  <1>6. c = [x |-> (local.x * fragment.w) \div physical.w,
             y |-> (local.y * fragment.h) \div physical.h]
    OBVIOUS
  <1>7. c.x = cx /\ c.y = cy
    OBVIOUS
  <1>. HIDE DEF cx, cy
  <1>8. c \in Point
    <2>1. cx \in I32 /\ cy \in I32
      BY <1>2, <1>3, <1>4, MaxIntAssumption DEF I32
    <2>. QED
      BY <2>1 DEF Point
  <1>. HIDE DEF c, local
  <1>9. c \in PhysicalFragmentLocalToLogical(fragment, s, local)
    BY <1>1, <1>5, <1>6, <1>8 DEF PhysicalFragmentLocalToLogical
  <1>. QED
    BY <1>3, <1>4, <1>7, <1>9 DEF local
-----------------------------------------------------------------------------
\* Where the cursor is on a shown window there is a location, inside the
\* fragment (make_pointer_location).
LEMMA ShownPixelHasALocation ==
    ASSUME \A r \in Regions : r.visible => OnTheOutput(r.destination),
           TypeInv, ScaleInv, RegionInv, NEW id \in DOMAIN proxies, NEW point \in CursorPoints,
           Covers(id, point)
    PROVE  \E l \in LocationAt(id, point) :
             /\ l.client.x \in 0 .. proxies[id].presentation.source.w - 1
             /\ l.client.y \in 0 .. proxies[id].presentation.source.h - 1
  <1>. DEFINE p == proxies[id].presentation
              physical == proxies[id].physical
              fragment == p.destination
              x == point.x - physical.x
              y == point.y - physical.y
  <1>1. p \in ShownType /\ physical \in Rect /\ p.visible /\ RectContainsPoint(physical, point)
    BY DEF TypeInv, AgentTypeOK, ProxyType, Covers, IsShown
  <1>2. /\ PhysicalDestination(p) = {physical}
        /\ fragment.w = p.source.w /\ fragment.h = p.source.h
    BY <1>1 DEF ScaleInv, Drawn
  <1>3. OnTheOutput(fragment)
    BY <1>1 DEF RegionInv, Exported
  <1>4. PICK s \in AllScales : outputScale = {s}
    BY <1>2 DEF TypeInv, AgentTypeOK, PhysicalDestination
  <1>5. physical \in LogicalRectToPhysical(fragment, s)
    BY <1>2, <1>4 DEF PhysicalDestination
  <1>6. fragment \in Rect /\ s \in Scale
    BY <1>1, ScalesAreScales DEF ShownType
  <1>7. x \in 0 .. physical.w - 1 /\ y \in 0 .. physical.h - 1
    <2>1. point \in Point
      BY ScreenAssumption
    <2>2. /\ physical.x \in Int /\ physical.y \in Int /\ physical.w \in Int /\ physical.h \in Int
          /\ point.x \in Int /\ point.y \in Int
      BY <1>1, <2>1, MaxIntAssumption DEF Rect, Point, I32
    <2>. QED
      BY <1>1, <2>2 DEF RectContainsPoint, RectRight, RectBottom
  <1>. DEFINE client == [x |-> x, y |-> y]
  <1>8. ~RectIsEmpty(fragment)
    BY <1>3 DEF OnTheOutput
  <1>9. PICK c \in PhysicalFragmentLocalToLogical(fragment, s, client) :
           c.x \in 0 .. fragment.w - 1 /\ c.y \in 0 .. fragment.h - 1
    <2>. HIDE DEF fragment, x, y, physical
    <2>. QED
      BY <1>5, <1>6, <1>7, <1>8, PixelHasALocation
  <1>. DEFINE out == [x |-> fragment.x + c.x, y |-> fragment.y + c.y]
              l == [sequence |-> p.sequence, client |-> c, output |-> out]
  <1>10. out \in Point
    <2>1. /\ fragment.x \in I32 /\ fragment.y \in I32 /\ fragment.w \in I32 /\ fragment.h \in I32
      BY <1>6 DEF Rect
    <2>. HIDE DEF fragment
    <2>2. /\ (fragment.x + fragment.w) - 1 \in I32 /\ (fragment.y + fragment.h) - 1 \in I32
      BY <1>3 DEF OnTheOutput, RectRight, RectBottom
    <2>3. c.x \in Int /\ c.y \in Int
      BY <1>9
    <2>4. fragment.x + c.x \in I32 /\ fragment.y + c.y \in I32
      BY <1>9, <2>1, <2>2, <2>3, MaxIntAssumption DEF I32
    <2>. QED
      BY <2>4 DEF Point
  <1>11. l \in LocationAt(id, point)
    <2>1. c \in UNION {PhysicalFragmentLocalToLogical(p.destination, z, client) : z \in outputScale}
      BY <1>4, <1>9
    <2>2. l.output = out
      OBVIOUS
    <2>3. LocationAt(id, point) =
             {m \in {[sequence |-> p.sequence, client |-> k,
                      output |-> [x |-> p.destination.x + k.x, y |-> p.destination.y + k.y]] :
                         k \in UNION {PhysicalFragmentLocalToLogical(p.destination, z, client) : z \in outputScale}}
                : m.output \in Point}
      BY <1>1 DEF LocationAt
    <2>. HIDE DEF p, client
    <2>. QED
      BY <1>10, <2>1, <2>2, <2>3
  <1>12. l.client = c
    OBVIOUS
  <1>. HIDE DEF l, out, client
  <1>. QED
    BY <1>2, <1>9, <1>11, <1>12

\* Wherever the cursor is on a shown window the pointer is reported, and inside
\* the presented fragment: for every scale, window, presentation and user, as
\* long as the exporter keeps its scale and what it shows is not empty and on
\* the output (make_pointer_location; the server's presentation_is_valid says
\* the same of what it shows).
THEOREM ShownPixelsStayReachable ==
    ASSUME Rescales = {}, \A r \in Regions : r.visible => OnTheOutput(r.destination)
    PROVE  Spec => []ShownPixelsAreReachable
  <1>1. TypeInv /\ ScaleInv /\ [Next]_vars => ScaleInv'
    BY ScaleStep
  <1>2. TypeInv /\ RegionInv /\ [Next]_vars => RegionInv'
    BY RegionStep
  <1>3. Init => ScaleInv /\ RegionInv
    BY ScaleInit
  <1>4. TypeInv /\ ScaleInv /\ RegionInv => ShownPixelsAreReachable
    BY ShownPixelHasALocation DEF ShownPixelsAreReachable
  <1>. QED
    BY <1>1, <1>2, <1>3, <1>4, TypesInvariant, PTL DEF Spec
-----------------------------------------------------------------------------
(* A press on a popup.                                                     *)

\* Every popup belongs to a window of its own, none to another popup.
NoPopupOfAPopup == \A id \in Ids : \A parent \in Parents[id] : parent # 0 => Parents[parent] \subseteq {0}
ParentInv ==
    \A id \in DOMAIN proxies : proxies[id].owners # <<>> =>
       \E parent \in Parents[id] : parent # 0 /\ proxies[id].owners = <<parent>>

FewerButtons ==
    \A id \in DOMAIN proxies \cap DOMAIN proxies' : proxies'[id].buttons \subseteq proxies[id].buttons
TextInputStays ==
    \A id \in DOMAIN proxies \cap DOMAIN proxies' :
       IsPopup(id) /\ proxies'[id].buttons \ proxies[id].buttons # {} => proxies'[TopLevel(id)].focused

\* A step that creates no window leaves the windows their owners.
LEMMA ParentsStay ==
    ASSUME ParentInv,
           \A id \in DOMAIN proxies' : id \in DOMAIN proxies /\ proxies'[id].owners = proxies[id].owners
    PROVE  ParentInv'
  BY DEF ParentInv

\* The thread's own steps nest no popup in a popup, and press nothing.
LEMMA ThreadKeepsParents ==
    ASSUME NoPopupOfAPopup, TypeInv, ParentInv, AgentStep
    PROVE  ParentInv' /\ FewerButtons
  <1>1. toAgent \in Seq(ToAgentMessage) /\ AgentTypeOK /\ AppInv /\ WireTypeOK
    BY DEF TypeInv, WireTypeOK, AppInv
  <1>2. \A id \in DOMAIN proxies : proxies[id] \in ProxyType
    BY <1>1 DEF AgentTypeOK
  <1>3. CASE UNCHANGED proxies
    BY <1>3, ParentsStay DEF FewerButtons
  <1>4. CASE proxies' = Empty
    BY <1>4 DEF ParentInv, FewerButtons, Empty
  <1>a. CASE ReceiveHelloAck \/ ReceiveActivate \/ ReceiveOutputConfig \/ ReceivePresent \/ Exit
    BY <1>a, <1>3 DEF ReceiveHelloAck, ReceiveActivate, ReceiveOutputConfig, ReceivePresent, Exit,
                      agentVars
  <1>b. CASE ReceiveCreate
    <2>1. toAgent # <<>> /\ AgentArrival.type = "WINDOW_CREATE"
      BY <1>b DEF ReceiveCreate, AgentArrived, AgentArrival
    <2>2. PICK new \in Ids : \E parent \in Parents[new] : AgentArrival = WindowCreate(new, parent, Width, Height)
      BY <1>1, <2>1, ArrivalIsTyped, ToAgentKinds
    <2>3. PICK parent \in Parents[new] : AgentArrival = WindowCreate(new, parent, Width, Height)
      BY <2>2
    <2>4. AgentArrival.id = new /\ AgentArrival.parent = parent
      BY <2>3 DEF WindowCreate
    <2>. DEFINE px == NewProxy(AgentArrival)
    <2>5. /\ new \notin DOMAIN proxies
          /\ parent # 0 => parent \in DOMAIN proxies
          /\ proxies' = [id \in DOMAIN proxies \cup {new} |-> IF id = new THEN px ELSE proxies[id]]
      BY <1>b, <2>4 DEF ReceiveCreate, CanCreate
    <2>6. px.owners = IF parent = 0 THEN <<>> ELSE Append(proxies[parent].owners, parent)
      BY <2>4 DEF NewProxy, OwnersOf
    <2>. HIDE DEF px
    <2>7. px.owners # <<>> => parent # 0 /\ px.owners = <<parent>>
      <3>. SUFFICES ASSUME parent # 0 PROVE px.owners = <<parent>>
        BY <2>6
      <3>1. Parents[parent] \subseteq {0}
        BY DEF NoPopupOfAPopup
      <3>2. proxies[parent].owners = <<>>
        BY <2>5, <3>1 DEF ParentInv
      <3>. QED
        BY <2>6, <3>2
    <2>8. ParentInv'
      BY <2>5, <2>7 DEF ParentInv
    <2>9. FewerButtons
      BY <2>5 DEF FewerButtons
    <2>. QED
      BY <2>8, <2>9
  <1>c. CASE ReceiveDestroy
    <2>. DEFINE old == AgentArrival.id
    <2>1. proxies' = WithoutWindow(old)
      BY <1>c DEF ReceiveDestroy
    <2>2. DOMAIN proxies' = DOMAIN proxies \ {old}
      BY <2>1 DEF WithoutWindow
    <2>3. ASSUME NEW id \in DOMAIN proxies'
          PROVE  /\ id \in DOMAIN proxies /\ proxies'[id].owners = proxies[id].owners
                 /\ proxies'[id].buttons \subseteq proxies[id].buttons
      <3>. DEFINE kept == IF id \in capture THEN {} ELSE proxies[id].buttons
      <3>1. id \in DOMAIN proxies /\ proxies[id] \in ProxyType
        BY <1>2, <2>2
      <3>2. proxies'[id] = IF id \in OwnedBy(old)
                           THEN [proxies[id] EXCEPT !.alive = FALSE, !.buttons = kept]
                           ELSE proxies[id]
        BY <2>1, <2>2 DEF WithoutWindow
      <3>3. kept \subseteq proxies[id].buttons
        OBVIOUS
      <3>. HIDE DEF kept, old
      <3>. QED
        BY <3>1, <3>2, <3>3 DEF ProxyType
    <2>. QED
      BY <2>3, ParentsStay DEF FewerButtons
  <1>d. CASE DispatchPresents
    <2>1. proxies' = AppliedAll /\ \A id \in Ready : Presentable(id, pending[id])
      BY <1>d DEF DispatchPresents, AppliedAll
    <2>2. /\ DOMAIN proxies' = DOMAIN proxies
          /\ \A id \in DOMAIN proxies :
                proxies'[id].owners = proxies[id].owners /\ proxies'[id].buttons = proxies[id].buttons
      BY <1>1, <2>1, AppliedFacts
    <2>. QED
      BY <2>2, ParentsStay DEF FewerButtons
  <1>e. CASE SocketFails \/ DispatchFails
    BY <1>e, <1>4 DEF SocketFails, DispatchFails, FailConnection
  <1>. QED
    BY <1>1, <1>a, <1>b, <1>c, <1>d, <1>e, NoFramesArrive DEF AgentStep

\* No step nests a popup in a popup when the exporter does not.
LEMMA ParentStep ==
    ASSUME NoPopupOfAPopup, TypeInv, ParentInv, [Next]_vars
    PROVE  ParentInv'
  <1>1. CASE UNCHANGED proxies
    BY <1>1, ParentsStay
  <1>2. CASE UserStep
    <2>1. UserEffect
      BY <1>2, UserEffects DEF UserStep, TypeInv
    <2>. QED
      BY <2>1, ParentsStay DEF UserEffect, InputChanges, SameButForInput
  <1>3. ExporterStep \/ ExporterReads \/ UNCHANGED vars => UNCHANGED agentVars
    BY DEF ExporterStep, ExporterReads, ExporterCloses, SendConfig, SendCreate, SendPresent,
           SendActivate, SendDestroy, ExporterSends, vars
  <1>. QED
    BY <1>1, <1>2, <1>3, ThreadKeepsParents DEF Next, ThreadStep, agentVars
-----------------------------------------------------------------------------
\* A press changes the buttons of the window under the cursor only.
LEMMA PressLeavesTheRest ==
    ASSUME AgentTypeOK, NEW f \in DOMAIN proxies, NEW id \in DOMAIN proxies, NEW button \in PointerButtons
    PROVE  \A i \in DOMAIN proxies :
              /\ i # id => PressedOn(f, id, button)[i].buttons = proxies[i].buttons
              /\ PressedOn(f, id, button)[i].focused = FocusedOn(f)[i].focused
  <1>. DEFINE new == PressedOn(f, id, button)
  <1>1. PressedFrom(FocusedOn(f), id, button, new)
    BY PressedOnFacts
  <1>. HIDE DEF new
  <1>2. \A i \in DOMAIN proxies :
           /\ i # id => new[i].buttons = proxies[i].buttons
           /\ new[i].focused = FocusedOn(f)[i].focused
    BY <1>1 DEF PressedFrom
  <1>. QED
    BY <1>2 DEF new

\* A press on a popup gives its top-level window the focus (WM_*BUTTONDOWN,
\* SetFocus of the owner).
LEMMA PressFocusesTheOwner ==
    ASSUME TypeInv, ParentInv, NEW button \in PointerButtons, ButtonDown(button)
    PROVE  TextInputStays
  <1>1. AgentTypeOK /\ OwnersInv
    BY DEF TypeInv
  <1>2. CASE proxies' = proxies
    BY <1>2 DEF TextInputStays
  <1>3. ASSUME NEW id \in Target(cursor), NEW f, f = FocusOf(id),
               \/ proxies' = PressedOn(f, id, button)
               \/ proxies' = FocusedOn(f)
        PROVE  TextInputStays
    <2>1. id \in DOMAIN proxies /\ proxies[id].alive
      BY <1>1, TargetsAreAlive
    <2>2. f \in DOMAIN proxies
      BY <1>1, <1>3, <2>1, OwnersFacts
    <2>3. CASE proxies' = FocusedOn(f)
      BY <1>1, <2>2, <2>3, FocusedOnFacts DEF TextInputStays
    <2>4. CASE proxies' = PressedOn(f, id, button)
      <3>1. /\ \A i \in DOMAIN proxies : i # id => proxies'[i].buttons = proxies[i].buttons
            /\ proxies'[f].focused = FocusedOn(f)[f].focused
        BY <1>1, <2>1, <2>2, <2>4, PressLeavesTheRest
      <3>2. FocusedOn(f)[f].focused = ~IsPopup(f)
        BY <1>1, <2>2, FocusedOnFacts
      <3>3. IsPopup(id) => f = TopLevel(id) /\ ~IsPopup(f)
        <4>. SUFFICES ASSUME IsPopup(id) PROVE f = TopLevel(id) /\ ~IsPopup(f)
          OBVIOUS
        <4>1. PICK parent \in Parents[id] : proxies[id].owners = <<parent>>
          BY <2>1 DEF ParentInv, IsPopup
        <4>2. Head(<<parent>>) = parent /\ Last(<<parent>>) = parent
          BY DEF Last
        <4>3. f = parent /\ TopLevel(id) = parent
          BY <1>3, <4>1, <4>2 DEF FocusOf, TopLevel, IsPopup
        <4>4. proxies[TopLevel(id)].owners = <<>>
          BY <1>1, <2>1, OwnersFacts
        <4>. QED
          BY <4>3, <4>4 DEF IsPopup
      <3>. QED
        BY <3>1, <3>2, <3>3 DEF TextInputStays
    <2>. QED
      BY <1>3, <2>3, <2>4
  <1>4. ASSUME NEW id \in Target(cursor), NEW f, f = FocusOf(id),
               \/ proxies' = [FocusedOn(f) EXCEPT ![id].buttons = @ \cup {button}]
               \/ proxies' = FocusedOn(f)
        PROVE  TextInputStays
    BY <1>3, <1>4 DEF PressedOn
  <1>. QED
    BY <1>2, <1>4, Zenon DEF ButtonDown

\* Nothing else the user and Win32 do presses a button.
LEMMA OthersPressNothing ==
    ASSUME TypeInv, PointerStep \/ FocusStep, \A button \in PointerButtons : ~ButtonDown(button)
    PROVE  FewerButtons
  <1>1. AgentTypeOK /\ OneAlive(capture) /\ OneAlive(focus)
    BY DEF TypeInv, AgentTypeOK
  <1>2. \A id \in DOMAIN proxies : proxies[id] \in ProxyType
    BY <1>1 DEF AgentTypeOK
  <1>3. CASE proxies' = proxies
    BY <1>3 DEF FewerButtons
  <1>4. ASSUME NEW id \in DOMAIN proxies, NEW new, proxies' = [proxies EXCEPT ![id] = new],
               new.buttons \subseteq proxies[id].buttons
        PROVE  FewerButtons
    BY <1>4 DEF FewerButtons
  <1>5. \A id \in DOMAIN proxies :
           /\ \A t : [proxies[id] EXCEPT !.tracking = t].buttons = proxies[id].buttons
           /\ \A t : [proxies[id] EXCEPT !.keys = t].buttons = proxies[id].buttons
           /\ \A t : [proxies[id] EXCEPT !.buttons = t].buttons = t
           /\ Unfocused(id).buttons = proxies[id].buttons
    BY <1>2 DEF ProxyType, Unfocused
  <1>m. ASSUME NEW point \in CursorPoints, MouseMove(point) PROVE FewerButtons
    <2>1. ASSUME NEW id \in Target(point), proxies' = [proxies EXCEPT ![id].tracking = TRUE]
          PROVE  FewerButtons
      <3>1. id \in DOMAIN proxies
        BY <1>1, TargetsAreAlive
      <3>2. proxies' = [proxies EXCEPT ![id] = [proxies[id] EXCEPT !.tracking = TRUE]]
        BY <2>1
      <3>. QED
        BY <1>4, <1>5, <3>1, <3>2
    <2>. QED
      BY <1>m, <1>3, <2>1, Zenon DEF MouseMove
  <1>l. ASSUME NEW id \in DOMAIN proxies, MouseLeave(id) PROVE FewerButtons
    <2>1. proxies' = [proxies EXCEPT ![id] = [proxies[id] EXCEPT !.tracking = FALSE]]
      BY <1>l DEF MouseLeave
    <2>. QED
      BY <1>4, <1>5, <2>1
  <1>w. ASSUME MouseWheel PROVE FewerButtons
    BY <1>w, <1>3 DEF MouseWheel, agentVars
  <1>u. ASSUME NEW button \in PointerButtons, ButtonUp(button) PROVE FewerButtons
    <2>1. ASSUME NEW id \in Target(cursor), proxies' = [proxies EXCEPT ![id].buttons = @ \ {button}]
          PROVE  FewerButtons
      <3>. DEFINE kept == proxies[id].buttons \ {button}
      <3>1. id \in DOMAIN proxies
        BY <1>1, TargetsAreAlive
      <3>2. proxies' = [proxies EXCEPT ![id] = [proxies[id] EXCEPT !.buttons = kept]]
        BY <2>1
      <3>3. kept \subseteq proxies[id].buttons
        OBVIOUS
      <3>. HIDE DEF kept
      <3>. QED
        BY <1>4, <1>5, <3>1, <3>2, <3>3
    <2>. QED
      BY <1>u, <1>3, <2>1, Zenon DEF ButtonUp
  <1>t. ASSUME CaptureTaken PROVE FewerButtons
    <2>1. PICK id \in capture : proxies' = [proxies EXCEPT ![id].buttons = {}]
      BY <1>t DEF CaptureTaken
    <2>2. id \in DOMAIN proxies /\ proxies' = [proxies EXCEPT ![id] = [proxies[id] EXCEPT !.buttons = {}]]
      BY <1>1, <2>1 DEF OneAlive
    <2>. QED
      BY <1>4, <1>5, <2>2
  <1>f. ASSUME FocusLeaves PROVE FewerButtons
    <2>1. PICK id \in focus : proxies' = [proxies EXCEPT ![id] = Unfocused(id)]
      BY <1>f DEF FocusLeaves
    <2>2. id \in DOMAIN proxies
      BY <1>1, <2>1 DEF OneAlive
    <2>. QED
      BY <1>4, <1>5, <2>1, <2>2
  <1>c. ASSUME NEW id \in DOMAIN proxies, FocusComes(id) PROVE FewerButtons
    BY <1>1, <1>c, FocusedOnFacts DEF FocusComes, FewerButtons
  <1>k. ASSUME NEW key \in Keys, NEW down \in BOOLEAN, Key(key, down) PROVE FewerButtons
    <2>1. PICK id \in focus :
             proxies' = [proxies EXCEPT ![id].keys = IF down THEN @ \cup {key} ELSE @ \ {key}]
      BY <1>k DEF Key
    <2>. DEFINE keys == IF down THEN proxies[id].keys \cup {key} ELSE proxies[id].keys \ {key}
    <2>2. proxies' = [proxies EXCEPT ![id] = [proxies[id] EXCEPT !.keys = keys]]
      BY <2>1
    <2>. HIDE DEF keys
    <2>3. id \in DOMAIN proxies
      BY <1>1, <2>1 DEF OneAlive
    <2>. QED
      BY <1>4, <1>5, <2>2, <2>3
  <1>. QED
    BY <1>m, <1>l, <1>w, <1>u, <1>t, <1>f, <1>c, <1>k DEF PointerStep, FocusStep

\* A press on a popup leaves text input with its top-level window, for any
\* windows, presentations and user, as long as no popup is created for a popup
\* (proxy_window.cpp: WM_*BUTTONDOWN, SetFocus of GW_OWNER).
THEOREM TextInputAlwaysStays ==
    ASSUME NoPopupOfAPopup
    PROVE  Spec => TextInputStaysWithTheTopLevel
  <1>1. Init => ParentInv
    BY DEF Init, AgentInit, Empty, ParentInv
  <1>2. TypeInv /\ ParentInv /\ [Next]_vars => ParentInv'
    BY ParentStep
  <1>3. FewerButtons => TextInputStays
    BY DEF FewerButtons, TextInputStays
  <1>4. ASSUME TypeInv, ParentInv, Next PROVE TextInputStays
    <2>1. CASE UserStep
      <3>1. PointerStep \/ FocusStep
        BY <2>1 DEF UserStep
      <3>. QED
        BY <1>3, <1>4, <3>1, PressFocusesTheOwner, OthersPressNothing
    <2>2. CASE UNCHANGED agentVars
      BY <2>2 DEF agentVars, TextInputStays
    <2>3. ExporterStep \/ ExporterReads => UNCHANGED agentVars
      BY DEF ExporterStep, ExporterReads, ExporterCloses, SendConfig, SendCreate, SendPresent,
             SendActivate, SendDestroy, ExporterSends
    <2>. QED
      BY <1>3, <1>4, <2>1, <2>2, <2>3, ThreadKeepsParents DEF Next, ThreadStep
  <1>5. TypeInv /\ ParentInv /\ [Next]_vars => [TextInputStays]_vars
    BY <1>4
  <1>6. Spec => [][TextInputStays]_vars
    BY <1>1, <1>2, <1>5, TypesInvariant, PTL DEF Spec
  <1>. QED
    BY <1>6 DEF TextInputStaysWithTheTopLevel, TextInputStays
=============================================================================
