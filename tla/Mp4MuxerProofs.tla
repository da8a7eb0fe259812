--------------------------- MODULE Mp4MuxerProofs ---------------------------
(***************************************************************************)
(* Proofs about Mp4Muxer.                                                  *)
(***************************************************************************)
EXTENDS Mp4Muxer, FiniteSetTheorems, WellFoundedInduction, TLAPS

-----------------------------------------------------------------------------
(* Numbers *)

\* A set of numbers has a least one.
LEMMA LeastOf ==
    ASSUME NEW T \in SUBSET Nat, T # {}
    PROVE  \E x \in T : \A y \in T : x <= y
<1>1. \E x \in T : \A y \in T : ~(<<y, x>> \in OpToRel(<, Nat))
    BY NatLessThanWellFounded, WFMin
<1>2. \A x, y \in Nat : y < x => <<y, x>> \in OpToRel(<, Nat)
    BY DEF OpToRel
<1>3. \E x \in T : \A y \in T : ~(y < x)
    BY <1>1, <1>2, Zenon
<1> QED
    BY <1>3

\* The number after the one before
LEMMA NextOfLast ==
    ASSUME NEW n, NEW i \in 1 .. n
    PROVE  (i - 1) + 1 = i
    OBVIOUS

-----------------------------------------------------------------------------
(* Sequences of sequences *)

\* The function that FlattenSeq computes
FlattenTo(S, n, g) == g = [i \in 1 .. n |-> IF i = 1 THEN S[i] ELSE g[i - 1] \o S[i]]

\* It exists.
LEMMA FlattenExists ==
    ASSUME NEW S, NEW n \in Nat
    PROVE  \E g : FlattenTo(S, n, g)
<1> DEFINE T == {k \in Nat : ~ \E g : FlattenTo(S, k, g)}
<1> SUFFICES ASSUME T # {} PROVE FALSE
    OBVIOUS
<1>1. PICK k \in T : \A l \in T : k <= l
    BY LeastOf
<1>2. k \in Nat /\ ~ \E g : FlattenTo(S, k, g)
    OBVIOUS
<1>3. k # 0
  <2>1. FlattenTo(S, 0, [i \in 1 .. 0 |-> S[i]])
      BY DEF FlattenTo
  <2> QED
      BY <1>2, <2>1
<1>4. k - 1 \in Nat /\ k - 1 \notin T
    BY <1>1, <1>2, <1>3
<1>5. PICK g : FlattenTo(S, k - 1, g)
    BY <1>4
<1> DEFINE h == [i \in 1 .. k |-> IF i = 1 THEN S[i] ELSE g[i - 1] \o S[i]]
<1>6. ASSUME NEW i \in 1 .. k - 1 PROVE h[i] = g[i]
  <2>1. g[i] = IF i = 1 THEN S[i] ELSE g[i - 1] \o S[i]
      BY <1>5, Zenon DEF FlattenTo
  <2>2. i \in 1 .. k
      BY <1>2
  <2> QED
      BY <2>1, <2>2, Zenon
<1>7. \A i \in 1 .. k : i # 1 => i - 1 \in 1 .. k - 1
    BY <1>2
<1>8. \A i \in 1 .. k : (IF i = 1 THEN S[i] ELSE g[i - 1] \o S[i])
                         = (IF i = 1 THEN S[i] ELSE h[i - 1] \o S[i])
  <2> HIDE DEF h
  <2> QED
      BY <1>6, <1>7, Zenon
<1>9. h = [i \in 1 .. k |-> IF i = 1 THEN S[i] ELSE h[i - 1] \o S[i]]
    BY <1>8, Zenon
<1> QED
    BY <1>2, <1>9 DEF FlattenTo

\* FlattenSeq builds the flattened sequence from its prefixes.
LEMMA FlattenIs ==
    ASSUME NEW S, Len(S) \in Nat, Len(S) # 0
    PROVE  \E g : FlattenTo(S, Len(S), g) /\ FlattenSeq(S) = g[Len(S)]
<1> DEFINE f == CHOOSE g : FlattenTo(S, Len(S), g)
<1>1. FlattenTo(S, Len(S), f)
    BY FlattenExists
<1>2. FlattenSeq(S) = f[Len(S)]
    BY DEF FlattenSeq, FlattenTo
<1> QED
    BY <1>1, <1>2

\* Where each sequence starts in the flattened one
Starts(S, b) ==
    /\ b \in [1 .. Len(S) + 1 -> Nat] /\ b[1] = 0
    /\ \A i \in 1 .. Len(S) : b[i + 1] = b[i] + Len(S[i])

\* The flattened sequence
IsFlat(S, b, r) ==
    /\ Starts(S, b) /\ Len(r) = b[Len(S) + 1]
    /\ \A i \in 1 .. Len(S) : \A j \in 1 .. Len(S[i]) : r[b[i] + j] = S[i][j]

\* What a concatenation holds, and where.
LEMMA ConcatFacts ==
    ASSUME NEW V, NEW s \in Seq(V), NEW t \in Seq(V)
    PROVE  /\ s \o t \in Seq(V) /\ Len(s) \in Nat /\ Len(t) \in Nat
           /\ Len(s \o t) = Len(s) + Len(t)
           /\ \A h \in 1 .. Len(s) : (s \o t)[h] = s[h]
           /\ \A h \in 1 .. Len(t) : (s \o t)[Len(s) + h] = t[h]
    OBVIOUS

\* The same for three sequences
LEMMA ConcatIs ==
    ASSUME NEW V, NEW s \in Seq(V), NEW t \in Seq(V), NEW u, u = s \o t
    PROVE  /\ u \in Seq(V) /\ Len(s) \in Nat /\ Len(t) \in Nat
           /\ Len(u) = Len(s) + Len(t)
           /\ \A h \in 1 .. Len(s) : u[h] = s[h]
           /\ \A h \in 1 .. Len(t) : u[Len(s) + h] = t[h]
    OBVIOUS

\* A prefix is the one before with one more sequence at its end.
LEMMA FlattenStep ==
    ASSUME NEW V, NEW S \in Seq(Seq(V)), NEW g, FlattenTo(S, Len(S), g), NEW k \in 1 .. Len(S)
    PROVE  /\ k = 1 => g[k] = S[k]
           /\ k # 1 => k - 1 \in 1 .. Len(S) /\ g[k] = g[k - 1] \o S[k]
<1>1. g[k] = IF k = 1 THEN S[k] ELSE g[k - 1] \o S[k]
    BY Zenon DEF FlattenTo
<1>2. k # 1 => k - 1 \in 1 .. Len(S)
    OBVIOUS
<1> QED
    BY <1>1, <1>2, Zenon

\* Every prefix is a sequence of the same kind.
LEMMA FlattenSeqs ==
    ASSUME NEW V, NEW S \in Seq(Seq(V)), NEW g, FlattenTo(S, Len(S), g)
    PROVE  \A k \in 1 .. Len(S) : g[k] \in Seq(V)
<1> DEFINE T == {k \in 1 .. Len(S) : g[k] \notin Seq(V)}
<1> SUFFICES ASSUME T # {} PROVE FALSE
    OBVIOUS
<1>1. T \in SUBSET Nat
    OBVIOUS
<1>2. PICK k \in T : \A l \in T : k <= l
  <2> HIDE DEF T
  <2> QED
      BY <1>1, LeastOf
<1>3. k \in 1 .. Len(S) /\ g[k] \notin Seq(V) /\ S[k] \in Seq(V)
    OBVIOUS
<1>4. k # 1 /\ k - 1 \in 1 .. Len(S) /\ g[k] = g[k - 1] \o S[k]
  <2>1. /\ k = 1 => g[k] = S[k]
        /\ k # 1 => k - 1 \in 1 .. Len(S) /\ g[k] = g[k - 1] \o S[k]
      BY <1>3, FlattenStep, Zenon
  <2>2. k # 1
      BY <1>3, <2>1, Zenon
  <2> QED
      BY <2>1, <2>2, Zenon
<1>5. k - 1 \notin T
    BY <1>2, <1>3
<1>6. g[k - 1] \in Seq(V)
    BY <1>4, <1>5
<1> QED
    BY <1>3, <1>4, <1>6, ConcatFacts, Zenon

\* What FlattenSeq holds, and where: every sequence follows the ones before it.
LEMMA FlattenFacts ==
    ASSUME NEW V, NEW S \in Seq(Seq(V))
    PROVE  FlattenSeq(S) \in Seq(V) /\ \E b : IsFlat(S, b, FlattenSeq(S))
<1> DEFINE n == Len(S)
           r == FlattenSeq(S)
<1>1. n \in Nat
    OBVIOUS
<1>2. CASE n = 0
  <2> DEFINE b == [i \in 1 .. n + 1 |-> 0]
  <2>1. r = S /\ S = <<>>
      BY <1>2 DEF FlattenSeq
  <2>2. IsFlat(S, b, r)
      BY <1>2, <2>1 DEF IsFlat, Starts
  <2>3. r \in Seq(V)
      BY <2>1
  <2> QED
      BY <2>2, <2>3
<1>3. CASE n # 0
  <2>1. PICK g : FlattenTo(S, n, g) /\ r = g[n]
      BY <1>1, <1>3, FlattenIs
  <2> HIDE DEF r
  <2> DEFINE b == [i \in 1 .. n + 1 |-> IF i = 1 THEN 0 ELSE Len(g[i - 1])]
  <2>2. \A k \in 1 .. n : g[k] \in Seq(V)
      BY <2>1, FlattenSeqs
  <2>3. \A k \in 1 .. n : /\ k = 1 => g[k] = S[k]
                          /\ k # 1 => k - 1 \in 1 .. n /\ g[k] = g[k - 1] \o S[k]
      BY <2>1, FlattenStep
  <2>4. \A k \in 1 .. n : S[k] \in Seq(V) /\ Len(S[k]) \in Nat /\ Len(g[k]) \in Nat
      BY <2>2
  <2>5. b \in [1 .. n + 1 -> Nat] /\ b[1] = 0
    <3>1. ASSUME NEW i \in 1 .. n + 1, i # 1 PROVE Len(g[i - 1]) \in Nat
      <4>1. i - 1 \in 1 .. n
          BY <1>1, <3>1
      <4> QED
          BY <2>4, <4>1
    <3>2. 1 \in 1 .. n + 1
        BY <1>1
    <3> QED
        BY <3>1, <3>2
  <2>6. \A i \in 1 .. n : b[i + 1] = Len(g[i])
      BY <1>1
  <2> HIDE DEF b
  <2>7. \A i \in 1 .. n : b[i + 1] = b[i] + Len(S[i])
    <3> SUFFICES ASSUME NEW i \in 1 .. n PROVE Len(g[i]) = b[i] + Len(S[i])
        BY <2>6
    <3>1. CASE i = 1
      <4>1. Len(g[i]) = Len(S[i]) /\ Len(S[i]) \in Nat /\ b[i] = 0
          BY <2>3, <2>4, <2>5, <3>1, Zenon
      <4> HIDE DEF n
      <4> QED
          BY <4>1
    <3>2. CASE i # 1
      <4>1. i - 1 \in 1 .. n /\ g[i] = g[i - 1] \o S[i]
          BY <2>3, <3>2, Zenon
      <4>2. b[(i - 1) + 1] = Len(g[i - 1])
          BY <2>6, <4>1, Zenon
      <4>3. (i - 1) + 1 = i
          BY NextOfLast, Zenon
      <4>4. b[i] = Len(g[i - 1])
          BY <4>2, <4>3, Zenon
      <4>5. g[i - 1] \in Seq(V) /\ S[i] \in Seq(V)
          BY <2>2, <2>4, <4>1, Zenon
      <4>6. Len(g[i]) = Len(g[i - 1]) + Len(S[i])
        <5> DEFINE x == g[i]
                   y == g[i - 1]
                   z == S[i]
        <5>2. y \in Seq(V) /\ z \in Seq(V) /\ x = y \o z
            BY <4>1, <4>5, Zenon
        <5> SUFFICES Len(x) = Len(y) + Len(z)
            BY Zenon
        <5> HIDE DEF x, y, z
        <5> QED
            BY <5>2
      <4> QED
          BY <4>1, <4>4, <4>6, Zenon
    <3> QED
        BY <3>1, <3>2
  <2> DEFINE In(k, i, j) == b[i] + j \in 1 .. Len(g[k]) /\ g[k][b[i] + j] = S[i][j]
             Q(k) == \A i \in 1 .. k : \A j \in 1 .. Len(S[i]) : In(k, i, j)
  <2>8. ASSUME NEW k \in 1 .. n, k - 1 \in 1 .. n => Q(k - 1) PROVE Q(k)
    <3> SUFFICES ASSUME NEW i \in 1 .. k, NEW j \in 1 .. Len(S[i]) PROVE In(k, i, j)
        BY Zenon
    <3>1. i \in 1 .. n /\ 1 \in 1 .. n + 1 /\ i \in 1 .. n + 1
        BY <1>1, <2>8
    <3>2. Len(S[i]) \in Nat /\ b[i] \in Nat
        BY <2>4, <2>5, <3>1, Zenon
    <3>3. CASE k = 1
      <4>1. i = 1
          BY <3>3
      <4>2. g[k] = S[i] /\ b[i] = 0
          BY <2>3, <2>5, <3>3, <4>1, Zenon
      <4>3. b[i] + j = j
          BY <3>2, <4>2
      <4> QED
          BY <4>2, <4>3, Zenon
    <3>4. CASE k # 1
      <4>1. k - 1 \in 1 .. n /\ g[k] = g[k - 1] \o S[k]
          BY <2>3, <3>4, Zenon
      <4>2. b[(k - 1) + 1] = Len(g[k - 1])
          BY <2>6, <4>1, Zenon
      <4>2a. (k - 1) + 1 = k
          BY NextOfLast, Zenon
      <4>2b. b[k] = Len(g[k - 1])
          BY <4>2, <4>2a, Zenon
      <4>3. /\ Len(g[k - 1]) \in Nat /\ Len(S[k]) \in Nat
            /\ Len(g[k]) = Len(g[k - 1]) + Len(S[k])
            /\ \A h \in 1 .. Len(g[k - 1]) : g[k][h] = g[k - 1][h]
            /\ \A h \in 1 .. Len(S[k]) : g[k][Len(g[k - 1]) + h] = S[k][h]
        <5>1. g[k - 1] \in Seq(V) /\ S[k] \in Seq(V)
            BY <2>2, <2>4, <4>1, Zenon
        <5> DEFINE x == g[k]
                   y == g[k - 1]
                   z == S[k]
        <5>2. y \in Seq(V) /\ z \in Seq(V) /\ x = y \o z
            BY <4>1, <5>1, Zenon
        <5> SUFFICES /\ Len(y) \in Nat /\ Len(z) \in Nat
                     /\ Len(x) = Len(y) + Len(z)
                     /\ \A h \in 1 .. Len(y) : x[h] = y[h]
                     /\ \A h \in 1 .. Len(z) : x[Len(y) + h] = z[h]
            BY Zenon
        <5> HIDE DEF x, y, z
        <5> QED
            BY <5>2, ConcatIs
      <4>4. CASE i = k
        <5>1. j \in 1 .. Len(S[k]) /\ g[k][b[i] + j] = S[i][j]
            BY <4>2b, <4>3, <4>4, Zenon
        <5> DEFINE x == Len(S[k])
                   y == Len(g[k - 1])
                   z == Len(g[k])
        <5>2. x \in Nat /\ y \in Nat /\ z = y + x /\ j \in 1 .. x /\ b[i] = y
            BY <4>2b, <4>3, <4>4, <5>1, Zenon
        <5> HIDE DEF x, y, z
        <5>3. b[i] + j \in 1 .. z
            BY <5>2
        <5> QED
            BY <5>1, <5>3, Zenon DEF z
      <4>5. CASE i # k
        <5>1. i \in 1 .. k - 1
            BY <4>5
        <5>2. In(k - 1, i, j)
            BY <2>8, <4>1, <5>1, Zenon
        <5> DEFINE x == Len(S[k])
                   y == Len(g[k - 1])
                   z == Len(g[k])
        <5>3. x \in Nat /\ y \in Nat /\ z = y + x /\ b[i] + j \in 1 .. y
            BY <4>3, <5>2, Zenon
        <5>4. g[k][b[i] + j] = S[i][j]
            BY <4>3, <5>2, Zenon
        <5> HIDE DEF x, y, z
        <5>5. b[i] + j \in 1 .. z
            BY <5>3
        <5> QED
            BY <5>4, <5>5, Zenon DEF z
      <4> QED
          BY <4>4, <4>5
    <3> QED
        BY <3>3, <3>4
  <2> HIDE DEF Q
  <2>8a. \A k \in 1 .. n : Q(k)
    <3> DEFINE T == {k \in 1 .. n : ~Q(k)}
    <3> SUFFICES ASSUME T # {} PROVE FALSE
        BY Zenon
    <3>1. T \in SUBSET Nat
        BY <1>1
    <3>2. PICK k \in T : \A l \in T : k <= l
      <4> HIDE DEF T
      <4> QED
          BY <3>1, LeastOf
    <3>3. k \in 1 .. n /\ ~Q(k)
        BY Zenon
    <3>4. PICK l \in 1 .. n : l = k - 1 /\ ~Q(l)
        BY <2>8, <3>3, Zenon
    <3>5. l \in T
        BY <3>4, Zenon
    <3> QED
        BY <1>1, <3>2, <3>3, <3>4, <3>5
  <2>9. n \in 1 .. n /\ \A i \in 1 .. n : i \in 1 .. n
      BY <1>1, <1>3
  <2>10. r \in Seq(V) /\ Len(r) = b[n + 1]
      BY <2>1, <2>2, <2>6, <2>9
  <2>11. \A i \in 1 .. n : \A j \in 1 .. Len(S[i]) : r[b[i] + j] = S[i][j]
      BY <2>1, <2>8a, <2>9, Zenon DEF Q
  <2>12. IsFlat(S, b, r)
      BY <2>5, <2>7, <2>10, <2>11, Zenon DEF IsFlat, Starts
  <2> QED
      BY <2>10, <2>12, Zenon DEF r
<1> QED
    BY <1>2, <1>3

-----------------------------------------------------------------------------
(* The frames of a stream *)

\* The media set of a job, with the streams S and the sources D
ClipsOK(clips, S, D) ==
    /\ clips \in Seq(Seq(Track)) /\ clips # <<>>
    /\ \A c \in 1 .. Len(clips) :
         /\ DOMAIN clips[c] = S
         /\ \A s \in S :
              /\ clips[c][s].parts # <<>>
              /\ \A p \in 1 .. Len(clips[c][s].parts) :
                   /\ clips[c][s].parts[p].source \in D
                   /\ p > 1 => clips[c][s].parts[p].frames # <<>>

PartCount(clips, c, s) == Len(clips[c][s].parts)
PartLen(clips, c, s, p) == Len(clips[c][s].parts[p].frames)

\* The parts of the tracks are what Part says, and only the first one may be empty.
LEMMA PartFacts ==
    ASSUME NEW clips, NEW S, NEW D, ClipsOK(clips, S, D), NEW c \in 1 .. Len(clips), NEW s \in S
    PROVE  /\ clips[c][s].parts \in Seq(Part) /\ clips[c][s].start \in Nat
           /\ PartCount(clips, c, s) \in Nat \ {0}
           /\ \A p \in 1 .. PartCount(clips, c, s) :
                /\ clips[c][s].parts[p] \in Part
                /\ clips[c][s].parts[p].source \in D
                /\ clips[c][s].parts[p].frames \in Seq(Frame)
                /\ PartLen(clips, c, s, p) \in Nat
                /\ p > 1 => PartLen(clips, c, s, p) > 0
<1>1. clips \in Seq(Seq(Track))
    BY DEF ClipsOK
<1>2. clips[c] \in Seq(Track) /\ s \in DOMAIN clips[c]
    BY <1>1 DEF ClipsOK
<1>3. clips[c][s] \in Track
    BY <1>2
<1>4. clips[c][s].parts \in Seq(Part) /\ clips[c][s].start \in Nat
    BY <1>3 DEF Track
<1> DEFINE P == clips[c][s].parts
<1>5. P # <<>> /\ \A p \in 1 .. Len(P) : P[p].source \in D /\ (p > 1 => P[p].frames # <<>>)
    BY Zenon DEF ClipsOK
<1>6. P \in Seq(Part)
    BY <1>4
<1> SUFFICES /\ Len(P) \in Nat \ {0}
             /\ \A p \in 1 .. Len(P) :
                /\ P[p] \in Part
                /\ P[p].source \in D
                /\ P[p].frames \in Seq(Frame)
                /\ Len(P[p].frames) \in Nat
                /\ p > 1 => Len(P[p].frames) > 0
    BY <1>4, Zenon DEF PartCount, PartLen
<1> HIDE DEF P
<1>7. Len(P) \in Nat \ {0}
    BY <1>5, <1>6
<1>8. \A p \in 1 .. Len(P) : P[p] \in Part
    BY <1>6
<1>9. \A p \in 1 .. Len(P) : P[p].frames \in Seq(Frame)
    BY <1>8 DEF Part
<1>10. ASSUME NEW p \in 1 .. Len(P) 
       PROVE  Len(P[p].frames) \in Nat /\ (p > 1 => Len(P[p].frames) > 0)
  <2> DEFINE F == P[p].frames
  <2>1. F \in Seq(Frame) /\ (p > 1 => F # <<>>)
      BY <1>5, <1>9, Zenon
  <2> SUFFICES Len(F) \in Nat /\ (p > 1 => Len(F) > 0)
      OBVIOUS
  <2> HIDE DEF F
  <2> QED
      BY <2>1
<1> QED
    BY <1>5, <1>7, <1>8, <1>9, <1>10, Zenon

Sourced == [source: Nat, frame: Frame]

PartFrames(p) == [i \in DOMAIN p.frames |-> [source |-> p.source, frame |-> p.frames[i]]]
TrackParts(t) == [i \in DOMAIN t.parts |-> PartFrames(t.parts[i])]
StreamTracks(clips, s) == [c \in DOMAIN clips |-> FlattenSeq(TrackParts(clips[c][s]))]

\* The frames of a part, each with the part's source.
LEMMA PartFramesFacts ==
    ASSUME NEW p \in Part
    PROVE  /\ PartFrames(p) \in Seq(Sourced)
           /\ Len(PartFrames(p)) = Len(p.frames)
           /\ \A i \in 1 .. Len(p.frames) :
                PartFrames(p)[i] = [source |-> p.source, frame |-> p.frames[i]]
<1>1. p.frames \in Seq(Frame) /\ p.source \in Nat
    BY DEF Part
<1> DEFINE F == p.frames
<1>2. \A i \in 1 .. Len(F) : [source |-> p.source, frame |-> F[i]] \in Sourced
    BY <1>1 DEF Sourced
<1>3. DOMAIN F = 1 .. Len(F) /\ Len(F) \in Nat
    BY <1>1
<1>4. PartFrames(p) = [i \in 1 .. Len(F) |-> [source |-> p.source, frame |-> F[i]]]
    BY <1>3, Zenon DEF PartFrames
<1> HIDE DEF F
<1>5. /\ PartFrames(p) \in Seq(Sourced)
      /\ Len(PartFrames(p)) = Len(F)
      /\ \A i \in 1 .. Len(F) :
           PartFrames(p)[i] = [source |-> p.source, frame |-> F[i]]
    BY <1>2, <1>3, <1>4
<1> QED
    BY <1>5, Zenon DEF F

\* The frame f of a part
FrameIn(clips, c, s, p, f) ==
    [source |-> clips[c][s].parts[p].source, frame |-> clips[c][s].parts[p].frames[f]]

\* Where the parts of a track start among its frames
PartStarts(clips, c, s, d) ==
    /\ d \in [1 .. PartCount(clips, c, s) + 1 -> Nat] /\ d[1] = 0
    /\ \A p \in 1 .. PartCount(clips, c, s) : d[p + 1] = d[p] + PartLen(clips, c, s, p)

TrackOf(clips, c, s) == FlattenSeq(TrackParts(clips[c][s]))

InTrack(clips, c, s, d) ==
    /\ PartStarts(clips, c, s, d)
    /\ TrackOf(clips, c, s) \in Seq(Sourced)
    /\ Len(TrackOf(clips, c, s)) = d[PartCount(clips, c, s) + 1]
    /\ \A p \in 1 .. PartCount(clips, c, s) : \A f \in 1 .. PartLen(clips, c, s, p) :
         TrackOf(clips, c, s)[d[p] + f] = FrameIn(clips, c, s, p, f)

\* The frames of a track are those of its parts, one part after the other.
LEMMA TrackFacts ==
    ASSUME NEW clips, NEW S, NEW D, ClipsOK(clips, S, D), NEW c \in 1 .. Len(clips), NEW s \in S
    PROVE  \E d : InTrack(clips, c, s, d)
<1> DEFINE P == clips[c][s].parts
           X == TrackParts(clips[c][s])
           n == Len(P)
<1>1. /\ P \in Seq(Part)
      /\ PartCount(clips, c, s) = n
      /\ n \in Nat
  <2>1. P \in Seq(Part) /\ PartCount(clips, c, s) = n /\ PartCount(clips, c, s) \in Nat \ {0}
      BY PartFacts, Zenon DEF PartCount
  <2> QED
      BY <2>1
<1>2. X = [i \in DOMAIN P |-> PartFrames(P[i])]
    BY Zenon DEF TrackParts
<1> DEFINE F(p) == Len(P[p].frames)
<1>3. \A p : PartLen(clips, c, s, p) = F(p)
    BY Zenon DEF PartLen
<1>4. \A p, f : FrameIn(clips, c, s, p, f) = [source |-> P[p].source, frame |-> P[p].frames[f]]
    BY Zenon DEF FrameIn
<1>5. TrackOf(clips, c, s) = FlattenSeq(X)
    BY Zenon DEF TrackOf
<1> HIDE DEF P, X
<1>6. DOMAIN P = 1 .. n
    BY <1>1
<1>7. \A p \in 1 .. n : P[p] \in Part
    BY <1>1
<1>8. \A p \in 1 .. n : /\ PartFrames(P[p]) \in Seq(Sourced)
                        /\ Len(PartFrames(P[p])) = F(p)
                        /\ \A i \in 1 .. F(p) :
                             PartFrames(P[p])[i] = [source |-> P[p].source, frame |-> P[p].frames[i]]
    BY <1>7, PartFramesFacts, Zenon
<1>9. X \in Seq(Seq(Sourced)) /\ Len(X) = n /\ \A p \in 1 .. n : X[p] = PartFrames(P[p])
  <2>1. X = [i \in 1 .. n |-> PartFrames(P[i])]
      BY <1>2, <1>6, Zenon
  <2>2. \A p \in 1 .. n : PartFrames(P[p]) \in Seq(Sourced)
      BY <1>8, Zenon
  <2> DEFINE V == Seq(Sourced)
             G(p) == PartFrames(P[p])
  <2>3. X = [i \in 1 .. n |-> G(i)] /\ (\A p \in 1 .. n : G(p) \in V) /\ n \in Nat
      BY <1>1, <2>1, <2>2, Zenon
  <2> SUFFICES X \in Seq(V) /\ Len(X) = n /\ \A p \in 1 .. n : X[p] = G(p)
      BY Zenon
  <2> HIDE DEF V, G, n
  <2> QED
      BY <2>3
<1>10. PICK d : FlattenSeq(X) \in Seq(Sourced) /\ IsFlat(X, d, FlattenSeq(X))
    BY <1>9, FlattenFacts, Zenon
<1>11. /\ d \in [1 .. n + 1 -> Nat] /\ d[1] = 0
       /\ Len(FlattenSeq(X)) = d[n + 1]
       /\ \A i \in 1 .. n : d[i + 1] = d[i] + Len(X[i])
       /\ \A i \in 1 .. n : \A j \in 1 .. Len(X[i]) : FlattenSeq(X)[d[i] + j] = X[i][j]
    BY <1>9, <1>10, Zenon DEF IsFlat, Starts
<1>12. \A i \in 1 .. n : Len(X[i]) = F(i)
    BY <1>8, <1>9, Zenon
<1>13. \A i \in 1 .. n : d[i + 1] = d[i] + F(i)
    BY <1>11, <1>12, Zenon
<1>14. \A i \in 1 .. n : \A j \in 1 .. F(i) :
          FlattenSeq(X)[d[i] + j] = [source |-> P[i].source, frame |-> P[i].frames[j]]
  <2> TAKE i \in 1 .. n
  <2> TAKE j \in 1 .. F(i)
  <2>1. X[i] = PartFrames(P[i]) /\ j \in 1 .. Len(X[i])
      BY <1>9, <1>12, Zenon
  <2>2. FlattenSeq(X)[d[i] + j] = X[i][j]
      BY <1>11, <2>1, Zenon
  <2>3. X[i][j] = [source |-> P[i].source, frame |-> P[i].frames[j]]
      BY <1>8, <2>1, Zenon
  <2> QED
      BY <2>2, <2>3, Zenon
<1>15. PartStarts(clips, c, s, d)
  <2>1. d \in [1 .. PartCount(clips, c, s) + 1 -> Nat] /\ d[1] = 0
      BY <1>1, <1>11, Zenon
  <2>2. \A p \in 1 .. PartCount(clips, c, s) : d[p + 1] = d[p] + PartLen(clips, c, s, p)
    <3> SUFFICES ASSUME NEW p \in 1 .. PartCount(clips, c, s)
                 PROVE  d[p + 1] = d[p] + PartLen(clips, c, s, p)
        OBVIOUS
    <3>1. p \in 1 .. n
        BY <1>1, Zenon
    <3>2. d[p + 1] = d[p] + F(p)
        BY <1>13, <3>1, Zenon
    <3> QED
        BY <1>3, <3>2, Zenon
  <2> QED
      BY <2>1, <2>2, Zenon DEF PartStarts
<1>16. Len(TrackOf(clips, c, s)) = d[PartCount(clips, c, s) + 1]
    BY <1>1, <1>5, <1>11, Zenon
<1>17. \A p \in 1 .. PartCount(clips, c, s) : \A f \in 1 .. PartLen(clips, c, s, p) :
         TrackOf(clips, c, s)[d[p] + f] = FrameIn(clips, c, s, p, f)
  <2> TAKE p \in 1 .. PartCount(clips, c, s)
  <2> TAKE f \in 1 .. PartLen(clips, c, s, p)
  <2>1. p \in 1 .. n /\ f \in 1 .. F(p)
      BY <1>1, <1>3, Zenon
  <2>2. FlattenSeq(X)[d[p] + f] = [source |-> P[p].source, frame |-> P[p].frames[f]]
      BY <1>14, <2>1, Zenon
  <2> QED
      BY <1>4, <1>5, <2>2, Zenon
<1>18. InTrack(clips, c, s, d)
    BY <1>5, <1>10, <1>15, <1>16, <1>17, Zenon DEF InTrack
<1> QED
    BY <1>18

\* Where the parts of a stream start among all its frames
IsBase(clips, s, b, d) ==
    /\ b \in [1 .. Len(clips) + 1 -> Nat] /\ b[1] = 0
    /\ \A c \in 1 .. Len(clips) :
         /\ InTrack(clips, c, s, d[c])
         /\ b[c + 1] = b[c] + d[c][PartCount(clips, c, s) + 1]
         /\ \A f \in 1 .. Len(TrackOf(clips, c, s)) :
              FramesOf(clips, s)[b[c] + f] = TrackOf(clips, c, s)[f]
    /\ FramesOf(clips, s) \in Seq(Sourced)
    /\ Len(FramesOf(clips, s)) = b[Len(clips) + 1]

\* The frames of a stream are those of its tracks, one clip after the other.
LEMMA BaseExists ==
    ASSUME NEW clips, NEW S, NEW D, ClipsOK(clips, S, D), NEW s \in S
    PROVE  \E b, d : IsBase(clips, s, b, d)
<1> DEFINE X == [c \in DOMAIN clips |-> TrackOf(clips, c, s)]
           n == Len(clips)
           d == [c \in 1 .. n |-> CHOOSE e : InTrack(clips, c, s, e)]
<1>1. DOMAIN clips = 1 .. n /\ n \in Nat
    BY DEF ClipsOK
<1>2. FramesOf(clips, s) = FlattenSeq(X)
    BY DEF FramesOf, TrackOf, TrackParts, PartFrames
<1>3. \A c \in 1 .. n : InTrack(clips, c, s, d[c])
  <2> TAKE c \in 1 .. n
  <2>1. \E e : InTrack(clips, c, s, e)
      BY TrackFacts, Zenon
  <2> QED
      BY <2>1, Zenon
<1>4. \A c \in 1 .. n : /\ TrackOf(clips, c, s) \in Seq(Sourced)
                        /\ Len(TrackOf(clips, c, s)) = d[c][PartCount(clips, c, s) + 1]
  <2> HIDE DEF d
  <2> QED
      BY <1>3, Zenon DEF InTrack
<1> HIDE DEF d
<1>5. X \in Seq(Seq(Sourced)) /\ Len(X) = n /\ \A c \in 1 .. n : X[c] = TrackOf(clips, c, s)
  <2> DEFINE V == Seq(Sourced)
             G(c) == TrackOf(clips, c, s)
  <2>1. X = [c \in 1 .. n |-> G(c)] /\ (\A c \in 1 .. n : G(c) \in V) /\ n \in Nat
      BY <1>1, <1>4, Zenon
  <2> SUFFICES X \in Seq(V) /\ Len(X) = n /\ \A c \in 1 .. n : X[c] = G(c)
      BY Zenon
  <2> HIDE DEF V, G, n, X
  <2> QED
      BY <2>1
<1> HIDE DEF X
<1>6. PICK b : FlattenSeq(X) \in Seq(Sourced) /\ IsFlat(X, b, FlattenSeq(X))
    BY <1>5, FlattenFacts, Zenon
<1>7. /\ b \in [1 .. n + 1 -> Nat] /\ b[1] = 0
      /\ Len(FlattenSeq(X)) = b[n + 1]
      /\ \A i \in 1 .. n : b[i + 1] = b[i] + Len(X[i])
      /\ \A i \in 1 .. n : \A j \in 1 .. Len(X[i]) : FlattenSeq(X)[b[i] + j] = X[i][j]
    BY <1>5, <1>6, Zenon DEF IsFlat, Starts
<1>8. ASSUME NEW c \in 1 .. n
      PROVE  /\ b[c + 1] = b[c] + d[c][PartCount(clips, c, s) + 1]
             /\ \A f \in 1 .. Len(TrackOf(clips, c, s)) :
                  FramesOf(clips, s)[b[c] + f] = TrackOf(clips, c, s)[f]
  <2>1. X[c] = TrackOf(clips, c, s) /\ Len(X[c]) = d[c][PartCount(clips, c, s) + 1]
      BY <1>4, <1>5, Zenon
  <2>2. b[c + 1] = b[c] + Len(X[c])
      BY <1>7, Zenon
  <2>3. \A f \in 1 .. Len(X[c]) : FlattenSeq(X)[b[c] + f] = X[c][f]
      BY <1>7, Zenon
  <2> QED
      BY <1>2, <2>1, <2>2, <2>3, Zenon
<1>9. IsBase(clips, s, b, d)
    BY <1>2, <1>3, <1>6, <1>7, <1>8, Zenon DEF IsBase
<1> QED
    BY <1>9

\* A sequence of numbers that never goes down
LEMMA NeverDown ==
    ASSUME NEW n \in Nat, NEW b \in [1 .. n + 1 -> Nat], \A i \in 1 .. n : b[i] <= b[i + 1],
           NEW i \in 1 .. n + 1, NEW j \in 1 .. n + 1, i <= j
    PROVE  b[i] <= b[j]
<1> DEFINE T == {k \in i .. n + 1 : ~(b[i] <= b[k])}
<1>0. j \in i .. n + 1
    OBVIOUS
<1> SUFFICES ASSUME T # {} PROVE FALSE
    BY <1>0, Zenon
<1>1. T \in SUBSET Nat
    OBVIOUS
<1>2. PICK k \in T : \A l \in T : k <= l
  <2> HIDE DEF T
  <2> QED
      BY <1>1, LeastOf
<1>3. k \in i .. n + 1 /\ ~(b[i] <= b[k])
    BY <1>2, Zenon
<1>4. k # i /\ k - 1 \in 1 .. n /\ k - 1 \in i .. n + 1
    BY <1>3
<1>5. k - 1 \notin T
    BY <1>2, <1>4
<1>6. b[i] <= b[k - 1] /\ b[k - 1] <= b[(k - 1) + 1]
    BY <1>4, <1>5
<1>7. (k - 1) + 1 = k
    OBVIOUS
<1>8. b[i] \in Nat /\ b[k - 1] \in Nat /\ b[k] \in Nat
    BY <1>3, <1>4
<1>9. b[k - 1] <= b[k]
    BY <1>6, <1>7, Zenon
<1> QED
    BY <1>3, <1>6, <1>8, <1>9

\* The number of frames of stream s before frame f of part p of clip c
BaseOf(clips, s) == CHOOSE v : IsBase(clips, s, v[1], v[2])
Place(clips, s, c, p, f) == BaseOf(clips, s)[1][c] + BaseOf(clips, s)[2][c][p] + f - 1

\* Such starts of the clips and parts are what BaseOf gives.
LEMMA BaseIs ==
    ASSUME NEW clips, NEW S, NEW D, ClipsOK(clips, S, D), NEW s \in S
    PROVE  IsBase(clips, s, BaseOf(clips, s)[1], BaseOf(clips, s)[2])
<1>1. PICK b, d : IsBase(clips, s, b, d)
    BY BaseExists, Zenon
<1> DEFINE v == <<b, d>>
<1>2. v[1] = b /\ v[2] = d
    OBVIOUS
<1> HIDE DEF v
<1>3. IsBase(clips, s, v[1], v[2])
    BY <1>1, <1>2, Zenon
<1> QED
    BY <1>3, Zenon DEF BaseOf

\* A cursor at a frame of a part stands for a frame of the stream; the end of a part and the
\* start of the next one, in the same clip or in the next, are the same place.
LEMMA PlaceFacts ==
    ASSUME NEW clips, NEW S, NEW D, ClipsOK(clips, S, D), NEW s \in S, NEW c \in 1 .. Len(clips),
           NEW p \in 1 .. PartCount(clips, c, s), NEW f \in 1 .. PartLen(clips, c, s, p) + 1
    PROVE  /\ Place(clips, s, c, p, f) \in Nat
           /\ f <= PartLen(clips, c, s, p) =>
                /\ Place(clips, s, c, p, f) + 1 \in DOMAIN FramesOf(clips, s)
                /\ FramesOf(clips, s)[Place(clips, s, c, p, f) + 1] = FrameIn(clips, c, s, p, f)
                /\ FrameIn(clips, c, s, p, f) \in Sourced
                /\ Place(clips, s, c, p, f + 1) = Place(clips, s, c, p, f) + 1
           /\ p < PartCount(clips, c, s) /\ f = PartLen(clips, c, s, p) + 1 =>
                Place(clips, s, c, p, f) = Place(clips, s, c, p + 1, 1)
           /\ p = PartCount(clips, c, s) /\ f = PartLen(clips, c, s, p) + 1 /\ c < Len(clips) =>
                Place(clips, s, c, p, f) = Place(clips, s, c + 1, 1, 1)
           /\ c = 1 /\ p = 1 /\ f = 1 => Place(clips, s, c, p, f) = 0
<1> DEFINE n == Len(clips)
           m == PartCount(clips, c, s)
           l == PartLen(clips, c, s, p)
           b == BaseOf(clips, s)[1]
           d == BaseOf(clips, s)[2]
           t == TrackOf(clips, c, s)
           F == FramesOf(clips, s)
<1>1. n \in Nat
    BY DEF ClipsOK
<1>2. m \in Nat \ {0} /\ l \in Nat
    BY PartFacts, Zenon
<1>3. \A q \in 1 .. m : PartLen(clips, c, s, q) \in Nat
    BY PartFacts, Zenon
<1>4. IsBase(clips, s, b, d)
    BY BaseIs, Zenon
<1> HIDE DEF b, d
<1>5. /\ b \in [1 .. n + 1 -> Nat] /\ b[1] = 0
      /\ \A e \in 1 .. n : /\ InTrack(clips, e, s, d[e])
                           /\ b[e + 1] = b[e] + d[e][PartCount(clips, e, s) + 1]
      /\ \A g \in 1 .. Len(t) : F[b[c] + g] = t[g]
      /\ F \in Seq(Sourced)
      /\ Len(F) = b[n + 1]
    BY <1>4, Zenon DEF IsBase
<1>6. \A e \in 1 .. n : /\ PartCount(clips, e, s) \in Nat
                        /\ d[e] \in [1 .. PartCount(clips, e, s) + 1 -> Nat]
                        /\ d[e][1] = 0
  <2> TAKE e \in 1 .. n
  <2>1. PartStarts(clips, e, s, d[e])
      BY <1>5, Zenon DEF InTrack
  <2>2. PartCount(clips, e, s) \in Nat \ {0}
      BY PartFacts, Zenon
  <2> QED
      BY <2>1, <2>2, Zenon DEF PartStarts
<1>7. /\ d[c] \in [1 .. m + 1 -> Nat] /\ d[c][1] = 0
      /\ \A q \in 1 .. m : d[c][q + 1] = d[c][q] + PartLen(clips, c, s, q)
    BY <1>5, Zenon DEF InTrack, PartStarts
<1>8. /\ t \in Seq(Sourced) /\ Len(t) = d[c][m + 1]
      /\ \A g \in 1 .. l : t[d[c][p] + g] = FrameIn(clips, c, s, p, g)
    BY <1>5, Zenon DEF InTrack
<1>9. \A e \in 1 .. n : b[e] <= b[e + 1]
  <2> TAKE e \in 1 .. n
  <2>1. b[e] \in Nat /\ d[e][PartCount(clips, e, s) + 1] \in Nat
    <3>1. PartCount(clips, e, s) + 1 \in 1 .. PartCount(clips, e, s) + 1
        BY <1>6
    <3>2. e \in 1 .. n + 1
        BY <1>1
    <3> QED
        BY <1>5, <1>6, <3>1, <3>2, Zenon
  <2>2. b[e + 1] = b[e] + d[e][PartCount(clips, e, s) + 1]
      BY <1>5, Zenon
  <2> DEFINE x == b[e]
             y == d[e][PartCount(clips, e, s) + 1]
  <2> HIDE DEF x, y
  <2>3. x <= x + y
      BY <2>1 DEF x, y
  <2> QED
      BY <2>2, <2>3, Zenon DEF x, y
<1>10. \A q \in 1 .. m : d[c][q] <= d[c][q + 1]
  <2> TAKE q \in 1 .. m
  <2>1. d[c][q] \in Nat /\ PartLen(clips, c, s, q) \in Nat
    <3>1. q \in 1 .. m + 1
        BY <1>2
    <3> QED
        BY <1>3, <1>7, <3>1, Zenon
  <2>2. d[c][q + 1] = d[c][q] + PartLen(clips, c, s, q)
      BY <1>7, Zenon
  <2> DEFINE x == d[c][q]
             y == PartLen(clips, c, s, q)
  <2> HIDE DEF x, y
  <2>3. x <= x + y
      BY <2>1 DEF x, y
  <2> QED
      BY <2>2, <2>3, Zenon DEF x, y
<1>11. b[c + 1] <= b[n + 1]
  <2> HIDE DEF n
  <2>1. c + 1 \in 1 .. n + 1 /\ n + 1 \in 1 .. n + 1 /\ c + 1 <= n + 1
      BY <1>1 DEF n
  <2>2. b \in [1 .. n + 1 -> Nat]
      BY <1>5, Zenon
  <2> QED
      BY <1>1, <1>9, <2>1, <2>2, NeverDown
<1>12. d[c][p + 1] <= d[c][m + 1]
  <2> DEFINE a == d[c]
  <2> HIDE DEF m, a
  <2>1. p + 1 \in 1 .. m + 1 /\ m + 1 \in 1 .. m + 1 /\ p + 1 <= m + 1
      BY <1>2 DEF m
  <2>2. a \in [1 .. m + 1 -> Nat] /\ (\A q \in 1 .. m : a[q] <= a[q + 1])
      BY <1>7, <1>10, Zenon DEF a, m
  <2>3. a[p + 1] <= a[m + 1]
      BY <1>2, <2>1, <2>2, NeverDown DEF m
  <2> QED
      BY <2>3, Zenon DEF a
<1> DEFINE x == b[c]
           y == d[c][p]
<1>13. /\ x \in Nat /\ y \in Nat
       /\ d[c][p + 1] = y + l /\ b[c + 1] = x + d[c][m + 1] /\ d[c][m + 1] \in Nat
       /\ b[n + 1] \in Nat
  <2>1. c \in 1 .. n + 1 /\ p \in 1 .. m + 1 /\ m + 1 \in 1 .. m + 1 /\ n + 1 \in 1 .. n + 1
      BY <1>1, <1>2
  <2>2. b[c] \in Nat /\ b[n + 1] \in Nat
      BY <1>5, <2>1, Zenon
  <2>3. d[c][p] \in Nat /\ d[c][m + 1] \in Nat
      BY <1>7, <2>1, Zenon
  <2>4. d[c][p + 1] = d[c][p] + l
      BY <1>7, Zenon
  <2>5. b[c + 1] = b[c] + d[c][m + 1]
      BY <1>5, Zenon
  <2> QED
      BY <2>2, <2>3, <2>4, <2>5, Zenon
<1>14. \A g : Place(clips, s, c, p, g) = x + y + g - 1
    BY Zenon DEF Place, b, d
<1> HIDE DEF n, m, l, t, F, x, y
<1>15. f \in 1 .. l + 1 /\ p \in 1 .. m
    BY DEF l, m
<1>16. Place(clips, s, c, p, f) \in Nat
  <2>1. f \in Nat /\ f >= 1
      BY <1>2, <1>15
  <2>2. x \in Nat /\ y \in Nat
      BY <1>13, Zenon
  <2>3. x + y + f - 1 \in Nat
      BY <2>1, <2>2
  <2> QED
      BY <1>14, <2>3, Zenon
<1>17. ASSUME f <= l
       PROVE  /\ Place(clips, s, c, p, f) + 1 \in DOMAIN F
              /\ F[Place(clips, s, c, p, f) + 1] = FrameIn(clips, c, s, p, f)
              /\ FrameIn(clips, c, s, p, f) \in Sourced
              /\ Place(clips, s, c, p, f + 1) = Place(clips, s, c, p, f) + 1
  <2>1. f \in 1 .. l
      BY <1>2, <1>15, <1>17
  <2>2. y + f \in 1 .. Len(t)
      BY <1>2, <1>8, <1>12, <1>13, <2>1
  <2>3. x + (y + f) \in 1 .. Len(F)
    <3>1. Len(F) = b[n + 1] /\ Len(t) = d[c][m + 1]
        BY <1>5, <1>8, Zenon
    <3> DEFINE u == b[n + 1]
               v == d[c][m + 1]
               w == b[c + 1]
    <3>2. /\ x \in Nat /\ u \in Nat /\ v \in Nat /\ w = x + v /\ w <= u
          /\ y + f \in 1 .. v
        BY <1>11, <1>13, <2>2, <3>1, Zenon
    <3>3. f \in Nat /\ y \in Nat
        BY <1>2, <1>13, <1>15
    <3> HIDE DEF u, v, w
    <3>4. x + (y + f) \in 1 .. u
        BY <3>2, <3>3
    <3> QED
        BY <3>1, <3>4, Zenon DEF u
  <2>4. Place(clips, s, c, p, f) + 1 = x + (y + f)
      BY <1>13, <1>14, <1>15, <1>2
  <2>5. Place(clips, s, c, p, f + 1) = Place(clips, s, c, p, f) + 1
    <3>1. Place(clips, s, c, p, f + 1) = x + y + (f + 1) - 1
        BY <1>14, Zenon
    <3> QED
        BY <1>13, <1>14, <1>15, <1>2, <3>1
  <2>6. F[x + (y + f)] = t[y + f] /\ t[y + f] = FrameIn(clips, c, s, p, f)
      BY <1>5, <1>8, <2>1, <2>2, Zenon DEF x, y
  <2>7. DOMAIN F = 1 .. Len(F) /\ F[x + (y + f)] \in Sourced
      BY <1>5, <2>3
  <2> QED
      BY <2>3, <2>4, <2>5, <2>6, <2>7, Zenon
<1>18. ASSUME p < m, f = l + 1
       PROVE  Place(clips, s, c, p, f) = Place(clips, s, c, p + 1, 1)
  <2>1. Place(clips, s, c, p + 1, 1) = x + d[c][p + 1] + 1 - 1
      BY Zenon DEF Place, b, d, x
  <2> QED
      BY <1>2, <1>13, <1>14, <1>18, <2>1
<1>19. ASSUME p = m, f = l + 1, c < n
       PROVE  Place(clips, s, c, p, f) = Place(clips, s, c + 1, 1, 1)
  <2>1. Place(clips, s, c + 1, 1, 1) = b[c + 1] + d[c + 1][1] + 1 - 1
      BY Zenon DEF Place, b, d
  <2>2. c + 1 \in 1 .. n
      BY <1>1, <1>19 DEF n
  <2>3. d[c + 1][1] = 0
      BY <1>6, <2>2, Zenon DEF n
  <2>4. d[c][m + 1] = y + l
      BY <1>13, <1>19, Zenon
  <2> QED
      BY <1>2, <1>13, <1>14, <1>19, <2>1, <2>3, <2>4
<1>20. ASSUME c = 1, p = 1, f = 1 PROVE Place(clips, s, c, p, f) = 0
  <2>1. x = 0 /\ y = 0
      BY <1>5, <1>7, <1>20, Zenon DEF x, y
  <2> QED
      BY <1>14, <1>20, <2>1
<1> QED
    BY <1>16, <1>17, <1>18, <1>19, <1>20, Zenon DEF m, l, n, F

\* The first frame of all
LEMMA PlaceFirst ==
    ASSUME NEW clips, NEW S, NEW D, ClipsOK(clips, S, D), NEW s \in S, NEW c \in 1 .. Len(clips),
           NEW p \in 1 .. PartCount(clips, c, s), NEW f \in 1 .. PartLen(clips, c, s, p) + 1,
           c = 1, p = 1, f = 1
    PROVE  Place(clips, s, c, p, f) = 0
    BY PlaceFacts

\* From a frame to the next one
LEMMA PlaceNextFrame ==
    ASSUME NEW clips, NEW S, NEW D, ClipsOK(clips, S, D), NEW s \in S, NEW c \in 1 .. Len(clips),
           NEW p \in 1 .. PartCount(clips, c, s), NEW f \in 1 .. PartLen(clips, c, s, p)
    PROVE  Place(clips, s, c, p, f + 1) = Place(clips, s, c, p, f) + 1
<1>1. PartLen(clips, c, s, p) \in Nat
    BY PartFacts, Zenon
<1>2. f \in 1 .. PartLen(clips, c, s, p) + 1 /\ f <= PartLen(clips, c, s, p)
    BY <1>1
<1> QED
    BY <1>2, PlaceFacts

\* From the end of a part to the next one
LEMMA PlaceNextPart ==
    ASSUME NEW clips, NEW S, NEW D, ClipsOK(clips, S, D), NEW s \in S, NEW c \in 1 .. Len(clips),
           NEW p \in 1 .. PartCount(clips, c, s), p < PartCount(clips, c, s)
    PROVE  Place(clips, s, c, p, PartLen(clips, c, s, p) + 1) = Place(clips, s, c, p + 1, 1)
<1> DEFINE f == PartLen(clips, c, s, p) + 1
<1>1. PartLen(clips, c, s, p) \in Nat
    BY PartFacts, Zenon
<1>2. f \in 1 .. PartLen(clips, c, s, p) + 1 /\ f = PartLen(clips, c, s, p) + 1
    BY <1>1
<1> HIDE DEF f
<1>3. Place(clips, s, c, p, f) = Place(clips, s, c, p + 1, 1)
    BY <1>2, PlaceFacts
<1> QED
    BY <1>3 DEF f

\* From the end of a clip to the next one
LEMMA PlaceNextClip ==
    ASSUME NEW clips, NEW S, NEW D, ClipsOK(clips, S, D), NEW s \in S, NEW c \in 1 .. Len(clips),
           c < Len(clips), NEW p, p = PartCount(clips, c, s)
    PROVE  Place(clips, s, c, p, PartLen(clips, c, s, p) + 1) = Place(clips, s, c + 1, 1, 1)
<1> DEFINE f == PartLen(clips, c, s, p) + 1
<1>1. PartCount(clips, c, s) \in Nat \ {0}
    BY PartFacts, Zenon
<1>2. p \in 1 .. PartCount(clips, c, s)
    BY <1>1
<1>3. PartLen(clips, c, s, p) \in Nat
    BY <1>2, PartFacts, Zenon
<1>4. f \in 1 .. PartLen(clips, c, s, p) + 1 /\ f = PartLen(clips, c, s, p) + 1
    BY <1>3
<1> HIDE DEF f
<1>5. Place(clips, s, c, p, f) = Place(clips, s, c + 1, 1, 1)
    BY <1>2, <1>4, PlaceFacts
<1> QED
    BY <1>5 DEF f

-----------------------------------------------------------------------------
(* The order of the frames *)

Cursor == [media_type: 0 .. 1, part: Nat, frame: Nat, time: Nat]

\* m is the record of a muxer of N streams.
MuxRecord(m, clips, N) ==
    m \in [media_set: {clips}, clip: 1 .. Len(clips), selected: 0 .. N,
           first_time: {m.first_time}, streams: [1 .. N -> Cursor]]

\* Its cursors are within the parts.
MuxState(m, clips, N, D) ==
    /\ N \in Nat /\ Timescale \in Nat
    /\ ClipsOK(clips, 1 .. N, D)
    /\ MuxRecord(m, clips, N)
    /\ \A s \in 1 .. N :
         /\ m.streams[s].part \in 1 .. PartCount(clips, m.clip, s)
         /\ m.streams[s].frame \in 1 .. PartLen(clips, m.clip, s, m.streams[s].part) + 1

\* What the fields of a muxer's state are.
LEMMA MuxFields ==
    ASSUME NEW m, NEW clips, NEW N, NEW D, MuxState(m, clips, N, D)
    PROVE  /\ N \in Nat /\ m.media_set = clips /\ m.clip \in 1 .. Len(clips) /\ m.clip \in Nat
           /\ m.selected \in 0 .. N
           /\ m.streams \in [1 .. N -> Cursor] /\ DOMAIN m.streams = 1 .. N
           /\ Len(m.streams) = N /\ Len(clips) \in Nat
<1>1. N \in Nat /\ MuxRecord(m, clips, N) /\ clips \in Seq(Seq(Track))
    BY DEF MuxState, ClipsOK
<1>2. m.streams \in [1 .. N -> Cursor]
    BY <1>1 DEF MuxRecord
<1>3. m.streams \in Seq(Cursor) /\ DOMAIN m.streams = 1 .. N
    BY <1>1, <1>2
<1>4. Len(m.streams) = N
    BY <1>1, <1>3
<1>5. m.media_set = clips /\ m.clip \in 1 .. Len(clips) /\ m.selected \in 0 .. N
    BY <1>1 DEF MuxRecord
<1>6. Len(clips) \in Nat
    BY <1>1
<1> QED
    BY <1>1, <1>2, <1>3, <1>4, <1>5, <1>6

\* The cursor of stream s, in the numbers that matter
LEMMA CursorFields ==
    ASSUME NEW m, NEW clips, NEW N, NEW D, MuxState(m, clips, N, D), NEW s \in 1 .. N
    PROVE  /\ m.streams[s] \in Cursor
           /\ m.streams[s].part \in Nat /\ m.streams[s].frame \in Nat
           /\ m.streams[s].part \in 1 .. PartCount(clips, m.clip, s)
           /\ m.streams[s].frame \in 1 .. PartLen(clips, m.clip, s, m.streams[s].part) + 1
           /\ PartCount(clips, m.clip, s) \in Nat
           /\ PartLen(clips, m.clip, s, m.streams[s].part) \in Nat
           /\ m.streams[s].part > 1 => PartLen(clips, m.clip, s, m.streams[s].part) > 0
           /\ HasFrame(m, s) <=>
                m.streams[s].frame <= PartLen(clips, m.clip, s, m.streams[s].part)
<1>1. /\ m.media_set = clips /\ m.clip \in 1 .. Len(clips)
      /\ m.streams \in [1 .. N -> Cursor] /\ ClipsOK(clips, 1 .. N, D)
    BY MuxFields, Zenon DEF MuxState
<1>2. /\ m.streams[s].part \in 1 .. PartCount(clips, m.clip, s)
      /\ m.streams[s].frame \in 1 .. PartLen(clips, m.clip, s, m.streams[s].part) + 1
    BY Zenon DEF MuxState
<1>3. m.streams[s] \in Cursor
    BY <1>1
<1>4. m.streams[s].part \in Nat /\ m.streams[s].frame \in Nat
    BY <1>3 DEF Cursor
<1>5. /\ PartCount(clips, m.clip, s) \in Nat \ {0}
      /\ PartLen(clips, m.clip, s, m.streams[s].part) \in Nat
      /\ m.streams[s].part > 1 => PartLen(clips, m.clip, s, m.streams[s].part) > 0
    BY <1>1, <1>2, PartFacts, Zenon
<1>6. HasFrame(m, s) <=>
        m.streams[s].frame <= PartLen(clips, m.clip, s, m.streams[s].part)
    BY <1>1, Zenon DEF HasFrame, PartOf, PartLen
<1>7. PartCount(clips, m.clip, s) \in Nat
    BY <1>5
<1> QED
    BY <1>2, <1>3, <1>4, <1>5, <1>6, <1>7, Zenon

\* A cursor moved to the first frame of its next part.
LEMMA NextPartIs ==
    ASSUME NEW c \in Cursor
    PROVE  /\ NextPart(c) \in Cursor /\ NextPart(c).part = c.part + 1 /\ NextPart(c).frame = 1
           /\ NextPart(c).time = c.time /\ NextPart(c).media_type = c.media_type
<1>1. c.part \in Nat /\ c.time \in Nat /\ c.media_type \in 0 .. 1
    BY DEF Cursor
<1>2. /\ NextPart(c).part = c.part + 1 /\ NextPart(c).frame = 1
      /\ NextPart(c).time = c.time /\ NextPart(c).media_type = c.media_type
    BY DEF NextPart, Cursor
<1>3. \A a \in Nat, b \in Nat : [[c EXCEPT !.part = a] EXCEPT !.frame = b] \in Cursor
    BY DEF Cursor
<1>4. NextPart(c) = [[c EXCEPT !.part = c.part + 1] EXCEPT !.frame = 1]
    BY Zenon DEF NextPart
<1>5. c.part + 1 \in Nat /\ 1 \in Nat
    BY <1>1
<1> QED
    BY <1>2, <1>3, <1>4, <1>5, Zenon

\* NextParts moves the cursors at the end of a part and leaves the others where they are.
LEMMA NextPartsIs ==
    ASSUME NEW m, NEW clips, NEW N, NEW D, MuxState(m, clips, N, D)
    PROVE  /\ MuxRecord(NextParts(m), clips, N)
           /\ NextParts(m).clip = m.clip /\ NextParts(m).selected = m.selected
           /\ NextParts(m).streams =
                [s \in 1 .. N |-> IF s \in AtEnd(m) THEN NextPart(m.streams[s]) ELSE m.streams[s]]
<1> DEFINE A == AtEnd(m)
           X == [s \in 1 .. N |-> IF s \in A THEN NextPart(m.streams[s]) ELSE m.streams[s]]
           B == m.first_time \/ A # {}
<1>1. MuxRecord(m, clips, N) /\ DOMAIN m.streams = 1 .. N /\ m.streams \in [1 .. N -> Cursor]
    BY MuxFields, Zenon DEF MuxState
<1>2. X \in [1 .. N -> Cursor]
  <2>1. \A s \in 1 .. N : m.streams[s] \in Cursor
      BY <1>1
  <2>2. \A s \in 1 .. N : NextPart(m.streams[s]) \in Cursor
      BY <2>1, NextPartIs, Zenon
  <2> HIDE DEF A
  <2> QED
      BY <2>1, <2>2, Zenon
<1>3. NextParts(m) = [m EXCEPT !.streams = X, !.first_time = B]
  <2> DEFINE Y(T) == [s \in T |-> IF s \in A THEN NextPart(m.streams[s]) ELSE m.streams[s]]
  <2>1. NextParts(m) = [m EXCEPT !.streams = Y(DOMAIN m.streams), !.first_time = B]
      BY Zenon DEF NextParts
  <2> QED
      BY <1>1, <2>1, Zenon
<1> HIDE DEF X, B
<1>4. /\ NextParts(m) \in [media_set: {clips}, clip: 1 .. Len(clips), selected: 0 .. N,
           first_time: {B}, streams: [1 .. N -> Cursor]]
      /\ NextParts(m).clip = m.clip /\ NextParts(m).selected = m.selected
      /\ NextParts(m).streams = X
    BY <1>1, <1>2, <1>3 DEF MuxRecord
<1>5. NextParts(m).first_time = B
    BY <1>4
<1> QED
    BY <1>4, <1>5, Zenon DEF MuxRecord, X

\* The number of frames of stream s before its cursor
Taken(m, s) == Place(m.media_set, s, m.clip, m.streams[s].part, m.streams[s].frame)

\* What AtEnd says of one stream
LEMMA AtEndIs ==
    ASSUME NEW m, NEW clips, NEW N, NEW D, MuxState(m, clips, N, D), NEW s \in 1 .. N
    PROVE  s \in AtEnd(m) <=> /\ m.streams[s].frame = PartLen(clips, m.clip, s, m.streams[s].part) + 1
                              /\ m.streams[s].part < PartCount(clips, m.clip, s)
<1>1. m.media_set = clips /\ DOMAIN m.streams = 1 .. N
    BY MuxFields, Zenon
<1>2. s \in AtEnd(m) <=> ~ HasFrame(m, s) /\ m.streams[s].part < PartCount(clips, m.clip, s)
    BY <1>1, Zenon DEF AtEnd, PartCount
<1> DEFINE f == m.streams[s].frame
           l == PartLen(clips, m.clip, s, m.streams[s].part)
<1>3. f \in 1 .. l + 1 /\ l \in Nat /\ f \in Nat /\ (HasFrame(m, s) <=> f <= l)
    BY CursorFields, Zenon
<1> HIDE DEF f, l
<1>4. ~ HasFrame(m, s) <=> f = l + 1
    BY <1>3
<1> QED
    BY <1>2, <1>4, Zenon DEF f, l

\* Moving on to the next part takes no frame.
LEMMA NextPartsOK ==
    ASSUME NEW m, NEW clips, NEW N, NEW D, MuxState(m, clips, N, D)
    PROVE  /\ MuxState(NextParts(m), clips, N, D)
           /\ NextParts(m).clip = m.clip /\ NextParts(m).selected = m.selected
           /\ \A s \in 1 .. N : Taken(NextParts(m), s) = Taken(m, s)
<1> DEFINE n == NextParts(m)
<1>1. /\ MuxRecord(n, clips, N)
      /\ n.clip = m.clip /\ n.selected = m.selected
      /\ n.streams = [s \in 1 .. N |-> IF s \in AtEnd(m) THEN NextPart(m.streams[s]) ELSE m.streams[s]]
    BY NextPartsIs, Zenon
<1> HIDE DEF n
<1>2. /\ N \in Nat /\ Timescale \in Nat /\ ClipsOK(clips, 1 .. N, D)
      /\ m.media_set = clips /\ m.clip \in 1 .. Len(clips)
    BY MuxFields, Zenon DEF MuxState
<1>3. n.media_set = clips
    BY <1>1 DEF MuxRecord
<1>4. ASSUME NEW s \in 1 .. N
      PROVE  /\ n.streams[s].part \in 1 .. PartCount(clips, n.clip, s)
             /\ n.streams[s].frame \in 1 .. PartLen(clips, n.clip, s, n.streams[s].part) + 1
             /\ Taken(n, s) = Taken(m, s)
  <2> DEFINE p == m.streams[s].part
             f == m.streams[s].frame
             l == PartLen(clips, m.clip, s, p)
             c == PartCount(clips, m.clip, s)
  <2>1. /\ m.streams[s] \in Cursor /\ p \in 1 .. c /\ f \in 1 .. l + 1 /\ l \in Nat /\ c \in Nat
        /\ p \in Nat
      BY CursorFields, Zenon
  <2>2. CASE s \in AtEnd(m)
    <3>1. n.streams[s] = NextPart(m.streams[s])
        BY <1>1, <2>2, Zenon
    <3>2. n.streams[s].part = p + 1 /\ n.streams[s].frame = 1
        BY <2>1, <3>1, NextPartIs, Zenon
    <3>3. f = l + 1 /\ p < c
        BY <2>2, AtEndIs, Zenon
    <3>4. p + 1 \in 1 .. c
      <4> HIDE DEF p, c
      <4> QED
          BY <2>1, <3>3
    <3>5. PartLen(clips, m.clip, s, p + 1) \in Nat
        BY <1>2, <3>4, PartFacts, Zenon
    <3>6. 1 \in 1 .. PartLen(clips, m.clip, s, p + 1) + 1
        BY <3>5
    <3>7. Place(clips, s, m.clip, p, f) = Place(clips, s, m.clip, p + 1, 1)
      <4>1. p \in 1 .. PartCount(clips, m.clip, s) /\ p < PartCount(clips, m.clip, s)
          BY <2>1, <3>3, Zenon
      <4> HIDE DEF p, f, l, c
      <4>2. Place(clips, s, m.clip, p, PartLen(clips, m.clip, s, p) + 1) = Place(clips, s, m.clip, p + 1, 1)
          BY <1>2, <4>1, PlaceNextPart
      <4> QED
          BY <3>3, <4>2, Zenon DEF l
    <3>8. Taken(n, s) = Taken(m, s)
        BY <1>1, <1>2, <1>3, <3>2, <3>7, Zenon DEF Taken
    <3> QED
        BY <1>1, <3>2, <3>4, <3>6, <3>8, Zenon
  <2>3. CASE s \notin AtEnd(m)
    <3>1. n.streams[s] = m.streams[s]
        BY <1>1, <2>3, Zenon
    <3>2. Taken(n, s) = Taken(m, s)
        BY <1>1, <1>2, <1>3, <3>1, Zenon DEF Taken
    <3> QED
        BY <1>1, <2>1, <3>1, <3>2, Zenon
  <2> QED
      BY <2>2, <2>3, Zenon
<1>5. MuxState(n, clips, N, D)
    BY <1>1, <1>2, <1>4, Zenon DEF MuxState
<1> QED
    BY <1>1, <1>4, <1>5, Zenon DEF n

\* A clip that has no more frames has been taken as a whole.
LEMMA ClipTaken ==
    ASSUME NEW m, NEW clips, NEW N, NEW D, MuxState(m, clips, N, D),
           FramesLeft(NextParts(m)) = {}, m.clip < Len(clips), NEW s \in 1 .. N
    PROVE  Taken(m, s) = Place(clips, s, m.clip + 1, 1, 1)
<1> DEFINE n == NextParts(m)
           p == n.streams[s].part
           f == n.streams[s].frame
           l == PartLen(clips, m.clip, s, p)
           c == PartCount(clips, m.clip, s)
<1>1. MuxState(n, clips, N, D) /\ n.clip = m.clip /\ Taken(n, s) = Taken(m, s)
    BY NextPartsOK, Zenon
<1>2. DOMAIN n.streams = 1 .. N /\ n.media_set = clips /\ n.clip \in 1 .. Len(clips)
    BY <1>1, MuxFields, Zenon
<1>3. ~ HasFrame(n, s)
    BY <1>2, Zenon DEF FramesLeft
<1>4. /\ p \in 1 .. c /\ f \in 1 .. l + 1 /\ l \in Nat /\ c \in Nat /\ p \in Nat
      /\ (p > 1 => l > 0) /\ ~ (f <= l)
    BY <1>1, <1>3, CursorFields, Zenon
<1>5. f = l + 1
  <2> HIDE DEF f, l, n
  <2> QED
      BY <1>4
<1>6. p = c
  <2> DEFINE q == m.streams[s].part
             k == PartLen(clips, m.clip, s, q)
  <2>1. q \in 1 .. c /\ m.streams[s] \in Cursor /\ q \in Nat
      BY CursorFields, Zenon
  <2>2. n.streams = [t \in 1 .. N |-> IF t \in AtEnd(m) THEN NextPart(m.streams[t]) ELSE m.streams[t]]
      BY NextPartsIs, Zenon
  <2>3. CASE s \in AtEnd(m)
    <3>1. n.streams[s] = NextPart(m.streams[s])
        BY <2>2, <2>3, Zenon
    <3>2. p = q + 1 /\ f = 1
        BY <2>1, <3>1, NextPartIs, Zenon
    <3> HIDE DEF p, q, f, l, n, c
    <3> QED
        BY <1>4, <1>5, <2>1, <3>2
  <2>4. CASE s \notin AtEnd(m)
    <3>1. n.streams[s] = m.streams[s]
        BY <2>2, <2>4, Zenon
    <3>2. ~ (p < c)
        BY <1>5, <2>4, <3>1, AtEndIs, Zenon
    <3> HIDE DEF p, f, l, n, c
    <3> QED
        BY <1>4, <3>2
  <2> QED
      BY <2>3, <2>4, Zenon
<1>7. ClipsOK(clips, 1 .. N, D)
    BY Zenon DEF MuxState
<1>8. Place(clips, s, m.clip, p, f) = Place(clips, s, m.clip + 1, 1, 1)
  <2>1. m.clip \in 1 .. Len(clips)
      BY <1>1, <1>2, Zenon
  <2> HIDE DEF p, f, l, n, c
  <2>2. Place(clips, s, m.clip, p, PartLen(clips, m.clip, s, p) + 1) = Place(clips, s, m.clip + 1, 1, 1)
      BY <1>6, <1>7, <2>1, PlaceNextClip DEF c
  <2> QED
      BY <1>5, <2>2, Zenon DEF l
<1> QED
    BY <1>1, <1>2, <1>8, Zenon DEF Taken

\* A cursor at the start of a track
AtStart(i, t) == i \in Cursor /\ i.part = 1 /\ i.frame = 1 /\ i.media_type = t

\* A track starts at its first frame.
LEMMA InitTrackIs ==
    ASSUME NEW clips, NEW S, NEW D, ClipsOK(clips, S, D), NEW c \in 1 .. Len(clips), NEW s \in S,
           NEW t \in 0 .. 1
    PROVE  AtStart(mp4_muxer_init_track(clips[c][s], t), t)
<1> DEFINE x == clips[c][s].start
<1>1. x \in Nat
    BY PartFacts, Zenon
<1>2. mp4_muxer_init_track(clips[c][s], t) = [media_type |-> t, part |-> 1, frame |-> 1, time |-> x]
    BY Zenon DEF mp4_muxer_init_track
<1> HIDE DEF x
<1> QED
    BY <1>1, <1>2 DEF Cursor, AtStart

\* The start of a clip is a place for the cursors.
LEMMA FirstPlace ==
    ASSUME NEW clips, NEW S, NEW D, ClipsOK(clips, S, D), NEW c \in 1 .. Len(clips), NEW s \in S
    PROVE  1 \in 1 .. PartCount(clips, c, s) /\ 1 \in 1 .. PartLen(clips, c, s, 1) + 1
<1>1. PartCount(clips, c, s) \in Nat \ {0}
    BY PartFacts, Zenon
<1>2. 1 \in 1 .. PartCount(clips, c, s)
    BY <1>1
<1>3. PartLen(clips, c, s, 1) \in Nat
    BY <1>2, PartFacts, Zenon
<1> QED
    BY <1>2, <1>3

\* n is m at the start of clip c.
AtClip(n, m, clips, N, D, c) ==
    /\ MuxState(n, clips, N, D)
    /\ n.clip = c /\ n.selected = m.selected
    /\ n.streams = [s \in 1 .. N |-> mp4_muxer_init_track(clips[c][s], m.streams[s].media_type)]
    /\ \A s \in 1 .. N : Taken(n, s) = Place(clips, s, c, 1, 1)

\* mp4_muxer_reinit_tracks
LEMMA ReinitOK ==
    ASSUME NEW m, NEW clips, NEW N, NEW D, MuxState(m, clips, N, D), NEW c \in 1 .. Len(clips)
    PROVE  AtClip(mp4_muxer_reinit_tracks(m, c), m, clips, N, D, c)
<1> DEFINE n == mp4_muxer_reinit_tracks(m, c)
           X == [s \in 1 .. N |-> mp4_muxer_init_track(clips[c][s], m.streams[s].media_type)]
<1>1. /\ MuxRecord(m, clips, N) /\ DOMAIN m.streams = 1 .. N
      /\ m.streams \in [1 .. N -> Cursor] /\ m.media_set = clips
      /\ N \in Nat /\ Timescale \in Nat /\ ClipsOK(clips, 1 .. N, D)
    BY MuxFields, Zenon DEF MuxState
<1>2. \A s \in 1 .. N : m.streams[s].media_type \in 0 .. 1
  <2>1. \A s \in 1 .. N : m.streams[s] \in Cursor
      BY <1>1, Zenon
  <2> QED
      BY <2>1 DEF Cursor
<1>3. \A s \in 1 .. N : X[s] \in Cursor /\ X[s].part = 1 /\ X[s].frame = 1
  <2> TAKE s \in 1 .. N
  <2>1. X[s] = mp4_muxer_init_track(clips[c][s], m.streams[s].media_type)
      BY Zenon
  <2> DEFINE t == m.streams[s].media_type
             i == mp4_muxer_init_track(clips[c][s], t)
  <2>2. i \in Cursor /\ i.part = 1 /\ i.frame = 1
    <3>1. t \in 0 .. 1 /\ ClipsOK(clips, 1 .. N, D)
        BY <1>1, <1>2, Zenon
    <3> HIDE DEF t
    <3>2. AtStart(mp4_muxer_init_track(clips[c][s], t), t)
        BY <3>1, InitTrackIs, Zenon
    <3> QED
        BY <3>2, Zenon DEF AtStart
  <2> HIDE DEF X, i
  <2>3. X[s] = i
      BY <2>1, Zenon DEF i
  <2> QED
      BY <2>2, <2>3, Zenon
<1>4. X \in [1 .. N -> Cursor]
    BY <1>3, Zenon
<1>5. n = [m EXCEPT !.clip = c, !.first_time = TRUE, !.streams = X]
  <2> DEFINE Y(T, C) == [s \in T |-> mp4_muxer_init_track(C[c][s], m.streams[s].media_type)]
  <2>1. n = [m EXCEPT !.clip = c, !.first_time = TRUE, !.streams = Y(DOMAIN m.streams, m.media_set)]
      BY Zenon DEF mp4_muxer_reinit_tracks
  <2> QED
      BY <1>1, <2>1, Zenon
<1> HIDE DEF X
<1>6. /\ n \in [media_set: {clips}, clip: 1 .. Len(clips), selected: 0 .. N,
                first_time: {TRUE}, streams: [1 .. N -> Cursor]]
      /\ n.clip = c /\ n.selected = m.selected /\ n.streams = X /\ n.media_set = clips
    BY <1>1, <1>4, <1>5 DEF MuxRecord
<1>7. n.first_time = TRUE
    BY <1>6
<1>8. MuxRecord(n, clips, N)
    BY <1>6, <1>7, Zenon DEF MuxRecord
<1> HIDE DEF n
<1>9. MuxState(n, clips, N, D)
  <2>1. \A s \in 1 .. N : /\ n.streams[s].part \in 1 .. PartCount(clips, n.clip, s)
                          /\ n.streams[s].frame \in 1 .. PartLen(clips, n.clip, s, n.streams[s].part) + 1
      BY <1>1, <1>3, <1>6, FirstPlace, Zenon
  <2> QED
      BY <1>1, <1>8, <2>1, Zenon DEF MuxState
<1>10. \A s \in 1 .. N : Taken(n, s) = Place(clips, s, c, 1, 1)
    BY <1>3, <1>6, Zenon DEF Taken
<1> QED
    BY <1>6, <1>9, <1>10, Zenon DEF AtClip, n, X

\* The search in one clip
LEMMA PlaceInOK ==
    ASSUME NEW m, NEW clips, NEW N, NEW D, MuxState(m, clips, N, D), NEW c \in 1 .. Len(clips)
    PROVE  /\ MuxState(PlaceIn(m, c), clips, N, D)
           /\ PlaceIn(m, c).clip = c /\ PlaceIn(m, c).selected = m.selected
           /\ c # m.clip => \A s \in 1 .. N : Taken(PlaceIn(m, c), s) = Place(clips, s, c, 1, 1)
           /\ c = m.clip => \A s \in 1 .. N : Taken(PlaceIn(m, c), s) = Taken(m, s)
<1>1. CASE c = m.clip
  <2> DEFINE n == NextParts(m)
             q == PlaceIn(m, c)
  <2>1. q = n
    <3> DEFINE x == IF c = m.clip THEN m ELSE mp4_muxer_reinit_tracks(m, c)
    <3>1. x = m
        BY <1>1, Zenon
    <3>2. q = NextParts(x)
        BY Zenon DEF PlaceIn
    <3> QED
        BY <3>1, <3>2, Zenon
  <2>2. /\ MuxState(n, clips, N, D) /\ n.clip = m.clip /\ n.selected = m.selected
        /\ \A s \in 1 .. N : Taken(n, s) = Taken(m, s)
      BY NextPartsOK, Zenon
  <2> HIDE DEF n, q
  <2>3. /\ MuxState(q, clips, N, D) /\ q.clip = c /\ q.selected = m.selected
        /\ \A s \in 1 .. N : Taken(q, s) = Taken(m, s)
      BY <1>1, <2>1, <2>2, Zenon
  <2> QED
      BY <1>1, <2>3, Zenon DEF q
<1>2. CASE c # m.clip
  <2> DEFINE r == mp4_muxer_reinit_tracks(m, c)
  <2>1. PlaceIn(m, c) = NextParts(r)
    <3> DEFINE x == IF c = m.clip THEN m ELSE mp4_muxer_reinit_tracks(m, c)
    <3>1. x = r
        BY <1>2, Zenon
    <3>2. PlaceIn(m, c) = NextParts(x)
        BY Zenon DEF PlaceIn
    <3> QED
        BY <3>1, <3>2, Zenon
  <2>2. /\ MuxState(r, clips, N, D) /\ r.clip = c /\ r.selected = m.selected
        /\ \A s \in 1 .. N : Taken(r, s) = Place(clips, s, c, 1, 1)
    <3>1. AtClip(r, m, clips, N, D, c)
        BY ReinitOK, Zenon
    <3> HIDE DEF r
    <3> QED
        BY <3>1, Zenon DEF AtClip
  <2> HIDE DEF r
  <2>3. /\ MuxState(NextParts(r), clips, N, D)
        /\ NextParts(r).clip = r.clip /\ NextParts(r).selected = r.selected
        /\ \A s \in 1 .. N : Taken(NextParts(r), s) = Taken(r, s)
      BY <2>2, NextPartsOK, Zenon
  <2> QED
      BY <1>2, <2>1, <2>2, <2>3, Zenon
<1> QED
    BY <1>1, <1>2

\* Looking for a frame in a clip passes no frame of that clip.
LEMMA PlaceInTaken ==
    ASSUME NEW m, NEW clips, NEW N, NEW D, MuxState(m, clips, N, D), NEW c \in 1 .. Len(clips),
           NEW s \in 1 .. N
    PROVE  Taken(PlaceIn(m, c), s) = IF c = m.clip THEN Taken(m, s) ELSE Place(clips, s, c, 1, 1)
<1> DEFINE x == Taken(PlaceIn(m, c), s)
           y == Taken(m, s)
           z == Place(clips, s, c, 1, 1)
<1>1. (c = m.clip => x = y) /\ (c # m.clip => x = z)
    BY PlaceInOK
<1> HIDE DEF x, y, z
<1>2. x = IF c = m.clip THEN y ELSE z
    BY <1>1
<1> QED
    BY <1>2 DEF x, y, z

\* The function that Preferred computes
BestTo(streams, left, selected, n, g) ==
    g = [s \in 0 .. n |->
            IF s = 0 THEN 0
            ELSE IF s \in left THEN Prefer(streams, selected, g[s - 1], s) ELSE g[s - 1]]

\* It exists.
LEMMA BestExists ==
    ASSUME NEW streams, NEW left, NEW selected, NEW n \in Nat
    PROVE  \E g : BestTo(streams, left, selected, n, g)
<1> DEFINE T == {k \in Nat : ~ \E g : BestTo(streams, left, selected, k, g)}
           R(g, s) == IF s = 0 THEN 0
                      ELSE IF s \in left THEN Prefer(streams, selected, g[s - 1], s) ELSE g[s - 1]
<1> SUFFICES ASSUME T # {} PROVE FALSE
    OBVIOUS
<1>1. PICK k \in T : \A l \in T : k <= l
    BY LeastOf
<1>2. k \in Nat /\ ~ \E g : BestTo(streams, left, selected, k, g)
    OBVIOUS
<1>3. k # 0
  <2> DEFINE h == [s \in 0 .. 0 |-> 0]
  <2>1. \A s \in 0 .. 0 : 0 = R(h, s)
      OBVIOUS
  <2>2. h = [s \in 0 .. 0 |-> R(h, s)]
      BY <2>1, Zenon
  <2>3. BestTo(streams, left, selected, 0, h)
      BY <2>2, Zenon DEF BestTo
  <2> QED
      BY <1>2, <2>3, Zenon
<1>4. k - 1 \in Nat /\ k - 1 \notin T
    BY <1>1, <1>2, <1>3
<1>5. PICK g : BestTo(streams, left, selected, k - 1, g)
    BY <1>4
<1> DEFINE h == [s \in 0 .. k |-> R(g, s)]
<1>6. ASSUME NEW i \in 0 .. k - 1 PROVE h[i] = g[i]
  <2>1. g[i] = R(g, i)
      BY <1>5, Zenon DEF BestTo
  <2>2. i \in 0 .. k
      BY <1>2
  <2> QED
      BY <2>1, <2>2, Zenon
<1>7. \A i \in 0 .. k : i # 0 => i - 1 \in 0 .. k - 1
    BY <1>2
<1>8. \A i \in 0 .. k : R(g, i) = R(h, i)
  <2> HIDE DEF h
  <2> QED
      BY <1>6, <1>7, Zenon
<1>9. h = [i \in 0 .. k |-> R(h, i)]
  <2> HIDE DEF R
  <2> QED
      BY <1>8, Zenon
<1>10. BestTo(streams, left, selected, k, h)
  <2> HIDE DEF h
  <2> QED
      BY <1>9, Zenon DEF BestTo
<1> QED
    BY <1>2, <1>10, Zenon

\* A stream that is left is chosen.
LEMMA PreferredIs ==
    ASSUME NEW streams, NEW N \in Nat, Len(streams) = N, NEW left \in SUBSET (1 .. N), left # {},
           NEW selected
    PROVE  Preferred(streams, left, selected) \in left
<1> DEFINE f == CHOOSE g : BestTo(streams, left, selected, N, g)
<1>1. BestTo(streams, left, selected, N, f)
    BY BestExists
<1>2. Preferred(streams, left, selected) = f[N]
    BY Zenon DEF Preferred, BestTo
<1> HIDE DEF f
<1>3. \A s \in 0 .. N : f[s] = IF s = 0 THEN 0
                               ELSE IF s \in left THEN Prefer(streams, selected, f[s - 1], s)
                               ELSE f[s - 1]
    BY <1>1, Zenon DEF BestTo
<1> DEFINE Good(s) == /\ f[s] \in left \cup {0}
                      /\ (\E u \in left : u <= s) => f[s] # 0
           T == {s \in 0 .. N : ~ Good(s)}
<1>4. T = {}
  <2> SUFFICES ASSUME T # {} PROVE FALSE
      OBVIOUS
  <2>1. T \in SUBSET Nat
      OBVIOUS
  <2>2. PICK k \in T : \A l \in T : k <= l
    <3> HIDE DEF T
    <3> QED
        BY <2>1, LeastOf
  <2>3. k \in 0 .. N /\ ~ Good(k)
      BY <2>2, Zenon
  <2>4. CASE k = 0
    <3>1. f[k] = 0
        BY <1>3, <2>3, <2>4, Zenon
    <3>2. ~ \E u \in left : u <= k
        BY <2>4
    <3> QED
        BY <2>3, <3>1, <3>2, Zenon
  <2>5. CASE k # 0
    <3>1. k - 1 \in 0 .. N /\ ~ (k <= k - 1)
        BY <2>3, <2>5
    <3>2. Good(k - 1)
      <4> HIDE DEF Good
      <4> QED
          BY <2>2, <3>1, Zenon
    <3>3. CASE k \in left
      <4>1. f[k] = Prefer(streams, selected, f[k - 1], k)
          BY <1>3, <2>3, <2>5, <3>3, Zenon
      <4>2. f[k] = k \/ (f[k] = f[k - 1] /\ f[k - 1] # 0)
          BY <4>1, Zenon DEF Prefer
      <4>3. f[k] \in left \cup {0} /\ f[k] # 0
          BY <2>5, <3>2, <3>3, <4>2, Zenon
      <4> QED
          BY <2>3, <4>3, Zenon
    <3>4. CASE k \notin left
      <4>1. f[k] = f[k - 1]
          BY <1>3, <2>3, <2>5, <3>4, Zenon
      <4>2. \A u \in left : u <= k => u <= k - 1
          BY <2>3, <3>4
      <4> QED
          BY <2>3, <3>2, <4>1, <4>2, Zenon
    <3> QED
        BY <3>3, <3>4
  <2> QED
      BY <2>4, <2>5
<1>5. N \in 0 .. N /\ \E u \in left : u <= N
  <2>1. PICK u \in left : TRUE
      OBVIOUS
  <2>2. u <= N
      OBVIOUS
  <2> QED
      BY <2>1, <2>2
<1>6. Good(N)
    BY <1>4, <1>5, Zenon
<1> QED
    BY <1>2, <1>5, <1>6, Zenon

\* The muxer with the place p and the stream that is preferred there
Chosen(p) == [p EXCEPT !.selected = Preferred(p.streams, FramesLeft(p), @)]

\* c is the first clip from that of m that has frames.
FirstClip(m, clips, c) ==
    /\ c \in m.clip .. Len(clips) /\ FramesLeft(PlaceIn(m, c)) # {}
    /\ \A d \in m.clip .. Len(clips) : FramesLeft(PlaceIn(m, d)) # {} => c <= d

\* The search ends in the first clip that has frames.
LEMMA ChooseIs ==
    ASSUME NEW m, NEW clips, NEW N, NEW D, MuxState(m, clips, N, D)
    PROVE  /\ MoreFrames(m) <=> \E c : FirstClip(m, clips, c)
           /\ \A c : FirstClip(m, clips, c) => mp4_muxer_choose_stream(m) = Chosen(PlaceIn(m, c))
<1> DEFINE I == m.clip .. Len(clips)
           places == {PlaceIn(m, c) : c \in I}
<1>1. m.clip \in 1 .. Len(clips) /\ m.media_set = clips /\ Len(clips) \in Nat /\ m.clip \in Nat
    BY MuxFields, Zenon
<1>2. NextPlace(m) = {p \in places : /\ FramesLeft(p) # {}
                                     /\ \A q \in places : FramesLeft(q) # {} => p.clip <= q.clip}
    BY <1>1, Zenon DEF NextPlace
<1>3. \A c \in I : c \in 1 .. Len(clips) /\ c \in Nat
    BY <1>1
<1>4. \A c \in I : PlaceIn(m, c).clip = c
    BY <1>3, PlaceInOK, Zenon
<1> HIDE DEF I
<1>5. \A p : p \in NextPlace(m) => \E c : FirstClip(m, clips, c) /\ p = PlaceIn(m, c)
  <2> TAKE p
  <2> HAVE p \in NextPlace(m)
  <2>1. PICK c \in I : p = PlaceIn(m, c)
      BY <1>2, Zenon
  <2>2. \A q \in places : FramesLeft(q) # {} => p.clip <= q.clip
      BY <1>2, Zenon
  <2>3. \A d \in I : FramesLeft(PlaceIn(m, d)) # {} => p.clip <= PlaceIn(m, d).clip
      BY <2>2, Zenon
  <2>4. \A d \in I : FramesLeft(PlaceIn(m, d)) # {} => c <= d
      BY <1>4, <2>1, <2>3, Zenon
  <2>5. FramesLeft(p) # {}
      BY <1>2, Zenon
  <2> QED
      BY <2>1, <2>4, <2>5, Zenon DEF FirstClip, I
<1>6. \A c : FirstClip(m, clips, c) => PlaceIn(m, c) \in NextPlace(m)
  <2> TAKE c
  <2> HAVE FirstClip(m, clips, c)
  <2>1. /\ c \in I /\ FramesLeft(PlaceIn(m, c)) # {}
        /\ \A d \in I : FramesLeft(PlaceIn(m, d)) # {} => c <= d
      BY Zenon DEF FirstClip, I
  <2>2. \A q \in places : FramesLeft(q) # {} => PlaceIn(m, c).clip <= q.clip
    <3> SUFFICES ASSUME NEW d \in I, FramesLeft(PlaceIn(m, d)) # {}
                 PROVE  PlaceIn(m, c).clip <= PlaceIn(m, d).clip
        BY Zenon
    <3>1. c <= d
        BY <2>1, Zenon
    <3> QED
        BY <1>4, <2>1, <3>1, Zenon
  <2>3. PlaceIn(m, c) \in places
      BY <2>1, Zenon
  <2> QED
      BY <1>2, <2>1, <2>2, <2>3, Zenon
<1>7. \A c, d : FirstClip(m, clips, c) /\ FirstClip(m, clips, d) => c = d
  <2> TAKE c, d
  <2> HAVE FirstClip(m, clips, c) /\ FirstClip(m, clips, d)
  <2>1. c \in I /\ d \in I /\ c <= d /\ d <= c
      BY Zenon DEF FirstClip, I
  <2> QED
      BY <1>3, <2>1
<1>8. MoreFrames(m) <=> \E c : FirstClip(m, clips, c)
    BY <1>5, <1>6, Zenon DEF MoreFrames
<1>9. ASSUME NEW c, FirstClip(m, clips, c)
      PROVE  mp4_muxer_choose_stream(m) = Chosen(PlaceIn(m, c))
  <2>1. NextPlace(m) = {PlaceIn(m, c)}
      BY <1>5, <1>6, <1>7, <1>9, Zenon
  <2>2. mp4_muxer_choose_stream(m) = CHOOSE n \in {Chosen(p) : p \in NextPlace(m)} : TRUE
      BY DEF mp4_muxer_choose_stream, Chosen
  <2>3. {Chosen(p) : p \in NextPlace(m)} = {Chosen(PlaceIn(m, c))}
      BY <2>1, Zenon
  <2> QED
      BY <2>2, <2>3, Zenon
<1> QED
    BY <1>8, <1>9, Zenon

\* What was skipped to get there takes no frame.
LEMMA SkippedClips ==
    ASSUME NEW m, NEW clips, NEW N, NEW D, MuxState(m, clips, N, D),
           NEW c, FirstClip(m, clips, c), NEW s \in 1 .. N
    PROVE  Taken(PlaceIn(m, c), s) = Taken(m, s)
<1>1. m.clip \in 1 .. Len(clips) /\ Len(clips) \in Nat /\ m.clip \in Nat
    BY MuxFields, Zenon
<1>2. c \in m.clip .. Len(clips) /\ \A d \in m.clip .. Len(clips) : FramesLeft(PlaceIn(m, d)) # {} => c <= d
    BY Zenon DEF FirstClip
<1>3. c \in Nat /\ c \in 1 .. Len(clips) /\ m.clip <= c
    BY <1>1, <1>2
<1> DEFINE T == {d \in m.clip .. c : Taken(PlaceIn(m, d), s) # Taken(m, s)}
<1>4. T = {}
  <2> SUFFICES ASSUME T # {} PROVE FALSE
      OBVIOUS
  <2>1. T \in SUBSET Nat
      BY <1>1, <1>3
  <2>2. PICK k \in T : \A l \in T : k <= l
    <3> HIDE DEF T
    <3> QED
        BY <2>1, LeastOf
  <2>3. k \in m.clip .. c /\ Taken(PlaceIn(m, k), s) # Taken(m, s)
      BY <2>2, Zenon
  <2>3a. k \in 1 .. Len(clips) /\ k \in Nat
      BY <1>1, <1>3, <2>3
  <2>4. k # m.clip
      BY <2>3, <2>3a, PlaceInTaken
  <2> DEFINE j == k - 1
  <2>5. /\ j \in m.clip .. c /\ j \in 1 .. Len(clips) /\ j \in m.clip .. Len(clips)
        /\ ~ (c <= j) /\ ~ (k <= j) /\ j < Len(clips) /\ j + 1 = k
      BY <1>1, <1>3, <2>3, <2>4
  <2> HIDE DEF j
  <2>6. FramesLeft(PlaceIn(m, j)) = {} /\ Taken(PlaceIn(m, j), s) = Taken(m, s)
      BY <1>2, <2>2, <2>5, Zenon
  <2>7. Taken(PlaceIn(m, k), s) = Place(clips, s, k, 1, 1)
      BY <2>3a, <2>4, PlaceInTaken
  <2>8. CASE j = m.clip
    <3>1. PlaceIn(m, j) = NextParts(m)
      <4> DEFINE x == IF j = m.clip THEN m ELSE mp4_muxer_reinit_tracks(m, j)
      <4>1. x = m
          BY <2>8, Zenon
      <4>2. PlaceIn(m, j) = NextParts(x)
          BY Zenon DEF PlaceIn
      <4> QED
          BY <4>1, <4>2, Zenon
    <3>2. Taken(m, s) = Place(clips, s, m.clip + 1, 1, 1)
        BY <2>5, <2>6, <2>8, <3>1, ClipTaken, Zenon
    <3> QED
        BY <2>3, <2>5, <2>7, <2>8, <3>2, Zenon
  <2>9. CASE j # m.clip
    <3> DEFINE r == mp4_muxer_reinit_tracks(m, j)
    <3>1. PlaceIn(m, j) = NextParts(r)
      <4> DEFINE x == IF j = m.clip THEN m ELSE mp4_muxer_reinit_tracks(m, j)
      <4>1. x = r
          BY <2>9, Zenon
      <4>2. PlaceIn(m, j) = NextParts(x)
          BY Zenon DEF PlaceIn
      <4> QED
          BY <4>1, <4>2, Zenon
    <3>2. AtClip(r, m, clips, N, D, j)
        BY <2>5, ReinitOK, Zenon
    <3> HIDE DEF r
    <3>3. MuxState(r, clips, N, D) /\ r.clip = j /\ Taken(r, s) = Place(clips, s, j, 1, 1)
        BY <3>2, Zenon DEF AtClip
    <3>4. Taken(r, s) = Place(clips, s, r.clip + 1, 1, 1)
        BY <2>5, <2>6, <3>1, <3>3, ClipTaken, Zenon
    <3>5. Taken(PlaceIn(m, j), s) = Taken(r, s)
      <4>1. /\ Taken(PlaceIn(m, j), s) = Place(clips, s, j, 1, 1)
          BY <2>5, <2>9, PlaceInTaken
      <4> QED
          BY <3>3, <4>1, Zenon
    <3> QED
        BY <2>3, <2>5, <2>6, <2>7, <3>3, <3>4, <3>5, Zenon
  <2> QED
      BY <2>8, <2>9
<1>5. c \in m.clip .. c
    BY <1>1, <1>3
<1> QED
    BY <1>4, <1>5, Zenon

\* What mp4_muxer_choose_stream returns
IsNext(n, m, clips, N, D) ==
    /\ MuxState(n, clips, N, D)
    /\ n.selected \in 1 .. N /\ HasFrame(n, n.selected)
    /\ \A s \in 1 .. N : Taken(n, s) = Taken(m, s)

\* The stream that is chosen in a clip with frames left has a frame.
LEMMA ChosenOK ==
    ASSUME NEW p, NEW clips, NEW N, NEW D, MuxState(p, clips, N, D), FramesLeft(p) # {}
    PROVE  IsNext(Chosen(p), p, clips, N, D)
<1> DEFINE s == Preferred(p.streams, FramesLeft(p), p.selected)
           n == Chosen(p)
<1>1. /\ N \in Nat /\ Len(p.streams) = N /\ DOMAIN p.streams = 1 .. N /\ MuxRecord(p, clips, N)
      /\ Timescale \in Nat /\ ClipsOK(clips, 1 .. N, D)
    BY MuxFields, Zenon DEF MuxState
<1>2. FramesLeft(p) \in SUBSET (1 .. N)
    BY <1>1, Zenon DEF FramesLeft
<1>3. s \in FramesLeft(p)
    BY <1>1, <1>2, PreferredIs, Zenon
<1>4. s \in 1 .. N /\ HasFrame(p, s)
    BY <1>2, <1>3, Zenon DEF FramesLeft
<1>5. n = [p EXCEPT !.selected = s]
    BY Zenon DEF Chosen
<1> HIDE DEF s, n
<1>6. s \in 0 .. N
    BY <1>4
<1>7. /\ n \in [media_set: {clips}, clip: 1 .. Len(clips), selected: 0 .. N,
                first_time: {p.first_time}, streams: [1 .. N -> Cursor]]
      /\ n.clip = p.clip /\ n.streams = p.streams /\ n.media_set = p.media_set /\ n.selected = s
    BY <1>1, <1>5, <1>6 DEF MuxRecord
<1>8. n.first_time = p.first_time
    BY <1>7
<1>9. MuxRecord(n, clips, N)
    BY <1>7, <1>8, Zenon DEF MuxRecord
<1>10. MuxState(n, clips, N, D)
  <2>1. \A t \in 1 .. N :
         /\ n.streams[t].part \in 1 .. PartCount(clips, n.clip, t)
         /\ n.streams[t].frame \in 1 .. PartLen(clips, n.clip, t, n.streams[t].part) + 1
      BY <1>7, Zenon DEF MuxState
  <2> QED
      BY <1>1, <1>9, <2>1, Zenon DEF MuxState
<1>11. HasFrame(n, s)
    BY <1>4, <1>7, Zenon DEF HasFrame, PartOf
<1>12. \A t \in 1 .. N : Taken(n, t) = Taken(p, t)
    BY <1>7, Zenon DEF Taken
<1> QED
    BY <1>4, <1>7, <1>10, <1>11, <1>12, Zenon DEF IsNext, n

\* mp4_muxer_choose_stream finds a stream with a frame and passes no frame of any stream.
LEMMA ChooseOK ==
    ASSUME NEW m, NEW clips, NEW N, NEW D, MuxState(m, clips, N, D), MoreFrames(m)
    PROVE  IsNext(mp4_muxer_choose_stream(m), m, clips, N, D)
<1>1. PICK c : FirstClip(m, clips, c)
    BY ChooseIs, Zenon
<1> DEFINE p == PlaceIn(m, c)
<1>2. mp4_muxer_choose_stream(m) = Chosen(p)
    BY <1>1, ChooseIs, Zenon
<1>3. m.clip \in 1 .. Len(clips) /\ Len(clips) \in Nat
    BY MuxFields, Zenon
<1>4. c \in m.clip .. Len(clips) /\ FramesLeft(p) # {}
    BY <1>1, Zenon DEF FirstClip
<1>5. c \in 1 .. Len(clips)
    BY <1>3, <1>4
<1>6. MuxState(p, clips, N, D)
    BY <1>5, PlaceInOK, Zenon
<1>7. \A s \in 1 .. N : Taken(p, s) = Taken(m, s)
    BY <1>1, SkippedClips
<1>8. IsNext(Chosen(p), p, clips, N, D)
    BY <1>4, <1>6, ChosenOK, Zenon
<1> QED
    BY <1>2, <1>7, <1>8, Zenon DEF IsNext

\* The current frame of a stream is the one that follows those it has taken.
LEMMA CurrentFrame ==
    ASSUME NEW m, NEW clips, NEW N, NEW D, MuxState(m, clips, N, D), NEW s \in 1 .. N, HasFrame(m, s)
    PROVE  /\ Taken(m, s) \in Nat /\ Taken(m, s) + 1 \in DOMAIN FramesOf(clips, s)
           /\ FramesOf(clips, s)[Taken(m, s) + 1] =
                [source |-> PartOf(m, s).source, frame |-> CurFrame(m, s)]
           /\ CurFrame(m, s) \in Frame /\ PartOf(m, s).source \in Nat \ {0}
<1> DEFINE p == m.streams[s].part
           f == m.streams[s].frame
           l == PartLen(clips, m.clip, s, p)
<1>1. m.media_set = clips /\ m.clip \in 1 .. Len(clips) /\ ClipsOK(clips, 1 .. N, D)
    BY MuxFields, Zenon DEF MuxState
<1>2. /\ p \in 1 .. PartCount(clips, m.clip, s) /\ f \in 1 .. l + 1 /\ l \in Nat /\ f \in Nat
      /\ f <= l
    BY CursorFields, Zenon
<1>3. f \in 1 .. l
  <2> HIDE DEF f, l
  <2> QED
      BY <1>2
<1>4. /\ clips[m.clip][s].parts[p] \in Part
      /\ clips[m.clip][s].parts[p].frames \in Seq(Frame)
    BY <1>1, <1>2, PartFacts, Zenon
<1>5. PartOf(m, s) = clips[m.clip][s].parts[p] /\ CurFrame(m, s) = clips[m.clip][s].parts[p].frames[f]
    BY <1>1, Zenon DEF PartOf, CurFrame
<1>6. FrameIn(clips, m.clip, s, p, f) = [source |-> PartOf(m, s).source, frame |-> CurFrame(m, s)]
    BY <1>5, Zenon DEF FrameIn
<1>7. PartOf(m, s).source \in Nat \ {0}
  <2> HIDE DEF p
  <2> QED
      BY <1>4, <1>5 DEF Part, NULL
<1>8. CurFrame(m, s) \in Frame
  <2> DEFINE F == clips[m.clip][s].parts[p].frames
  <2>1. F \in Seq(Frame) /\ f \in 1 .. Len(F) /\ CurFrame(m, s) = F[f]
      BY <1>3, <1>4, <1>5, Zenon DEF PartLen
  <2> HIDE DEF F, f
  <2> QED
      BY <2>1
<1>9. Taken(m, s) = Place(clips, s, m.clip, p, f)
    BY <1>1, Zenon DEF Taken
<1>10. /\ Place(clips, s, m.clip, p, f) \in Nat
       /\ Place(clips, s, m.clip, p, f) + 1 \in DOMAIN FramesOf(clips, s)
       /\ FramesOf(clips, s)[Place(clips, s, m.clip, p, f) + 1] = FrameIn(clips, m.clip, s, p, f)
  <2> HIDE DEF p, f
  <2> QED
      BY <1>1, <1>2, PlaceFacts
<1> QED
    BY <1>6, <1>7, <1>8, <1>9, <1>10, Zenon

\* A cursor moved past its frame.
LEMMA NextFrameIs ==
    ASSUME NEW c \in Cursor, NEW d \in Nat
    PROVE  /\ NextFrame(c, d) \in Cursor /\ NextFrame(c, d).frame = c.frame + 1
           /\ NextFrame(c, d).part = c.part /\ NextFrame(c, d).media_type = c.media_type
<1>1. \A a \in Nat, b \in Nat : [[c EXCEPT !.frame = a] EXCEPT !.time = b] \in Cursor
    BY DEF Cursor
<1>2. /\ NextFrame(c, d).frame = c.frame + 1
      /\ NextFrame(c, d).part = c.part /\ NextFrame(c, d).media_type = c.media_type
    BY DEF NextFrame, Cursor
<1>3. NextFrame(c, d) = [[c EXCEPT !.frame = c.frame + 1] EXCEPT !.time = c.time + d]
    BY Zenon DEF NextFrame
<1>4. c.frame + 1 \in Nat /\ c.time + d \in Nat
    BY DEF Cursor
<1> QED
    BY <1>1, <1>2, <1>3, <1>4, Zenon

\* n is m with the stream s past its frame.
IsPast(n, m, clips, N, D, s) ==
    /\ MuxState(n, clips, N, D)
    /\ n.clip = m.clip /\ n.selected = m.selected
    /\ n.streams[s].part = m.streams[s].part /\ n.streams[s].frame = m.streams[s].frame + 1
    /\ \A u \in 1 .. N : n.streams[u].media_type = m.streams[u].media_type
    /\ \A u \in (1 .. N) \ {s} : n.streams[u] = m.streams[u]
    /\ \A u \in 1 .. N : Taken(n, u) = Taken(m, u) + (IF u = s THEN 1 ELSE 0)

\* Past the frame of the selected stream, the other streams are where they were.
LEMMA TakeFrameOK ==
    ASSUME NEW m, NEW clips, NEW N, NEW D, MuxState(m, clips, N, D),
           NEW s \in 1 .. N, m.selected = s, HasFrame(m, s)
    PROVE  IsPast(TakeFrame(m), m, clips, N, D, s)
<1> DEFINE d == CurFrame(m, s).duration
           n == TakeFrame(m)
           z == NextFrame(m.streams[s], d)
           X == [m.streams EXCEPT ![s] = z]
           c == m.streams[s]
           l == PartLen(clips, m.clip, s, c.part)
<1>1. /\ N \in Nat /\ Timescale \in Nat /\ MuxRecord(m, clips, N) /\ m.streams \in [1 .. N -> Cursor]
      /\ m.media_set = clips /\ m.clip \in 1 .. Len(clips) /\ ClipsOK(clips, 1 .. N, D)
    BY MuxFields, Zenon DEF MuxState
<1>2. d \in Nat
  <2>1. CurFrame(m, s) \in Frame
      BY CurrentFrame, Zenon
  <2> QED
      BY <2>1 DEF Frame
<1>3. /\ c \in Cursor /\ c.frame \in 1 .. l + 1 /\ l \in Nat /\ c.frame <= l
      /\ c.part \in 1 .. PartCount(clips, m.clip, s) /\ c.frame \in Nat
    BY CursorFields, Zenon
<1>4. n = [m EXCEPT !.streams = X]
  <2> DEFINE Y(u) == [m.streams EXCEPT ![u] = NextFrame(m.streams[u], CurFrame(m, u).duration)]
  <2>1. n = [m EXCEPT !.streams = Y(m.selected)]
      BY <1>1 DEF TakeFrame, MuxRecord
  <2>2. Y(m.selected) = X
      BY Zenon
  <2> HIDE DEF Y, X, n
  <2> QED
      BY <2>1, <2>2, Zenon
<1>5. z \in Cursor /\ z.frame = c.frame + 1 /\ z.part = c.part /\ z.media_type = c.media_type
    BY <1>2, <1>3, NextFrameIs, Zenon
<1> HIDE DEF d, z, c, l, n
<1>6. X \in [1 .. N -> Cursor] /\ X[s] = z /\ \A u \in (1 .. N) \ {s} : X[u] = m.streams[u]
    BY <1>1, <1>5
<1> HIDE DEF X
<1>7. /\ n \in [media_set: {clips}, clip: 1 .. Len(clips), selected: 0 .. N,
                first_time: {m.first_time}, streams: [1 .. N -> Cursor]]
      /\ n.clip = m.clip /\ n.streams = X /\ n.media_set = m.media_set /\ n.selected = m.selected
    BY <1>1, <1>4, <1>6 DEF MuxRecord
<1>8. n.first_time = m.first_time
    BY <1>7
<1>9. MuxRecord(n, clips, N)
    BY <1>7, <1>8, Zenon DEF MuxRecord
<1>10. \A u \in (1 .. N) \ {s} : n.streams[u] = m.streams[u]
    BY <1>6, <1>7, Zenon
<1>11. n.streams[s].part = m.streams[s].part /\ n.streams[s].frame = m.streams[s].frame + 1
    BY <1>5, <1>6, <1>7, Zenon DEF c
<1>12. \A u \in 1 .. N : n.streams[u].media_type = m.streams[u].media_type
    BY <1>5, <1>6, <1>7, Zenon DEF c
<1>13. MuxState(n, clips, N, D)
  <2>1. \A u \in (1 .. N) \ {s} :
         /\ n.streams[u].part \in 1 .. PartCount(clips, n.clip, u)
         /\ n.streams[u].frame \in 1 .. PartLen(clips, n.clip, u, n.streams[u].part) + 1
      BY <1>7, <1>10, Zenon DEF MuxState
  <2>2. n.streams[s].part \in 1 .. PartCount(clips, n.clip, s)
      BY <1>3, <1>7, <1>11, Zenon DEF c
  <2>3. c.frame + 1 \in 1 .. l + 1
      BY <1>3
  <2>4. n.streams[s].frame \in 1 .. PartLen(clips, n.clip, s, n.streams[s].part) + 1
      BY <2>3, <1>7, <1>11, Zenon DEF c, l
  <2> QED
      BY <1>1, <1>9, <2>1, <2>2, <2>4, Zenon DEF MuxState
<1>14. \A u \in (1 .. N) \ {s} : Taken(n, u) = Taken(m, u)
    BY <1>7, <1>10, Zenon DEF Taken
<1>15. Taken(n, s) = Taken(m, s) + 1
  <2>1. Place(clips, s, m.clip, c.part, c.frame + 1) = Place(clips, s, m.clip, c.part, c.frame) + 1
    <3> DEFINE p == c.part
               f == c.frame
    <3>1. p \in 1 .. PartCount(clips, m.clip, s) /\ f \in 1 .. l
        BY <1>3
    <3>2. f \in 1 .. PartLen(clips, m.clip, s, p)
        BY <3>1, Zenon DEF l
    <3> HIDE DEF p, f
    <3>3. Place(clips, s, m.clip, p, f + 1) = Place(clips, s, m.clip, p, f) + 1
        BY <1>1, <3>1, <3>2, PlaceNextFrame
    <3> QED
        BY <3>3, Zenon DEF p, f
  <2> QED
      BY <1>1, <1>7, <1>11, <2>1, Zenon DEF Taken, c
<1>16. \A u \in 1 .. N : Taken(m, u) \in Int
  <2> TAKE u \in 1 .. N
  <2>1. Place(clips, u, m.clip, m.streams[u].part, m.streams[u].frame) \in Nat
    <3>1. /\ m.streams[u].part \in 1 .. PartCount(clips, m.clip, u)
          /\ m.streams[u].frame \in 1 .. PartLen(clips, m.clip, u, m.streams[u].part) + 1
        BY Zenon DEF MuxState
    <3> QED
        BY <1>1, <3>1, PlaceFacts
  <2> QED
      BY <1>1, <2>1 DEF Taken
<1>17. \A u \in 1 .. N : Taken(n, u) = Taken(m, u) + (IF u = s THEN 1 ELSE 0)
  <2> TAKE u \in 1 .. N
  <2> DEFINE x == Taken(n, u)
             y == Taken(m, u)
  <2>1. (u = s => x = y + 1) /\ (u # s => x = y) /\ y \in Int
      BY <1>14, <1>15, <1>16, Zenon
  <2> HIDE DEF x, y
  <2>2. x = y + (IF u = s THEN 1 ELSE 0)
      BY <2>1
  <2> QED
      BY <2>2 DEF x, y
<1> QED
    BY <1>7, <1>10, <1>11, <1>12, <1>13, <1>17, Zenon DEF IsPast, n

\* The media types of the streams never change.
OfTypes(m, N, types) == \A s \in 1 .. N : m.streams[s].media_type = types[s]

\* Looking for a frame in a clip keeps the media types.
LEMMA PlaceInTypes ==
    ASSUME NEW m, NEW clips, NEW N, NEW D, MuxState(m, clips, N, D), NEW c \in 1 .. Len(clips),
           NEW types, OfTypes(m, N, types)
    PROVE  OfTypes(PlaceIn(m, c), N, types)
<1>1. ASSUME NEW n, MuxState(n, clips, N, D), OfTypes(n, N, types)
      PROVE  OfTypes(NextParts(n), N, types)
  <2>1. /\ NextParts(n).streams =
             [s \in 1 .. N |-> IF s \in AtEnd(n) THEN NextPart(n.streams[s]) ELSE n.streams[s]]
        /\ n.streams \in [1 .. N -> Cursor]
    <3>1. n.streams \in [1 .. N -> Cursor]
        BY <1>1, MuxFields, Zenon
    <3>2. NextParts(n).streams =
             [s \in 1 .. N |-> IF s \in AtEnd(n) THEN NextPart(n.streams[s]) ELSE n.streams[s]]
        BY <1>1, NextPartsIs, Zenon
    <3> QED
        BY <3>1, <3>2, Zenon
  <2> SUFFICES ASSUME NEW s \in 1 .. N PROVE NextParts(n).streams[s].media_type = types[s]
      BY Zenon DEF OfTypes
  <2>2. n.streams[s] \in Cursor /\ n.streams[s].media_type = types[s]
      BY <1>1, <2>1, Zenon DEF OfTypes
  <2>3. CASE s \in AtEnd(n)
    <3>1. NextParts(n).streams[s] = NextPart(n.streams[s])
        BY <2>1, <2>3, Zenon
    <3> QED
        BY <2>2, <3>1, NextPartIs, Zenon
  <2>4. CASE s \notin AtEnd(n)
    <3>1. NextParts(n).streams[s] = n.streams[s]
        BY <2>1, <2>4, Zenon
    <3> QED
        BY <2>2, <3>1, Zenon
  <2> QED
      BY <2>3, <2>4, Zenon
<1> DEFINE r == mp4_muxer_reinit_tracks(m, c)
           x == IF c = m.clip THEN m ELSE r
<1>2. PlaceIn(m, c) = NextParts(x)
    BY Zenon DEF PlaceIn
<1>3. AtClip(r, m, clips, N, D, c)
    BY ReinitOK, Zenon
<1> HIDE DEF r
<1>4. OfTypes(r, N, types)
  <2> SUFFICES ASSUME NEW s \in 1 .. N PROVE r.streams[s].media_type = types[s]
      BY Zenon DEF OfTypes
  <2> DEFINE t == m.streams[s].media_type
             i == mp4_muxer_init_track(clips[c][s], t)
  <2>1. t = types[s]
      BY Zenon DEF OfTypes
  <2>2. r.streams[s] = i
      BY <1>3, Zenon DEF AtClip
  <2>3. t \in 0 .. 1
    <3>1. m.streams[s] \in Cursor
        BY CursorFields, Zenon
    <3> QED
        BY <3>1 DEF Cursor
  <2>4. ClipsOK(clips, 1 .. N, D)
      BY Zenon DEF MuxState
  <2> HIDE DEF t
  <2>5. AtStart(i, t)
      BY <2>3, <2>4, InitTrackIs, Zenon
  <2> HIDE DEF i
  <2> QED
      BY <2>1, <2>2, <2>5, Zenon DEF AtStart
<1>5. MuxState(r, clips, N, D)
    BY <1>3, Zenon DEF AtClip
<1>6. MuxState(x, clips, N, D) /\ OfTypes(x, N, types)
    BY <1>4, <1>5, Zenon
<1> HIDE DEF x
<1> QED
    BY <1>1, <1>2, <1>6, Zenon

\* Choosing a stream keeps the media types.
LEMMA ChooseTypes ==
    ASSUME NEW m, NEW clips, NEW N, NEW D, MuxState(m, clips, N, D), MoreFrames(m),
           NEW types, OfTypes(m, N, types)
    PROVE  OfTypes(mp4_muxer_choose_stream(m), N, types)
<1>1. PICK c : FirstClip(m, clips, c)
    BY ChooseIs, Zenon
<1> DEFINE p == PlaceIn(m, c)
<1>2. mp4_muxer_choose_stream(m) = Chosen(p)
    BY <1>1, ChooseIs, Zenon
<1>3. m.clip \in 1 .. Len(clips) /\ Len(clips) \in Nat
    BY MuxFields, Zenon
<1>4. c \in m.clip .. Len(clips)
    BY <1>1, Zenon DEF FirstClip
<1>5. c \in 1 .. Len(clips)
    BY <1>3, <1>4
<1>6. OfTypes(p, N, types) /\ MuxState(p, clips, N, D)
    BY <1>5, PlaceInTypes, PlaceInOK, Zenon
<1> HIDE DEF p
<1>7. Chosen(p).streams = p.streams
    BY <1>6 DEF Chosen, MuxState, MuxRecord
<1> QED
    BY <1>2, <1>6, <1>7, Zenon DEF OfTypes

\* Two records that differ in first_time at most
SamePlace(a, b) ==
    /\ a.media_set = b.media_set /\ a.clip = b.clip /\ a.selected = b.selected
    /\ a.streams = b.streams

\* States at the same place agree on every stream's part and frame.
LEMMA SameCursors ==
    ASSUME NEW a, NEW b, SamePlace(a, b)
    PROVE  /\ FramesLeft(a) = FramesLeft(b) /\ AtEnd(a) = AtEnd(b)
           /\ \A s : /\ PartOf(a, s) = PartOf(b, s) /\ (HasFrame(a, s) <=> HasFrame(b, s))
                     /\ CurFrame(a, s) = CurFrame(b, s) /\ Taken(a, s) = Taken(b, s)
<1>1. \A s : PartOf(a, s) = PartOf(b, s)
    BY Zenon DEF SamePlace, PartOf
<1>2. \A s : HasFrame(a, s) <=> HasFrame(b, s)
    BY <1>1, Zenon DEF SamePlace, HasFrame
<1>3. \A s : CurFrame(a, s) = CurFrame(b, s) /\ Taken(a, s) = Taken(b, s)
    BY <1>1, Zenon DEF SamePlace, CurFrame, Taken
<1>4. FramesLeft(a) = FramesLeft(b)
    BY <1>2, Zenon DEF SamePlace, FramesLeft
<1>5. AtEnd(a) = AtEnd(b)
    BY <1>2, Zenon DEF SamePlace, AtEnd
<1> QED
    BY <1>1, <1>2, <1>3, <1>4, <1>5, Zenon

\* They agree after the parts that ended.
LEMMA SameNextParts ==
    ASSUME NEW a, NEW b, NEW clips, NEW N, NEW D, MuxState(a, clips, N, D), MuxState(b, clips, N, D),
           SamePlace(a, b)
    PROVE  SamePlace(NextParts(a), NextParts(b))
<1> DEFINE X(m) == [s \in 1 .. N |-> IF s \in AtEnd(m) THEN NextPart(m.streams[s]) ELSE m.streams[s]]
<1>1. ASSUME NEW m, MuxState(m, clips, N, D)
      PROVE  /\ NextParts(m).media_set = clips /\ NextParts(m).clip = m.clip
             /\ NextParts(m).selected = m.selected
             /\ NextParts(m).streams = X(m)
  <2>1. /\ MuxState(NextParts(m), clips, N, D) /\ NextParts(m).clip = m.clip
        /\ NextParts(m).selected = m.selected
      BY <1>1, NextPartsOK, Zenon
  <2>2. NextParts(m).streams = X(m)
      BY <1>1, NextPartsIs, Zenon
  <2>3. NextParts(m).media_set = clips
      BY <2>1, MuxFields, Zenon
  <2> QED
      BY <2>1, <2>2, <2>3, Zenon
<1>2. X(a) = X(b)
    BY SameCursors, Zenon DEF SamePlace
<1> HIDE DEF X
<1> QED
    BY <1>1, <1>2, Zenon DEF SamePlace

\* They agree in every clip that follows.
LEMMA SamePlaceIn ==
    ASSUME NEW a, NEW b, NEW clips, NEW N, NEW D, MuxState(a, clips, N, D), MuxState(b, clips, N, D),
           SamePlace(a, b), NEW c \in 1 .. Len(clips)
    PROVE  SamePlace(PlaceIn(a, c), PlaceIn(b, c))
<1> DEFINE r(m) == mp4_muxer_reinit_tracks(m, c)
           x(m) == IF c = m.clip THEN m ELSE r(m)
           X(m) == [s \in 1 .. N |-> mp4_muxer_init_track(clips[c][s], m.streams[s].media_type)]
<1>1. PlaceIn(a, c) = NextParts(x(a)) /\ PlaceIn(b, c) = NextParts(x(b))
    BY Zenon DEF PlaceIn
<1>2. AtClip(r(a), a, clips, N, D, c) /\ AtClip(r(b), b, clips, N, D, c)
    BY ReinitOK, Zenon
<1> HIDE DEF r
<1>3. /\ MuxState(r(a), clips, N, D) /\ r(a).clip = c /\ r(a).selected = a.selected
      /\ r(a).streams = X(a)
      /\ MuxState(r(b), clips, N, D) /\ r(b).clip = c /\ r(b).selected = b.selected
      /\ r(b).streams = X(b)
    BY <1>2, Zenon DEF AtClip
<1>4. r(a).media_set = clips /\ r(b).media_set = clips
    BY <1>3, MuxFields, Zenon
<1>5. X(a) = X(b)
    BY Zenon DEF SamePlace
<1> HIDE DEF X
<1>6. SamePlace(r(a), r(b))
    BY <1>3, <1>4, <1>5, Zenon DEF SamePlace
<1>7. a.clip = b.clip
    BY Zenon DEF SamePlace
<1>8. SamePlace(x(a), x(b)) /\ MuxState(x(a), clips, N, D) /\ MuxState(x(b), clips, N, D)
    BY <1>3, <1>6, <1>7, Zenon
<1> HIDE DEF x
<1> QED
    BY <1>1, <1>8, SameNextParts, Zenon

\* first_time does not influence the order.
LEMMA SameChoice ==
    ASSUME NEW a, NEW b, NEW clips, NEW N, NEW D, MuxState(a, clips, N, D), MuxState(b, clips, N, D),
           SamePlace(a, b)
    PROVE  /\ MoreFrames(a) <=> MoreFrames(b)
           /\ MoreFrames(a) => SamePlace(mp4_muxer_choose_stream(a), mp4_muxer_choose_stream(b))
<1>1. a.clip = b.clip /\ a.clip \in 1 .. Len(clips) /\ Len(clips) \in Nat
    BY MuxFields, Zenon DEF SamePlace
<1>2. \A c \in a.clip .. Len(clips) : c \in 1 .. Len(clips)
    BY <1>1
<1>3. \A c \in a.clip .. Len(clips) : FramesLeft(PlaceIn(a, c)) = FramesLeft(PlaceIn(b, c))
    BY <1>2, SamePlaceIn, SameCursors, Zenon
<1>4. \A c : FirstClip(a, clips, c) <=> FirstClip(b, clips, c)
    BY <1>1, <1>3, Zenon DEF FirstClip
<1>5. MoreFrames(a) <=> MoreFrames(b)
    BY <1>4, ChooseIs, Zenon
<1>6. ASSUME MoreFrames(a)
      PROVE  SamePlace(mp4_muxer_choose_stream(a), mp4_muxer_choose_stream(b))
  <2>1. PICK c : FirstClip(a, clips, c) /\ FirstClip(b, clips, c)
      BY <1>4, <1>6, ChooseIs, Zenon
  <2> DEFINE p == PlaceIn(a, c)
             q == PlaceIn(b, c)
  <2>2. mp4_muxer_choose_stream(a) = Chosen(p) /\ mp4_muxer_choose_stream(b) = Chosen(q)
      BY <2>1, ChooseIs, Zenon
  <2>3. c \in a.clip .. Len(clips)
      BY <2>1, Zenon DEF FirstClip
  <2>4. MuxState(p, clips, N, D) /\ MuxState(q, clips, N, D) /\ SamePlace(p, q)
      BY <1>2, <2>3, PlaceInOK, SamePlaceIn, Zenon
  <2> HIDE DEF p, q
  <2>5. ASSUME NEW n, MuxState(n, clips, N, D)
        PROVE  /\ Chosen(n).media_set = n.media_set /\ Chosen(n).clip = n.clip
               /\ Chosen(n).streams = n.streams
               /\ Chosen(n).selected = Preferred(n.streams, FramesLeft(n), n.selected)
    <3> DEFINE s == Preferred(n.streams, FramesLeft(n), n.selected)
    <3>1. Chosen(n) = [n EXCEPT !.selected = s]
        BY Zenon DEF Chosen
    <3> HIDE DEF s
    <3>2. /\ Chosen(n).media_set = n.media_set /\ Chosen(n).clip = n.clip
          /\ Chosen(n).streams = n.streams /\ Chosen(n).selected = s
        BY <2>5, <3>1 DEF MuxState, MuxRecord
    <3> QED
        BY <3>2, Zenon DEF s
  <2>6. FramesLeft(p) = FramesLeft(q)
      BY <2>4, SameCursors, Zenon
  <2>7. SamePlace(Chosen(p), Chosen(q))
      BY <2>4, <2>5, <2>6, Zenon DEF SamePlace
  <2> QED
      BY <2>2, <2>7, Zenon
<1> QED
    BY <1>5, <1>6, Zenon

\* They agree past the next frame.
LEMMA SameTake ==
    ASSUME NEW a, NEW b, NEW clips, NEW N, NEW D, MuxState(a, clips, N, D), MuxState(b, clips, N, D),
           SamePlace(a, b)
    PROVE  SamePlace(TakeFrame(a), TakeFrame(b))
<1> DEFINE X(m) == [m.streams EXCEPT ![m.selected] = NextFrame(@, CurFrame(m, m.selected).duration)]
<1>1. ASSUME NEW m, MuxState(m, clips, N, D)
      PROVE  /\ TakeFrame(m).media_set = m.media_set /\ TakeFrame(m).clip = m.clip
             /\ TakeFrame(m).selected = m.selected /\ TakeFrame(m).streams = X(m)
  <2>1. TakeFrame(m) = [m EXCEPT !.streams = X(m)]
      BY <1>1 DEF TakeFrame, MuxState, MuxRecord
  <2> HIDE DEF X
  <2> QED
      BY <1>1, <2>1 DEF MuxState, MuxRecord
<1>2. X(a) = X(b)
    BY SameCursors, Zenon DEF SamePlace
<1> HIDE DEF X
<1> QED
    BY <1>1, <1>2, Zenon DEF SamePlace

\* The media set of a job with N streams of the given types
SetOK(clips, types, N, D) ==
    N \in Nat /\ Timescale \in Nat /\ types \in [1 .. N -> 0 .. 1] /\ ClipsOK(clips, 1 .. N, D)

\* The muxer starts before the first frame of every stream.
LEMMA InitStateOK ==
    ASSUME NEW clips, NEW types, NEW N, NEW D, SetOK(clips, types, N, D)
    PROVE  /\ MuxState(mp4_muxer_init_state(clips, types), clips, N, D)
           /\ OfTypes(mp4_muxer_init_state(clips, types), N, types)
           /\ \A s \in 1 .. N : Taken(mp4_muxer_init_state(clips, types), s) = 0
<1> DEFINE n == mp4_muxer_init_state(clips, types)
           X == [s \in 1 .. N |-> mp4_muxer_init_track(clips[1][s], types[s])]
<1>1. /\ N \in Nat /\ Timescale \in Nat /\ types \in [1 .. N -> 0 .. 1] /\ ClipsOK(clips, 1 .. N, D)
      /\ DOMAIN types = 1 .. N
    BY DEF SetOK
<1>2. 1 \in 1 .. Len(clips)
  <2>1. clips \in Seq(Seq(Track)) /\ clips # <<>>
      BY <1>1, Zenon DEF ClipsOK
  <2> QED
      BY <2>1
<1>3. \A s \in 1 .. N : X[s] \in Cursor /\ X[s].part = 1 /\ X[s].frame = 1 /\ X[s].media_type = types[s]
  <2> TAKE s \in 1 .. N
  <2> DEFINE t == types[s]
             i == mp4_muxer_init_track(clips[1][s], t)
  <2>1. X[s] = i
      BY Zenon
  <2>2. t \in 0 .. 1
      BY <1>1
  <2> HIDE DEF t
  <2>3. AtStart(i, t)
      BY <1>1, <1>2, <2>2, InitTrackIs, Zenon
  <2> HIDE DEF i, X
  <2> QED
      BY <2>1, <2>3, Zenon DEF AtStart, t
<1>4. X \in [1 .. N -> Cursor]
    BY <1>3, Zenon
<1>5. n = [media_set |-> clips, clip |-> 1, selected |-> 0, first_time |-> TRUE, streams |-> X]
    BY <1>1, Zenon DEF mp4_muxer_init_state
<1> HIDE DEF X, n
<1>6. 0 \in 0 .. N
    BY <1>1
<1>7. /\ n \in [media_set: {clips}, clip: 1 .. Len(clips), selected: 0 .. N,
                first_time: {TRUE}, streams: [1 .. N -> Cursor]]
      /\ n.clip = 1 /\ n.streams = X /\ n.media_set = clips /\ n.first_time = TRUE
    BY <1>2, <1>4, <1>5, <1>6
<1>8. MuxRecord(n, clips, N)
    BY <1>7, Zenon DEF MuxRecord
<1>9. MuxState(n, clips, N, D)
  <2>1. \A s \in 1 .. N : /\ n.streams[s].part \in 1 .. PartCount(clips, n.clip, s)
                          /\ n.streams[s].frame \in 1 .. PartLen(clips, n.clip, s, n.streams[s].part) + 1
      BY <1>1, <1>2, <1>3, <1>7, FirstPlace, Zenon
  <2> QED
      BY <1>1, <1>8, <2>1, Zenon DEF MuxState
<1>10. OfTypes(n, N, types)
    BY <1>3, <1>7, Zenon DEF OfTypes
<1>11. ASSUME NEW s \in 1 .. N PROVE Taken(n, s) = 0
  <2>1. Taken(n, s) = Place(clips, s, 1, 1, 1)
      BY <1>3, <1>7, Zenon DEF Taken
  <2>2. 1 \in 1 .. PartCount(clips, 1, s) /\ 1 \in 1 .. PartLen(clips, 1, s, 1) + 1
      BY <1>1, <1>2, FirstPlace, Zenon
  <2>3. Place(clips, s, 1, 1, 1) = 0
      BY <1>1, <1>2, <2>2, PlaceFirst
  <2> QED
      BY <2>1, <2>3
<1> QED
    BY <1>9, <1>10, <1>11, Zenon DEF n

\* "reset the state": from any place back to the first one
LEMMA ResetIs ==
    ASSUME NEW clips, NEW types, NEW N, NEW D, SetOK(clips, types, N, D),
           NEW m, MuxState(m, clips, N, D), OfTypes(m, N, types)
    PROVE  ResetMuxer(m) = mp4_muxer_init_state(clips, types)
<1>1. types \in [1 .. N -> 0 .. 1] /\ m.media_set = clips /\ DOMAIN m.streams = 1 .. N
    BY MuxFields, Zenon DEF SetOK
<1>2. MediaTypes(m) = [s \in 1 .. N |-> m.streams[s].media_type]
    BY <1>1, Zenon DEF MediaTypes
<1>3. \A s \in 1 .. N : m.streams[s].media_type = types[s]
    BY Zenon DEF OfTypes
<1>4. MediaTypes(m) = [s \in 1 .. N |-> types[s]]
    BY <1>2, <1>3, Zenon
<1>5. [s \in 1 .. N |-> types[s]] = types
    BY <1>1
<1> QED
    BY <1>1, <1>4, <1>5, Zenon DEF ResetMuxer

\* first_time may change at any place.
LEMMA FirstTimeOK ==
    ASSUME NEW m, NEW clips, NEW N, NEW D, MuxState(m, clips, N, D), NEW b
    PROVE  /\ MuxState([m EXCEPT !.first_time = b], clips, N, D)
           /\ SamePlace([m EXCEPT !.first_time = b], m)
<1> DEFINE n == [m EXCEPT !.first_time = b]
<1>1. MuxRecord(m, clips, N) /\ N \in Nat /\ Timescale \in Nat /\ ClipsOK(clips, 1 .. N, D)
    BY Zenon DEF MuxState
<1>2. /\ n \in [media_set: {clips}, clip: 1 .. Len(clips), selected: 0 .. N,
                first_time: {b}, streams: [1 .. N -> Cursor]]
      /\ n.clip = m.clip /\ n.streams = m.streams /\ n.media_set = m.media_set
      /\ n.selected = m.selected /\ n.first_time = b
    BY <1>1 DEF MuxRecord
<1> HIDE DEF n
<1>3. MuxRecord(n, clips, N)
    BY <1>2, Zenon DEF MuxRecord
<1>4. \A t \in 1 .. N :
         /\ n.streams[t].part \in 1 .. PartCount(clips, n.clip, t)
         /\ n.streams[t].frame \in 1 .. PartLen(clips, n.clip, t, n.streams[t].part) + 1
    BY <1>2, Zenon DEF MuxState
<1>5. MuxState(n, clips, N, D)
    BY <1>1, <1>3, <1>4, Zenon DEF MuxState
<1> QED
    BY <1>2, <1>5, Zenon DEF SamePlace, n

-----------------------------------------------------------------------------
(* The frames in the order that both passes follow *)

\* The stream, the frame and its source that follow the place run[i]
StreamAt(run, i) == mp4_muxer_choose_stream(run[i]).selected
FrameAt(run, i) == CurFrame(mp4_muxer_choose_stream(run[i]), StreamAt(run, i))
SourceAt(run, i) == PartOf(mp4_muxer_choose_stream(run[i]), StreamAt(run, i)).source

\* The places before the first n frames and after them, and the offsets of these in the
\* output
IsRun(run, off, n, clips, types, N, D) ==
    /\ n \in Nat /\ SetOK(clips, types, N, D)
    /\ run[0] = mp4_muxer_init_state(clips, types) /\ off[0] = 0
    /\ \A i \in 0 .. n : /\ MuxState(run[i], clips, N, D) /\ OfTypes(run[i], N, types)
                         /\ off[i] \in Nat
    /\ \A i \in 0 .. n - 1 : /\ MoreFrames(run[i])
                             /\ run[i + 1] = TakeFrame(mp4_muxer_choose_stream(run[i]))
                             /\ off[i + 1] = off[i] + FrameAt(run, i).size

\* The frame that follows a place is the next one of its stream.
NextOf(m, clips, N, D, types) ==
    LET c == mp4_muxer_choose_stream(m)
        s == c.selected
        t == TakeFrame(c)
    IN /\ s \in 1 .. N /\ MuxState(c, clips, N, D) /\ HasFrame(c, s)
       /\ CurFrame(c, s) \in Frame /\ PartOf(c, s).source \in Nat \ {0}
       /\ Taken(m, s) \in Nat /\ Taken(m, s) + 1 \in DOMAIN FramesOf(clips, s)
       /\ FramesOf(clips, s)[Taken(m, s) + 1] = [source |-> PartOf(c, s).source, frame |-> CurFrame(c, s)]
       /\ MuxState(t, clips, N, D) /\ OfTypes(t, N, types)
       /\ \A u \in 1 .. N : Taken(t, u) = Taken(m, u) + (IF u = s THEN 1 ELSE 0)

\* The next frame of a state with frames left is the next one of its stream.
LEMMA NextOfFacts ==
    ASSUME NEW m, NEW clips, NEW N, NEW D, NEW types, MuxState(m, clips, N, D), OfTypes(m, N, types),
           MoreFrames(m)
    PROVE  NextOf(m, clips, N, D, types)
<1> DEFINE c == mp4_muxer_choose_stream(m)
           s == c.selected
           t == TakeFrame(c)
<1>1. IsNext(c, m, clips, N, D)
    BY ChooseOK, Zenon
<1>2. OfTypes(c, N, types)
    BY ChooseTypes, Zenon
<1> HIDE DEF c
<1>3. /\ MuxState(c, clips, N, D) /\ s \in 1 .. N /\ HasFrame(c, s)
      /\ \A u \in 1 .. N : Taken(c, u) = Taken(m, u)
    BY <1>1, Zenon DEF IsNext
<1>4. /\ Taken(c, s) \in Nat /\ Taken(c, s) + 1 \in DOMAIN FramesOf(clips, s)
      /\ FramesOf(clips, s)[Taken(c, s) + 1] = [source |-> PartOf(c, s).source, frame |-> CurFrame(c, s)]
      /\ CurFrame(c, s) \in Frame /\ PartOf(c, s).source \in Nat \ {0}
    BY <1>3, CurrentFrame, Zenon
<1>5. IsPast(t, c, clips, N, D, s)
    BY <1>3, TakeFrameOK, Zenon
<1>6. /\ MuxState(t, clips, N, D)
      /\ \A u \in 1 .. N : t.streams[u].media_type = c.streams[u].media_type
      /\ \A u \in 1 .. N : Taken(t, u) = Taken(c, u) + (IF u = s THEN 1 ELSE 0)
    BY <1>5, Zenon DEF IsPast
<1>7. OfTypes(t, N, types)
    BY <1>2, <1>6, Zenon DEF OfTypes
<1>8. \A u \in 1 .. N : Taken(t, u) = Taken(m, u) + (IF u = s THEN 1 ELSE 0)
    BY <1>3, <1>6, Zenon
<1>9. Taken(c, s) = Taken(m, s)
    BY <1>3, Zenon
<1> QED
    BY <1>3, <1>4, <1>6, <1>7, <1>8, <1>9, Zenon DEF NextOf, c

\* f with one more value
Extended(f, n, x) == [i \in 0 .. n + 1 |-> IF i = n + 1 THEN x ELSE f[i]]

\* A run goes on with the frame its last state chooses.
LEMMA RunExtended ==
    ASSUME NEW run, NEW off, NEW n, NEW clips, NEW types, NEW N, NEW D,
           IsRun(run, off, n, clips, types, N, D), MoreFrames(run[n])
    PROVE  IsRun(Extended(run, n, TakeFrame(mp4_muxer_choose_stream(run[n]))),
                 Extended(off, n, off[n] + FrameAt(run, n).size), n + 1, clips, types, N, D)
<1> DEFINE r == Extended(run, n, TakeFrame(mp4_muxer_choose_stream(run[n])))
           o == Extended(off, n, off[n] + FrameAt(run, n).size)
<1>1. /\ n \in Nat /\ SetOK(clips, types, N, D)
      /\ run[0] = mp4_muxer_init_state(clips, types) /\ off[0] = 0
      /\ \A i \in 0 .. n : /\ MuxState(run[i], clips, N, D) /\ OfTypes(run[i], N, types)
                           /\ off[i] \in Nat
      /\ \A i \in 0 .. n - 1 : /\ MoreFrames(run[i])
                               /\ run[i + 1] = TakeFrame(mp4_muxer_choose_stream(run[i]))
                               /\ off[i + 1] = off[i] + FrameAt(run, i).size
    BY Zenon DEF IsRun
<1>2. /\ r[n + 1] = TakeFrame(mp4_muxer_choose_stream(run[n])) /\ \A i \in 0 .. n : r[i] = run[i]
      /\ o[n + 1] = off[n] + FrameAt(run, n).size /\ \A i \in 0 .. n : o[i] = off[i]
  <2> DEFINE x == TakeFrame(mp4_muxer_choose_stream(run[n]))
             y == off[n] + FrameAt(run, n).size
  <2>1. r = Extended(run, n, x) /\ o = Extended(off, n, y) /\ n \in Nat
    <3>1. n \in Nat
        BY <1>1, Zenon
    <3> QED
        BY <3>1
  <2> SUFFICES /\ r[n + 1] = x /\ (\A i \in 0 .. n : r[i] = run[i])
               /\ o[n + 1] = y /\ \A i \in 0 .. n : o[i] = off[i]
      BY Zenon
  <2> HIDE DEF x, y, r, o
  <2>2. r[n + 1] = x /\ \A i \in 0 .. n : r[i] = run[i]
      BY <2>1 DEF Extended
  <2>3. o[n + 1] = y /\ \A i \in 0 .. n : o[i] = off[i]
      BY <2>1 DEF Extended
  <2> QED
      BY <2>2, <2>3, Zenon
<1> HIDE DEF r, o
<1>3. n \in 0 .. n /\ 0 \in 0 .. n
    BY <1>1
<1>4. NextOf(run[n], clips, N, D, types)
    BY <1>1, <1>3, NextOfFacts, Zenon
<1>5. MuxState(r[n + 1], clips, N, D) /\ OfTypes(r[n + 1], N, types)
    BY <1>2, <1>4, Zenon DEF NextOf
<1>6. o[n + 1] \in Nat
  <2>1. FrameAt(run, n) \in Frame
      BY <1>4, Zenon DEF NextOf, FrameAt, StreamAt
  <2>2. FrameAt(run, n).size \in Nat
      BY <2>1 DEF Frame
  <2>3. off[n] \in Nat
      BY <1>1, <1>3, Zenon
  <2> QED
      BY <1>2, <2>2, <2>3
<1>7. \A i \in 0 .. n + 1 : /\ MuxState(r[i], clips, N, D) /\ OfTypes(r[i], N, types)
                            /\ o[i] \in Nat
  <2> TAKE i \in 0 .. n + 1
  <2>1. i = n + 1 \/ i \in 0 .. n
      BY <1>1
  <2> QED
      BY <1>1, <1>2, <1>5, <1>6, <2>1, Zenon
<1>8. \A i \in 0 .. n : FrameAt(r, i) = FrameAt(run, i)
    BY <1>2, Zenon DEF FrameAt, StreamAt
<1>9. \A i \in 0 .. n : /\ MoreFrames(r[i])
                        /\ r[i + 1] = TakeFrame(mp4_muxer_choose_stream(r[i]))
                        /\ o[i + 1] = o[i] + FrameAt(r, i).size
  <2> TAKE i \in 0 .. n
  <2>1. r[i] = run[i] /\ o[i] = off[i] /\ FrameAt(r, i) = FrameAt(run, i)
      BY <1>2, <1>8, Zenon
  <2>2. CASE i = n
      BY <1>2, <2>1, <2>2, Zenon
  <2>3. CASE i # n
    <3>1. i \in 0 .. n - 1 /\ i + 1 \in 0 .. n
        BY <1>1, <2>3
    <3> QED
        BY <1>1, <1>2, <2>1, <3>1, Zenon
  <2> QED
      BY <2>2, <2>3
<1>10. (n + 1) - 1 = n /\ n + 1 \in Nat
    BY <1>1
<1>11. r[0] = mp4_muxer_init_state(clips, types) /\ o[0] = 0
    BY <1>1, <1>2, <1>3, Zenon
<1>12. IsRun(r, o, n + 1, clips, types, N, D)
    BY <1>1, <1>7, <1>9, <1>10, <1>11, Zenon DEF IsRun
<1> QED
    BY <1>12, Zenon DEF r, o

\* What a run says of one of its frames
IsFrameAt(run, off, i, clips, N) ==
    /\ StreamAt(run, i) \in 1 .. N
    /\ FrameAt(run, i) \in Frame /\ SourceAt(run, i) \in Nat \ {0}
    /\ FrameAt(run, i).offset \in Nat /\ FrameAt(run, i).size \in Nat /\ FrameAt(run, i).size > 0
    /\ off[i] \in Nat /\ off[i + 1] \in Nat /\ off[i + 1] = off[i] + FrameAt(run, i).size
    /\ Taken(run[i], StreamAt(run, i)) \in Nat
    /\ Taken(run[i], StreamAt(run, i)) + 1 \in DOMAIN FramesOf(clips, StreamAt(run, i))
    /\ FramesOf(clips, StreamAt(run, i))[Taken(run[i], StreamAt(run, i)) + 1] =
         [source |-> SourceAt(run, i), frame |-> FrameAt(run, i)]

\* What is at each place of a run.
LEMMA RunFrame ==
    ASSUME NEW run, NEW off, NEW n, NEW clips, NEW types, NEW N, NEW D,
           IsRun(run, off, n, clips, types, N, D), NEW i \in 0 .. n - 1
    PROVE  IsFrameAt(run, off, i, clips, N)
<1>1. n \in Nat
    BY Zenon DEF IsRun
<1>2. i \in 0 .. n /\ i + 1 \in 0 .. n
    BY <1>1
<1>3. /\ MuxState(run[i], clips, N, D) /\ OfTypes(run[i], N, types) /\ MoreFrames(run[i])
      /\ off[i] \in Nat /\ off[i + 1] \in Nat /\ off[i + 1] = off[i] + FrameAt(run, i).size
    BY <1>2, Zenon DEF IsRun
<1>4. NextOf(run[i], clips, N, D, types)
    BY <1>3, NextOfFacts, Zenon
<1>5. /\ StreamAt(run, i) \in 1 .. N
      /\ FrameAt(run, i) \in Frame /\ SourceAt(run, i) \in Nat \ {0}
      /\ Taken(run[i], StreamAt(run, i)) \in Nat
      /\ Taken(run[i], StreamAt(run, i)) + 1 \in DOMAIN FramesOf(clips, StreamAt(run, i))
      /\ FramesOf(clips, StreamAt(run, i))[Taken(run[i], StreamAt(run, i)) + 1] =
           [source |-> SourceAt(run, i), frame |-> FrameAt(run, i)]
    BY <1>4, Zenon DEF NextOf, StreamAt, FrameAt, SourceAt
<1>6. FrameAt(run, i).offset \in Nat /\ FrameAt(run, i).size \in Nat /\ FrameAt(run, i).size > 0
    BY <1>5 DEF Frame
<1> QED
    BY <1>3, <1>5, <1>6, Zenon DEF IsFrameAt

\* The frames follow each other in the output.
LEMMA RunOffsets ==
    ASSUME NEW run, NEW off, NEW n, NEW clips, NEW types, NEW N, NEW D,
           IsRun(run, off, n, clips, types, N, D), NEW i \in 0 .. n, NEW j \in 0 .. n, i <= j
    PROVE  off[i] <= off[j]
<1>1. n \in Nat /\ \A k \in 0 .. n : off[k] \in Nat
    BY Zenon DEF IsRun
<1> DEFINE T == {k \in i .. n : ~ (off[i] <= off[k])}
<1>2. T = {}
  <2> SUFFICES ASSUME T # {} PROVE FALSE
      OBVIOUS
  <2>1. T \in SUBSET Nat
      BY <1>1
  <2>2. PICK k \in T : \A l \in T : k <= l
    <3> HIDE DEF T
    <3> QED
        BY <2>1, LeastOf
  <2>3. k \in i .. n /\ ~ (off[i] <= off[k])
      BY <2>2, Zenon
  <2>4. k # i
    <3>1. off[i] \in Nat
        BY <1>1, Zenon
    <3>2. off[i] <= off[i]
        BY <3>1
    <3> QED
        BY <2>3, <3>2, Zenon
  <2> DEFINE h == k - 1
  <2>5. h \in i .. n /\ h \in 0 .. n - 1 /\ h + 1 = k /\ ~ (k <= h)
      BY <1>1, <2>3, <2>4
  <2> HIDE DEF h
  <2>6. off[i] <= off[h]
      BY <2>2, <2>5, Zenon
  <2>7. IsFrameAt(run, off, h, clips, N)
      BY <2>5, RunFrame, Zenon
  <2> DEFINE x == off[i]
             y == off[h]
             z == off[k]
             w == FrameAt(run, h).size
  <2>8. x \in Nat /\ y \in Nat /\ w \in Nat /\ z = y + w /\ x <= y /\ ~ (x <= z)
      BY <1>1, <2>3, <2>5, <2>6, <2>7, Zenon DEF IsFrameAt
  <2> HIDE DEF x, y, z, w
  <2> QED
      BY <2>8
<1>3. j \in i .. n
    BY <1>1
<1> QED
    BY <1>2, <1>3, Zenon

\* A frame ends before the next ones start.
LEMMA RunOrder ==
    ASSUME NEW run, NEW off, NEW n, NEW clips, NEW types, NEW N, NEW D,
           IsRun(run, off, n, clips, types, N, D), NEW i \in 0 .. n - 1, NEW j \in 0 .. n, i < j
    PROVE  off[i + 1] <= off[j]
<1>1. n \in Nat
    BY Zenon DEF IsRun
<1>2. i + 1 \in 0 .. n /\ i + 1 <= j
    BY <1>1
<1> QED
    BY <1>2, RunOffsets, Zenon

\* The places of the first pass
InLayout(run, off, n, lay, N) ==
    /\ lay.size = off[n]
    /\ lay.offsets \in [1 .. N -> Seq(Nat)]
    /\ \A s \in 1 .. N : Len(lay.offsets[s]) = Taken(run[n], s)
    /\ \A s \in 1 .. N : \A k \in 1 .. Len(lay.offsets[s]) :
         \E i \in 0 .. n - 1 : /\ StreamAt(run, i) = s /\ k = Taken(run[i], s) + 1
                               /\ lay.offsets[s][k] = off[i]

\* The first pass records one more place.
LEMMA LayoutExtended ==
    ASSUME NEW run, NEW off, NEW n, NEW clips, NEW types, NEW N, NEW D,
           IsRun(run, off, n, clips, types, N, D), MoreFrames(run[n]),
           NEW lay, InLayout(run, off, n, lay, N), NEW r, NEW o,
           r = Extended(run, n, TakeFrame(mp4_muxer_choose_stream(run[n]))),
           o = Extended(off, n, off[n] + FrameAt(run, n).size),
           NEW l, l.size = lay.size + FrameAt(run, n).size,
           l.offsets = [lay.offsets EXCEPT ![StreamAt(run, n)] = Append(@, lay.size)]
    PROVE  InLayout(r, o, n + 1, l, N)
<1> DEFINE s == StreamAt(run, n)
           z == lay.size
<1>1. n \in Nat /\ (n + 1) - 1 = n /\ n \in 0 .. n /\ n + 1 \in Nat
  <2>1. n \in Nat
      BY Zenon DEF IsRun
  <2> QED
      BY <2>1
<1>2. /\ r[n + 1] = TakeFrame(mp4_muxer_choose_stream(run[n])) /\ (\A i \in 0 .. n : r[i] = run[i])
      /\ o[n + 1] = off[n] + FrameAt(run, n).size /\ \A i \in 0 .. n : o[i] = off[i]
  <2> DEFINE x == TakeFrame(mp4_muxer_choose_stream(run[n]))
             y == off[n] + FrameAt(run, n).size
  <2>1. r = Extended(run, n, x) /\ o = Extended(off, n, y) /\ n \in Nat
      BY <1>1, Zenon
  <2> SUFFICES /\ r[n + 1] = x /\ (\A i \in 0 .. n : r[i] = run[i])
               /\ o[n + 1] = y /\ \A i \in 0 .. n : o[i] = off[i]
      BY Zenon
  <2> HIDE DEF x, y
  <2>2. r[n + 1] = x /\ \A i \in 0 .. n : r[i] = run[i]
      BY <2>1 DEF Extended
  <2>3. o[n + 1] = y /\ \A i \in 0 .. n : o[i] = off[i]
      BY <2>1 DEF Extended
  <2> QED
      BY <2>2, <2>3, Zenon
<1>3. \A i \in 0 .. n : StreamAt(r, i) = StreamAt(run, i) /\ Taken(r[i], s) = Taken(run[i], s)
    BY <1>2, Zenon DEF StreamAt
<1>4. NextOf(run[n], clips, N, D, types)
  <2>1. MuxState(run[n], clips, N, D) /\ OfTypes(run[n], N, types)
      BY <1>1, Zenon DEF IsRun
  <2> QED
      BY <2>1, NextOfFacts, Zenon
<1>5. /\ s \in 1 .. N /\ Taken(run[n], s) \in Nat
      /\ \A u \in 1 .. N : Taken(r[n + 1], u) = Taken(run[n], u) + (IF u = s THEN 1 ELSE 0)
    BY <1>2, <1>4, Zenon DEF NextOf, StreamAt
<1>6. /\ z = off[n] /\ lay.offsets \in [1 .. N -> Seq(Nat)]
      /\ \A u \in 1 .. N : Len(lay.offsets[u]) = Taken(run[n], u)
      /\ \A u \in 1 .. N : \A k \in 1 .. Len(lay.offsets[u]) :
           \E i \in 0 .. n - 1 : /\ StreamAt(run, i) = u /\ k = Taken(run[i], u) + 1
                                 /\ lay.offsets[u][k] = off[i]
    BY Zenon DEF InLayout
<1>7. z \in Nat
  <2>1. off[n] \in Nat
      BY <1>1, Zenon DEF IsRun
  <2> QED
      BY <1>6, <2>1, Zenon
<1> HIDE DEF z
<1>8. l.size = o[n + 1]
    BY <1>2, <1>6, Zenon DEF z
<1> HIDE DEF s
<1> DEFINE L == lay.offsets
           q == L[s]
           K == l.offsets
<1>9. q \in Seq(Nat)
    BY <1>5, <1>6
<1>10. /\ Append(q, z) \in Seq(Nat) /\ Len(Append(q, z)) = Len(q) + 1
       /\ Append(q, z)[Len(q) + 1] = z /\ Len(q) \in Nat
       /\ \A k \in 1 .. Len(q) : Append(q, z)[k] = q[k]
  <2> HIDE DEF q
  <2> QED
      BY <1>7, <1>9
<1>11. K = [L EXCEPT ![s] = Append(q, z)]
    BY Zenon DEF s, z
<1>12. K \in [1 .. N -> Seq(Nat)] /\ K[s] = Append(q, z) /\ \A u \in 1 .. N : u # s => K[u] = L[u]
  <2> DEFINE a == Append(q, z)
             V == Seq(Nat)
  <2>1. K = [L EXCEPT ![s] = a] /\ a \in V /\ L \in [1 .. N -> V] /\ s \in 1 .. N
      BY <1>5, <1>6, <1>10, <1>11, Zenon
  <2> HIDE DEF a, K, L, V
  <2>2. K \in [1 .. N -> V] /\ K[s] = a /\ \A u \in 1 .. N : u # s => K[u] = L[u]
      BY <2>1
  <2> QED
      BY <2>2, Zenon DEF a, V
<1> HIDE DEF K, L
<1>13. \A u \in 1 .. N : Len(K[u]) = Taken(r[n + 1], u)
  <2> TAKE u \in 1 .. N
  <2>1. CASE u = s
    <3>1. Len(K[u]) = Len(q) + 1 /\ Len(q) = Taken(run[n], s)
        BY <1>5, <1>6, <1>10, <1>12, <2>1, Zenon DEF L
    <3>2. Taken(r[n + 1], u) = Taken(run[n], u) + 1
        BY <1>5, <2>1, Zenon
    <3> QED
        BY <2>1, <3>1, <3>2, Zenon
  <2>2. CASE u # s
    <3> DEFINE x == Taken(run[n], u)
    <3>1. K[u] = L[u] /\ Len(L[u]) = x
        BY <1>6, <1>12, <2>2, Zenon DEF L
    <3>2. Taken(r[n + 1], u) = x + 0
        BY <1>5, <2>2, Zenon
    <3>3. x \in Nat
      <4>1. L[u] \in Seq(Nat)
          BY <1>6 DEF L
      <4>2. Len(L[u]) \in Nat
          BY <4>1
      <4> QED
          BY <3>1, <4>2, Zenon
    <3> HIDE DEF x
    <3>4. x + 0 = x
        BY <3>3
    <3> QED
        BY <3>1, <3>2, <3>4, Zenon
  <2> QED
      BY <2>1, <2>2
<1>14. ASSUME NEW u \in 1 .. N, NEW k \in 1 .. Len(K[u])
       PROVE  \E i \in 0 .. n : /\ StreamAt(r, i) = u /\ k = Taken(r[i], u) + 1
                                /\ K[u][k] = o[i]
  <2>1. ASSUME k \in 1 .. Len(L[u]), K[u][k] = L[u][k]
        PROVE  \E i \in 0 .. n : /\ StreamAt(r, i) = u /\ k = Taken(r[i], u) + 1
                                 /\ K[u][k] = o[i]
    <3>1. PICK i \in 0 .. n - 1 : /\ StreamAt(run, i) = u /\ k = Taken(run[i], u) + 1
                                  /\ L[u][k] = off[i]
        BY <1>6, <2>1, Zenon DEF L
    <3>2. i \in 0 .. n
        BY <1>1
    <3>3. r[i] = run[i] /\ o[i] = off[i] /\ StreamAt(r, i) = StreamAt(run, i)
        BY <1>2, <1>3, <3>2, Zenon
    <3> QED
        BY <2>1, <3>1, <3>2, <3>3, Zenon
  <2>2. CASE u # s
    <3>1. K[u] = L[u]
        BY <1>12, <2>2, Zenon
    <3> QED
        BY <2>1, <3>1, Zenon
  <2>3. CASE u = s /\ k \in 1 .. Len(q)
    <3>1. K[u][k] = L[u][k] /\ k \in 1 .. Len(L[u])
        BY <1>10, <1>12, <2>3, Zenon
    <3> QED
        BY <2>1, <3>1, Zenon
  <2>4. CASE u = s /\ k \notin 1 .. Len(q)
    <3>1. k \in 1 .. Len(q) + 1
        BY <1>10, <1>12, <2>4, Zenon
    <3>2. k = Len(q) + 1
      <4> HIDE DEF q
      <4> QED
          BY <1>10, <2>4, <3>1
    <3>3. K[u][k] = z
        BY <1>10, <1>12, <2>4, <3>2, Zenon
    <3>4. Len(q) = Taken(run[n], s)
        BY <1>5, <1>6, Zenon DEF L
    <3>5. StreamAt(r, n) = u /\ k = Taken(r[n], u) + 1 /\ o[n] = z
        BY <1>1, <1>2, <1>3, <1>6, <2>4, <3>2, <3>4, Zenon DEF s, z
    <3> QED
        BY <1>1, <3>3, <3>5, Zenon
  <2> QED
      BY <2>2, <2>3, <2>4
<1> QED
  <2>1. \A u \in 1 .. N : \A k \in 1 .. Len(K[u]) :
          \E i \in 0 .. (n + 1) - 1 : /\ StreamAt(r, i) = u /\ k = Taken(r[i], u) + 1
                                      /\ K[u][k] = o[i]
    <3>1. 0 .. (n + 1) - 1 = 0 .. n
        BY <1>1, Zenon
    <3> TAKE u \in 1 .. N
    <3> TAKE k \in 1 .. Len(K[u])
    <3>2. PICK i \in 0 .. n : /\ StreamAt(r, i) = u /\ k = Taken(r[i], u) + 1
                              /\ K[u][k] = o[i]
        BY <1>14, Zenon
    <3>3. i \in 0 .. (n + 1) - 1
        BY <3>1, Zenon
    <3> QED
        BY <3>2, <3>3, Zenon
  <2>2. K \in [1 .. N -> Seq(Nat)]
      BY <1>12, Zenon
  <2> QED
      BY <1>8, <1>13, <2>1, <2>2, Zenon DEF InLayout, K

-----------------------------------------------------------------------------
(* The bytes of the output *)

Byte == [via: Nat, source: Nat, offset: Nat]

\* Byte x of the frame at a place; v is per_stream_writer.
ByteAt(v, run, i, x) ==
    [via |-> IF v THEN StreamAt(run, i) ELSE 0, source |-> SourceAt(run, i),
     offset |-> FrameAt(run, i).offset + x]

\* The bytes that are there are those of the frames.
Right(v, run, off, n, bytes) ==
    \A i \in 0 .. n - 1 : \A x \in 0 .. FrameAt(run, i).size - 1 :
        off[i] + x < Len(bytes) => bytes[off[i] + x + 1] = ByteAt(v, run, i, x)

\* What comes first is right too.
LEMMA RightPrefix ==
    ASSUME NEW v, NEW run, NEW off, NEW n, NEW clips, NEW types, NEW N, NEW D,
           IsRun(run, off, n, clips, types, N, D), NEW long, Right(v, run, off, n, long),
           Len(long) \in Nat, NEW short, Len(short) \in Nat, Len(short) <= Len(long),
           \A k \in 1 .. Len(short) : short[k] = long[k]
    PROVE  Right(v, run, off, n, short)
<1> SUFFICES ASSUME NEW i \in 0 .. n - 1, NEW x \in 0 .. FrameAt(run, i).size - 1,
                    off[i] + x < Len(short)
             PROVE  short[off[i] + x + 1] = ByteAt(v, run, i, x)
    BY Zenon DEF Right
<1>1. IsFrameAt(run, off, i, clips, N)
    BY RunFrame, Zenon
<1>2. off[i] \in Nat /\ FrameAt(run, i).size \in Nat
    BY <1>1, Zenon DEF IsFrameAt
<1> DEFINE a == off[i]
           l == Len(long)
           m == Len(short)
<1> HIDE DEF a, l, m
<1>3. a + x < l /\ a + x + 1 \in 1 .. m
    BY <1>2 DEF a, l, m
<1>4. long[a + x + 1] = ByteAt(v, run, i, x)
    BY <1>3, Zenon DEF Right, a, l
<1> QED
    BY <1>3, <1>4, Zenon DEF a, m

\* Byte x of a frame at a, among the k bytes after the first len
WithinPiece(a, c, x, len, k) == \E h \in 1 .. k : c + h - 1 = x /\ len + h = a + x + 1

\* A byte of a frame that was not among the first bytes is among the piece that follows them.
LEMMA InPiece ==
    ASSUME NEW a \in Nat, NEW c \in Int, NEW x \in Nat, NEW len \in Nat, NEW k \in Nat,
           len = a + c, ~ (a + x < len), a + x < len + k
    PROVE  WithinPiece(a, c, x, len, k)
<1>1. a + x + 1 - len \in 1 .. k
    OBVIOUS
<1>2. c + (a + x + 1 - len) - 1 = x /\ len + (a + x + 1 - len) = a + x + 1
    OBVIOUS
<1> QED
    BY <1>1, <1>2 DEF WithinPiece

\* k more bytes from offset cur of the frame at place i follow the first len ones.
Continues(v, run, off, i, bytes, len, cur, k, longer) ==
    /\ FrameAt(run, i).offset <= cur /\ cur + k <= FrameAt(run, i).offset + FrameAt(run, i).size
    /\ Len(bytes) = len /\ len = off[i] + (cur - FrameAt(run, i).offset) /\ Len(longer) = len + k
    /\ \A h \in 1 .. len : longer[h] = bytes[h]
    /\ \A h \in 1 .. k :
         longer[len + h] = ByteAt(v, run, i, cur - FrameAt(run, i).offset + h - 1)

\* They are right if those before them are.
LEMMA RightLonger ==
    ASSUME NEW v, NEW run, NEW off, NEW n, NEW clips, NEW types, NEW N, NEW D,
           IsRun(run, off, n, clips, types, N, D), NEW bytes, Right(v, run, off, n, bytes),
           NEW i \in 0 .. n - 1, NEW cur \in Nat, NEW k \in Nat, NEW len \in Nat, NEW longer,
           Continues(v, run, off, i, bytes, len, cur, k, longer)
    PROVE  Right(v, run, off, n, longer)
<1>00. /\ FrameAt(run, i).offset <= cur /\ cur + k <= FrameAt(run, i).offset + FrameAt(run, i).size
       /\ Len(bytes) = len /\ len = off[i] + (cur - FrameAt(run, i).offset)
       /\ Len(longer) = len + k
    BY Zenon DEF Continues
<1>01. /\ \A h \in 1 .. len : longer[h] = bytes[h]
       /\ \A h \in 1 .. k :
            longer[len + h] = ByteAt(v, run, i, cur - FrameAt(run, i).offset + h - 1)
    BY Zenon DEF Continues
<1> SUFFICES ASSUME NEW j \in 0 .. n - 1, NEW x \in 0 .. FrameAt(run, j).size - 1,
                    off[j] + x < len + k
             PROVE  longer[off[j] + x + 1] = ByteAt(v, run, j, x)
    BY <1>00, Zenon DEF Right
<1>0. n \in Nat
    BY Zenon DEF IsRun
<1>1. IsFrameAt(run, off, i, clips, N) /\ IsFrameAt(run, off, j, clips, N)
    BY RunFrame, Zenon
<1> DEFINE a == off[i]
           b == off[j]
           s == FrameAt(run, i).size
           t == FrameAt(run, j).size
           o == FrameAt(run, i).offset
           c == cur - o
<1>2. /\ a \in Nat /\ b \in Nat /\ s \in Nat /\ t \in Nat /\ o \in Nat
      /\ off[i + 1] = a + s /\ off[j + 1] = b + t
    BY <1>1, Zenon DEF IsFrameAt
<1>3. i < j => a + s <= b
  <2>1. ASSUME i < j PROVE off[i + 1] <= off[j]
    <3>1. j \in 0 .. n
        BY <1>0
    <3> QED
        BY <2>1, <3>1, RunOrder, Zenon
  <2> QED
      BY <1>2, <2>1, Zenon
<1>4. j < i => b + t <= a
  <2>1. ASSUME j < i PROVE off[j + 1] <= off[i]
    <3>1. i \in 0 .. n
        BY <1>0
    <3> QED
        BY <2>1, <3>1, RunOrder, Zenon
  <2> QED
      BY <1>2, <2>1, Zenon
<1>5. CASE b + x < len
  <2>1. bytes[b + x + 1] = ByteAt(v, run, j, x)
      BY <1>5, <1>00, Zenon DEF Right
  <2> HIDE DEF b
  <2>2. b + x + 1 \in 1 .. len
      BY <1>2, <1>5
  <2> QED
      BY <1>01, <2>1, <2>2, Zenon DEF b
<1>6. CASE ~ (b + x < len)
  <2>1. o <= cur /\ cur + k <= o + s /\ len = a + (cur - o) /\ b + x < len + k
        /\ x \in 0 .. t - 1
      BY <1>00, Zenon
  <2> HIDE DEF a, b, s, t, o
  <2>2. i = j
      BY <1>2, <1>3, <1>4, <1>6, <2>1
  <2>3. a = b /\ s = t
      BY <2>2, Zenon DEF a, b, s, t
  <2>4. PICK h \in 1 .. k : c + h - 1 = x /\ len + h = b + x + 1
    <3>1. c \in Int /\ x \in Nat
        BY <1>2, <2>1
    <3>2. len = b + c /\ ~ (b + x < len) /\ b + x < len + k
        BY <1>6, <2>1, <2>3, Zenon
    <3> HIDE DEF c
    <3>3. WithinPiece(b, c, x, len, k)
        BY <1>2, <3>1, <3>2, InPiece, Zenon
    <3> QED
        BY <3>3, Zenon DEF WithinPiece
  <2>5. longer[len + h] = ByteAt(v, run, i, c + h - 1)
      BY <1>01, Zenon DEF o
  <2> QED
      BY <2>2, <2>4, <2>5, Zenon DEF b
<1> QED
    BY <1>5, <1>6

\* Write for a writer: v is per_stream_writer.
Piece == [block: Nat, pos: Nat, size: Nat, stream: Nat, source: Nat, from: Nat]
PieceBytes(v, w) ==
    [i \in 1 .. w.size |->
        [via |-> IF v THEN w.stream ELSE 0, source |-> w.source, offset |-> w.from + i - 1]]
Written(v, bytes, w) == bytes \o PieceBytes(v, w)

\* new is old with k more bytes, from offset cur of the source.
IsLonger(old, new, k, via, source, cur) ==
    /\ old \in Seq(Byte) /\ new \in Seq(Byte) /\ Len(old) \in Nat /\ Len(new) = Len(old) + k
    /\ \A h \in 1 .. Len(old) : new[h] = old[h]
    /\ \A h \in 1 .. k : new[Len(old) + h] = [via |-> via, source |-> source, offset |-> cur + h - 1]

\* The bytes of a piece
LEMMA PieceBytesAre ==
    ASSUME NEW v \in BOOLEAN, NEW w \in Piece
    PROVE  /\ PieceBytes(v, w) \in Seq(Byte) /\ Len(PieceBytes(v, w)) = w.size
           /\ \A h \in 1 .. w.size : PieceBytes(v, w)[h] =
                [via |-> IF v THEN w.stream ELSE 0, source |-> w.source, offset |-> w.from + h - 1]
<1>1. w.size \in Nat /\ w.from \in Nat /\ w.stream \in Nat /\ w.source \in Nat
    BY DEF Piece
<1>2. \A h \in 1 .. w.size :
        [via |-> IF v THEN w.stream ELSE 0, source |-> w.source, offset |-> w.from + h - 1] \in Byte
    BY <1>1 DEF Byte
<1> HIDE DEF Byte
<1> QED
    BY <1>1, <1>2 DEF PieceBytes

\* What Write adds
LEMMA WrittenIs ==
    ASSUME NEW v \in BOOLEAN, NEW bytes \in Seq(Byte), NEW w \in Piece
    PROVE  IsLonger(bytes, Written(v, bytes, w), w.size, IF v THEN w.stream ELSE 0, w.source, w.from)
<1> DEFINE p == PieceBytes(v, w)
           u == Written(v, bytes, w)
<1>1. /\ p \in Seq(Byte) /\ Len(p) = w.size
      /\ \A h \in 1 .. w.size : p[h] =
           [via |-> IF v THEN w.stream ELSE 0, source |-> w.source, offset |-> w.from + h - 1]
    BY PieceBytesAre
<1>2. u = bytes \o p
    BY DEF Written
<1> HIDE DEF p, u
<1>3. /\ u \in Seq(Byte) /\ Len(bytes) \in Nat /\ Len(p) \in Nat
      /\ Len(u) = Len(bytes) + Len(p)
      /\ \A h \in 1 .. Len(bytes) : u[h] = bytes[h]
      /\ \A h \in 1 .. Len(p) : u[Len(bytes) + h] = p[h]
    BY <1>1, <1>2, ConcatIs
<1>4. IsLonger(bytes, u, w.size, IF v THEN w.stream ELSE 0, w.source, w.from)
    BY <1>1, <1>3 DEF IsLonger
<1> QED
    BY <1>4 DEF u

\* Nothing is written of an empty piece.
LEMMA WrittenNothing ==
    ASSUME NEW v \in BOOLEAN, NEW bytes \in Seq(Byte), NEW w \in Piece, w.size = 0
    PROVE  Written(v, bytes, w) = bytes
<1> DEFINE u == Written(v, bytes, w)
<1>1. IsLonger(bytes, u, w.size, IF v THEN w.stream ELSE 0, w.source, w.from)
    BY WrittenIs
<1> HIDE DEF u
<1>2. /\ u \in Seq(Byte) /\ Len(bytes) \in Nat /\ Len(u) = Len(bytes)
      /\ \A h \in 1 .. Len(bytes) : u[h] = bytes[h]
    BY <1>1 DEF IsLonger
<1> HIDE DEF Byte
<1>3. u = bytes
    BY <1>2
<1> QED
    BY <1>3 DEF u

\* Places in the second of two pieces
LEMMA SumsOf ==
    ASSUME NEW L \in Nat, NEW S \in Nat, NEW F \in Nat, NEW k \in Nat, NEW h \in 1 .. k
    PROVE  S + h \in 1 .. S + k /\ L + (S + h) = (L + S) + h /\ F + (S + h) - 1 = (F + S) + h - 1
    OBVIOUS

\* A piece that follows another one in its source goes to the same bytes.
LEMMA JoinedIs ==
    ASSUME NEW v \in BOOLEAN, NEW bytes \in Seq(Byte), NEW w \in Piece, NEW k \in Nat,
           NEW u \in Piece, u = [w EXCEPT !.size = w.size + k]
    PROVE  IsLonger(Written(v, bytes, w), Written(v, bytes, u), k, IF v THEN w.stream ELSE 0,
                    w.source, w.from + w.size)
<1> DEFINE a == Written(v, bytes, w)
           b == Written(v, bytes, u)
           via == IF v THEN w.stream ELSE 0
<1>1. IsLonger(bytes, a, w.size, via, w.source, w.from)
    BY WrittenIs
<1>2. /\ u.size = w.size + k /\ u.stream = w.stream /\ u.source = w.source /\ u.from = w.from
      /\ w.size \in Nat /\ w.from \in Nat
    BY DEF Piece
<1>3. IsLonger(bytes, b, u.size, IF v THEN u.stream ELSE 0, u.source, u.from)
    BY WrittenIs
<1>4. IsLonger(bytes, b, w.size + k, via, w.source, w.from)
    BY <1>2, <1>3
<1> HIDE DEF a, b, via
<1>5. /\ a \in Seq(Byte) /\ b \in Seq(Byte) /\ Len(bytes) \in Nat
      /\ Len(a) = Len(bytes) + w.size /\ Len(b) = Len(bytes) + (w.size + k)
      /\ \A h \in 1 .. Len(bytes) : a[h] = bytes[h]
      /\ \A h \in 1 .. Len(bytes) : b[h] = bytes[h]
      /\ \A h \in 1 .. w.size :
           a[Len(bytes) + h] = [via |-> via, source |-> w.source, offset |-> w.from + h - 1]
      /\ \A h \in 1 .. w.size + k :
           b[Len(bytes) + h] = [via |-> via, source |-> w.source, offset |-> w.from + h - 1]
    BY <1>1, <1>4 DEF IsLonger
<1> DEFINE L == Len(bytes)
           S == w.size
           F == w.from
<1>6. L \in Nat /\ S \in Nat /\ F \in Nat /\ Len(a) = L + S /\ Len(b) = L + (S + k)
    BY <1>2, <1>5
<1>7. ASSUME NEW h \in 1 .. L + S
      PROVE  b[h] = a[h]
  <2>1. CASE h <= L
      BY <1>5, <1>6, <2>1
  <2>2. CASE h > L
    <3> DEFINE g == h - L
    <3>1. g \in 1 .. S /\ g \in 1 .. S + k /\ L + g = h
        BY <1>6, <2>2
    <3> HIDE DEF g
    <3>2. a[L + g] = b[L + g]
        BY <1>5, <3>1
    <3> QED
        BY <3>1, <3>2
  <2> QED
      BY <1>6, <2>1, <2>2
<1>8. ASSUME NEW h \in 1 .. k
      PROVE  b[(L + S) + h] = [via |-> via, source |-> w.source, offset |-> (F + S) + h - 1]
  <2> HIDE DEF L, S, F
  <2>1. S + h \in 1 .. S + k /\ L + (S + h) = (L + S) + h /\ F + (S + h) - 1 = (F + S) + h - 1
      BY <1>6, SumsOf
  <2>2. b[L + (S + h)] = [via |-> via, source |-> w.source, offset |-> F + (S + h) - 1]
      BY <1>5, <2>1 DEF L, S, F
  <2> QED
      BY <2>1, <2>2
<1>9. Len(a) = L + S /\ Len(b) = Len(a) + k /\ Len(a) \in Nat
    BY <1>6
<1>10. IsLonger(a, b, k, via, w.source, F + S)
    BY <1>5, <1>7, <1>8, <1>9 DEF IsLonger
<1> QED
    BY <1>10 DEF a, b, via, F, S

-----------------------------------------------------------------------------
(* The offsets that reads depend on *)

\* A sequence of numbers has a bound.
Bounded(n, h) == \E m \in Nat : \A i \in 1 .. n : h[i] <= m
\* Every finite sequence of numbers has one.
LEMMA BoundExists ==
    ASSUME NEW n \in Nat, NEW h, \A i \in 1 .. n : h[i] \in Nat
    PROVE  Bounded(n, h)
<1> DEFINE T == {k \in 0 .. n : ~ Bounded(k, h)}
<1> SUFFICES ASSUME T # {} PROVE FALSE
  <2>1. n \in 0 .. n
      OBVIOUS
  <2> QED
      BY <2>1
<1>1. PICK k \in T : \A j \in T : k <= j
  <2>1. T \in SUBSET Nat
      OBVIOUS
  <2> HIDE DEF T
  <2> QED
      BY <2>1, LeastOf
<1>2. k \in 0 .. n /\ ~ Bounded(k, h)
    OBVIOUS
<1>3. k # 0
  <2>1. \A i \in 1 .. 0 : h[i] <= 0
      OBVIOUS
  <2>2. Bounded(0, h)
      BY <2>1 DEF Bounded
  <2> QED
      BY <1>2, <2>2
<1>4. k - 1 \in 0 .. n /\ ~ (k <= k - 1)
    BY <1>2, <1>3
<1>5. Bounded(k - 1, h)
    BY <1>1, <1>4
<1>6. PICK m \in Nat : \A i \in 1 .. k - 1 : h[i] <= m
    BY <1>5 DEF Bounded
<1>7. h[k] \in Nat
    BY <1>2, <1>3
<1> DEFINE b == IF h[k] <= m THEN m ELSE h[k]
<1>8. b \in Nat /\ m <= b /\ h[k] <= b
    BY <1>6, <1>7
<1> HIDE DEF b, T
<1>9. \A i \in 1 .. k : h[i] <= b
  <2> SUFFICES ASSUME NEW i \in 1 .. k PROVE h[i] <= b
      OBVIOUS
  <2>1. CASE i = k
      BY <1>8, <2>1
  <2>2. CASE i # k
    <3>1. i \in 1 .. k - 1 /\ i \in 1 .. n
        BY <1>2, <2>2
    <3>2. h[i] <= m /\ h[i] \in Nat
        BY <1>6, <3>1
    <3> QED
        BY <1>6, <1>8, <3>2
  <2> QED
      BY <2>1, <2>2
<1>10. Bounded(k, h)
    BY <1>8, <1>9 DEF Bounded
<1> QED
    BY <1>2, <1>10

\* A bounded set of numbers has a greatest one, which Max returns.
LEMMA MaxIs ==
    ASSUME NEW T \in SUBSET Nat, T # {}, NEW m \in Nat, \A x \in T : x <= m
    PROVE  Max(T) \in T /\ \A x \in T : x <= Max(T)
<1> DEFINE U == {b \in Nat : \A x \in T : x <= b}
<1>1. U \in SUBSET Nat /\ U # {}
    OBVIOUS
<1>2. PICK b \in U : \A y \in U : b <= y
  <2> HIDE DEF U
  <2> QED
      BY <1>1, LeastOf
<1>3. b \in Nat /\ \A x \in T : x <= b
    BY <1>2
<1>4. b \in T
  <2> SUFFICES ASSUME b \notin T PROVE FALSE
      OBVIOUS
  <2>1. \A x \in T : x < b /\ x \in Nat
      BY <1>3
  <2>2. PICK x \in T : TRUE
      OBVIOUS
  <2>3. b - 1 \in Nat /\ ~ (b <= b - 1)
      BY <1>3, <2>1, <2>2
  <2>4. \A y \in T : y <= b - 1
      BY <1>3, <2>1
  <2>5. b - 1 \in U
      BY <2>3, <2>4
  <2> QED
      BY <1>2, <2>3, <2>5
<1>5. \A x \in T : b >= x
    BY <1>3
<1>6. Max(T) \in T /\ \A y \in T : Max(T) >= y
    BY <1>4, <1>5 DEF Max
<1>7. Max(T) \in Nat
    BY <1>6
<1> QED
    BY <1>6, <1>7

\* Where a part ends in its file
PartEnd(p) == p.frames[Len(p.frames)].offset + p.frames[Len(p.frames)].size
\* It is an offset when the part has frames.
LEMMA PartEndIs ==
    ASSUME NEW p \in Part, p.frames # <<>>
    PROVE  PartEnd(p) \in Nat
<1>1. p.frames \in Seq(Frame)
    BY DEF Part
<1> HIDE DEF Frame
<1>2. Len(p.frames) \in 1 .. Len(p.frames)
    BY <1>1
<1>3. p.frames[Len(p.frames)] \in Frame
    BY <1>1, <1>2
<1> QED
    BY <1>3 DEF PartEnd, Frame

\* The parts of a media set that have frames of a source
PartsOf(clips, S, source) ==
    {q \in UNION {ToSet(clips[c][s].parts) : c \in DOMAIN clips, s \in S} :
        q.source = source /\ q.frames # <<>>}
\* Which parts those are.
LEMMA PartsOfAre ==
    ASSUME NEW clips, NEW S, NEW D, ClipsOK(clips, S, D), NEW source, NEW q
    PROVE  q \in PartsOf(clips, S, source) <=>
             /\ q.source = source /\ q.frames # <<>>
             /\ \E c \in 1 .. Len(clips) : \E s \in S : \E p \in 1 .. PartCount(clips, c, s) :
                  q = clips[c][s].parts[p]
<1>1. DOMAIN clips = 1 .. Len(clips)
    BY DEF ClipsOK
<1>2. \A c \in 1 .. Len(clips) : \A s \in S :
        DOMAIN clips[c][s].parts = 1 .. PartCount(clips, c, s)
  <2> SUFFICES ASSUME NEW c \in 1 .. Len(clips), NEW s \in S
               PROVE  DOMAIN clips[c][s].parts = 1 .. PartCount(clips, c, s)
      OBVIOUS
  <2>1. clips[c][s].parts \in Seq(Part)
      BY PartFacts
  <2> QED
      BY <2>1 DEF PartCount
<1> DEFINE U == UNION {ToSet(clips[c][s].parts) : c \in DOMAIN clips, s \in S}
<1>3. \A x : x \in U <=> \E c \in DOMAIN clips : \E s \in S : x \in ToSet(clips[c][s].parts)
    BY SMT
<1>4. PartsOf(clips, S, source) = {x \in U : x.source = source /\ x.frames # <<>>}
    BY DEF PartsOf
<1> HIDE DEF U
<1>5. q \in PartsOf(clips, S, source) <=>
        /\ q.source = source /\ q.frames # <<>>
        /\ \E c \in DOMAIN clips : \E s \in S : q \in ToSet(clips[c][s].parts)
    BY <1>3, <1>4, Zenon
<1>6. \A c, s : q \in ToSet(clips[c][s].parts) <=>
                  \E p \in DOMAIN clips[c][s].parts : q = clips[c][s].parts[p]
    BY Zenon DEF ToSet
<1>7. \A c \in 1 .. Len(clips) : \A s \in S :
        q \in ToSet(clips[c][s].parts) <=>
          \E p \in 1 .. PartCount(clips, c, s) : q = clips[c][s].parts[p]
  <2> SUFFICES ASSUME NEW c \in 1 .. Len(clips), NEW s \in S
               PROVE  q \in ToSet(clips[c][s].parts) <=>
                        \E p \in 1 .. PartCount(clips, c, s) : q = clips[c][s].parts[p]
      OBVIOUS
  <2>1. DOMAIN clips[c][s].parts = 1 .. PartCount(clips, c, s)
      BY <1>2
  <2>2. q \in ToSet(clips[c][s].parts) <=>
          \E p \in DOMAIN clips[c][s].parts : q = clips[c][s].parts[p]
      BY <1>6
  <2> QED
      BY <2>1, <2>2, Zenon
<1>8. q \in PartsOf(clips, S, source) <=>
        /\ q.source = source /\ q.frames # <<>>
        /\ \E c \in 1 .. Len(clips) : \E s \in S : q \in ToSet(clips[c][s].parts)
    BY <1>1, <1>5
<1> QED
    BY <1>7, <1>8, Zenon

\* The parts of a media set end before some offset.
LEMMA EndsBounded ==
    ASSUME NEW clips, NEW N \in Nat, NEW D, ClipsOK(clips, 1 .. N, D)
    PROVE  \E m \in Nat : \A c \in 1 .. Len(clips) : \A s \in 1 .. N :
             \A p \in 1 .. PartCount(clips, c, s) :
               clips[c][s].parts[p].frames # <<>> => PartEnd(clips[c][s].parts[p]) <= m
<1> DEFINE e(c, s, p) == IF clips[c][s].parts[p].frames # <<>> THEN PartEnd(clips[c][s].parts[p]) ELSE 0
           hp(c, s) == [p \in 1 .. PartCount(clips, c, s) |-> e(c, s, p)]
           bp(c, s) == CHOOSE m \in Nat : \A p \in 1 .. PartCount(clips, c, s) : hp(c, s)[p] <= m
           hs(c) == [s \in 1 .. N |-> bp(c, s)]
           bs(c) == CHOOSE m \in Nat : \A s \in 1 .. N : hs(c)[s] <= m
           hc == [c \in 1 .. Len(clips) |-> bs(c)]
<1>1. ASSUME NEW c \in 1 .. Len(clips), NEW s \in 1 .. N
      PROVE  /\ bp(c, s) \in Nat
             /\ \A p \in 1 .. PartCount(clips, c, s) : e(c, s, p) \in Nat /\ e(c, s, p) <= bp(c, s)
  <2>1. /\ PartCount(clips, c, s) \in Nat
        /\ \A p \in 1 .. PartCount(clips, c, s) : clips[c][s].parts[p] \in Part
      BY PartFacts
  <2>2. \A p \in 1 .. PartCount(clips, c, s) : e(c, s, p) \in Nat
    <3> SUFFICES ASSUME NEW p \in 1 .. PartCount(clips, c, s) PROVE e(c, s, p) \in Nat
        OBVIOUS
    <3>1. clips[c][s].parts[p].frames # <<>> => PartEnd(clips[c][s].parts[p]) \in Nat
        BY <2>1, PartEndIs
    <3> QED
        BY <3>1
  <2> HIDE DEF e
  <2>3. \A p \in 1 .. PartCount(clips, c, s) : hp(c, s)[p] = e(c, s, p)
      OBVIOUS
  <2>4. \A p \in 1 .. PartCount(clips, c, s) : hp(c, s)[p] \in Nat
      BY <2>2, <2>3
  <2> HIDE DEF hp
  <2>5. Bounded(PartCount(clips, c, s), hp(c, s))
      BY <2>1, <2>4, BoundExists
  <2>6. \E m \in Nat : \A p \in 1 .. PartCount(clips, c, s) : hp(c, s)[p] <= m
      BY <2>5 DEF Bounded
  <2>7. bp(c, s) \in Nat /\ \A p \in 1 .. PartCount(clips, c, s) : hp(c, s)[p] <= bp(c, s)
      BY <2>6
  <2> QED
      BY <2>2, <2>3, <2>7
<1> HIDE DEF e, hp, bp
<1>2. ASSUME NEW c \in 1 .. Len(clips)
      PROVE  bs(c) \in Nat /\ \A s \in 1 .. N : bp(c, s) <= bs(c)
  <2>1. \A s \in 1 .. N : hs(c)[s] = bp(c, s)
      OBVIOUS
  <2>2. \A s \in 1 .. N : hs(c)[s] \in Nat
      BY <1>1, <2>1
  <2> HIDE DEF hs
  <2>3. Bounded(N, hs(c))
      BY <2>2, BoundExists
  <2>4. \E m \in Nat : \A s \in 1 .. N : hs(c)[s] <= m
      BY <2>3 DEF Bounded
  <2>5. bs(c) \in Nat /\ \A s \in 1 .. N : hs(c)[s] <= bs(c)
      BY <2>4
  <2> QED
      BY <2>1, <2>5
<1> HIDE DEF hs, bs
<1>3. Len(clips) \in Nat
    BY DEF ClipsOK
<1>4. \A c \in 1 .. Len(clips) : hc[c] = bs(c)
    OBVIOUS
<1>5. \A c \in 1 .. Len(clips) : hc[c] \in Nat
    BY <1>2, <1>4
<1> HIDE DEF hc
<1>6. Bounded(Len(clips), hc)
    BY <1>3, <1>5, BoundExists
<1>7. PICK m \in Nat : \A c \in 1 .. Len(clips) : hc[c] <= m
    BY <1>6 DEF Bounded
<1>8. ASSUME NEW c \in 1 .. Len(clips), NEW s \in 1 .. N, NEW p \in 1 .. PartCount(clips, c, s)
      PROVE  e(c, s, p) <= m
  <2>1. e(c, s, p) <= bp(c, s) /\ bp(c, s) \in Nat /\ e(c, s, p) \in Nat
      BY <1>1
  <2>2. bp(c, s) <= bs(c) /\ bs(c) \in Nat
      BY <1>2
  <2>3. bs(c) <= m
      BY <1>4, <1>7
  <2> QED
      BY <1>7, <2>1, <2>2, <2>3
<1> QED
    BY <1>8 DEF e

\* source->last_offset is the end of some part, and no part ends after it.
LEMMA LastOffsetIs ==
    ASSUME NEW clips, NEW N \in Nat, NEW D, ClipsOK(clips, 1 .. N, D), NEW source,
           PartsOf(clips, 1 .. N, source) # {}
    PROVE  /\ Max({PartEnd(p) : p \in PartsOf(clips, 1 .. N, source)}) \in Nat
           /\ \A p \in PartsOf(clips, 1 .. N, source) :
                PartEnd(p) \in Nat /\ PartEnd(p) <= Max({PartEnd(q) : q \in PartsOf(clips, 1 .. N, source)})
<1> DEFINE P == PartsOf(clips, 1 .. N, source)
           T == {PartEnd(p) : p \in P}
<1>1. PICK m \in Nat : \A c \in 1 .. Len(clips) : \A s \in 1 .. N :
             \A p \in 1 .. PartCount(clips, c, s) :
               clips[c][s].parts[p].frames # <<>> => PartEnd(clips[c][s].parts[p]) <= m
    BY EndsBounded
<1>2. ASSUME NEW q \in P
      PROVE  PartEnd(q) \in Nat /\ PartEnd(q) <= m
  <2>1. /\ q.frames # <<>>
        /\ \E c \in 1 .. Len(clips) : \E s \in 1 .. N : \E p \in 1 .. PartCount(clips, c, s) :
             q = clips[c][s].parts[p]
      BY <1>2, PartsOfAre
  <2>2. PICK c \in 1 .. Len(clips), s \in 1 .. N :
               \E p \in 1 .. PartCount(clips, c, s) : q = clips[c][s].parts[p]
      BY <2>1
  <2>4. PICK p \in 1 .. PartCount(clips, c, s) : q = clips[c][s].parts[p]
      BY <2>2
  <2>3. q \in Part
      BY <2>4, PartFacts
  <2> QED
      BY <1>1, <2>1, <2>4, <2>3, PartEndIs
<1> HIDE DEF P
<1>3. T \in SUBSET Nat /\ T # {} /\ \A x \in T : x <= m
    BY <1>2 DEF P
<1>4. Max(T) \in T /\ \A x \in T : x <= Max(T)
  <2> HIDE DEF T
  <2> QED
      BY <1>3, MaxIs
<1>5. Max(T) \in Nat
    BY <1>3, <1>4
<1>6. \A p \in P : PartEnd(p) \in Nat /\ PartEnd(p) <= Max(T)
    BY <1>2, <1>4
<1> QED
    BY <1>5, <1>6 DEF P

-----------------------------------------------------------------------------
(* The read cache *)

\* Offsets and sizes of direct reads
Multiple(x, a) == x \in Nat /\ \E q \in Nat : x = a * q

\* The operations on them
LEMMA MultipleSum ==
    ASSUME NEW a \in Nat \ {0}, NEW x, Multiple(x, a), NEW y, Multiple(y, a)
    PROVE  Multiple(x + y, a)
<1>1. PICK p \in Nat : x = a * p
    BY DEF Multiple
<1>2. PICK q \in Nat : y = a * q
    BY DEF Multiple
<1>3. p + q \in Nat /\ x + y = a * (p + q) /\ x + y \in Nat
    BY <1>1, <1>2
<1> QED
    BY <1>3 DEF Multiple

\* Two different multiples of a number are at least that number apart.
LEMMA MultipleDifference ==
    ASSUME NEW a \in Nat \ {0}, NEW x, Multiple(x, a), NEW y, Multiple(y, a), x < y
    PROVE  Multiple(y - x, a) /\ x + a <= y
<1>1. PICK p \in Nat : x = a * p
    BY DEF Multiple
<1>2. PICK q \in Nat : y = a * q
    BY DEF Multiple
<1>3. p < q
    BY <1>1, <1>2
<1>4. q - p \in Nat /\ y - x = a * (q - p) /\ y - x \in Nat /\ a * p + a <= a * q
    BY <1>1, <1>2, <1>3
<1> QED
    BY <1>1, <1>2, <1>4 DEF Multiple

\* AlignDown gives the last multiple that is not past the offset.
LEMMA AlignDownIs ==
    ASSUME NEW a \in Nat \ {0}, NEW x \in Nat
    PROVE  /\ Multiple(AlignDown(x, a), a) /\ AlignDown(x, a) \in Nat
           /\ AlignDown(x, a) <= x /\ x < AlignDown(x, a) + a
<1>1. x % a \in 0 .. a - 1
    OBVIOUS
<1>2. x = a * (x \div a) + (x % a) /\ x \div a \in Nat
    OBVIOUS
<1>3. a * (x \div a) \in Nat
    BY <1>2
<1> DEFINE r == x % a
           q == x \div a
           y == a * q
<1>4. r \in 0 .. a - 1 /\ y \in Nat /\ x = y + r
    BY <1>1, <1>2, <1>3
<1>5. AlignDown(x, a) = x - r
    BY DEF AlignDown
<1>6. q \in Nat /\ y = a * q
    BY <1>2
<1> HIDE DEF r, y
<1>7. AlignDown(x, a) = y /\ y <= x /\ x < y + a
    BY <1>4, <1>5
<1>8. Multiple(y, a)
    BY <1>4, <1>6 DEF Multiple
<1> QED
    BY <1>4, <1>7, <1>8

\* A buffer holds a whole number of aligned blocks.
LEMMA BufferSizeIs ==
    ASSUME NEW a \in Alignments
    PROVE  a \in Nat \ {0} /\ Multiple(BufferSize, a) /\ BufferSize \in Nat \ {0} /\ a <= BufferSize
<1>1. a \in Nat \ {0} /\ BufferSize \in Nat \ {0} /\ BufferSize % a = 0
    BY ReadCacheAssumption
<1>2. BufferSize = a * (BufferSize \div a) + (BufferSize % a) /\ BufferSize \div a \in Nat
    BY <1>1
<1>3. BufferSize = a * (BufferSize \div a)
    BY <1>1, <1>2
<1>4. Multiple(BufferSize, a)
    BY <1>1, <1>2, <1>3 DEF Multiple
<1>5. Multiple(0, a)
    BY <1>1 DEF Multiple
<1>6. a <= BufferSize
    BY <1>1, <1>4, <1>5, MultipleDifference
<1> QED
    BY <1>1, <1>4, <1>6

\* The buffers of the cache, for files of one alignment
CacheOK(c, a) ==
    /\ c \in Cache
    /\ \A i \in Slots : /\ Multiple(c.buffers[i].start, a)
                        /\ c.buffers[i].block <= c.reads
                        /\ c.buffers[i].block = 0 => c.buffers[i].end = 0
    /\ \A i, j \in Slots : c.buffers[i].block = c.buffers[j].block /\ c.buffers[i].block # 0 => i = j

\* The cache has two buffers.
LEMMA SlotsAre == Slots = {0, 1}
    BY DEF Slots, MIN_BUFFER_COUNT

\* What the fields of a buffer are.
LEMMA BufferTypes ==
    ASSUME NEW c, c \in Cache, NEW i \in Slots
    PROVE  /\ c.buffers[i] \in CacheBuffer /\ c.target \in Slots /\ c.reads \in Nat
           /\ c.buffers[i].source \in Nat /\ c.buffers[i].start \in Nat /\ c.buffers[i].end \in Nat
           /\ c.buffers[i].size \in Nat /\ c.buffers[i].block \in Nat
    BY DEF Cache, CacheBuffer

\* The cache starts empty.
LEMMA InitCacheOK ==
    ASSUME NEW a \in Nat \ {0}
    PROVE  CacheOK(read_cache_init, a)
<1>1. Multiple(0, a)
    BY DEF Multiple
<1>2. read_cache_init \in Cache
    BY SlotsAre DEF read_cache_init, Cache, CacheBuffer, NULL
<1>3. \A i \in Slots : /\ read_cache_init.buffers[i].start = 0 /\ read_cache_init.buffers[i].block = 0
                       /\ read_cache_init.buffers[i].end = 0 /\ read_cache_init.reads = 0
    BY DEF read_cache_init
<1> QED
    BY <1>1, <1>2, <1>3 DEF CacheOK

\* A range that may be read: it has whole units of the alignment, fits a buffer and leaves
\* out what the other buffer o holds of the file.
RangeOK(range, a, source, o) ==
    /\ Multiple(range.offset, a) /\ Multiple(range.size, a) /\ range.size \in 1 .. BufferSize
    /\ o.source = source /\ o.end > o.start =>
         range.offset + range.size <= o.start \/ AlignDown(o.end, a) <= range.offset

\* "don't read anything that is already in the cache"
LEMMA SkipCachedOK ==
    ASSUME NEW c, NEW a \in Alignments, CacheOK(c, a), NEW t \in Slots, NEW source, NEW offset,
           Multiple(offset, a)
    PROVE  /\ RangeOK(SkipCached(c, t, source, a, offset), a, source, c.buffers[1 - t])
           /\ SkipCached(c, t, source, a, offset) \in [offset: Nat, size: Nat]
<1> DEFINE o == c.buffers[1 - t]
           r == SkipCached(c, t, source, a, offset)
           S == BufferSize
<1>1. a \in Nat \ {0} /\ Multiple(S, a) /\ S \in Nat \ {0}
    BY BufferSizeIs
<1>2. 1 - t \in Slots
    BY SlotsAre
<1>3. o.start \in Nat /\ o.end \in Nat /\ Multiple(o.start, a)
    BY <1>2, BufferTypes DEF CacheOK
<1>4. offset \in Nat
    BY DEF Multiple
<1>5. r = CASE o.source = source /\ o.start > offset ->
                [offset |-> offset, size |-> IF o.start - offset < S THEN o.start - offset ELSE S]
           [] o.source = source /\ o.start <= offset /\ o.end > offset ->
                [offset |-> AlignDown(o.end, a), size |-> S]
           [] OTHER -> [offset |-> offset, size |-> S]
    BY DEF SkipCached
<1> HIDE DEF o, r, S
<1>6. CASE o.source = source /\ o.start > offset
  <2> DEFINE k == IF o.start - offset < S THEN o.start - offset ELSE S
  <2>0. ~ (o.start <= offset)
      BY <1>3, <1>4, <1>6
  <2>6. r = [offset |-> offset, size |-> k]
      BY <1>5, <1>6, <2>0
  <2>1. r.offset = offset /\ r.size = k /\ r = [offset |-> offset, size |-> k]
      BY <2>6
  <2>2. Multiple(o.start - offset, a)
      BY <1>1, <1>3, <1>6, MultipleDifference
  <2>3. k \in 1 .. S /\ offset + k <= o.start /\ Multiple(k, a)
      BY <1>1, <1>3, <1>4, <1>6, <2>2
  <2> HIDE DEF k
  <2>4. RangeOK(r, a, source, o)
      BY <2>1, <2>3 DEF RangeOK, S
  <2>5. r \in [offset: Nat, size: Nat]
      BY <1>4, <2>1, <2>3
  <2> QED
      BY <2>4, <2>5 DEF o, r
<1>7. CASE o.source = source /\ o.start <= offset /\ o.end > offset
  <2> DEFINE d == AlignDown(o.end, a)
  <2>1. Multiple(d, a) /\ d \in Nat
      BY <1>1, <1>3, AlignDownIs
  <2>2. r = [offset |-> d, size |-> S]
      BY <1>3, <1>4, <1>5, <1>7
  <2>3. r.offset = d /\ r.size = S /\ S \in 1 .. S
      BY <1>1, <2>2
  <2>4. RangeOK(r, a, source, o)
      BY <1>1, <2>1, <2>3 DEF RangeOK, S
  <2>5. r \in [offset: Nat, size: Nat]
      BY <1>1, <2>1, <2>2
  <2> QED
      BY <2>4, <2>5 DEF o, r
<1>8. CASE ~ (o.source = source /\ (o.start > offset \/ o.end > offset))
  <2>1. r = [offset |-> offset, size |-> S]
      BY <1>3, <1>4, <1>5, <1>8
  <2>2. r.offset = offset /\ r.size = S /\ S \in 1 .. S
      BY <1>1, <2>1
  <2>3. o.source = source => AlignDown(o.end, a) <= offset
    <3>1. AlignDown(o.end, a) <= o.end /\ AlignDown(o.end, a) \in Nat
        BY <1>1, <1>3, AlignDownIs
    <3> QED
        BY <1>3, <1>4, <1>8, <3>1
  <2>4. RangeOK(r, a, source, o)
      BY <1>1, <2>2, <2>3 DEF RangeOK, S
  <2>5. r \in [offset: Nat, size: Nat]
      BY <1>1, <1>4, <2>1
  <2> QED
      BY <2>4, <2>5 DEF o, r
<1> QED
    BY <1>3, <1>4, <1>6, <1>7, <1>8

\* "don't read past the max required offset"
LEMMA UpToLastOffsetOK ==
    ASSUME NEW a \in Alignments, NEW range \in [offset: Nat, size: Nat], NEW source, NEW o,
           RangeOK(range, a, source, o), o.start \in Nat, o.end \in Nat,
           NEW file, file.last_offset \in Nat, file.alignment = a
    PROVE  /\ RangeOK(UpToLastOffset(range, file), a, source, o)
           /\ UpToLastOffset(range, file) \in [offset: Nat, size: Nat]
<1> DEFINE l == file.last_offset
           last == AlignDown(l + a - 1, a)
           r == UpToLastOffset(range, file)
           x == range.offset
           s == range.size
<1>1. a \in Nat \ {0} /\ l \in Nat
    BY BufferSizeIs
<1>2. l + a - 1 \in Nat
    BY <1>1
<1>3. Multiple(last, a) /\ last \in Nat /\ last <= l + a - 1
    BY <1>1, <1>2, AlignDownIs
<1>4. /\ Multiple(x, a) /\ Multiple(s, a) /\ s \in 1 .. BufferSize /\ x \in Nat /\ s \in Nat
      /\ o.source = source /\ o.end > o.start => x + s <= o.start \/ AlignDown(o.end, a) <= x
    BY DEF RangeOK
<1>5. r = IF x + s > l /\ last > x THEN [range EXCEPT !.size = last - x] ELSE range
    BY DEF UpToLastOffset
<1>6. BufferSize \in Nat
    BY BufferSizeIs
<1> HIDE DEF l, last, r
<1>7. CASE ~ (x + s > l /\ last > x)
  <2>1. r = range
      BY <1>5, <1>7
  <2> QED
      BY <2>1 DEF r
<1>8. CASE x + s > l /\ last > x
  <2> DEFINE k == last - x
  <2>1. r = [range EXCEPT !.size = k]
      BY <1>5, <1>8
  <2>2. r.offset = x /\ r.size = k
      BY <2>1
  <2>3. Multiple(k, a)
      BY <1>1, <1>3, <1>4, <1>8, MultipleDifference
  <2>4. Multiple(x + s, a)
      BY <1>1, <1>4, MultipleSum
  <2>5. last <= x + s
    <3> SUFFICES ASSUME x + s < last PROVE FALSE
        BY <1>3, <1>4
    <3>1. (x + s) + a <= last
        BY <1>1, <1>3, <2>4, MultipleDifference
    <3> QED
        BY <1>1, <1>3, <1>4, <1>8, <3>1
  <2>6. k \in 1 .. BufferSize /\ x + k <= x + s /\ k \in Nat
      BY <1>3, <1>4, <1>6, <1>8, <2>5
  <2> HIDE DEF k, x, s
  <2>7. o.source = source /\ o.end > o.start => x + k <= o.start \/ AlignDown(o.end, a) <= x
      BY <1>4, <2>6
  <2>8. RangeOK(r, a, source, o)
      BY <1>4, <2>2, <2>3, <2>6, <2>7 DEF RangeOK
  <2>9. r \in [offset: Nat, size: Nat]
      BY <2>1, <2>6
  <2> QED
      BY <2>8, <2>9 DEF r
<1> QED
    BY <1>7, <1>8

\* The cache n waits for a range of the file.
Awaits(n, a, source) ==
    LET b == n.buffers[n.target]
    IN /\ b.source = source
       /\ RangeOK([offset |-> b.start, size |-> b.size], a, source, n.buffers[1 - n.target])

\* A miss chooses such a range.
LEMMA MissOK ==
    ASSUME NEW a \in Alignments, NEW c, CacheOK(c, a), NEW request \in Request,
           NEW file, file.last_offset \in Nat, file.alignment = a
    PROVE  /\ CacheOK(read_cache_miss(c, request, file), a)
           /\ Awaits(read_cache_miss(c, request, file), a, request.source)
<1> DEFINE hinted == ReadFromHint(request, a)
           q == IF hinted THEN request.hint.slot ELSE request.slot
           t == q % MIN_BUFFER_COUNT
           w == IF hinted THEN request.hint.min ELSE request.cur
           from == AlignDown(w, a)
           k == SkipCached(c, t, request.source, a, from)
           r == UpToLastOffset(k, file)
           n == read_cache_miss(c, request, file)
<1>1. a \in Nat \ {0}
    BY BufferSizeIs
<1>2. /\ request.cur \in Nat /\ request.slot \in Nat /\ request.hint.slot \in Nat /\ request.source \in Nat
      /\ request.hint.min \in Nat \cup {None}
    BY DEF Request
<1>3. q \in Nat /\ w \in Nat
    BY <1>2 DEF ReadFromHint
<1>4. t \in Slots
  <2> HIDE DEF q
  <2> QED
      BY <1>3, SlotsAre DEF MIN_BUFFER_COUNT
<1>5. n = [c EXCEPT !.buffers[t].source = request.source, !.buffers[t].start = r.offset,
                    !.buffers[t].size = r.size, !.target = t]
    BY DEF read_cache_miss
<1> HIDE DEF q, w, t, n
<1>6. Multiple(from, a)
    BY <1>1, <1>3, AlignDownIs
<1> HIDE DEF from
<1>7. RangeOK(k, a, request.source, c.buffers[1 - t]) /\ k \in [offset: Nat, size: Nat]
    BY <1>4, <1>6, SkipCachedOK
<1>8. 1 - t \in Slots
    BY <1>4, SlotsAre
<1>9. c.buffers[1 - t].start \in Nat /\ c.buffers[1 - t].end \in Nat
    BY <1>8, BufferTypes DEF CacheOK
<1> HIDE DEF k
<1>10. RangeOK(r, a, request.source, c.buffers[1 - t]) /\ r \in [offset: Nat, size: Nat]
    BY <1>7, <1>9, UpToLastOffsetOK
<1> HIDE DEF r
<1>11. c \in Cache /\ c.buffers \in [Slots -> CacheBuffer]
    BY DEF CacheOK, Cache
<1> DEFINE b == [c.buffers[t] EXCEPT !.source = request.source, !.start = r.offset, !.size = r.size]
<1>12. c.buffers[t] \in CacheBuffer
    BY <1>4, <1>11
<1>13. /\ b \in CacheBuffer /\ b.source = request.source /\ b.start = r.offset /\ b.size = r.size
       /\ b.end = c.buffers[t].end /\ b.block = c.buffers[t].block
    BY <1>2, <1>10, <1>12 DEF CacheBuffer
<1>14. n = [c EXCEPT !.buffers = [c.buffers EXCEPT ![t] = b], !.target = t]
    BY <1>4, <1>5, <1>11, <1>12 DEF Cache
<1> HIDE DEF b
<1>15. /\ n \in Cache /\ n.target = t /\ n.reads = c.reads /\ n.buffers[t] = b
       /\ \A i \in Slots : i # t => n.buffers[i] = c.buffers[i]
    BY <1>4, <1>11, <1>13, <1>14 DEF Cache
<1>16. Multiple(r.offset, a)
    BY <1>10 DEF RangeOK
<1>17. \A i \in Slots : /\ n.buffers[i].block = c.buffers[i].block
                        /\ n.buffers[i].end = c.buffers[i].end
                        /\ Multiple(n.buffers[i].start, a)
  <2> SUFFICES ASSUME NEW i \in Slots
               PROVE  /\ n.buffers[i].block = c.buffers[i].block
                      /\ n.buffers[i].end = c.buffers[i].end
                      /\ Multiple(n.buffers[i].start, a)
      OBVIOUS
  <2>1. CASE i = t
      BY <1>13, <1>15, <1>16, <2>1
  <2>2. CASE i # t
      BY <1>15, <2>2 DEF CacheOK
  <2> QED
      BY <2>1, <2>2
<1>18. CacheOK(n, a)
    BY <1>15, <1>17 DEF CacheOK
<1>19. n.buffers[1 - t] = c.buffers[1 - t]
    BY <1>4, <1>8, <1>15, SlotsAre
<1>20. RangeOK([offset |-> b.start, size |-> b.size], a, request.source, n.buffers[1 - t])
    BY <1>10, <1>13, <1>19 DEF RangeOK
<1>21. Awaits(n, a, request.source)
    BY <1>13, <1>15, <1>20 DEF Awaits
<1> QED
    BY <1>18, <1>21 DEF n

\* A buffer with other contents
WithBlock(n, b, k) == n \in CacheBuffer /\ n.start = b.start /\ n.block = k
\* A buffer that was read into again is one.
LEMMA ChangedBuffer ==
    ASSUME NEW b \in CacheBuffer, NEW m \in Nat, NEW e \in Nat, NEW k \in Nat,
           NEW n, n = [b EXCEPT !.size = m, !.end = e, !.block = k]
    PROVE  WithBlock(n, b, k)
    BY DEF CacheBuffer, WithBlock

\* The cache with another buffer
WithBuffer(n, c, t, b, k) ==
    /\ n \in Cache /\ n.reads = k /\ n.buffers[t] = b
    /\ \A i \in Slots : i # t => n.buffers[i] = c.buffers[i]
\* The cache with a changed buffer leaves the other buffer alone.
LEMMA ChangedCache ==
    ASSUME NEW c \in Cache, NEW t \in Slots, NEW b \in CacheBuffer, NEW k \in Nat,
           NEW n, n = [c EXCEPT !.buffers = [c.buffers EXCEPT ![t] = b], !.reads = k]
    PROVE  WithBuffer(n, c, t, b, k)
<1> HIDE DEF CacheBuffer, Slots
<1> DEFINE f == [c.buffers EXCEPT ![t] = b]
<1>1. c.buffers \in [Slots -> CacheBuffer]
    BY DEF Cache
<1>2. f \in [Slots -> CacheBuffer] /\ f[t] = b /\ \A i \in Slots : i # t => f[i] = c.buffers[i]
    BY <1>1
<1> HIDE DEF f
<1>3. n = [c EXCEPT !.buffers = f, !.reads = k]
    BY DEF f
<1>4. n \in Cache /\ n.reads = k /\ n.buffers = f
    BY <1>2, <1>3 DEF Cache
<1> QED
    BY <1>2, <1>4 DEF WithBuffer

\* The end of a read of m bytes
LEMMA CompletedOK ==
    ASSUME NEW a \in Alignments, NEW c, CacheOK(c, a), NEW m \in Nat
    PROVE  CacheOK(read_cache_read_completed(c, m), a)
<1> DEFINE t == c.target
           n == read_cache_read_completed(c, m)
           b == [c.buffers[t] EXCEPT !.size = m, !.end = c.buffers[t].start + m,
                                     !.block = c.reads + 1]
<1>1. c \in Cache /\ t \in Slots /\ c.buffers \in [Slots -> CacheBuffer] /\ c.reads \in Nat
    BY DEF CacheOK, Cache
<1>2. c.buffers[t] \in CacheBuffer /\ c.buffers[t].start \in Nat
    BY <1>1 DEF CacheBuffer
<1>10. n = [c EXCEPT !.buffers[t].size = m, !.buffers[t].end = c.buffers[t].start + m,
                     !.buffers[t].block = c.reads + 1, !.reads = c.reads + 1]
    BY DEF read_cache_read_completed
<1> HIDE DEF n, t
<1>11. c.buffers[t].start + m \in Nat /\ c.reads + 1 \in Nat
    BY <1>1, <1>2
<1>12. WithBlock(b, c.buffers[t], c.reads + 1)
    BY <1>2, <1>11, ChangedBuffer, Zenon
<1>4. b \in CacheBuffer /\ b.start = c.buffers[t].start /\ b.block = c.reads + 1
    BY <1>12 DEF WithBlock
<1>3. n = [c EXCEPT !.buffers = [c.buffers EXCEPT ![t] = b], !.reads = c.reads + 1]
    BY <1>1, <1>2, <1>10 DEF Cache
<1> HIDE DEF b
<1>13. WithBuffer(n, c, t, b, c.reads + 1)
    BY <1>1, <1>3, <1>4, <1>11, ChangedCache, Zenon
<1>5. /\ n \in Cache /\ n.reads = c.reads + 1 /\ n.buffers[t] = b
      /\ \A i \in Slots : i # t => n.buffers[i] = c.buffers[i]
    BY <1>13 DEF WithBuffer
<1>6. \A i \in Slots : /\ Multiple(c.buffers[i].start, a) /\ c.buffers[i].block <= c.reads
                       /\ c.buffers[i].block \in Nat
                       /\ c.buffers[i].block = 0 => c.buffers[i].end = 0
    BY <1>1, BufferTypes DEF CacheOK
<1>7. \A i \in Slots : /\ Multiple(n.buffers[i].start, a) /\ n.buffers[i].block <= n.reads
                       /\ n.buffers[i].block = 0 => n.buffers[i].end = 0
  <2> SUFFICES ASSUME NEW i \in Slots
               PROVE  /\ Multiple(n.buffers[i].start, a) /\ n.buffers[i].block <= n.reads
                      /\ n.buffers[i].block = 0 => n.buffers[i].end = 0
      OBVIOUS
  <2>1. CASE i = t
      BY <1>1, <1>4, <1>5, <1>6, <2>1
  <2>2. CASE i # t
      BY <1>1, <1>5, <1>6, <2>2
  <2> QED
      BY <2>1, <2>2
<1>8. ASSUME NEW i \in Slots, NEW j \in Slots, n.buffers[i].block = n.buffers[j].block,
             n.buffers[i].block # 0, i # j
      PROVE  FALSE
  <2>1. CASE i = t
    <3>1. n.buffers[i].block = c.reads + 1 /\ n.buffers[j].block = c.buffers[j].block
        BY <1>4, <1>5, <1>8, <2>1
    <3>2. c.buffers[j].block \in Nat /\ c.buffers[j].block <= c.reads
        BY <1>6
    <3>3. c.buffers[j].block = c.reads + 1
        BY <1>8, <3>1
    <3> HIDE DEF t
    <3> QED
        BY <1>1, <3>2, <3>3
  <2>2. CASE j = t
    <3>1. n.buffers[j].block = c.reads + 1 /\ n.buffers[i].block = c.buffers[i].block
        BY <1>4, <1>5, <1>8, <2>2
    <3>2. c.buffers[i].block \in Nat /\ c.buffers[i].block <= c.reads
        BY <1>6
    <3>3. c.buffers[i].block = c.reads + 1
        BY <1>8, <3>1
    <3> HIDE DEF t
    <3> QED
        BY <1>1, <3>2, <3>3
  <2>3. CASE i # t /\ j # t
      BY <1>1, <1>8, <2>3, SlotsAre
  <2> QED
      BY <2>1, <2>2, <2>3
<1>9. CacheOK(n, a)
    BY <1>5, <1>7, <1>8 DEF CacheOK
<1> QED
    BY <1>9 DEF n

\* A piece of the frame that is read, from the buffer i
IsPiece(r, c, request, i) ==
    LET b == c.buffers[i]
    IN /\ i \in Slots /\ b.source = request.source /\ b.start <= request.cur /\ r.source = request.source
       /\ r.block = b.block /\ r.block \in Nat \ {0} /\ r.from = request.cur
       /\ r.pos \in Nat /\ b.start + r.pos = request.cur
       /\ r.size \in Nat \ {0} /\ request.cur + r.size <= request.end
       /\ r.done \in BOOLEAN /\ (r.done <=> request.cur + r.size = request.end)

\* The size of a piece
LEMMA PieceSize ==
    ASSUME NEW cur \in Nat, NEW end \in Nat, NEW to \in Nat, cur < to, cur < end,
           NEW size, size = (IF to >= end THEN end ELSE to) - cur, NEW done, done = (to >= end)
    PROVE  size \in Nat \ {0} /\ cur + size <= end /\ (done <=> cur + size = end)
<1>1. CASE to >= end
  <2>1. size = end - cur /\ done
      BY <1>1
  <2>2. size \in Nat \ {0} /\ cur + size = end
      BY <2>1
  <2> QED
      BY <2>1, <2>2
<1>2. CASE ~ (to >= end)
  <2>1. size = to - cur /\ ~ done
      BY <1>2
  <2>2. size \in Nat \ {0} /\ cur + size <= end /\ cur + size # end
      BY <1>2, <2>1
  <2> QED
      BY <2>1, <2>2
<1> QED
    BY <1>1, <1>2

\* What frames_source_cache_read returns is in one of the buffers that hold the offset.
LEMMA ReadIs ==
    ASSUME NEW a, NEW c, CacheOK(c, a), NEW request \in Request,
           request.cur < request.end, Hits(c, request) # {}
    PROVE  \E i : IsPiece(frames_source_cache_read(c, request), c, request, i)
<1> DEFINE H == Hits(c, request)
           i == CHOOSE x \in H : \A y \in H : x <= y
           b == c.buffers[i]
           r == frames_source_cache_read(c, request)
<1>1. H \in SUBSET Nat
    BY SlotsAre DEF Hits
<1>2. i \in H
    BY <1>1, LeastOf
<1>3. r = [block |-> b.block, pos |-> request.cur - b.start, source |-> b.source, from |-> request.cur,
           size |-> (IF b.end >= request.end THEN request.end ELSE b.end) - request.cur,
           done |-> b.end >= request.end]
    BY DEF frames_source_cache_read
<1> HIDE DEF i
<1>4. i \in Slots /\ b.source = request.source /\ request.cur >= b.start /\ request.cur < b.end
    BY <1>2 DEF Hits
<1> HIDE DEF H, r
<1>5. /\ b.start \in Nat /\ b.end \in Nat /\ b.block \in Nat
      /\ b.block = 0 => b.end = 0
    BY <1>4, BufferTypes DEF CacheOK
<1>6. request.cur \in Nat /\ request.end \in Nat /\ request.source \in Nat
    BY DEF Request
<1>7. /\ r.block = b.block /\ r.pos = request.cur - b.start /\ r.source = b.source /\ r.from = request.cur
      /\ r.size = (IF b.end >= request.end THEN request.end ELSE b.end) - request.cur
      /\ r.done = (b.end >= request.end)
    BY <1>3
<1>8. r.block # 0
    BY <1>4, <1>5, <1>6, <1>7
<1>9. /\ r.size \in Nat \ {0} /\ request.cur + r.size <= request.end
      /\ (r.done <=> request.cur + r.size = request.end)
    BY <1>4, <1>5, <1>6, <1>7, PieceSize
<1>10. r.pos \in Nat /\ b.start + r.pos = request.cur
    BY <1>4, <1>5, <1>6, <1>7
<1>11. r.done \in BOOLEAN
    BY <1>7
<1>12. IsPiece(r, c, request, i)
    BY <1>4, <1>5, <1>7, <1>8, <1>9, <1>10, <1>11 DEF IsPiece
<1> QED
    BY <1>12 DEF r

-----------------------------------------------------------------------------
(* The request for a frame *)

\* The request for the frame of stream s
IsRequest(r, m, s) ==
    /\ r \in Request /\ r.source = PartOf(m, s).source
    /\ r.cur = CurFrame(m, s).offset /\ r.end = CurFrame(m, s).offset + CurFrame(m, s).size

\* A stream with the lowest offset, the first one of them
LEMMA FirstExists ==
    ASSUME NEW T \in SUBSET Nat, T # {}, NEW h, \A u \in T : h[u] \in Nat
    PROVE  \E f \in T : \A v \in T : h[f] < h[v] \/ (h[f] = h[v] /\ f <= v)
<1> DEFINE A == {h[u] : u \in T}
<1>1. A \in SUBSET Nat /\ A # {}
    OBVIOUS
<1>2. PICK x \in A : \A y \in A : x <= y
  <2> HIDE DEF A
  <2> QED
      BY <1>1, LeastOf
<1> DEFINE B == {u \in T : h[u] = x}
<1>3. B \in SUBSET Nat /\ B # {}
    BY <1>2
<1>4. PICK f \in B : \A v \in B : f <= v
  <2> HIDE DEF B
  <2> QED
      BY <1>3, LeastOf
<1>5. f \in T /\ h[f] = x
    BY <1>4
<1>6. ASSUME NEW v \in T
      PROVE  h[f] < h[v] \/ (h[f] = h[v] /\ f <= v)
  <2>1. h[v] \in A /\ h[v] \in Nat /\ x \in Nat
      BY <1>1, <1>2
  <2>2. x <= h[v]
      BY <1>2, <2>1
  <2>3. CASE h[v] = x
    <3>1. v \in B
        BY <2>3
    <3>2. f <= v
        BY <1>4, <3>1
    <3> QED
        BY <1>5, <2>3, <3>2
  <2>4. CASE h[v] # x
      BY <1>5, <2>1, <2>2, <2>4
  <2> QED
      BY <2>3, <2>4
<1> QED
    BY <1>5, <1>6

\* The streams that the hint of a request may come from
Others(m, N, s) == {u \in 1 .. N : HintFrom(m, s, u)}
IsHint(h, m, N, s) ==
    \/ h.min = None /\ h.slot = 0
    \/ \E f \in Others(m, N, s) :
         /\ h.min = CurFrame(m, f).offset /\ h.min \in Nat
         /\ h.slot = m.streams[f].media_type /\ h.slot \in Nat
         /\ \A v \in Others(m, N, s) : h.min <= CurFrame(m, v).offset

\* mp4_muxer_start_frame
LEMMA RequestIs ==
    ASSUME NEW m, NEW clips, NEW N, NEW D, MuxState(m, clips, N, D),
           NEW s \in 1 .. N, m.selected = s, HasFrame(m, s)
    PROVE  IsRequest(RequestFor(m), m, s) /\ IsHint(RequestFor(m).hint, TakeFrame(m), N, s)
<1> DEFINE after == TakeFrame(m)
           O == Others(after, N, s)
           off(u) == CurFrame(after, u).offset
           h == [u \in O |-> off(u)]
           lowest(u) == \A v \in O : off(u) < off(v) \/ (off(u) = off(v) /\ u <= v)
           first == CHOOSE u \in O : lowest(u)
           hint == IF O = {} THEN [min |-> None, slot |-> 0]
                   ELSE [min |-> off(first), slot |-> m.streams[first].media_type]
           frame == CurFrame(m, s)
           source == PartOf(m, s).source
           type == m.streams[s].media_type
<1>1. IsPast(after, m, clips, N, D, s)
    BY TakeFrameOK
<1>2. /\ MuxState(after, clips, N, D)
      /\ \A u \in 1 .. N : after.streams[u].media_type = m.streams[u].media_type
    BY <1>1 DEF IsPast
<1>3. DOMAIN m.streams = 1 .. N /\ N \in Nat
    BY MuxFields
<1>4. RequestFor(m) = StartFrame(source, type, frame, hint)
    BY <1>3 DEF RequestFor, Others
<1> HIDE DEF after
<1>5. ASSUME NEW u \in O
      PROVE  u \in 1 .. N /\ off(u) \in Nat /\ m.streams[u].media_type \in Nat
             /\ after.streams[u].media_type = m.streams[u].media_type
  <2>1. u \in 1 .. N /\ HasFrame(after, u)
      BY <1>5 DEF Others, HintFrom
  <2>2. CurFrame(after, u) \in Frame
      BY <1>2, <2>1, CurrentFrame
  <2>3. m.streams[u] \in Cursor
      BY <2>1, CursorFields
  <2> QED
      BY <1>2, <2>1, <2>2, <2>3 DEF Frame, Cursor
<1> HIDE DEF O
<1>6. O \in SUBSET Nat /\ \A u \in O : h[u] = off(u) /\ h[u] \in Nat
    BY <1>5
<1>7. O # {} => first \in O /\ lowest(first)
  <2> SUFFICES ASSUME O # {} PROVE \E u \in O : lowest(u)
      OBVIOUS
  <2> HIDE DEF h
  <2>1. \E f \in O : \A v \in O : h[f] < h[v] \/ (h[f] = h[v] /\ f <= v)
      BY <1>6, FirstExists
  <2> QED
      BY <1>6, <2>1
<1> HIDE DEF first
<1>8. hint \in [min: Nat \cup {None}, slot: Nat] /\ IsHint(hint, after, N, s)
  <2>1. CASE O = {}
    <3>1. hint = [min |-> None, slot |-> 0]
        BY <2>1
    <3> QED
        BY <3>1 DEF IsHint
  <2>2. CASE O # {}
    <3>1. hint = [min |-> off(first), slot |-> m.streams[first].media_type]
        BY <2>2
    <3>2. first \in O /\ lowest(first)
        BY <1>7, <2>2
    <3>3. /\ off(first) \in Nat /\ m.streams[first].media_type \in Nat
          /\ after.streams[first].media_type = m.streams[first].media_type
        BY <1>5, <3>2
    <3>4. \A v \in O : off(first) <= off(v)
      <4> SUFFICES ASSUME NEW v \in O PROVE off(first) <= off(v)
          OBVIOUS
      <4>1. off(v) \in Nat
          BY <1>5
      <4>2. off(first) < off(v) \/ (off(first) = off(v) /\ first <= v)
          BY <3>2
      <4> QED
          BY <3>3, <4>1, <4>2
    <3> HIDE DEF hint
    <3>5. hint \in [min: Nat \cup {None}, slot: Nat]
        BY <3>1, <3>3
    <3>6. hint.min = off(first) /\ hint.slot = m.streams[first].media_type
        BY <3>1
    <3>7. IsHint(hint, after, N, s)
        BY <3>2, <3>3, <3>4, <3>6 DEF IsHint, O
    <3> QED
        BY <3>5, <3>7
  <2> QED
      BY <2>1, <2>2
<1>9. frame \in Frame /\ source \in Nat \ {0}
    BY CurrentFrame
<1>10. m.streams[s] \in Cursor
    BY CursorFields
<1>11. type \in Nat
    BY <1>10 DEF Cursor
<1>12. frame.offset \in Nat /\ frame.size \in Nat
    BY <1>9 DEF Frame
<1> HIDE DEF hint, frame, source, type
<1>13. RequestFor(m) = [source |-> source, slot |-> type, cur |-> frame.offset,
                        end |-> frame.offset + frame.size, hint |-> hint]
    BY <1>4 DEF StartFrame
<1>14. RequestFor(m) \in Request
    BY <1>8, <1>9, <1>11, <1>12, <1>13 DEF Request
<1>15. /\ RequestFor(m).source = source /\ RequestFor(m).cur = frame.offset
       /\ RequestFor(m).end = frame.offset + frame.size /\ RequestFor(m).hint = hint
    BY <1>13
<1>16. IsRequest(RequestFor(m), m, s)
    BY <1>14, <1>15 DEF IsRequest, frame, source
<1> QED
    BY <1>8, <1>15, <1>16 DEF after

\* The muxer m with the request r is at frame i of the run, and len bytes were written.
AtFrame(m, r, len, run, off, n, i, clips, types, N, D) ==
    /\ i \in 0 .. n - 1 /\ MuxState(m, clips, N, D) /\ SamePlace(m, run[i + 1])
    /\ m.selected = StreamAt(run, i)
    /\ r \in Request /\ r.source = SourceAt(run, i)
    /\ r.end = FrameAt(run, i).offset + FrameAt(run, i).size
    /\ FrameAt(run, i).offset <= r.cur /\ r.cur < r.end
    /\ len = off[i] + (r.cur - FrameAt(run, i).offset)

\* A muxer at a place of the run goes on with the frame that follows it.
LEMMA StartFrameOK ==
    ASSUME NEW run, NEW off, NEW n, NEW clips, NEW types, NEW N, NEW D,
           IsRun(run, off, n, clips, types, N, D), ~ MoreFrames(run[n]), NEW k \in 0 .. n,
           NEW m, MuxState(m, clips, N, D), SamePlace(m, run[k]), MoreFrames(m)
    PROVE  AtFrame(TakeFrame(mp4_muxer_choose_stream(m)), RequestFor(mp4_muxer_choose_stream(m)),
                   off[k], run, off, n, k, clips, types, N, D)
<1> DEFINE c == mp4_muxer_choose_stream(m)
           d == mp4_muxer_choose_stream(run[k])
           s == c.selected
<1>1. n \in Nat /\ MuxState(run[k], clips, N, D) /\ OfTypes(run[k], N, types)
    BY DEF IsRun
<1>2. MoreFrames(run[k]) /\ SamePlace(c, d)
    BY <1>1, SameChoice
<1>3. k \in 0 .. n - 1
  <2>1. k # n
      BY <1>2
  <2> QED
      BY <1>1, <2>1
<1>4. IsNext(c, m, clips, N, D) /\ IsNext(d, run[k], clips, N, D)
    BY <1>1, <1>2, ChooseOK
<1>5. /\ MuxState(c, clips, N, D) /\ s \in 1 .. N /\ HasFrame(c, s)
      /\ MuxState(d, clips, N, D) /\ d.selected = s
    BY <1>2, <1>4 DEF IsNext, SamePlace
<1>6. run[k + 1] = TakeFrame(d)
    BY <1>3 DEF IsRun
<1> HIDE DEF c, d
<1>7. SamePlace(TakeFrame(c), TakeFrame(d))
    BY <1>2, <1>5, SameTake
<1>8. IsPast(TakeFrame(c), c, clips, N, D, s)
    BY <1>5, TakeFrameOK
<1>9. MuxState(TakeFrame(c), clips, N, D) /\ TakeFrame(c).selected = s
    BY <1>8 DEF IsPast
<1>10. IsRequest(RequestFor(c), c, s)
    BY <1>5, RequestIs
<1>11. PartOf(c, s) = PartOf(d, s) /\ CurFrame(c, s) = CurFrame(d, s)
    BY <1>2, SameCursors
<1>12. StreamAt(run, k) = s /\ SourceAt(run, k) = PartOf(c, s).source /\ FrameAt(run, k) = CurFrame(c, s)
    BY <1>5, <1>11 DEF StreamAt, SourceAt, FrameAt, d
<1>13. IsFrameAt(run, off, k, clips, N)
    BY <1>3, RunFrame
<1>14. FrameAt(run, k).offset \in Nat /\ FrameAt(run, k).size \in Nat /\ FrameAt(run, k).size > 0 /\ off[k] \in Nat
    BY <1>13 DEF IsFrameAt
<1> DEFINE r == RequestFor(c)
<1>15. /\ r \in Request /\ r.source = SourceAt(run, k) /\ r.cur = FrameAt(run, k).offset
       /\ r.end = FrameAt(run, k).offset + FrameAt(run, k).size
    BY <1>10, <1>12 DEF IsRequest
<1> HIDE DEF r
<1>16. /\ FrameAt(run, k).offset <= r.cur /\ r.cur < r.end
       /\ off[k] = off[k] + (r.cur - FrameAt(run, k).offset)
    BY <1>14, <1>15
<1>17. AtFrame(TakeFrame(c), r, off[k], run, off, n, k, clips, types, N, D)
    BY <1>3, <1>6, <1>7, <1>9, <1>12, <1>15, <1>16 DEF AtFrame
<1> QED
    BY <1>17 DEF c, r

-----------------------------------------------------------------------------
(* The bytes that wait to be written *)

\* What waits lies in a buffer of the cache.
PendingOK(w, c) ==
    w.size # 0 => \E i \in Slots : /\ c.buffers[i].block = w.block /\ w.block # 0
                                   /\ c.buffers[i].source = w.source
                                   /\ w.from = c.buffers[i].start + w.pos

\* The piece of a frame of stream s
PieceOf(r, s) ==
    [block |-> r.block, pos |-> r.pos, size |-> r.size, stream |-> s, source |-> r.source,
     from |-> r.from]
Joins(w, r, s, v) ==
    /\ w.size # 0
    /\ w.block = r.block /\ w.pos + w.size = r.pos
    /\ w.stream = s \/ ~ v
PendingOf(w, r, s, v) == IF Joins(w, r, s, v) THEN [w EXCEPT !.size = w.size + r.size] ELSE PieceOf(r, s)
BeforeOf(bytes, w, r, s, v) == IF Joins(w, r, s, v) THEN bytes ELSE Written(v, bytes, w)

\* A piece that was just read can wait to be written: its buffer still holds it.
LEMMA PieceOfIs ==
    ASSUME NEW c, NEW a, CacheOK(c, a), NEW request \in Request, NEW r, NEW i, IsPiece(r, c, request, i),
           NEW s \in Nat
    PROVE  PieceOf(r, s) \in Piece /\ PendingOK(PieceOf(r, s), c)
<1>1. request.cur \in Nat /\ request.source \in Nat
    BY DEF Request
<1>2. /\ i \in Slots /\ r.block \in Nat \ {0} /\ r.pos \in Nat /\ r.size \in Nat /\ r.source = request.source
      /\ r.from = request.cur /\ c.buffers[i].block = r.block /\ c.buffers[i].source = request.source
      /\ c.buffers[i].start + r.pos = request.cur
    BY DEF IsPiece
<1> DEFINE p == PieceOf(r, s)
<1>3. /\ p.block = r.block /\ p.pos = r.pos /\ p.size = r.size /\ p.stream = s
      /\ p.source = r.source /\ p.from = r.from
    BY DEF PieceOf
<1>4. p \in Piece
    BY <1>1, <1>2 DEF PieceOf, Piece
<1> HIDE DEF p
<1>5. PendingOK(p, c)
    BY <1>2, <1>3 DEF PendingOK
<1> QED
    BY <1>4, <1>5 DEF p

\* What follows the bytes that wait can be joined to them; otherwise they are written first.
DataAdded(v, bytes, w, c, request, r, s) ==
    /\ BeforeOf(bytes, w, r, s, v) \in Seq(Byte) /\ PendingOf(w, r, s, v) \in Piece
    /\ PendingOK(PendingOf(w, r, s, v), c)
    /\ IsLonger(Written(v, bytes, w),
                Written(v, BeforeOf(bytes, w, r, s, v), PendingOf(w, r, s, v)), r.size,
                IF v THEN s ELSE 0, request.source, request.cur)

\* The bytes of a read that succeeded follow the bytes that were there before.
LEMMA DataOK ==
    ASSUME NEW v \in BOOLEAN, NEW bytes \in Seq(Byte), NEW w \in Piece, NEW c, NEW a, CacheOK(c, a),
           PendingOK(w, c), NEW request \in Request, NEW r, NEW i, IsPiece(r, c, request, i), NEW s \in Nat
    PROVE  DataAdded(v, bytes, w, c, request, r, s)
<1> DEFINE u == PendingOf(w, r, s, v)
           b == BeforeOf(bytes, w, r, s, v)
<1>1. /\ w.block \in Nat /\ w.pos \in Nat /\ w.size \in Nat /\ w.stream \in Nat /\ w.source \in Nat
      /\ w.from \in Nat
    BY DEF Piece
<1>2. /\ i \in Slots /\ r.block \in Nat \ {0} /\ r.pos \in Nat /\ r.size \in Nat /\ r.source = request.source
      /\ r.from = request.cur /\ c.buffers[i].block = r.block /\ c.buffers[i].source = request.source
      /\ c.buffers[i].start + r.pos = request.cur
    BY DEF IsPiece
<1>3. CASE Joins(w, r, s, v)
  <2>1. /\ w.size # 0 /\ w.block = r.block /\ w.pos + w.size = r.pos
        /\ w.stream = s \/ ~ v
      BY <1>3 DEF Joins
  <2>2. u = [w EXCEPT !.size = w.size + r.size] /\ b = bytes
      BY <1>3 DEF PendingOf, BeforeOf
  <2>3. PICK j \in Slots : /\ c.buffers[j].block = w.block /\ w.block # 0
                           /\ c.buffers[j].source = w.source
                           /\ w.from = c.buffers[j].start + w.pos
      BY <2>1 DEF PendingOK
  <2>4. i = j
      BY <1>2, <2>1, <2>3 DEF CacheOK
  <2>5. c \in Cache
      BY DEF CacheOK
  <2>6. c.buffers[j].start \in Nat
      BY <2>5, BufferTypes
  <2>7. w.source = request.source /\ w.from + w.size = request.cur
    <3> DEFINE st == c.buffers[j].start
    <3>1. /\ st \in Nat /\ w.from = st + w.pos /\ st + r.pos = request.cur /\ w.pos + w.size = r.pos
        BY <1>2, <2>1, <2>3, <2>4, <2>6
    <3> HIDE DEF st
    <3>2. w.from + w.size = request.cur
        BY <1>1, <1>2, <3>1
    <3> QED
        BY <1>2, <2>3, <2>4, <3>2
  <2>15. w.size + r.size \in Nat
      BY <1>1, <1>2
  <2>16. [w EXCEPT !.size = w.size + r.size] \in Piece
    <3> DEFINE x == w.size + r.size
    <3>1. x \in Nat
        BY <2>15
    <3> HIDE DEF x
    <3>2. [w EXCEPT !.size = x] \in Piece
        BY <3>1 DEF Piece
    <3> QED
        BY <3>2 DEF x
  <2>8. u \in Piece
      BY <2>2, <2>16
  <2> HIDE DEF u, b
  <2>9. IsLonger(Written(v, bytes, w), Written(v, bytes, u), r.size, IF v THEN w.stream ELSE 0,
                 w.source, w.from + w.size)
      BY <1>2, <2>2, <2>8, JoinedIs
  <2>10. (IF v THEN w.stream ELSE 0) = (IF v THEN s ELSE 0)
      BY <2>1
  <2>11. IsLonger(Written(v, bytes, w), Written(v, b, u), r.size, IF v THEN s ELSE 0,
                  request.source, request.cur)
      BY <2>2, <2>7, <2>9, <2>10
  <2>12. /\ u.block = w.block /\ u.source = w.source /\ u.from = w.from /\ u.pos = w.pos
      BY <2>2, <1>1 DEF Piece
  <2>13. PendingOK(u, c)
      BY <2>3, <2>12 DEF PendingOK
  <2>14. b \in Seq(Byte)
      BY <2>2
  <2> QED
      BY <2>8, <2>11, <2>13, <2>14 DEF DataAdded, u, b
<1>4. CASE ~ Joins(w, r, s, v)
  <2>1. u = PieceOf(r, s) /\ b = Written(v, bytes, w)
      BY <1>4 DEF PendingOf, BeforeOf
  <2>2. u \in Piece /\ PendingOK(u, c)
      BY <2>1, PieceOfIs
  <2>3. IsLonger(bytes, Written(v, bytes, w), w.size, IF v THEN w.stream ELSE 0, w.source, w.from)
      BY WrittenIs
  <2>4. Written(v, bytes, w) \in Seq(Byte)
      BY <2>3 DEF IsLonger
  <2> HIDE DEF u, b
  <2>5. b \in Seq(Byte)
      BY <2>1, <2>4
  <2>6. IsLonger(b, Written(v, b, u), u.size, IF v THEN u.stream ELSE 0, u.source, u.from)
      BY <2>2, <2>5, WrittenIs
  <2>7. u.size = r.size /\ u.stream = s /\ u.source = request.source /\ u.from = request.cur
      BY <1>2, <2>1 DEF PieceOf
  <2>8. IsLonger(Written(v, bytes, w), Written(v, b, u), r.size, IF v THEN s ELSE 0,
                 request.source, request.cur)
      BY <2>1, <2>6, <2>7
  <2> QED
      BY <2>2, <2>5, <2>8 DEF DataAdded, u, b
<1> QED
    BY <1>3, <1>4

\* The bytes are right, and go up to offset cur of the frame i.
RightUpTo(v, run, off, n, i, bytes, cur) ==
    Right(v, run, off, n, bytes) /\ Len(bytes) = off[i] + (cur - FrameAt(run, i).offset)

\* More bytes of the current frame
LEMMA MoreBytes ==
    ASSUME NEW v, NEW run, NEW off, NEW n, NEW clips, NEW types, NEW N, NEW D,
           IsRun(run, off, n, clips, types, N, D), NEW old, Right(v, run, off, n, old),
           NEW m, NEW r \in Request, NEW i, AtFrame(m, r, Len(old), run, off, n, i, clips, types, N, D),
           NEW new, NEW k \in Nat, r.cur + k <= r.end,
           IsLonger(old, new, k, IF v THEN m.selected ELSE 0, r.source, r.cur)
    PROVE  RightUpTo(v, run, off, n, i, new, r.cur + k)
<1> DEFINE f == FrameAt(run, i)
           o == off[i]
           l == Len(old)
<1>1. /\ i \in 0 .. n - 1 /\ m.selected = StreamAt(run, i) /\ r.source = SourceAt(run, i)
      /\ r.end = f.offset + f.size /\ f.offset <= r.cur /\ l = o + (r.cur - f.offset)
    BY DEF AtFrame
<1>2. IsFrameAt(run, off, i, clips, N)
    BY <1>1, RunFrame
<1>3. f.offset \in Nat /\ f.size \in Nat /\ o \in Nat /\ r.cur \in Nat
    BY <1>2 DEF IsFrameAt, Request
<1>4. /\ l \in Nat /\ Len(new) = l + k
      /\ \A h \in 1 .. l : new[h] = old[h]
      /\ \A h \in 1 .. k : new[l + h] =
           [via |-> IF v THEN m.selected ELSE 0, source |-> r.source, offset |-> r.cur + h - 1]
    BY DEF IsLonger
<1>5. \A h \in 1 .. k : new[l + h] = ByteAt(v, run, i, r.cur - f.offset + h - 1)
  <2> SUFFICES ASSUME NEW h \in 1 .. k
               PROVE  new[l + h] = ByteAt(v, run, i, r.cur - f.offset + h - 1)
      OBVIOUS
  <2>1. new[l + h] = [via |-> IF v THEN m.selected ELSE 0, source |-> r.source, offset |-> r.cur + h - 1]
      BY <1>4
  <2> HIDE DEF f, l
  <2>2. f.offset + (r.cur - f.offset + h - 1) = r.cur + h - 1
      BY <1>3
  <2>3. ByteAt(v, run, i, r.cur - f.offset + h - 1) =
          [via |-> IF v THEN StreamAt(run, i) ELSE 0, source |-> SourceAt(run, i),
           offset |-> f.offset + (r.cur - f.offset + h - 1)]
      BY DEF ByteAt, f
  <2> QED
      BY <1>1, <2>1, <2>2, <2>3
<1>6. r.cur + k <= f.offset + f.size
    BY <1>1
<1>7. Right(v, run, off, n, new)
  <2> HIDE DEF l
  <2>1. Len(old) = l /\ l = off[i] + (r.cur - FrameAt(run, i).offset)
      BY <1>1 DEF l
  <2>2. Continues(v, run, off, i, old, l, r.cur, k, new)
      BY <1>1, <1>4, <1>5, <1>6, <2>1, Zenon DEF Continues
  <2> QED
      BY <1>1, <1>3, <1>4, <2>2, RightLonger, Zenon
<1>8. Len(new) = o + ((r.cur + k) - f.offset)
  <2> HIDE DEF f, o, l
  <2> QED
      BY <1>1, <1>3, <1>4
<1> QED
    BY <1>7, <1>8, Zenon DEF RightUpTo

-----------------------------------------------------------------------------
(* The invariant *)

StreamCount == Len(job.media_types)
Sources == DOMAIN job.lengths

\* The job, which never changes
JobOK ==
    /\ SetOK(job.clips, job.media_types, StreamCount, Sources)
    /\ job.lengths \in Seq(Nat) /\ job.alignment \in Alignments
    /\ job.per_stream_writer \in BOOLEAN /\ job.reuse_buffers \in BOOLEAN /\ job.limit \in Nat
    /\ Streams = 1 .. StreamCount
    /\ frames = [s \in 1 .. StreamCount |-> FramesOf(job.clips, s)]

\* run is the order of the frames, of which the first pass has given n their place off.
RunInv(run, off, n) ==
    /\ IsRun(run, off, n, job.clips, job.media_types, StreamCount, Sources)
    /\ InLayout(run, off, n, layout, StreamCount)
    /\ Right(job.per_stream_writer, run, off, n, Flushed)
    /\ pc = "init" => mux = run[n] /\ wbuf = NoBuffer /\ out = <<>>
    /\ pc # "init" => ~ MoreFrames(run[n])
    /\ pc \in {"process", "reading"} =>
         \E i : AtFrame(mux, req, Len(Flushed), run, off, n, i, job.clips, job.media_types,
                        StreamCount, Sources)

\* The second pass follows the run: what it has written and what waits to be written are the
\* bytes of its frames up to the one that is read.
MuxInv ==
    /\ JobOK /\ pc \in {"init", "process", "reading", "done"}
    /\ out \in Seq(Byte) /\ wbuf \in Piece
    /\ job.reuse_buffers \/ pc = "reading" => wbuf = NoBuffer
    /\ pc = "process" => PendingOK(wbuf, cache)
    /\ CacheOK(cache, job.alignment)
    /\ pc = "reading" => Awaits(cache, job.alignment, req.source)
    /\ \E run, off, n : RunInv(run, off, n)

\* Flushed and Write in terms of the writer
LEMMA FlushedIs ==
    /\ Flushed = Written(job.per_stream_writer, out, wbuf)
    /\ \A b, w : Write(b, w) = Written(job.per_stream_writer, b, w)
    BY DEF Flushed, Write, Written, PieceBytes, Via

\* No buffer is an empty piece.
LEMMA NoBufferIs == NoBuffer \in Piece /\ NoBuffer.size = 0
    BY DEF NoBuffer, Piece, NULL

\* Nothing that was not written is wrong.
LEMMA RightNothing ==
    ASSUME NEW v, NEW run, NEW off, NEW n, NEW clips, NEW types, NEW N, NEW D,
           IsRun(run, off, n, clips, types, N, D), NEW bytes, Len(bytes) = 0
    PROVE  Right(v, run, off, n, bytes)
<1>1. ASSUME NEW i \in 0 .. n - 1, NEW x \in 0 .. FrameAt(run, i).size - 1
      PROVE  ~ (off[i] + x < Len(bytes))
  <2>1. IsFrameAt(run, off, i, clips, N)
      BY RunFrame
  <2>2. off[i] \in Nat /\ FrameAt(run, i).size \in Nat
      BY <2>1 DEF IsFrameAt
  <2> DEFINE s == FrameAt(run, i).size
  <2>3. x \in 0 .. s - 1 /\ s \in Nat
      BY <2>2
  <2> HIDE DEF s
  <2> QED
      BY <2>2, <2>3
<1> QED
    BY <1>1 DEF Right

\* The current part of a stream is one of those that its source's last offset comes from.
LEMMA CurrentPart ==
    ASSUME NEW m, NEW clips, NEW N, NEW D, MuxState(m, clips, N, D), NEW s \in 1 .. N, HasFrame(m, s)
    PROVE  /\ PartOf(m, s).source \in D
           /\ PartOf(m, s) \in PartsOf(clips, 1 .. N, PartOf(m, s).source)
<1> DEFINE c == m.clip
           k == m.streams[s].part
           f == m.streams[s].frame
           p == PartOf(m, s)
           l == PartLen(clips, c, s, k)
<1>1. ClipsOK(clips, 1 .. N, D) /\ N \in Nat
    BY DEF MuxState
<1>2. c \in 1 .. Len(clips) /\ m.media_set = clips
    BY MuxFields
<1>3. /\ k \in 1 .. PartCount(clips, c, s) /\ f \in Nat /\ f \in 1 .. l + 1 /\ f <= l /\ l \in Nat
    BY CursorFields
<1>4. p = clips[c][s].parts[k]
    BY <1>2 DEF PartOf
<1>5. l >= 1
  <2> HIDE DEF l, f
  <2> QED
      BY <1>3
<1> HIDE DEF c, k, f, p
<1>6. p.source \in D /\ p.frames \in Seq(Frame)
    BY <1>1, <1>2, <1>3, <1>4, PartFacts
<1>7. p.frames # <<>>
  <2>1. Len(p.frames) >= 1
      BY <1>4, <1>5 DEF PartLen
  <2> QED
      BY <2>1
<1>8. \E x \in 1 .. Len(clips) : \E y \in 1 .. N : \E z \in 1 .. PartCount(clips, x, y) :
        p = clips[x][y].parts[z]
    BY <1>2, <1>3, <1>4
<1>9. p \in PartsOf(clips, 1 .. N, p.source)
    BY <1>1, <1>7, <1>8, PartsOfAre, Zenon
<1> QED
    BY <1>6, <1>9 DEF p

\* What is known of the file that a frame is in
LEMMA FileOK ==
    ASSUME JobOK, NEW run, NEW off, NEW n,
           IsRun(run, off, n, job.clips, job.media_types, StreamCount, Sources), NEW i \in 0 .. n - 1
    PROVE  /\ SourceAt(run, i) \in Sources /\ File(SourceAt(run, i)).last_offset \in Nat
           /\ File(SourceAt(run, i)).alignment = job.alignment
           /\ File(SourceAt(run, i)).length \in Nat
<1> DEFINE clips == job.clips
           N == StreamCount
           D == Sources
           c == mp4_muxer_choose_stream(run[i])
           s == StreamAt(run, i)
           source == SourceAt(run, i)
           p == PartOf(c, s)
<1>1. /\ N \in Nat /\ ClipsOK(clips, 1 .. N, D) /\ MuxState(run[i], clips, N, D)
      /\ MoreFrames(run[i])
    BY DEF IsRun, SetOK
<1>2. IsNext(c, run[i], clips, N, D)
    BY <1>1, ChooseOK
<1>3. MuxState(c, clips, N, D) /\ s \in 1 .. N /\ HasFrame(c, s) /\ source = p.source
    BY <1>2 DEF IsNext, StreamAt, SourceAt
<1> HIDE DEF clips, N, D, c, s, source
<1>7. p.source \in D /\ p \in PartsOf(clips, 1 .. N, p.source)
    BY <1>3, CurrentPart
<1> HIDE DEF p
<1>9. p \in PartsOf(clips, 1 .. N, source)
    BY <1>3, <1>7
<1>10. Max({PartEnd(q) : q \in PartsOf(clips, 1 .. N, source)}) \in Nat
    BY <1>1, <1>9, LastOffsetIs
<1>11. Streams = 1 .. N
    BY DEF JobOK, N
<1>12. File(source).last_offset = Max({PartEnd(q) : q \in PartsOf(clips, 1 .. N, source)})
  <2>1. File(source).last_offset = Max({PartEnd(q) : q \in PartsOf(job.clips, Streams, source)})
      BY SMT DEF File, PartEnd, PartsOf
  <2> QED
      BY <1>11, <2>1 DEF clips
<1>13. File(source).alignment = job.alignment /\ File(source).length = job.lengths[source]
    BY DEF File
<1>14. source \in D
    BY <1>3, <1>7
<1>15. job.lengths[source] \in Nat
    BY <1>14 DEF JobOK, D, Sources
<1> QED
    BY <1>10, <1>12, <1>13, <1>14, <1>15 DEF source, D

\* The invariant holds at first.
LEMMA InitMuxInv ==
    Init => MuxInv
<1> SUFFICES ASSUME Init PROVE MuxInv
    OBVIOUS
<1>1. PICK j \in Jobs : \E i \in j.inputs, c \in j.conditions, a \in Alignments :
         job = [media_types |-> i.media_types, clips |-> i.clips, lengths |-> i.lengths,
                alignment |-> a, per_stream_writer |-> c.per_stream_writer,
                reuse_buffers |-> c.reuse_buffers, aio |-> c.aio, limit |-> c.limit]
    BY DEF Init
<1>2. PICK i \in j.inputs, c \in j.conditions, a \in Alignments :
         job = [media_types |-> i.media_types, clips |-> i.clips, lengths |-> i.lengths,
                alignment |-> a, per_stream_writer |-> c.per_stream_writer,
                reuse_buffers |-> c.reuse_buffers, aio |-> c.aio, limit |-> c.limit]
    BY <1>1
<1>3. i \in Input /\ c \in Condition /\ IsMediaSet(i) /\ Timescale \in Nat
    BY JobsAssumption
<1>4. /\ job.media_types = i.media_types /\ job.clips = i.clips /\ job.lengths = i.lengths
      /\ job.alignment = a /\ job.per_stream_writer = c.per_stream_writer
      /\ job.reuse_buffers = c.reuse_buffers /\ job.limit = c.limit
    BY <1>2
<1>5. /\ i.media_types \in Seq(0 .. 1) /\ i.clips \in Seq(Seq(Track)) /\ i.lengths \in Seq(Nat)
      /\ c.per_stream_writer \in BOOLEAN /\ c.reuse_buffers \in BOOLEAN /\ c.limit \in Nat
    BY <1>3 DEF Input, Condition
<1> DEFINE N == StreamCount
<1>6. /\ N \in Nat /\ DOMAIN i.media_types = 1 .. N /\ Streams = 1 .. N
      /\ job.media_types \in [1 .. N -> 0 .. 1]
    BY <1>4, <1>5 DEF StreamCount, Streams
<1>7. ClipsOK(job.clips, 1 .. N, Sources)
  <2> HIDE DEF N
  <2>1. DOMAIN i.clips = 1 .. Len(i.clips)
      BY <1>5
  <2>2. /\ i.clips # <<>>
        /\ \A x \in 1 .. Len(i.clips) :
             /\ DOMAIN i.clips[x] = DOMAIN i.media_types
             /\ \A s \in DOMAIN i.clips[x] :
                  /\ i.clips[x][s].parts # <<>>
                  /\ \A p \in DOMAIN i.clips[x][s].parts :
                       /\ i.clips[x][s].parts[p].source \in DOMAIN i.lengths
                       /\ p > 1 => i.clips[x][s].parts[p].frames # <<>>
      BY <1>3, <2>1, Zenon DEF IsMediaSet
  <2>3. ASSUME NEW x \in 1 .. Len(i.clips), NEW s \in 1 .. N
        PROVE  DOMAIN i.clips[x][s].parts = 1 .. Len(i.clips[x][s].parts)
    <3>1. i.clips[x] \in Seq(Track)
        BY <1>5
    <3>4. DOMAIN i.clips[x] = 1 .. N
      <4>1. DOMAIN i.clips[x] = DOMAIN i.media_types
          BY <2>2, Zenon
      <4> QED
          BY <1>6, <4>1, Zenon
    <3>2. i.clips[x][s] \in Track
      <4> DEFINE y == i.clips[x]
      <4>1. y \in Seq(Track) /\ s \in DOMAIN y
          BY <3>1, <3>4
      <4> HIDE DEF y
      <4>2. y[s] \in Track
          BY <4>1
      <4> QED
          BY <4>2 DEF y
    <3>3. i.clips[x][s].parts \in Seq(Part)
        BY <3>2 DEF Track
    <3> QED
        BY <3>3
  <2>4. ClipsOK(i.clips, 1 .. N, DOMAIN i.lengths)
    <3>1. ASSUME NEW x \in 1 .. Len(i.clips)
          PROVE  /\ DOMAIN i.clips[x] = 1 .. N
                 /\ \A s \in 1 .. N :
                      /\ i.clips[x][s].parts # <<>>
                      /\ \A p \in 1 .. Len(i.clips[x][s].parts) :
                           /\ i.clips[x][s].parts[p].source \in DOMAIN i.lengths
                           /\ p > 1 => i.clips[x][s].parts[p].frames # <<>>
      <4>1. DOMAIN i.clips[x] = 1 .. N
          BY <1>6, <2>2
      <4>2. ASSUME NEW s \in 1 .. N
            PROVE  /\ i.clips[x][s].parts # <<>>
                   /\ \A p \in 1 .. Len(i.clips[x][s].parts) :
                           /\ i.clips[x][s].parts[p].source \in DOMAIN i.lengths
                           /\ p > 1 => i.clips[x][s].parts[p].frames # <<>>
        <5>1. s \in DOMAIN i.clips[x]
            BY <4>1
        <5>2. DOMAIN i.clips[x][s].parts = 1 .. Len(i.clips[x][s].parts)
            BY <2>3
        <5>3. /\ i.clips[x][s].parts # <<>>
              /\ \A p \in DOMAIN i.clips[x][s].parts :
                       /\ i.clips[x][s].parts[p].source \in DOMAIN i.lengths
                       /\ p > 1 => i.clips[x][s].parts[p].frames # <<>>
            BY <2>2, <5>1, Zenon
        <5> QED
            BY <5>2, <5>3
      <4> QED
          BY <4>1, <4>2
    <3> QED
        BY <1>5, <2>2, <3>1 DEF ClipsOK
  <2> QED
      BY <1>4, <2>4 DEF Sources
<1>8. frames = [s \in 1 .. N |-> FramesOf(job.clips, s)]
    BY <1>6 DEF Init
<1>9. SetOK(job.clips, job.media_types, N, Sources)
    BY <1>3, <1>6, <1>7 DEF SetOK
<1>10. JobOK
    BY <1>4, <1>5, <1>6, <1>8, <1>9 DEF JobOK
<1>11. /\ mux = mp4_muxer_init_state(job.clips, job.media_types) /\ cache = read_cache_init
       /\ wbuf = NoBuffer /\ out = <<>> /\ pc = "init"
       /\ layout = [offsets |-> [s \in Streams |-> <<>>], last_size |-> [s \in Streams |-> 0],
                    size |-> 0, truns |-> 0]
    BY DEF Init
<1>12. job.alignment \in Nat \ {0}
    BY <1>4, BufferSizeIs
<1>13. CacheOK(cache, job.alignment)
    BY <1>11, <1>12, InitCacheOK
<1> DEFINE run == [x \in 0 .. 0 |-> mux]
           off == [x \in 0 .. 0 |-> 0]
<1>14. run[0] = mux /\ off[0] = 0
    OBVIOUS
<1>15. /\ MuxState(mux, job.clips, N, Sources) /\ OfTypes(mux, N, job.media_types)
       /\ \A s \in 1 .. N : Taken(mux, s) = 0
    BY <1>9, <1>11, InitStateOK
<1> HIDE DEF run, off, N
<1>16. IsRun(run, off, 0, job.clips, job.media_types, N, Sources)
  <2>1. \A x \in 0 .. 0 : x = 0
      OBVIOUS
  <2>2. \A x \in 0 .. 0 : /\ MuxState(run[x], job.clips, N, Sources)
                          /\ OfTypes(run[x], N, job.media_types) /\ off[x] \in Nat
      BY <1>14, <1>15, <2>1
  <2>3. 0 .. 0 - 1 = {}
      OBVIOUS
  <2> QED
      BY <1>9, <1>11, <1>14, <2>2, <2>3 DEF IsRun
<1>17. InLayout(run, off, 0, layout, N)
  <2>1. /\ layout.size = 0 /\ layout.offsets = [s \in 1 .. N |-> <<>>]
      BY <1>6, <1>11 DEF N
  <2>2. \A s \in 1 .. N : Len(layout.offsets[s]) = 0
      BY <2>1
  <2>3. layout.offsets \in [1 .. N -> Seq(Nat)]
      BY <2>1
  <2>4. \A s \in 1 .. N : Len(layout.offsets[s]) = Taken(run[0], s)
      BY <1>14, <1>15, <2>2
  <2>5. \A s \in 1 .. N : 1 .. Len(layout.offsets[s]) = {}
      BY <2>2
  <2> QED
      BY <1>14, <2>1, <2>3, <2>4, <2>5 DEF InLayout
<1>18. out \in Seq(Byte) /\ Len(out) = 0 /\ wbuf \in Piece
    BY <1>11, NoBufferIs
<1>19. Flushed = out
    BY <1>10, <1>11, <1>18, NoBufferIs, FlushedIs, WrittenNothing DEF JobOK
<1>20. Right(job.per_stream_writer, run, off, 0, Flushed)
    BY <1>16, <1>18, <1>19, RightNothing
<1>21. RunInv(run, off, 0)
    BY <1>11, <1>14, <1>16, <1>17, <1>20 DEF RunInv, N
<1> QED
    BY <1>10, <1>11, <1>13, <1>18, <1>21 DEF MuxInv

\* The job stays as it is.
LEMMA SameJob ==
    ASSUME JobOK, UNCHANGED <<job, frames>>
    PROVE  /\ JobOK' /\ StreamCount' = StreamCount /\ Sources' = Sources /\ job' = job
    BY DEF JobOK, StreamCount, Sources, Streams

\* What waits to be written after a step
LEMMA FlushedNext ==
    ASSUME job' = job
    PROVE  Flushed' = Written(job.per_stream_writer, out', wbuf')
<1>1. Flushed' = Written(job'.per_stream_writer, out', wbuf')
    BY DEF Flushed, Write, Written, PieceBytes, Via
<1> QED
    BY <1>1

\* Nothing waits.
LEMMA FlushedNothing ==
    ASSUME JobOK, job' = job, out' \in Seq(Byte), wbuf' = NoBuffer
    PROVE  Flushed' = out'
<1> DEFINE v == job.per_stream_writer
           w == wbuf'
           o == out'
<1>1. v \in BOOLEAN /\ o \in Seq(Byte) /\ w \in Piece /\ w.size = 0
    BY NoBufferIs DEF JobOK
<1>2. Flushed' = Written(v, o, w)
    BY FlushedNext
<1> HIDE DEF v, w, o
<1>3. Written(v, o, w) = o
    BY <1>1, WrittenNothing
<1> QED
    BY <1>2, <1>3 DEF o

\* Without a pending piece the cache may change.
LEMMA NothingPending ==
    ASSUME NEW c, NEW w, w = NoBuffer
    PROVE  PendingOK(w, c)
    BY NoBufferIs DEF PendingOK

\* A round of mp4_calculate_output_offsets
LEMMA AssignInv ==
    ASSUME MuxInv, assign_offset
    PROVE  MuxInv'
<1> DEFINE N == StreamCount
           D == Sources
           clips == job.clips
           types == job.media_types
           m == mp4_muxer_choose_stream(mux)
           s == m.selected
           size == CurFrame(m, s).size
<1>1. /\ pc = "init" /\ MoreFrames(mux) /\ mux' = TakeFrame(m)
      /\ layout'.offsets = [layout.offsets EXCEPT ![s] = Append(@, layout.size)]
      /\ layout'.size = layout.size + size
      /\ UNCHANGED <<job, frames, cache, req, wbuf, processed, out, pc, status>>
    BY DEF assign_offset
<1>2. PICK run, off, n : RunInv(run, off, n)
    BY DEF MuxInv
<1>3. JobOK
    BY DEF MuxInv
<1>4. JobOK' /\ N' = N /\ D' = D /\ job' = job
    BY <1>1, <1>3, SameJob
<1>5. /\ IsRun(run, off, n, clips, types, N, D) /\ InLayout(run, off, n, layout, N)
      /\ mux = run[n] /\ wbuf = NoBuffer /\ out = <<>>
    BY <1>1, <1>2 DEF RunInv
<1>6. m = mp4_muxer_choose_stream(run[n]) /\ s = StreamAt(run, n) /\ size = FrameAt(run, n).size
    BY <1>5 DEF StreamAt, FrameAt
<1> DEFINE r == Extended(run, n, TakeFrame(mp4_muxer_choose_stream(run[n])))
           o == Extended(off, n, off[n] + FrameAt(run, n).size)
<1> HIDE DEF N, D, clips, types, m, s, size
<1>7. IsRun(r, o, n + 1, clips, types, N, D)
    BY <1>1, <1>5, RunExtended
<1>8. InLayout(r, o, n + 1, layout', N)
  <2> DEFINE l == layout'
  <2>1. /\ l.size = layout.size + FrameAt(run, n).size
        /\ l.offsets = [layout.offsets EXCEPT ![StreamAt(run, n)] = Append(@, layout.size)]
      BY <1>1, <1>6
  <2>2. MoreFrames(run[n])
      BY <1>1, <1>5
  <2> HIDE DEF l
  <2>3. InLayout(r, o, n + 1, l, N)
      BY <1>5, <2>1, <2>2, LayoutExtended, Zenon
  <2> QED
      BY <2>3 DEF l
<1>9. n \in Nat
    BY <1>5 DEF IsRun
<1>10. mux' = r[n + 1]
    BY <1>1, <1>6, <1>9 DEF Extended
<1> HIDE DEF r, o
<1>11. out' = <<>> /\ wbuf' = NoBuffer /\ pc' = "init" /\ cache' = cache
    BY <1>1, <1>5
<1>12. out' \in Seq(Byte) /\ Len(out') = 0 /\ wbuf' \in Piece
    BY <1>11, NoBufferIs
<1>13. Flushed' = out'
    BY <1>3, <1>4, <1>11, <1>12, FlushedNothing
<1>14. Right(job.per_stream_writer, r, o, n + 1, Flushed')
    BY <1>7, <1>12, <1>13, RightNothing
<1>15. RunInv(r, o, n + 1)'
    BY <1>4, <1>7, <1>8, <1>10, <1>11, <1>14 DEF RunInv, clips, types, N, D
<1>16. CacheOK(cache', job'.alignment)
    BY <1>4, <1>11 DEF MuxInv
<1> QED
    BY <1>4, <1>11, <1>12, <1>15, <1>16 DEF MuxInv

\* What mp4_muxer_start_frame does after the first k frames, and whether it goes on
StartFrameTo(m, run, off, n, k) ==
    /\ MoreFrames(m) =>
         \E i : AtFrame(mux', req', off[k], run, off, n, i, job.clips, job.media_types,
                        StreamCount, Sources)
\* mp4_muxer_start_frame goes on along the run of the first pass.
LEMMA StartFrameStep ==
    ASSUME NEW m, NEW run, NEW off, NEW n,
           IsRun(run, off, n, job.clips, job.media_types, StreamCount, Sources),
           ~ MoreFrames(run[n]), NEW k \in 0 .. n, MuxState(m, job.clips, StreamCount, Sources),
           SamePlace(m, run[k]), mp4_muxer_start_frame(m)
    PROVE  StartFrameTo(m, run, off, n, k)
<1> SUFFICES ASSUME MoreFrames(m)
             PROVE  AtFrame(mux', req', off[k], run, off, n, k, job.clips, job.media_types,
                            StreamCount, Sources)
    BY Zenon DEF StartFrameTo
<1>1. /\ mux' = TakeFrame(mp4_muxer_choose_stream(m))
      /\ req' = RequestFor(mp4_muxer_choose_stream(m))
    BY DEF mp4_muxer_start_frame
<1>2. AtFrame(TakeFrame(mp4_muxer_choose_stream(m)), RequestFor(mp4_muxer_choose_stream(m)),
              off[k], run, off, n, k, job.clips, job.media_types, StreamCount, Sources)
    BY StartFrameOK, Zenon
<1> QED
    BY <1>1, <1>2, Zenon

\* mp4_muxer_init_fragment
LEMMA InitFragmentInv ==
    ASSUME MuxInv, init_fragment
    PROVE  MuxInv'
<1> DEFINE N == StreamCount
           D == Sources
           clips == job.clips
           types == job.media_types
           start == ResetMuxer(mux)
<1>1. /\ pc = "init" /\ ~ MoreFrames(mux)
      /\ UNCHANGED <<job, frames, layout, cache, wbuf, processed, out>>
      /\ pc' \in {"process", "done"}
      /\ pc' = "process" => mp4_muxer_start_frame(start) /\ MoreFrames(start)
    BY DEF init_fragment, Finish, ContinueIf
<1>2. PICK run, off, n : RunInv(run, off, n)
    BY DEF MuxInv
<1>3. JobOK
    BY DEF MuxInv
<1>4. JobOK' /\ N' = N /\ D' = D /\ job' = job
    BY <1>1, <1>3, SameJob
<1>5. /\ IsRun(run, off, n, clips, types, N, D) /\ InLayout(run, off, n, layout, N)
      /\ mux = run[n] /\ wbuf = NoBuffer /\ out = <<>>
      /\ Right(job.per_stream_writer, run, off, n, Flushed)
    BY <1>1, <1>2 DEF RunInv
<1>6. out' = <<>> /\ wbuf' = NoBuffer /\ cache' = cache /\ layout' = layout
    BY <1>1, <1>5
<1>7. out' \in Seq(Byte) /\ Len(out') = 0 /\ wbuf' \in Piece
    BY <1>6, NoBufferIs
<1>8. Flushed' = out'
    BY <1>3, <1>4, <1>6, <1>7, FlushedNothing
<1> HIDE DEF N, D, clips, types, start
<1>9. /\ n \in Nat /\ SetOK(clips, types, N, D) /\ MuxState(mux, clips, N, D)
      /\ OfTypes(mux, N, types) /\ run[0] = mp4_muxer_init_state(clips, types) /\ off[0] = 0
      /\ MuxState(run[0], clips, N, D)
  <2>1. n \in Nat /\ n \in 0 .. n /\ 0 \in 0 .. n
      BY <1>5 DEF IsRun
  <2> QED
      BY <1>5, <2>1 DEF IsRun
<1>10. start = run[0]
    BY <1>9, ResetIs DEF start
<1>11. Right(job.per_stream_writer, run, off, n, Flushed')
    BY <1>5, <1>7, <1>8, RightNothing
<1>12. pc' = "process" =>
         \E i : AtFrame(mux', req', Len(Flushed'), run, off, n, i, clips, types, N, D)
  <2> SUFFICES ASSUME pc' = "process"
               PROVE  \E i : AtFrame(mux', req', Len(Flushed'), run, off, n, i, clips, types, N, D)
      OBVIOUS
  <2>1. mp4_muxer_start_frame(start) /\ MoreFrames(start) /\ ~ MoreFrames(run[n])
      BY <1>1, <1>5
  <2>2. 0 \in 0 .. n /\ SamePlace(start, run[0]) /\ MuxState(start, clips, N, D)
      BY <1>9, <1>10 DEF SamePlace
  <2>3. StartFrameTo(start, run, off, n, 0)
      BY <1>5, <2>1, <2>2, StartFrameStep, Zenon DEF clips, types, N, D
  <2>4. \E i : AtFrame(mux', req', off[0], run, off, n, i, clips, types, N, D)
      BY <2>1, <2>3, Zenon DEF StartFrameTo, clips, types, N, D
  <2>5. off[0] = Len(Flushed')
      BY <1>7, <1>8, <1>9
  <2> QED
      BY <2>4, <2>5
<1>13. ~ MoreFrames(run[n])
    BY <1>1, <1>5
<1>14. RunInv(run, off, n)'
    BY <1>1, <1>4, <1>5, <1>6, <1>11, <1>12, <1>13 DEF RunInv, clips, types, N, D
<1>15. CacheOK(cache', job'.alignment) /\ PendingOK(wbuf', cache')
    BY <1>4, <1>6, NothingPending DEF MuxInv
<1> QED
    BY <1>1, <1>4, <1>6, <1>7, <1>14, <1>15 DEF MuxInv

\* The bytes that frame_data adds
LEMMA DataStep ==
    ASSUME MuxInv, frame_data, NEW r, r = frames_source_cache_read(cache, req), NEW i,
           IsPiece(r, cache, req, i), req \in Request, mux.selected \in Nat
    PROVE  /\ IsLonger(Flushed, Flushed', r.size,
                       IF job.per_stream_writer THEN mux.selected ELSE 0, req.source, req.cur)
           /\ out' \in Seq(Byte) /\ wbuf' \in Piece /\ PendingOK(wbuf', cache)
           /\ job.reuse_buffers => wbuf' = NoBuffer
<1> DEFINE v == job.per_stream_writer
           s == mux.selected
           p == PieceOf(r, s)
           B == BeforeOf(out, wbuf, r, s, v)
           P == PendingOf(wbuf, r, s, v)
           via == IF v THEN s ELSE 0
<1>1. /\ pc = "process" /\ job' = job
      /\ job.reuse_buffers => out' = Write(out, p) /\ wbuf' = wbuf
      /\ ~ job.reuse_buffers =>
           (out' = Write(B, P) /\ wbuf' = NoBuffer) \/ (out' = B /\ wbuf' = P)
  <2> DEFINE joined == wbuf.size # 0 /\ Contiguous(wbuf, r, s)
             pending == IF joined THEN [wbuf EXCEPT !.size = @ + r.size] ELSE p
             before == IF joined THEN out ELSE Flushed
  <2>1. joined <=> Joins(wbuf, r, s, v)
      BY DEF Joins, Contiguous
  <2>2. Flushed = Written(v, out, wbuf)
      BY FlushedIs
  <2> HIDE DEF joined
  <2>3. pending = P /\ before = B
      BY <2>1, <2>2 DEF PendingOf, BeforeOf
  <2>4. /\ pc = "process" /\ job' = job
        /\ CASE job.reuse_buffers -> out' = Write(out, p) /\ UNCHANGED wbuf
            [] ~ job.reuse_buffers /\ EndsPart(r, s) -> out' = Write(before, pending) /\ wbuf' = NoBuffer
            [] OTHER -> out' = before /\ wbuf' = pending
      BY Zenon DEF frame_data, PieceOf, joined
  <2> HIDE DEF pending, before, p, B, P, s
  <2>5. job.reuse_buffers \in BOOLEAN
      BY DEF MuxInv, JobOK
  <2> QED
      BY <2>3, <2>4, <2>5
<1>2. /\ v \in BOOLEAN /\ out \in Seq(Byte) /\ wbuf \in Piece /\ CacheOK(cache, job.alignment)
      /\ PendingOK(wbuf, cache)
      /\ job.reuse_buffers => wbuf = NoBuffer
    BY <1>1 DEF MuxInv, JobOK
<1>3. /\ Flushed = Written(v, out, wbuf) /\ Flushed' = Written(v, out', wbuf')
      /\ \A b, w : Write(b, w) = Written(v, b, w)
    BY <1>1, FlushedIs, FlushedNext
<1>4. s \in Nat
    OBVIOUS
<1>5. p \in Piece /\ PendingOK(p, cache)
    BY <1>2, <1>4, PieceOfIs
<1>6. p.size = r.size /\ p.stream = s /\ p.source = req.source /\ p.from = req.cur
    BY DEF PieceOf, IsPiece
<1>7. DataAdded(v, out, wbuf, cache, req, r, s)
    BY <1>2, <1>4, DataOK
<1>8. /\ B \in Seq(Byte) /\ P \in Piece /\ PendingOK(P, cache)
      /\ IsLonger(Written(v, out, wbuf), Written(v, B, P), r.size, via, req.source, req.cur)
    BY <1>7 DEF DataAdded
<1>9. /\ NoBuffer \in Piece /\ NoBuffer.size = 0 /\ PendingOK(NoBuffer, cache)
    BY NoBufferIs, NothingPending
<1> HIDE DEF v, s, p, B, P
<1>10. ASSUME NEW b \in Seq(Byte)
       PROVE  Written(v, b, NoBuffer) = b
    BY <1>2, <1>9, WrittenNothing
<1>11. ASSUME NEW b \in Seq(Byte), NEW w \in Piece
       PROVE  Written(v, b, w) \in Seq(Byte)
  <2>1. IsLonger(b, Written(v, b, w), w.size, IF v THEN w.stream ELSE 0, w.source, w.from)
      BY <1>2, WrittenIs
  <2> QED
      BY <2>1 DEF IsLonger
<1>12. CASE job.reuse_buffers
  <2>1. out' = Written(v, out, p) /\ wbuf' = NoBuffer /\ wbuf = NoBuffer
      BY <1>1, <1>2, <1>3, <1>12
  <2>2. Flushed = out
      BY <1>2, <1>3, <1>10, <2>1
  <2>3. out' \in Seq(Byte)
      BY <1>2, <1>5, <1>11, <2>1
  <2>4. Flushed' = out'
      BY <1>3, <1>10, <2>1, <2>3
  <2>5. IsLonger(out, Written(v, out, p), p.size, IF v THEN p.stream ELSE 0, p.source, p.from)
      BY <1>2, <1>5, WrittenIs
  <2>6. IsLonger(Flushed, Flushed', r.size, via, req.source, req.cur)
      BY <1>6, <2>1, <2>2, <2>4, <2>5
  <2> QED
      BY <1>9, <2>1, <2>3, <2>6 DEF v, s
<1>13. CASE ~ job.reuse_buffers /\ out' = Write(B, P) /\ wbuf' = NoBuffer
  <2>1. out' = Written(v, B, P)
      BY <1>3, <1>13
  <2>2. out' \in Seq(Byte)
      BY <1>8, <1>11, <2>1
  <2>3. Flushed' = out'
      BY <1>3, <1>10, <1>13, <2>2
  <2>4. IsLonger(Flushed, Flushed', r.size, via, req.source, req.cur)
      BY <1>3, <1>8, <2>1, <2>3
  <2> QED
      BY <1>9, <1>13, <2>2, <2>4 DEF v, s
<1>14. CASE ~ job.reuse_buffers /\ out' = B /\ wbuf' = P
  <2>1. IsLonger(Flushed, Flushed', r.size, via, req.source, req.cur)
      BY <1>3, <1>8, <1>14
  <2> QED
      BY <1>8, <1>14, <2>1 DEF v, s
<1> QED
    BY <1>1, <1>12, <1>13, <1>14

\* mp4_muxer_process_frames, when the data is in the cache
LEMMA FrameDataInv ==
    ASSUME MuxInv, frame_data
    PROVE  MuxInv'
<1> DEFINE N == StreamCount
           D == Sources
           clips == job.clips
           types == job.media_types
           v == job.per_stream_writer
           r == frames_source_cache_read(cache, req)
           via == IF v THEN mux.selected ELSE 0
<1>1. /\ pc = "process" /\ Hits(cache, req) # {}
      /\ IF r.done THEN mp4_muxer_start_frame(mux) /\ ContinueIf(MoreFrames(mux))
         ELSE req' = Rest(r) /\ UNCHANGED <<mux, pc, status>>
      /\ UNCHANGED <<job, frames, layout, cache>>
    BY DEF frame_data
<1>2. PICK run, off, n : RunInv(run, off, n)
    BY DEF MuxInv
<1>3. JobOK /\ CacheOK(cache, job.alignment)
    BY DEF MuxInv
<1>4. JobOK' /\ N' = N /\ D' = D /\ job' = job
    BY <1>1, <1>3, SameJob
<1>5. /\ IsRun(run, off, n, clips, types, N, D) /\ InLayout(run, off, n, layout, N)
      /\ Right(v, run, off, n, Flushed) /\ ~ MoreFrames(run[n])
      /\ \E i : AtFrame(mux, req, Len(Flushed), run, off, n, i, clips, types, N, D)
    BY <1>1, <1>2 DEF RunInv
<1>6. PICK i : AtFrame(mux, req, Len(Flushed), run, off, n, i, clips, types, N, D)
    BY <1>5
<1> HIDE DEF N, D, clips, types, r
<1>7. /\ i \in 0 .. n - 1 /\ MuxState(mux, clips, N, D) /\ SamePlace(mux, run[i + 1])
      /\ mux.selected = StreamAt(run, i) /\ req \in Request /\ req.source = SourceAt(run, i)
      /\ req.end = FrameAt(run, i).offset + FrameAt(run, i).size
      /\ FrameAt(run, i).offset <= req.cur /\ req.cur < req.end
    BY <1>6 DEF AtFrame
<1>8. PICK j : IsPiece(r, cache, req, j)
    BY <1>1, <1>3, <1>7, ReadIs DEF r
<1>9. mux.selected \in Nat
    BY <1>7, MuxFields
<1>10. /\ IsLonger(Flushed, Flushed', r.size, via, req.source, req.cur)
       /\ out' \in Seq(Byte) /\ wbuf' \in Piece /\ PendingOK(wbuf', cache)
       /\ job.reuse_buffers => wbuf' = NoBuffer
    BY <1>7, <1>8, <1>9, DataStep DEF r
<1>11. /\ r.size \in Nat \ {0} /\ req.cur + r.size <= req.end /\ r.done \in BOOLEAN
       /\ r.done <=> req.cur + r.size = req.end
    BY <1>8 DEF IsPiece
<1>19. RightUpTo(v, run, off, n, i, Flushed', req.cur + r.size)
  <2>1. r.size \in Nat /\ req.cur + r.size <= req.end
      BY <1>11
  <2>2. /\ IsRun(run, off, n, clips, types, N, D) /\ Right(v, run, off, n, Flushed)
        /\ req \in Request
      BY <1>5, <1>7
  <2> QED
      BY <1>6, <1>10, <2>1, <2>2, MoreBytes, Zenon
<1>12. /\ Right(v, run, off, n, Flushed')
       /\ Len(Flushed') = off[i] + ((req.cur + r.size) - FrameAt(run, i).offset)
    BY <1>19, Zenon DEF RightUpTo
<1>13. IsFrameAt(run, off, i, clips, N)
    BY <1>5, <1>7, RunFrame
<1>14. /\ FrameAt(run, i).offset \in Nat /\ FrameAt(run, i).size \in Nat /\ off[i] \in Nat
       /\ off[i + 1] = off[i] + FrameAt(run, i).size /\ req.cur \in Nat
    BY <1>7, <1>13 DEF IsFrameAt, Request
<1>15. n \in Nat
    BY <1>5 DEF IsRun
<1> HIDE DEF v, via
<1>16. /\ pc' \in {"process", "done"}
       /\ pc' = "process" =>
            \E k : AtFrame(mux', req', Len(Flushed'), run, off, n, k, clips, types, N, D)
  <2>1. CASE r.done
    <3>1. mp4_muxer_start_frame(mux) /\ ContinueIf(MoreFrames(mux))
        BY <1>1, <2>1
    <3>2. pc' \in {"process", "done"} /\ (pc' = "process" => MoreFrames(mux))
        BY <3>1 DEF ContinueIf, Finish
    <3>3. i + 1 \in 0 .. n
        BY <1>7, <1>15
    <3>4. StartFrameTo(mux, run, off, n, i + 1)
      <4>1. /\ IsRun(run, off, n, job.clips, job.media_types, StreamCount, Sources)
            /\ ~ MoreFrames(run[n]) /\ MuxState(mux, job.clips, StreamCount, Sources)
            /\ SamePlace(mux, run[i + 1])
          BY <1>5, <1>7 DEF clips, types, N, D
      <4> QED
          BY <3>1, <3>3, <4>1, StartFrameStep, Zenon
    <3>5. Len(Flushed') = off[i + 1]
      <4> DEFINE o == FrameAt(run, i).offset
                 s == FrameAt(run, i).size
                 e == req.cur + r.size
                 l == off[i]
      <4>1. o \in Nat /\ s \in Nat /\ l \in Nat /\ e = o + s /\ off[i + 1] = l + s
          BY <1>7, <1>11, <1>14, <2>1
      <4>2. Len(Flushed') = l + (e - o)
          BY <1>12
      <4> HIDE DEF o, s, e, l
      <4> QED
          BY <4>1, <4>2
    <3>6. MoreFrames(mux) =>
            \E k : AtFrame(mux', req', off[i + 1], run, off, n, k, clips, types, N, D)
        BY <3>4, Zenon DEF StartFrameTo, clips, types, N, D
    <3> QED
        BY <3>2, <3>5, <3>6
  <2>2. CASE ~ r.done
    <3>1. req' = [req EXCEPT !.cur = @ + r.size] /\ mux' = mux /\ pc' = "process"
        BY <1>1, <2>2 DEF Rest
    <3>2. req.cur + r.size \in Nat
        BY <1>11, <1>14
    <3>3. /\ req' \in Request /\ req'.source = req.source /\ req'.end = req.end
          /\ req'.cur = req.cur + r.size
        BY <1>7, <3>1, <3>2 DEF Request
    <3>4. req.end \in Nat
        BY <1>7 DEF Request
    <3>5. FrameAt(run, i).offset <= req'.cur /\ req'.cur < req'.end
      <4> DEFINE o == FrameAt(run, i).offset
                 c == req.cur
                 e == req.end
                 k == r.size
      <4>1. o \in Nat /\ c \in Nat /\ e \in Nat /\ k \in Nat /\ o <= c /\ c + k <= e /\ c + k # e
          BY <1>7, <1>11, <1>14, <2>2, <3>4
      <4> HIDE DEF o, c, e, k
      <4>2. o <= c + k /\ c + k < e
          BY <4>1
      <4> QED
          BY <3>3, <4>2 DEF o, c, e, k
    <3>6. Len(Flushed') = off[i] + (req'.cur - FrameAt(run, i).offset)
        BY <1>12, <3>3
    <3>7. AtFrame(mux', req', Len(Flushed'), run, off, n, i, clips, types, N, D)
        BY <1>7, <3>1, <3>3, <3>5, <3>6 DEF AtFrame
    <3> QED
        BY <3>1, <3>7
  <2> QED
      BY <1>11, <2>1, <2>2
<1>17. RunInv(run, off, n)'
    BY <1>1, <1>4, <1>5, <1>12, <1>16 DEF RunInv, clips, types, N, D, v
<1>18. cache' = cache /\ CacheOK(cache', job'.alignment)
    BY <1>1, <1>3, <1>4
<1> QED
    BY <1>4, <1>10, <1>16, <1>17, <1>18 DEF MuxInv

\* first_time may change, with the muxer at the same frame.
LEMMA AtFrameFirstTime ==
    ASSUME NEW m, NEW r, NEW len, NEW run, NEW off, NEW n, NEW i, NEW clips, NEW types, NEW N, NEW D,
           AtFrame(m, r, len, run, off, n, i, clips, types, N, D), NEW b,
           NEW t, t = [m EXCEPT !.first_time = b]
    PROVE  AtFrame(t, r, len, run, off, n, i, clips, types, N, D)
<1>1. MuxState(m, clips, N, D) /\ SamePlace(m, run[i + 1])
    BY DEF AtFrame
<1>2. MuxState(t, clips, N, D) /\ SamePlace(t, m)
    BY <1>1, FirstTimeOK
<1>3. SamePlace(t, run[i + 1]) /\ t.selected = m.selected
    BY <1>1, <1>2 DEF SamePlace
<1> QED
    BY <1>2, <1>3 DEF AtFrame

\* mp4_muxer_process_frames, when the data is not in the cache
LEMMA NoDataInv ==
    ASSUME MuxInv, no_data
    PROVE  MuxInv'
<1> DEFINE N == StreamCount
           D == Sources
           clips == job.clips
           types == job.media_types
           v == job.per_stream_writer
           a == job.alignment
           file == File(req.source)
<1>1. /\ pc = "process" /\ cache' = read_cache_miss(cache, req, file)
      /\ out' = Flushed /\ wbuf' = NoBuffer
      /\ mux' = [mux EXCEPT !.first_time = @ /\ NoDataHandled]
      /\ pc' \in {"reading", "done"}
      /\ UNCHANGED <<job, frames, layout, req, processed>>
    BY DEF no_data, Finish, FlushOnAgain
<1>2. PICK run, off, n : RunInv(run, off, n)
    BY DEF MuxInv
<1>3. /\ JobOK /\ CacheOK(cache, a) /\ out \in Seq(Byte) /\ wbuf \in Piece /\ v \in BOOLEAN
      /\ a \in Alignments
    BY DEF MuxInv, JobOK
<1>4. JobOK' /\ N' = N /\ D' = D /\ job' = job
    BY <1>1, <1>3, SameJob
<1>5. /\ IsRun(run, off, n, clips, types, N, D) /\ InLayout(run, off, n, layout, N)
      /\ Right(v, run, off, n, Flushed) /\ ~ MoreFrames(run[n])
      /\ \E i : AtFrame(mux, req, Len(Flushed), run, off, n, i, clips, types, N, D)
    BY <1>1, <1>2 DEF RunInv
<1>6. PICK i : AtFrame(mux, req, Len(Flushed), run, off, n, i, clips, types, N, D)
    BY <1>5
<1>7. i \in 0 .. n - 1 /\ req \in Request /\ req.source = SourceAt(run, i)
    BY <1>6 DEF AtFrame
<1>8. file.last_offset \in Nat /\ file.alignment = a
  <2>1. /\ File(SourceAt(run, i)).last_offset \in Nat
        /\ File(SourceAt(run, i)).alignment = job.alignment
      BY <1>3, <1>5, <1>7, FileOK
  <2> QED
      BY <1>7, <2>1
<1> HIDE DEF file
<1>9. CacheOK(cache', a) /\ Awaits(cache', a, req.source)
    BY <1>1, <1>3, <1>7, <1>8, MissOK
<1>10. out' \in Seq(Byte)
  <2>1. IsLonger(out, Written(v, out, wbuf), wbuf.size, IF v THEN wbuf.stream ELSE 0,
                 wbuf.source, wbuf.from)
      BY <1>3, WrittenIs
  <2>2. Flushed = Written(v, out, wbuf)
      BY FlushedIs
  <2> QED
      BY <1>1, <2>1, <2>2 DEF IsLonger
<1>11. Flushed' = out' /\ out' = Flushed
    BY <1>1, <1>3, <1>4, <1>10, FlushedNothing
<1>12. Right(v, run, off, n, Flushed')
    BY <1>5, <1>11
<1> HIDE DEF N, D, clips, types
<1>13. AtFrame(mux', req', Len(Flushed'), run, off, n, i, clips, types, N, D)
  <2>1. AtFrame(mux', req, Len(Flushed), run, off, n, i, clips, types, N, D)
      BY <1>1, <1>6, AtFrameFirstTime, Zenon
  <2> QED
      BY <1>1, <1>11, <2>1
<1>14. RunInv(run, off, n)'
    BY <1>1, <1>4, <1>5, <1>12, <1>13 DEF RunInv, clips, types, N, D
<1>15. wbuf' \in Piece
    BY <1>1, NoBufferIs
<1>16. Awaits(cache', job'.alignment, req'.source) /\ CacheOK(cache', job'.alignment)
    BY <1>1, <1>4, <1>9
<1> QED
    BY <1>1, <1>4, <1>10, <1>14, <1>15, <1>16 DEF MuxInv

\* The end of a read
LEMMA ReadCompletedInv ==
    ASSUME MuxInv, read_completed
    PROVE  MuxInv'
<1> DEFINE N == StreamCount
           D == Sources
           a == job.alignment
           file == File(cache.buffers[cache.target].source)
           k == BytesRead(cache, file)
<1>1. /\ pc = "reading" /\ pc' \in {"process", "done"}
      /\ cache' = cache \/ cache' = read_cache_read_completed(cache, k)
      /\ UNCHANGED <<job, frames, mux, layout, req, wbuf, out>>
    BY DEF read_completed, Finish
<1>2. PICK run, off, n : RunInv(run, off, n)
    BY DEF MuxInv
<1>3. /\ JobOK /\ CacheOK(cache, a) /\ out \in Seq(Byte) /\ wbuf \in Piece /\ wbuf = NoBuffer
      /\ a \in Alignments /\ Awaits(cache, a, req.source)
    BY <1>1 DEF MuxInv, JobOK
<1>4. JobOK' /\ N' = N /\ D' = D /\ job' = job
    BY <1>1, <1>3, SameJob
<1>5. /\ IsRun(run, off, n, job.clips, job.media_types, N, D) /\ InLayout(run, off, n, layout, N)
      /\ Right(job.per_stream_writer, run, off, n, Flushed) /\ ~ MoreFrames(run[n])
      /\ \E i : AtFrame(mux, req, Len(Flushed), run, off, n, i, job.clips, job.media_types, N, D)
    BY <1>1, <1>2 DEF RunInv
<1>6. PICK i : AtFrame(mux, req, Len(Flushed), run, off, n, i, job.clips, job.media_types, N, D)
    BY <1>5
<1>7. i \in 0 .. n - 1 /\ req.source = SourceAt(run, i)
    BY <1>6 DEF AtFrame
<1>8. file.length \in Nat
  <2>1. File(SourceAt(run, i)).length \in Nat
      BY <1>3, <1>5, <1>7, FileOK
  <2>2. cache.buffers[cache.target].source = req.source
      BY <1>3 DEF Awaits
  <2> QED
      BY <1>7, <2>1, <2>2
<1> HIDE DEF file
<1>9. k \in Nat
  <2> DEFINE b == cache.buffers[cache.target]
             l == file.length
  <2>1. cache \in Cache /\ cache.target \in Slots
      BY <1>3 DEF CacheOK, Cache
  <2>2. b.start \in Nat /\ b.size \in Nat
      BY <2>1, BufferTypes
  <2>3. k = IF l - b.start <= 0 THEN 0 ELSE IF l - b.start < b.size THEN l - b.start ELSE b.size
      BY DEF BytesRead
  <2> HIDE DEF k, b
  <2> QED
      BY <1>8, <2>2, <2>3
<1> HIDE DEF k
<1>10. CacheOK(cache', a)
    BY <1>1, <1>3, <1>9, CompletedOK
<1>11. Flushed' = Flushed
  <2>1. Flushed' = Written(job.per_stream_writer, out', wbuf')
      BY <1>4, FlushedNext
  <2>2. Flushed = Written(job.per_stream_writer, out, wbuf)
      BY FlushedIs
  <2> QED
      BY <1>1, <2>1, <2>2
<1> HIDE DEF N, D
<1>12. AtFrame(mux', req', Len(Flushed'), run, off, n, i, job.clips, job.media_types, N, D)
    BY <1>1, <1>6, <1>11
<1>13. RunInv(run, off, n)'
    BY <1>1, <1>4, <1>5, <1>11, <1>12 DEF RunInv, N, D
<1>14. PendingOK(wbuf', cache') /\ wbuf' = NoBuffer /\ wbuf' \in Piece /\ out' \in Seq(Byte)
    BY <1>1, <1>3, NothingPending
<1> QED
    BY <1>1, <1>4, <1>10, <1>13, <1>14 DEF MuxInv

\* A step that changes nothing
LEMMA SameMuxInv ==
    ASSUME MuxInv, UNCHANGED vars
    PROVE  MuxInv'
<1>1. UNCHANGED <<job, frames, mux, layout, cache, req, wbuf, processed, out, pc, status>>
    BY DEF vars
<1>2. JobOK
    BY DEF MuxInv
<1>3. JobOK' /\ StreamCount' = StreamCount /\ Sources' = Sources /\ job' = job
    BY <1>1, <1>2, SameJob
<1>4. Flushed' = Flushed
  <2>1. Flushed' = Written(job.per_stream_writer, out', wbuf')
      BY <1>3, FlushedNext
  <2>2. Flushed = Written(job.per_stream_writer, out, wbuf)
      BY FlushedIs
  <2> QED
      BY <1>1, <2>1, <2>2
<1>5. PICK run, off, n : RunInv(run, off, n)
    BY DEF MuxInv
<1>6. RunInv(run, off, n)'
    BY <1>1, <1>3, <1>4, <1>5, Zenon DEF RunInv
<1> QED
    BY <1>1, <1>3, <1>6 DEF MuxInv

\* Every step keeps the invariant.
LEMMA NextMuxInv ==
    MuxInv /\ [Next]_vars => MuxInv'
<1> SUFFICES ASSUME MuxInv, [Next]_vars PROVE MuxInv'
    OBVIOUS
<1>1. CASE assign_offset
    BY <1>1, AssignInv
<1>2. CASE init_fragment
    BY <1>2, InitFragmentInv
<1>3. CASE frame_data
    BY <1>3, FrameDataInv
<1>4. CASE no_data
    BY <1>4, NoDataInv
<1>5. CASE read_completed
    BY <1>5, ReadCompletedInv
<1>6. CASE finished
    BY <1>6, SameMuxInv DEF finished
<1>7. CASE UNCHANGED vars
    BY <1>7, SameMuxInv
<1> QED
    BY <1>1, <1>2, <1>3, <1>4, <1>5, <1>6, <1>7, Zenon DEF Next

\* A read is useful by the choice of its range.
LEMMA MuxInvReads ==
    MuxInv => ReadsUseful
<1> SUFFICES ASSUME MuxInv, pc = "reading"
             PROVE  LET b == cache.buffers[cache.target]
                        o == cache.buffers[1 - cache.target]
                    IN /\ b.size \in 1 .. BufferSize
                       /\ o.source = b.source /\ o.end > o.start =>
                            b.start + b.size <= o.start \/ AlignDown(o.end, job.alignment) <= b.start
    BY DEF ReadsUseful
<1>1. Awaits(cache, job.alignment, req.source)
    BY DEF MuxInv
<1> QED
    BY <1>1 DEF Awaits, RangeOK

\* A frame that has its place in the header is one of the run.
LEMMA MuxInvView ==
    ASSUME MuxInv, NEW s \in Streams, NEW k \in DOMAIN layout.offsets[s],
           NEW x \in 0 .. frames[s][k].frame.size - 1, layout.offsets[s][k] + x < Len(out)
    PROVE  out[layout.offsets[s][k] + x + 1] =
             [via |-> Via(s), source |-> frames[s][k].source,
              offset |-> frames[s][k].frame.offset + x]
<1> DEFINE N == StreamCount
           D == Sources
           clips == job.clips
           types == job.media_types
           v == job.per_stream_writer
<1>1. /\ JobOK /\ out \in Seq(Byte) /\ wbuf \in Piece /\ v \in BOOLEAN
      /\ Streams = 1 .. N /\ frames = [t \in 1 .. N |-> FramesOf(clips, t)]
    BY DEF MuxInv, JobOK
<1>2. PICK run, off, n : RunInv(run, off, n)
    BY DEF MuxInv
<1>3. /\ IsRun(run, off, n, clips, types, N, D) /\ InLayout(run, off, n, layout, N)
      /\ Right(v, run, off, n, Flushed)
    BY <1>2 DEF RunInv
<1>4. IsLonger(out, Flushed, wbuf.size, IF v THEN wbuf.stream ELSE 0, wbuf.source, wbuf.from)
    BY <1>1, FlushedIs, WrittenIs
<1>5. /\ Len(out) \in Nat /\ Len(Flushed) = Len(out) + wbuf.size /\ wbuf.size \in Nat
      /\ \A h \in 1 .. Len(out) : Flushed[h] = out[h]
    BY <1>1, <1>4 DEF IsLonger, Piece
<1>6. Right(v, run, off, n, out)
  <2>1. Len(Flushed) \in Nat /\ Len(out) <= Len(Flushed)
      BY <1>5
  <2>2. \A h \in 1 .. Len(out) : out[h] = Flushed[h]
      BY <1>5
  <2> HIDE DEF N, D, clips, types
  <2> QED
      BY <1>3, <1>5, <2>1, <2>2, RightPrefix
<1> HIDE DEF N, D, clips, types, v
<1>7. s \in 1 .. N /\ layout.offsets[s] \in Seq(Nat)
    BY <1>1, <1>3 DEF InLayout
<1>8. k \in 1 .. Len(layout.offsets[s])
    BY <1>7
<1>9. PICK i \in 0 .. n - 1 : /\ StreamAt(run, i) = s /\ k = Taken(run[i], s) + 1
                              /\ layout.offsets[s][k] = off[i]
    BY <1>3, <1>7, <1>8 DEF InLayout
<1>10. IsFrameAt(run, off, i, clips, N)
    BY <1>3, RunFrame
<1>11. FramesOf(clips, s)[k] = [source |-> SourceAt(run, i), frame |-> FrameAt(run, i)]
    BY <1>9, <1>10 DEF IsFrameAt
<1>12. frames[s][k].source = SourceAt(run, i) /\ frames[s][k].frame = FrameAt(run, i)
    BY <1>1, <1>7, <1>11
<1>13. x \in 0 .. FrameAt(run, i).size - 1 /\ off[i] + x < Len(out)
    BY <1>9, <1>12
<1>14. out[off[i] + x + 1] = ByteAt(v, run, i, x)
    BY <1>6, <1>13, Zenon DEF Right
<1> QED
    BY <1>9, <1>12, <1>14 DEF ByteAt, Via, v

\* Both passes find the bytes where the header puts them.
LEMMA MuxInvPlayer ==
    MuxInv => PlayerView
<1> SUFFICES ASSUME MuxInv PROVE PlayerView
    OBVIOUS
<1>1. ReadsUseful
    BY MuxInvReads
<1>2. \A s \in Streams : \A k \in DOMAIN layout.offsets[s] :
        \A x \in 0 .. frames[s][k].frame.size - 1 :
          layout.offsets[s][k] + x < Len(out) =>
            out[layout.offsets[s][k] + x + 1] =
              [via |-> Via(s), source |-> frames[s][k].source,
               offset |-> frames[s][k].frame.offset + x]
    BY MuxInvView, Zenon
<1> QED
    BY <1>1, <1>2, Zenon DEF PlayerView

\* A player that follows the header finds the bytes of every frame, whatever the segment,
\* the sizes of the buffers and the order in which the reads suspend the muxer
\* (mp4_calculate_output_offsets, mp4_muxer_process_frames, read_cache_get_from_cache).
THEOREM MuxerPlays == Spec => []PlayerView
<1>1. Init => MuxInv
    BY InitMuxInv
<1>2. MuxInv /\ [Next]_vars => MuxInv'
    BY NextMuxInv
<1>3. MuxInv => PlayerView
    BY MuxInvPlayer
<1> QED
    BY <1>1, <1>2, <1>3, PTL DEF Spec

-----------------------------------------------------------------------------
(* The truns of the header *)

\* Where the truns of N streams start
StartsOf(N, f, g) == UNION {{t} \X TrunStarts(f[t], g[t]) : t \in 1 .. N}

\* A frame starts a trun if it is the first one or does not follow the one before.
StartsTrun(f, g, k) == k = 1 \/ g[k] # g[k - 1] + f[k - 1].frame.size

\* Which places those are
LEMMA StartsOfAre ==
    ASSUME NEW N \in Nat, NEW f, NEW g, NEW t, NEW k
    PROVE  <<t, k>> \in StartsOf(N, f, g) <=>
             t \in 1 .. N /\ k \in DOMAIN g[t] /\ StartsTrun(f[t], g[t], k)
  BY SMT DEF StartsOf, TrunStarts, StartsTrun

\* Only pairs are among them.
LEMMA StartsArePairs ==
    ASSUME NEW N, NEW f, NEW g, NEW e \in StartsOf(N, f, g)
    PROVE  \E t, k : e = <<t, k>>
  BY SMT DEF StartsOf

\* The set of starts with one place more, or the same
WithStart(old, new, e, b) == e \notin old /\ new = IF b THEN old \cup {e} ELSE old

\* One more frame of a stream
LEMMA StartsExtended ==
    ASSUME NEW N \in Nat, NEW f, NEW g \in [1 .. N -> Seq(Nat)], NEW s \in 1 .. N, NEW x \in Nat,
           NEW h, h = [g EXCEPT ![s] = Append(@, x)], NEW k, k = Len(g[s]) + 1
    PROVE  WithStart(StartsOf(N, f, g), StartsOf(N, f, h), <<s, k>>, StartsTrun(f[s], h[s], k))
<1> DEFINE A == StartsOf(N, f, g)
           B == StartsOf(N, f, h)
           b == StartsTrun(f[s], h[s], k)
<1>1. g[s] \in Seq(Nat) /\ Len(g[s]) \in Nat /\ k \in Nat /\ k - 1 = Len(g[s])
    OBVIOUS
<1>2. h[s] = Append(g[s], x) /\ \A t \in 1 .. N : t # s => h[t] = g[t]
    OBVIOUS
<1>3. /\ DOMAIN g[s] = 1 .. k - 1 /\ DOMAIN h[s] = 1 .. k
      /\ \A j \in 1 .. k - 1 : h[s][j] = g[s][j]
    BY <1>1, <1>2
<1>4. \A j \in 1 .. k - 1 : StartsTrun(f[s], h[s], j) <=> StartsTrun(f[s], g[s], j)
  <2> TAKE j \in 1 .. k - 1
  <2>1. h[s][j] = g[s][j]
      BY <1>3
  <2>2. j = 1 \/ h[s][j - 1] = g[s][j - 1]
    <3>1. j = 1 \/ j - 1 \in 1 .. k - 1
        BY <1>1
    <3> QED
        BY <1>3, <3>1
  <2> QED
      BY <2>1, <2>2 DEF StartsTrun
<1>5. /\ \A t, j : <<t, j>> \in A <=> t \in 1 .. N /\ j \in DOMAIN g[t] /\ StartsTrun(f[t], g[t], j)
      /\ \A t, j : <<t, j>> \in B <=> t \in 1 .. N /\ j \in DOMAIN h[t] /\ StartsTrun(f[t], h[t], j)
  <2>1. ASSUME NEW z, NEW t, NEW j
        PROVE  <<t, j>> \in StartsOf(N, f, z) <=>
                 t \in 1 .. N /\ j \in DOMAIN z[t] /\ StartsTrun(f[t], z[t], j)
      BY StartsOfAre
  <2> QED
      BY <2>1, Zenon
<1>6. \A e : e \in A \/ e \in B => \E t, j : e = <<t, j>>
    BY StartsArePairs
<1> HIDE DEF A, B, b
<1>7. <<s, k>> \notin A
  <2>1. k \notin DOMAIN g[s]
      BY <1>1, <1>3
  <2> QED
      BY <1>5, <2>1, Zenon
<1>8. <<s, k>> \in B <=> b
  <2>1. k \in DOMAIN h[s]
      BY <1>1, <1>3
  <2> QED
      BY <1>5, <2>1, Zenon DEF b
<1>9. \A t, j : <<t, j>> # <<s, k>> => (<<t, j>> \in B <=> <<t, j>> \in A)
  <2> SUFFICES ASSUME NEW t, NEW j, <<t, j>> # <<s, k>>
               PROVE  <<t, j>> \in B <=> <<t, j>> \in A
      BY Zenon
  <2>1. CASE t # s
    <3>1. t \in 1 .. N => h[t] = g[t]
        BY <1>2, <2>1, Zenon
    <3> QED
        BY <1>5, <3>1, Zenon
  <2>2. CASE t = s
    <3>1. j # k
        BY <2>2, Zenon
    <3>2. j \in DOMAIN h[s] <=> j \in DOMAIN g[s]
        BY <1>1, <1>3, <3>1
    <3>3. j \in DOMAIN g[s] => (StartsTrun(f[s], h[s], j) <=> StartsTrun(f[s], g[s], j))
        BY <1>3, <1>4, Zenon
    <3> QED
        BY <1>5, <2>2, <3>2, <3>3, Zenon
  <2> QED
      BY <2>1, <2>2, Zenon
<1>10. B = IF b THEN A \cup {<<s, k>>} ELSE A
  <2> SUFFICES ASSUME NEW e
               PROVE  e \in B <=> e \in (IF b THEN A \cup {<<s, k>>} ELSE A)
      BY Zenon
  <2>1. ASSUME NEW t, NEW j, e = <<t, j>>
        PROVE  e = <<s, k>> \/ (e \in B <=> e \in A)
      BY <1>9, <2>1
  <2>2. e = <<s, k>> \/ (e \in B <=> e \in A)
      BY <1>6, <2>1
  <2> QED
      BY <1>7, <1>8, <2>2, Zenon
<1> QED
    BY <1>7, <1>10, Zenon DEF WithStart, A, B, b

\* The number of truns, and the size of the last frame of every stream
TrunsCounted(N, f, lay) ==
    /\ lay.last_size \in [1 .. N -> Nat]
    /\ IsFiniteSet(StartsOf(N, f, lay.offsets))
    /\ lay.truns = Cardinality(StartsOf(N, f, lay.offsets))
    /\ \A s \in 1 .. N : Len(lay.offsets[s]) # 0 =>
         lay.last_size[s] = f[s][Len(lay.offsets[s])].frame.size

\* No frame has a place yet.
LEMMA NoTruns ==
    ASSUME NEW N \in Nat, NEW f, NEW lay, lay.offsets = [s \in 1 .. N |-> <<>>],
           lay.last_size = [s \in 1 .. N |-> 0], lay.truns = 0
    PROVE  TrunsCounted(N, f, lay)
<1>1. \A s \in 1 .. N : lay.offsets[s] = <<>>
    OBVIOUS
<1>2. StartsOf(N, f, lay.offsets) = {}
  <2>1. \A t, k : <<t, k>> \notin StartsOf(N, f, lay.offsets)
    <3> SUFFICES ASSUME NEW t, NEW k, <<t, k>> \in StartsOf(N, f, lay.offsets) PROVE FALSE
        BY Zenon
    <3>1. t \in 1 .. N /\ k \in DOMAIN lay.offsets[t]
        BY StartsOfAre, Zenon
    <3>2. lay.offsets[t] = <<>>
        BY <1>1, <3>1, Zenon
    <3> QED
        BY <3>1, <3>2
  <2> QED
      BY <2>1, StartsArePairs
<1>3. IsFiniteSet({}) /\ Cardinality({}) = 0
    BY FS_EmptySet
<1>4. \A s \in 1 .. N : Len(lay.offsets[s]) = 0
    BY <1>1
<1>5. lay.last_size \in [1 .. N -> Nat]
    OBVIOUS
<1> QED
    BY <1>2, <1>3, <1>4, <1>5, Zenon DEF TrunsCounted

\* The frame of the given size that stream s goes on with takes its place, in a trun of its
\* own if it has to.
PlaceTaken(N, f, lay, s, size, switch, l) ==
    /\ N \in Nat /\ s \in 1 .. N /\ size \in Nat /\ switch \in BOOLEAN
    /\ lay.offsets \in [1 .. N -> Seq(Nat)] /\ lay.size \in Nat
    /\ f[s][Len(lay.offsets[s]) + 1].frame.size = size
    /\ switch <=> \/ lay.offsets[s] = <<>>
                  \/ lay.size # lay.offsets[s][Len(lay.offsets[s])] + lay.last_size[s]
    /\ l.offsets = [lay.offsets EXCEPT ![s] = Append(@, lay.size)]
    /\ l.last_size = [lay.last_size EXCEPT ![s] = size]
    /\ l.truns = lay.truns + (IF switch THEN 1 ELSE 0)

\* mp4_calculate_output_offsets counts the truns that the writers will write.
LEMMA TrunsStep ==
    ASSUME NEW N, NEW f, NEW lay, TrunsCounted(N, f, lay), NEW s, NEW size, NEW switch, NEW l,
           PlaceTaken(N, f, lay, s, size, switch, l)
    PROVE  TrunsCounted(N, f, l)
<1>0. /\ N \in Nat /\ s \in 1 .. N /\ size \in Nat /\ switch \in BOOLEAN
      /\ lay.offsets \in [1 .. N -> Seq(Nat)] /\ lay.size \in Nat
      /\ f[s][Len(lay.offsets[s]) + 1].frame.size = size
      /\ switch <=> \/ lay.offsets[s] = <<>>
                    \/ lay.size # lay.offsets[s][Len(lay.offsets[s])] + lay.last_size[s]
      /\ l.offsets = [lay.offsets EXCEPT ![s] = Append(@, lay.size)]
      /\ l.last_size = [lay.last_size EXCEPT ![s] = size]
      /\ l.truns = lay.truns + (IF switch THEN 1 ELSE 0)
    BY Zenon DEF PlaceTaken
<1> USE <1>0
<1> DEFINE g == lay.offsets
           h == l.offsets
           k == Len(g[s]) + 1
           A == StartsOf(N, f, g)
           B == StartsOf(N, f, h)
<1>1. /\ lay.last_size \in [1 .. N -> Nat] /\ IsFiniteSet(A) /\ lay.truns = Cardinality(A)
      /\ \A t \in 1 .. N : Len(g[t]) # 0 => lay.last_size[t] = f[t][Len(g[t])].frame.size
    BY DEF TrunsCounted
<1>2. /\ g \in [1 .. N -> Seq(Nat)] /\ h = [g EXCEPT ![s] = Append(@, lay.size)]
      /\ g[s] \in Seq(Nat) /\ Len(g[s]) \in Nat
    OBVIOUS
<1> HIDE DEF g, h
<1>3. /\ h[s] = Append(g[s], lay.size) /\ Len(h[s]) = k /\ h[s][k] = lay.size
      /\ k # 1 => h[s][k - 1] = g[s][k - 1]
      /\ \A t \in 1 .. N : t # s => h[t] = g[t]
  <2>1. h[s] = Append(g[s], lay.size) /\ \A t \in 1 .. N : t # s => h[t] = g[t]
      BY <1>2
  <2> QED
      BY <1>2, <2>1
<1>4. switch <=> StartsTrun(f[s], h[s], k)
  <2>1. k = 1 <=> g[s] = <<>>
      BY <1>2
  <2>2. k - 1 = Len(g[s]) /\ k \in Nat
      BY <1>2
  <2>3. k # 1 => lay.last_size[s] = f[s][k - 1].frame.size
      BY <1>1, <2>2
  <2>4. switch <=> g[s] = <<>> \/ lay.size # g[s][Len(g[s])] + lay.last_size[s]
      BY DEF g
  <2> HIDE DEF k
  <2>5. CASE k = 1
      BY <2>1, <2>4, <2>5 DEF StartsTrun
  <2>6. CASE k # 1
    <3>1. g[s][Len(g[s])] = h[s][k - 1] /\ lay.size = h[s][k]
        BY <1>3, <2>2, <2>6 DEF k
    <3>2. switch <=> h[s][k] # h[s][k - 1] + f[s][k - 1].frame.size
        BY <2>1, <2>3, <2>4, <2>6, <3>1
    <3> QED
        BY <2>6, <3>2 DEF StartsTrun
  <2> QED
      BY <2>5, <2>6
<1>5. WithStart(A, B, <<s, k>>, StartsTrun(f[s], h[s], k))
    BY <1>2, StartsExtended
<1>6. <<s, k>> \notin A /\ B = IF switch THEN A \cup {<<s, k>>} ELSE A
    BY <1>4, <1>5, Zenon DEF WithStart
<1>7. IsFiniteSet(A \cup {<<s, k>>}) /\ Cardinality(A \cup {<<s, k>>}) = Cardinality(A) + 1
    BY <1>1, <1>6, FS_AddElement
<1>8. Cardinality(A) \in Nat
    BY <1>1, FS_CardinalityType
<1> HIDE DEF A, B
<1>9. IsFiniteSet(B) /\ l.truns = Cardinality(B)
  <2>1. CASE switch
    <3>1. B = A \cup {<<s, k>>}
        BY <1>6, <2>1, Zenon
    <3>2. IsFiniteSet(B) /\ Cardinality(B) = Cardinality(A) + 1
        BY <1>7, <3>1, Zenon
    <3>3. l.truns = lay.truns + 1
        BY <2>1
    <3> QED
        BY <1>1, <3>2, <3>3, Zenon
  <2>2. CASE ~ switch
    <3>1. B = A
        BY <1>6, <2>2, Zenon
    <3>2. l.truns = lay.truns + 0
        BY <2>2
    <3> QED
        BY <1>1, <1>8, <3>1, <3>2
  <2> QED
      BY <2>1, <2>2
<1>10. l.last_size \in [1 .. N -> Nat]
    BY <1>1
<1>11. ASSUME NEW t \in 1 .. N, Len(h[t]) # 0
       PROVE  l.last_size[t] = f[t][Len(h[t])].frame.size
  <2>1. CASE t = s
      BY <1>1, <1>3, <2>1 DEF g
  <2>2. CASE t # s
      BY <1>1, <1>3, <1>11, <2>2
  <2> QED
      BY <2>1, <2>2
<1> QED
    BY <1>9, <1>10, <1>11 DEF TrunsCounted, B, h

-----------------------------------------------------------------------------
(* What the header announced *)

\* The muxer has not ended.
NotEnded == status \notin {"OK", "BAD_DATA", "UNEXPECTED"}

\* The truns are counted, no more is written than was announced, and the muxer ends with
\* all of it or at the end of the range.
SentInv ==
    /\ TrunsCounted(StreamCount, frames, layout)
    /\ pc # "done" => NotEnded
    /\ AnnouncedIsSent

\* The writers write as many truns as were counted.
LEMMA TrunsAgree ==
    ASSUME JobOK, TrunsCounted(StreamCount, frames, layout)
    PROVE  SizesAgree
<1>1. trun_atoms = StartsOf(StreamCount, frames, layout.offsets)
    BY DEF trun_atoms, StartsOf, JobOK
<1> QED
    BY <1>1, Zenon DEF SizesAgree, TrunsCounted

\* Nothing was announced yet.
LEMMA InitSentInv ==
    Init => SentInv
<1> SUFFICES ASSUME Init PROVE SentInv
    OBVIOUS
<1>1. JobOK
    BY InitMuxInv DEF MuxInv
<1>2. /\ layout.offsets = [s \in Streams |-> <<>>] /\ layout.last_size = [s \in Streams |-> 0]
      /\ layout.size = 0 /\ layout.truns = 0 /\ out = <<>> /\ pc = "init"
  <2>1. /\ layout = [offsets |-> [s \in Streams |-> <<>>], last_size |-> [s \in Streams |-> 0],
                     size |-> 0, truns |-> 0]
        /\ out = <<>> /\ pc = "init"
      BY Zenon DEF Init
  <2> QED
      BY <2>1
<1>6. NotEnded
    BY Zenon DEF Init, NotEnded
<1>3. Streams = 1 .. StreamCount /\ StreamCount \in Nat
    BY <1>1 DEF JobOK, SetOK
<1>4. TrunsCounted(StreamCount, frames, layout)
  <2> DEFINE N == StreamCount
  <2>1. /\ layout.offsets = [s \in 1 .. N |-> <<>>] /\ layout.last_size = [s \in 1 .. N |-> 0]
        /\ N \in Nat
      BY <1>2, <1>3, Zenon
  <2> HIDE DEF N
  <2>2. TrunsCounted(N, frames, layout)
      BY <1>2, <2>1, NoTruns, Zenon
  <2> QED
      BY <2>2 DEF N
<1>5. AnnouncedIsSent
    BY <1>2, <1>6 DEF AnnouncedIsSent, NotEnded
<1> QED
    BY <1>2, <1>4, <1>5, <1>6 DEF SentInv

\* A round of mp4_calculate_output_offsets
LEMMA AssignSent ==
    ASSUME MuxInv, SentInv, assign_offset
    PROVE  SentInv'
<1> DEFINE N == StreamCount
           clips == job.clips
           m == mp4_muxer_choose_stream(mux)
           s == m.selected
           size == CurFrame(m, s).size
           given == layout.offsets[s]
           switch == given = <<>> \/ layout.size # given[Len(given)] + layout.last_size[s]
<1>1. /\ pc = "init" /\ MoreFrames(mux)
      /\ layout'.offsets = [layout.offsets EXCEPT ![s] = Append(@, layout.size)]
      /\ layout'.last_size = [layout.last_size EXCEPT ![s] = size]
      /\ layout'.size = layout.size + size
      /\ layout'.truns = layout.truns + (IF switch THEN 1 ELSE 0)
      /\ UNCHANGED <<job, frames, cache, req, wbuf, processed, out, pc, status>>
    BY DEF assign_offset
<1>2. PICK run, off, n : RunInv(run, off, n)
    BY DEF MuxInv
<1>3. JobOK
    BY DEF MuxInv
<1>4. N' = N /\ N \in Nat /\ frames = [t \in 1 .. N |-> FramesOf(clips, t)]
    BY <1>1, <1>3, SameJob DEF JobOK, SetOK
<1>5. /\ IsRun(run, off, n, clips, job.media_types, N, Sources) /\ InLayout(run, off, n, layout, N)
      /\ mux = run[n] /\ out = <<>>
    BY <1>1, <1>2 DEF RunInv
<1>6. n \in Nat /\ n \in 0 .. n /\ layout.size = off[n] /\ layout.offsets \in [1 .. N -> Seq(Nat)]
  <2>1. n \in Nat
      BY <1>5 DEF IsRun
  <2> QED
      BY <1>5, <2>1 DEF InLayout
<1>7. off[n] \in Nat /\ NextOf(run[n], clips, N, Sources, job.media_types)
  <2>1. /\ MuxState(run[n], clips, N, Sources) /\ OfTypes(run[n], N, job.media_types)
        /\ off[n] \in Nat
      BY <1>5, <1>6 DEF IsRun
  <2> QED
      BY <1>1, <1>5, <2>1, NextOfFacts
<1>8. /\ s \in 1 .. N /\ size \in Nat
      /\ FramesOf(clips, s)[Taken(run[n], s) + 1].frame = CurFrame(m, s)
  <2>1. m = mp4_muxer_choose_stream(run[n])
      BY <1>5
  <2> HIDE DEF m
  <2>2. /\ s \in 1 .. N /\ CurFrame(m, s) \in Frame
        /\ FramesOf(clips, s)[Taken(run[n], s) + 1] =
             [source |-> PartOf(m, s).source, frame |-> CurFrame(m, s)]
      BY <1>7, <2>1, Zenon DEF NextOf
  <2>3. size \in Nat
      BY <2>2 DEF Frame
  <2> QED
      BY <2>2, <2>3
<1>9. Len(layout.offsets[s]) = Taken(run[n], s)
    BY <1>5, <1>8 DEF InLayout
<1>10. frames[s][Len(layout.offsets[s]) + 1].frame.size = size
    BY <1>4, <1>8, <1>9
<1> HIDE DEF N, clips, m, s, size
<1>11. TrunsCounted(N, frames, layout')
  <2> DEFINE l == layout'
             b == switch
  <2>1. /\ l.offsets = [layout.offsets EXCEPT ![s] = Append(@, layout.size)]
        /\ l.last_size = [layout.last_size EXCEPT ![s] = size]
        /\ l.truns = layout.truns + (IF b THEN 1 ELSE 0)
        /\ b \in BOOLEAN
        /\ b <=> \/ layout.offsets[s] = <<>>
                 \/ layout.size # layout.offsets[s][Len(layout.offsets[s])] + layout.last_size[s]
      BY <1>1
  <2>2. TrunsCounted(N, frames, layout) /\ layout.size \in Nat
      BY <1>6, <1>7 DEF SentInv, N
  <2> HIDE DEF l, b
  <2>3. TrunsCounted(N, frames, l)
    <3>1. PlaceTaken(N, frames, layout, s, size, b, l)
        BY <1>4, <1>6, <1>8, <1>10, <2>1, <2>2, Zenon DEF PlaceTaken
    <3> QED
        BY <2>2, <3>1, TrunsStep, Zenon
  <2> QED
      BY <2>3 DEF l
<1>12. TrunsCounted(N, frames, layout)'
    BY <1>1, <1>4, <1>11
<1>13. pc' # "done" /\ NotEnded' /\ Len(out') = 0 /\ layout'.size \in Nat
    BY <1>1, <1>5, <1>6, <1>7, <1>8 DEF SentInv, NotEnded
<1>14. AnnouncedIsSent'
    BY <1>13 DEF AnnouncedIsSent, NotEnded
<1> QED
    BY <1>12, <1>13, <1>14 DEF SentInv, N

\* The end of a step that announces nothing
LEMMA KeepsSent ==
    ASSUME JobOK, SentInv, UNCHANGED <<job, frames, layout>>, pc' # "done" => NotEnded',
           AnnouncedIsSent'
    PROVE  SentInv'
<1>1. StreamCount' = StreamCount
    BY SameJob
<1>2. TrunsCounted(StreamCount, frames, layout)'
    BY <1>1 DEF SentInv
<1> QED
    BY <1>2, Zenon DEF SentInv

\* No more was written than with what waits.
LEMMA ShortOfFlushed ==
    ASSUME JobOK, job' = job, out' \in Seq(Byte), wbuf' \in Piece
    PROVE  Len(out') \in Nat /\ Len(Flushed') \in Nat /\ Len(out') <= Len(Flushed')
<1> DEFINE v == job.per_stream_writer
           w == wbuf'
           o == out'
<1>1. v \in BOOLEAN /\ o \in Seq(Byte) /\ w \in Piece
    BY DEF JobOK
<1>2. Flushed' = Written(v, o, w)
    BY FlushedNext
<1> HIDE DEF v, w, o
<1>3. IsLonger(o, Written(v, o, w), w.size, IF v THEN w.stream ELSE 0, w.source, w.from)
    BY <1>1, WrittenIs
<1>4. Len(o) \in Nat /\ Len(Written(v, o, w)) = Len(o) + w.size
    BY <1>3 DEF IsLonger
<1>5. w.size \in Nat
    BY <1>1 DEF Piece
<1> QED
    BY <1>2, <1>4, <1>5 DEF o

\* mp4_muxer_init_fragment
LEMMA InitFragmentSent ==
    ASSUME MuxInv, SentInv, init_fragment
    PROVE  SentInv'
<1> DEFINE N == StreamCount
           clips == job.clips
           types == job.media_types
           start == ResetMuxer(mux)
<1>1. /\ pc = "init" /\ UNCHANGED <<job, frames, layout, out>>
      /\ SizesAgree => ContinueIf(MoreFrames(start) /\ ~ AtLimit(<<>>))
    BY DEF init_fragment
<1>2. PICK run, off, n : RunInv(run, off, n)
    BY DEF MuxInv
<1>3. JobOK
    BY DEF MuxInv
<1>4. /\ IsRun(run, off, n, clips, types, N, Sources) /\ InLayout(run, off, n, layout, N)
      /\ mux = run[n] /\ out = <<>>
    BY <1>1, <1>2 DEF RunInv
<1>5. ContinueIf(MoreFrames(start) /\ ~ AtLimit(<<>>))
    BY <1>1, <1>3, TrunsAgree DEF SentInv
<1> HIDE DEF N, clips, types, start
<1>6. /\ n \in Nat /\ SetOK(clips, types, N, Sources) /\ MuxState(mux, clips, N, Sources)
      /\ OfTypes(mux, N, types) /\ run[0] = mp4_muxer_init_state(clips, types) /\ off[0] = 0
      /\ off[n] \in Nat /\ layout.size = off[n]
  <2>1. n \in Nat /\ n \in 0 .. n /\ 0 \in 0 .. n
      BY <1>4 DEF IsRun
  <2> QED
      BY <1>4, <2>1 DEF IsRun, InLayout
<1>7. start = run[0]
    BY <1>6, ResetIs DEF start
<1>8. NotEnded
    BY <1>1 DEF SentInv
<1>9. Len(out') = 0 /\ layout'.size \in Nat
    BY <1>1, <1>4, <1>6
<1>10. CASE pc' = "process" /\ status' = status
  <2>1. NotEnded'
      BY <1>8, <1>10 DEF NotEnded
  <2>2. AnnouncedIsSent'
      BY <1>9, <2>1 DEF AnnouncedIsSent, NotEnded
  <2> QED
      BY <1>1, <1>3, <2>1, <2>2, KeepsSent
<1>11. CASE pc' = "done" /\ status' = "OK" /\ ~ (MoreFrames(start) /\ ~ AtLimit(<<>>))
  <2>1. AnnouncedIsSent'
    <3>1. CASE ~ MoreFrames(run[0])
      <4>1. n = 0
        <5>1. ~ (0 \in 0 .. n - 1)
            BY <1>4, <3>1, Zenon DEF IsRun
        <5> QED
            BY <1>6, <5>1
      <4>2. Len(out') = layout'.size
          BY <1>1, <1>6, <1>9, <4>1
      <4>3. Len(out') <= layout'.size
          BY <1>9, <4>2
      <4> QED
          BY <1>11, <4>2, <4>3 DEF AnnouncedIsSent
    <3>2. CASE AtLimit(<<>>)
      <4>1. AtLimit(out)'
          BY <1>1, <1>4, <3>2 DEF AtLimit
      <4> QED
          BY <1>9, <1>11, <4>1 DEF AnnouncedIsSent
    <3> QED
        BY <1>7, <1>11, <3>1, <3>2, Zenon
  <2> QED
      BY <1>1, <1>3, <1>11, <2>1, KeepsSent
<1> QED
    BY <1>5, <1>10, <1>11, Zenon DEF ContinueIf, Finish

\* A stream with a frame left is found by the search.
LEMMA NoFrameLeft ==
    ASSUME NEW m, NEW clips, NEW N, NEW D, MuxState(m, clips, N, D), ~ MoreFrames(m),
           NEW s \in 1 .. N
    PROVE  ~ HasFrame(m, s)
<1> SUFFICES ASSUME HasFrame(m, s) PROVE FALSE
    OBVIOUS
<1> DEFINE p == NextParts(m)
<1>1. /\ m.clip \in 1 .. Len(clips) /\ m.clip \in Nat /\ Len(clips) \in Nat /\ m.media_set = clips
      /\ m.streams \in [1 .. N -> Cursor]
    BY MuxFields, Zenon
<1>2. /\ MuxState(p, clips, N, D) /\ p.clip = m.clip
      /\ p.streams = [u \in 1 .. N |-> IF u \in AtEnd(m) THEN NextPart(m.streams[u]) ELSE m.streams[u]]
    BY NextPartsOK, NextPartsIs, Zenon
<1>3. s \notin AtEnd(m)
    BY Zenon DEF AtEnd
<1> HIDE DEF p
<1>4. p.streams[s] = m.streams[s]
    BY <1>2, <1>3, Zenon
<1>5. p.media_set = clips /\ DOMAIN p.streams = 1 .. N
    BY <1>2, MuxFields, Zenon
<1>6. HasFrame(p, s)
    BY <1>1, <1>2, <1>4, <1>5, Zenon DEF HasFrame, PartOf
<1>7. FramesLeft(p) # {}
    BY <1>5, <1>6, Zenon DEF FramesLeft
<1>8. PlaceIn(m, m.clip) = p
    BY Zenon DEF PlaceIn, p
<1> DEFINE T == {c \in m.clip .. Len(clips) : FramesLeft(PlaceIn(m, c)) # {}}
<1>9. m.clip \in T /\ T \in SUBSET Nat
    BY <1>1, <1>7, <1>8
<1>10. PICK c \in T : \A d \in T : c <= d
  <2> HIDE DEF T
  <2> QED
      BY <1>9, LeastOf
<1>11. FirstClip(m, clips, c)
    BY <1>10, Zenon DEF FirstClip
<1> QED
    BY <1>11, ChooseIs, Zenon

\* The end of a muxer that has written whole frames
LEMMA AllSent ==
    ASSUME NEW run, NEW off, NEW n, NEW clips, NEW types, NEW N, NEW D,
           IsRun(run, off, n, clips, types, N, D), NEW i \in 0 .. n - 1,
           NEW m, MuxState(m, clips, N, D), SamePlace(m, run[i + 1]), ~ MoreFrames(m)
    PROVE  off[i + 1] = off[n]
<1>1. n \in Nat
    BY Zenon DEF IsRun
<1>2. i + 1 \in 0 .. n
    BY <1>1
<1>3. MuxState(run[i + 1], clips, N, D)
    BY <1>2, Zenon DEF IsRun
<1>4. ~ MoreFrames(run[i + 1])
    BY <1>3, SameChoice, Zenon
<1>5. ~ (i + 1 \in 0 .. n - 1)
    BY <1>4, Zenon DEF IsRun
<1>6. i + 1 = n
    BY <1>1, <1>2, <1>5
<1> QED
    BY <1>6

\* What mp4_muxer_process_frames writes in a step at frame i ends with that frame at most.
LEMMA WithinFrame ==
    ASSUME NEW run, NEW off, NEW n, NEW clips, NEW types, NEW N, NEW D,
           IsRun(run, off, n, clips, types, N, D), NEW i \in 0 .. n - 1,
           NEW cur \in Nat, cur <= FrameAt(run, i).offset + FrameAt(run, i).size,
           NEW len, len = off[i] + (cur - FrameAt(run, i).offset)
    PROVE  /\ len <= off[n]
           /\ cur = FrameAt(run, i).offset + FrameAt(run, i).size => len = off[i + 1]
<1>1. n \in Nat
    BY Zenon DEF IsRun
<1>2. i + 1 \in 0 .. n /\ n \in 0 .. n /\ i + 1 <= n
    BY <1>1
<1>3. off[i + 1] <= off[n] /\ off[n] \in Nat
    BY <1>2, RunOffsets, Zenon DEF IsRun
<1>4. IsFrameAt(run, off, i, clips, N)
    BY RunFrame, Zenon
<1> DEFINE o == FrameAt(run, i).offset
           s == FrameAt(run, i).size
           l == off[i]
           e == off[i + 1]
           z == off[n]
<1>5. /\ o \in Nat /\ s \in Nat /\ l \in Nat /\ z \in Nat /\ e = l + s /\ e <= z
      /\ cur <= o + s /\ len = l + (cur - o)
    BY <1>3, <1>4, Zenon DEF IsFrameAt
<1> HIDE DEF o, s, l, e, z
<1>6. len <= z /\ (cur = o + s => len = e)
    BY <1>5
<1> QED
    BY <1>6 DEF o, s, e, z

\* mp4_muxer_process_frames, when the data is in the cache
LEMMA FrameDataSent ==
    ASSUME MuxInv, SentInv, frame_data
    PROVE  SentInv'
<1> DEFINE N == StreamCount
           D == Sources
           clips == job.clips
           types == job.media_types
           r == frames_source_cache_read(cache, req)
           via == IF job.per_stream_writer THEN mux.selected ELSE 0
<1>1. /\ pc = "process" /\ Hits(cache, req) # {}
      /\ IF r.done THEN ContinueIf(MoreFrames(mux)) ELSE UNCHANGED <<pc, status>>
      /\ ~ job.reuse_buffers /\ EndsPart(r, mux.selected) => wbuf' = NoBuffer
      /\ UNCHANGED <<job, frames, layout>>
  <2> HIDE DEF r
  <2>1. job.reuse_buffers \in BOOLEAN
      BY DEF MuxInv, JobOK
  <2> QED
      BY <2>1 DEF frame_data, r
<1>2. PICK run, off, n : RunInv(run, off, n)
    BY DEF MuxInv
<1>3. JobOK /\ CacheOK(cache, job.alignment)
    BY DEF MuxInv
<1>4. /\ IsRun(run, off, n, clips, types, N, D) /\ InLayout(run, off, n, layout, N)
      /\ \E i : AtFrame(mux, req, Len(Flushed), run, off, n, i, clips, types, N, D)
    BY <1>1, <1>2 DEF RunInv
<1>5. PICK i : AtFrame(mux, req, Len(Flushed), run, off, n, i, clips, types, N, D)
    BY <1>4
<1> HIDE DEF N, D, clips, types, r
<1>6. /\ i \in 0 .. n - 1 /\ MuxState(mux, clips, N, D) /\ SamePlace(mux, run[i + 1])
      /\ mux.selected = StreamAt(run, i) /\ req \in Request
      /\ req.end = FrameAt(run, i).offset + FrameAt(run, i).size /\ req.cur < req.end
      /\ Len(Flushed) = off[i] + (req.cur - FrameAt(run, i).offset)
    BY <1>5 DEF AtFrame
<1>7. PICK j : IsPiece(r, cache, req, j)
    BY <1>1, <1>3, <1>6, ReadIs DEF r
<1>8. mux.selected \in Nat
    BY <1>6, MuxFields
<1>9. /\ IsLonger(Flushed, Flushed', r.size, via, req.source, req.cur)
      /\ out' \in Seq(Byte) /\ wbuf' \in Piece
      /\ job.reuse_buffers => wbuf' = NoBuffer
    BY <1>6, <1>7, <1>8, DataStep DEF r
<1>10. /\ r.size \in Nat /\ req.cur + r.size <= req.end /\ r.done \in BOOLEAN
       /\ r.done <=> req.cur + r.size = req.end
    BY <1>7 DEF IsPiece
<1>11. IsFrameAt(run, off, i, clips, N)
    BY <1>4, <1>6, RunFrame
<1> DEFINE cur == req.cur + r.size
           end == FrameAt(run, i).offset + FrameAt(run, i).size
<1>12. cur \in Nat /\ cur <= end /\ (r.done <=> cur = end)
    BY <1>6, <1>10 DEF Request
<1>13. Len(Flushed') = off[i] + (cur - FrameAt(run, i).offset)
  <2> DEFINE o == FrameAt(run, i).offset
             c == req.cur
             k == r.size
             l == off[i]
  <2>1. Len(Flushed') = Len(Flushed) + k /\ Len(Flushed) = l + (c - o)
      BY <1>6, <1>9 DEF IsLonger
  <2>2. o \in Nat /\ c \in Nat /\ k \in Nat /\ l \in Nat
      BY <1>6, <1>10, <1>11 DEF IsFrameAt, Request
  <2> HIDE DEF o, c, k, l
  <2>3. Len(Flushed') = l + ((c + k) - o)
      BY <2>1, <2>2
  <2> QED
      BY <2>3 DEF o, c, k, l
<1> HIDE DEF cur
<1>14. Len(Flushed') <= off[n] /\ (cur = end => Len(Flushed') = off[i + 1])
    BY <1>4, <1>6, <1>12, <1>13, WithinFrame
<1>15. Len(out') \in Nat /\ Len(Flushed') \in Nat /\ Len(out') <= Len(Flushed')
    BY <1>1, <1>3, <1>9, ShortOfFlushed
<1>16. layout'.size = off[n] /\ off[n] \in Nat
  <2>1. n \in Nat /\ n \in 0 .. n
      BY <1>4 DEF IsRun
  <2> QED
      BY <1>1, <1>4, <2>1 DEF IsRun, InLayout
<1>17. Len(out') <= layout'.size
    BY <1>14, <1>15, <1>16
<1>18. NotEnded
    BY <1>1 DEF SentInv
<1>19. CASE pc' = "process" /\ status' = status
  <2>1. NotEnded'
      BY <1>18, <1>19 DEF NotEnded
  <2>2. AnnouncedIsSent'
      BY <1>17, <2>1 DEF AnnouncedIsSent, NotEnded
  <2> QED
      BY <1>1, <1>3, <2>1, <2>2, KeepsSent
<1>20. CASE pc' = "done" /\ status' = "OK" /\ ~ MoreFrames(mux) /\ r.done
  <2>1. ~ HasFrame(mux, mux.selected)
    <3>1. mux.selected \in 1 .. N
        BY <1>6, <1>11 DEF IsFrameAt
    <3> QED
        BY <1>6, <1>20, <3>1, NoFrameLeft
  <2>2. EndsPart(r, mux.selected)
      BY <1>20, <2>1 DEF EndsPart
  <2>3. wbuf' = NoBuffer
      BY <1>1, <1>9, <2>2
  <2>4. Flushed' = out'
      BY <1>1, <1>3, <1>9, <2>3, FlushedNothing
  <2>5. off[i + 1] = off[n]
      BY <1>4, <1>6, <1>20, AllSent
  <2>6. Len(out') = layout'.size
      BY <1>12, <1>14, <1>16, <1>20, <2>4, <2>5
  <2>7. AnnouncedIsSent'
      BY <1>17, <1>20, <2>6 DEF AnnouncedIsSent
  <2> QED
      BY <1>1, <1>3, <1>20, <2>7, KeepsSent
<1>21. \/ pc' = "process" /\ status' = status
       \/ pc' = "done" /\ status' = "OK" /\ ~ MoreFrames(mux) /\ r.done
    BY <1>1, <1>10 DEF ContinueIf, Finish
<1> QED
    BY <1>19, <1>20, <1>21

\* mp4_muxer_process_frames, when the data is not in the cache
LEMMA NoDataSent ==
    ASSUME MuxInv, SentInv, no_data
    PROVE  SentInv'
<1> DEFINE N == StreamCount
           D == Sources
           clips == job.clips
           types == job.media_types
<1>1. /\ pc = "process" /\ out' = Flushed /\ wbuf' = NoBuffer
      /\ UNCHANGED <<job, frames, layout>>
      /\ \/ pc' = "done" /\ status' = "BAD_DATA"
         \/ pc' = "done" /\ status' = "OK" /\ AtLimit(out')
         \/ pc' = "reading" /\ status' = status
    BY DEF no_data, Finish, FlushOnAgain
<1>2. PICK run, off, n : RunInv(run, off, n)
    BY DEF MuxInv
<1>3. JobOK
    BY DEF MuxInv
<1>4. /\ IsRun(run, off, n, clips, types, N, D) /\ InLayout(run, off, n, layout, N)
      /\ \E i : AtFrame(mux, req, Len(Flushed), run, off, n, i, clips, types, N, D)
    BY <1>1, <1>2 DEF RunInv
<1>5. PICK i : AtFrame(mux, req, Len(Flushed), run, off, n, i, clips, types, N, D)
    BY <1>4
<1> HIDE DEF N, D, clips, types
<1>6. /\ i \in 0 .. n - 1 /\ req \in Request
      /\ req.end = FrameAt(run, i).offset + FrameAt(run, i).size /\ req.cur < req.end
      /\ Len(Flushed) = off[i] + (req.cur - FrameAt(run, i).offset)
    BY <1>5 DEF AtFrame
<1>7. req.cur \in Nat /\ req.end \in Nat
    BY <1>6 DEF Request
<1>8. req.cur <= FrameAt(run, i).offset + FrameAt(run, i).size
  <2>1. req.cur <= req.end
      BY <1>6, <1>7
  <2> QED
      BY <1>6, <2>1
<1>9. Len(Flushed) <= off[n]
    BY <1>4, <1>6, <1>7, <1>8, WithinFrame
<1>10. Len(out') <= layout'.size
    BY <1>1, <1>4, <1>9 DEF InLayout
<1>11. NotEnded
    BY <1>1 DEF SentInv
<1>12. CASE pc' = "done" /\ status' = "BAD_DATA"
  <2>1. AnnouncedIsSent'
      BY <1>10, <1>12 DEF AnnouncedIsSent
  <2> QED
      BY <1>1, <1>3, <1>12, <2>1, KeepsSent
<1>13. CASE pc' = "done" /\ status' = "OK" /\ AtLimit(out')
  <2>1. AtLimit(out)'
      BY <1>1, <1>13 DEF AtLimit
  <2>2. AnnouncedIsSent'
      BY <1>10, <1>13, <2>1 DEF AnnouncedIsSent
  <2> QED
      BY <1>1, <1>3, <1>13, <2>2, KeepsSent
<1>14. CASE pc' = "reading" /\ status' = status
  <2>1. NotEnded'
      BY <1>11, <1>14 DEF NotEnded
  <2>2. AnnouncedIsSent'
      BY <1>10, <2>1 DEF AnnouncedIsSent, NotEnded
  <2> QED
      BY <1>1, <1>3, <2>1, <2>2, KeepsSent
<1> QED
    BY <1>1, <1>12, <1>13, <1>14

\* The end of a read
LEMMA ReadCompletedSent ==
    ASSUME MuxInv, SentInv, read_completed
    PROVE  SentInv'
<1>1. /\ pc = "reading" /\ UNCHANGED <<job, frames, layout, out>>
      /\ \/ pc' = "done" /\ status' = "BAD_DATA"
         \/ pc' = "process" /\ status' = status
    BY DEF read_completed, Finish
<1>2. JobOK
    BY DEF MuxInv
<1>3. NotEnded /\ AnnouncedIsSent
    BY <1>1 DEF SentInv
<1>4. Len(out') <= layout'.size
    BY <1>1, <1>3 DEF AnnouncedIsSent
<1>5. status' # "OK" /\ status' # "UNEXPECTED" /\ (pc' # "done" => NotEnded')
    BY <1>1, <1>3 DEF NotEnded
<1>6. AnnouncedIsSent'
    BY <1>4, <1>5 DEF AnnouncedIsSent
<1> QED
    BY <1>1, <1>2, <1>5, <1>6, KeepsSent

\* A step that changes nothing
LEMMA SameSentInv ==
    ASSUME MuxInv, SentInv, UNCHANGED vars
    PROVE  SentInv'
<1>1. UNCHANGED <<job, frames, mux, layout, cache, req, wbuf, processed, out, pc, status>>
    BY DEF vars
<1>2. JobOK
    BY DEF MuxInv
<1>3. AnnouncedIsSent' /\ (pc' # "done" => NotEnded')
  <2>1. AtLimit(out)' <=> AtLimit(out)
      BY <1>1 DEF AtLimit
  <2> QED
      BY <1>1, <2>1, Zenon DEF SentInv, AnnouncedIsSent, NotEnded
<1> QED
    BY <1>1, <1>2, <1>3, KeepsSent

\* Every step keeps the invariant.
LEMMA NextSentInv ==
    MuxInv /\ SentInv /\ [Next]_vars => SentInv'
<1> SUFFICES ASSUME MuxInv, SentInv, [Next]_vars PROVE SentInv'
    OBVIOUS
<1>1. CASE assign_offset
    BY <1>1, AssignSent
<1>2. CASE init_fragment
    BY <1>2, InitFragmentSent
<1>3. CASE frame_data
    BY <1>3, FrameDataSent
<1>4. CASE no_data
    BY <1>4, NoDataSent
<1>5. CASE read_completed
    BY <1>5, ReadCompletedSent
<1>6. CASE finished
    BY <1>6, SameSentInv DEF finished
<1>7. CASE UNCHANGED vars
    BY <1>7, SameSentInv
<1> QED
    BY <1>1, <1>2, <1>3, <1>4, <1>5, <1>6, <1>7, Zenon DEF Next

\* A segment that ends with VOD_OK has the size its header announced, or reaches the end of
\* the requested range; it is never longer, and the header never has another size than was
\* allocated for it (mp4_calculate_output_offsets, mp4_muxer_process_frames).
THEOREM MuxerSendsAnnounced == Spec => []AnnouncedIsSent
<1>1. Init => MuxInv /\ SentInv
    BY InitMuxInv, InitSentInv
<1>2. MuxInv /\ SentInv /\ [Next]_vars => (MuxInv /\ SentInv)'
    BY NextMuxInv, NextSentInv
<1>3. SentInv => AnnouncedIsSent
    BY DEF SentInv
<1> QED
    BY <1>1, <1>2, <1>3, PTL DEF Spec
=============================================================================
