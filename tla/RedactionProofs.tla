---------------------------- MODULE RedactionProofs -----------------------------
(***************************************************************************)
(* What _redact_body_bytes returns is masked as it should be, for bodies   *)
(* and secrets of any length and number.  Induction is by a least natural  *)
(* number.  The data is cut into pieces, one for each symbol that is there *)
(* after a replacement; cuts of successive replacements compose, and an    *)
(* occurrence of letters after a replacement was one before it.            *)
(***************************************************************************)
EXTENDS Redaction, FiniteSetTheorems, WellFoundedInduction, TLAPS

\* A set of naturals that is not empty has a least element.
LEMMA Least ==
    ASSUME NEW T, T \subseteq Nat, T # {}
    PROVE  \E x \in T : \A y \in T : x <= y
<1> DEFINE R == {p \in Nat \X Nat : p[1] < p[2]}
<1>1. IsWellFoundedOn(R, Nat)
  <2>1. R = OpToRel(<, Nat)
    BY DEF OpToRel
  <2> QED
    BY <2>1, NatLessThanWellFounded
<1>2. PICK x \in T : \A y \in T : ~ (<<y, x>> \in R)
  BY <1>1, WFMin
<1>3. ASSUME NEW y \in Nat, NEW z \in Nat, y < z PROVE <<y, z>> \in R
  BY <1>3
<1> HIDE DEF R
<1>4. ASSUME NEW y \in T PROVE x <= y
  <2>1. x \in Nat /\ y \in Nat
    OBVIOUS
  <2>2. ~ (y < x)
    BY <1>2, <1>3, <2>1
  <2> QED
    BY <2>1, <2>2
<1> QED
  BY <1>4

\* Induction, for a set of naturals.
LEMMA Induction ==
    ASSUME NEW T, \A n \in Nat : (\A m \in Nat : m < n => m \in T) => n \in T
    PROVE  Nat \subseteq T
<1> SUFFICES ASSUME Nat \ T # {} PROVE FALSE
  OBVIOUS
<1>1. PICK x \in Nat \ T : \A y \in Nat \ T : x <= y
  BY Least
<1>2. \A m \in Nat : m < x => m \in T
  BY <1>1
<1> QED
  BY <1>1, <1>2

\* The positions of a sequence.
LEMMA Positions ==
    ASSUME NEW S, NEW s \in Seq(S), NEW i \in DOMAIN s
    PROVE  i \in Nat /\ i >= 1 /\ i <= Len(s) /\ Len(s) \in Nat
OBVIOUS

---------------------------------------------------------------------------------
(* Cuts. *)

Symbols == Letters \cup {Mask}

\* `g` cuts `before` into a piece for each symbol of `after`; a letter is a piece of
\* its own.
Pieces(g, before, after) ==
    /\ g \in [1 .. Len(after) + 1 -> 1 .. Len(before) + 1]
    /\ g[1] = 1 /\ g[Len(after) + 1] = Len(before) + 1
    /\ \A p \in DOMAIN after :
        /\ g[p] < g[p + 1]
        /\ after[p] # Mask => g[p + 1] = g[p] + 1 /\ after[p] = before[g[p]]

\* A cut is at positions of what is cut, one past its end included.
LEMMA PieceBounds ==
    ASSUME NEW g, NEW before \in Seq(Symbols), NEW after \in Seq(Symbols),
           Pieces(g, before, after), NEW p \in 1 .. Len(after) + 1
    PROVE  g[p] \in 1 .. Len(before) + 1 /\ g[p] \in Nat
<1>1. g[p] \in 1 .. Len(before) + 1
  BY DEF Pieces
<1> QED
  BY <1>1

\* Each piece has a symbol, and ends within what is cut.
LEMMA PieceEnds ==
    ASSUME NEW g, NEW before \in Seq(Symbols), NEW after \in Seq(Symbols),
           Pieces(g, before, after), NEW p \in DOMAIN after
    PROVE  /\ p \in Nat /\ p \in 1 .. Len(after) + 1 /\ p + 1 \in 1 .. Len(after) + 1
           /\ g[p] \in Nat /\ g[p + 1] \in Nat /\ g[p] < g[p + 1]
           /\ g[p] \in DOMAIN before
<1>1. p \in Nat /\ p \in 1 .. Len(after) + 1 /\ p + 1 \in 1 .. Len(after) + 1
  OBVIOUS
<1>2. g[p] < g[p + 1]
  BY DEF Pieces
<1>3. /\ g[p] \in 1 .. Len(before) + 1 /\ g[p + 1] \in 1 .. Len(before) + 1
      /\ g[p] \in Nat /\ g[p + 1] \in Nat
  BY <1>1, PieceBounds
<1>4. Len(before) \in Nat /\ DOMAIN before = 1 .. Len(before)
  OBVIOUS
<1>5. g[p] \in 1 .. Len(before)
  BY <1>2, <1>3, <1>4
<1> QED
  BY <1>1, <1>2, <1>3, <1>4, <1>5

\* Pieces follow each other.
LEMMA PiecesInOrder ==
    ASSUME NEW g, NEW before \in Seq(Symbols), NEW after \in Seq(Symbols),
           Pieces(g, before, after)
    PROVE  \A p, q \in 1 .. Len(after) + 1 : p < q => g[p] < g[q]
<1> DEFINE T == {n \in Nat : \A p \in 1 .. Len(after) + 1 :
                    p + n + 1 \in 1 .. Len(after) + 1 => g[p] < g[p + n + 1]}
<1>1. ASSUME NEW n \in Nat, \A m \in Nat : m < n => m \in T PROVE n \in T
  <2> SUFFICES ASSUME NEW p \in 1 .. Len(after) + 1, p + n + 1 \in 1 .. Len(after) + 1
               PROVE  g[p] < g[p + n + 1]
    OBVIOUS
  <2>1. p + n \in DOMAIN after /\ g[p + n] < g[p + n + 1]
    <3>1. p + n \in 1 .. Len(after)
      OBVIOUS
    <3> HIDE DEF T
    <3> QED
      BY <3>1 DEF Pieces
  <2>2. CASE n = 0
    BY <2>1, <2>2
  <2>3. CASE n # 0
    <3>1. n - 1 \in Nat /\ n - 1 < n /\ p + (n - 1) + 1 = p + n
      BY <2>3
    <3>2. g[p] < g[p + n]
      BY <1>1, <2>1, <3>1
    <3>3. g[p] \in Nat /\ g[p + n] \in Nat /\ g[p + n + 1] \in Nat
      <4> HIDE DEF T
      <4> QED
        BY <2>1, PieceBounds, PieceEnds
    <3> QED
      BY <2>1, <3>2, <3>3
  <2> QED
    BY <2>2, <2>3
<1>2. Nat \subseteq T
  <2> HIDE DEF T
  <2> QED
    BY <1>1, Induction
<1> TAKE p, q \in 1 .. Len(after) + 1
<1> HAVE p < q
<1>3. q - p - 1 \in Nat /\ p + (q - p - 1) + 1 = q
  OBVIOUS
<1>4. q - p - 1 \in T
  BY <1>2, <1>3
<1> QED
  BY <1>3, <1>4

\* Letters that are there after a replacement were there before it, side by side.
LEMMA Lift ==
    ASSUME NEW g, NEW before \in Seq(Symbols), NEW after \in Seq(Symbols),
           Pieces(g, before, after), NEW s \in Seq(Letters), NEW i \in DOMAIN after,
           At(s, after, i)
    PROVE  /\ \A k \in 0 .. Len(s) : g[i + k] = g[i] + k
           /\ At(s, before, g[i])
<1> DEFINE T == {n \in Nat : n <= Len(s) => g[i + n] = g[i] + n}
<1>0. \A k \in 1 .. Len(s) : s[k] \in Letters /\ s[k] # Mask
  BY MaskAssumption
<1>1. ASSUME NEW k \in 1 .. Len(s)
      PROVE  /\ i + k - 1 \in DOMAIN after
             /\ g[i + k] = g[i + k - 1] + 1 /\ s[k] = before[g[i + k - 1]]
  <2>1. i + k - 1 \in DOMAIN after /\ (i + k - 1) + 1 = i + k /\ after[i + k - 1] = s[k]
    BY DEF At
  <2> QED
    BY <1>0, <2>1 DEF Pieces
<1>2. ASSUME NEW n \in Nat, \A m \in Nat : m < n => m \in T PROVE n \in T
  <2> SUFFICES ASSUME n <= Len(s) PROVE g[i + n] = g[i] + n
    OBVIOUS
  <2>0. g[i] \in Nat
    BY DEF Pieces
  <2>1. CASE n = 0
    BY <2>0, <2>1
  <2>2. CASE n # 0
    <3>1. n - 1 \in Nat /\ n - 1 < n /\ n - 1 <= Len(s) /\ i + (n - 1) = i + n - 1
      BY <2>2
    <3>2. g[i + n - 1] = g[i] + (n - 1)
      BY <1>2, <3>1
    <3> QED
      BY <1>1, <2>0, <2>2, <3>2
  <2> QED
    BY <2>1, <2>2
<1>3. \A k \in 0 .. Len(s) : g[i + k] = g[i] + k
  <2>1. Nat \subseteq T
    <3> HIDE DEF T
    <3> QED
      BY <1>2, Induction
  <2> QED
    BY <2>1
<1>4. At(s, before, g[i])
  <2>1. g[i] \in Nat /\ g[i] + Len(s) <= Len(before) + 1
    <3>1. i + Len(s) \in 1 .. Len(after) + 1
      BY DEF At
    <3>2. g[i] \in 1 .. Len(before) + 1 /\ g[i + Len(s)] \in 1 .. Len(before) + 1
      BY <3>1 DEF Pieces
    <3> QED
      BY <1>3, <3>2
  <2>2. ASSUME NEW k \in DOMAIN s PROVE before[g[i] + k - 1] = s[k]
    <3>1. k \in 1 .. Len(s) /\ k - 1 \in 0 .. Len(s) /\ i + (k - 1) = i + k - 1
      OBVIOUS
    <3>2. g[i + k - 1] = g[i] + (k - 1)
      BY <1>3, <3>1
    <3>3. g[i] + (k - 1) = g[i] + k - 1
      BY <2>1, <3>1
    <3> QED
      BY <1>1, <3>1, <3>2, <3>3
  <2> QED
    BY <2>1, <2>2 DEF At
<1> QED
  BY <1>3, <1>4

\* Every position is in a piece.
LEMMA InPiece ==
    ASSUME NEW g, NEW before \in Seq(Symbols), NEW after \in Seq(Symbols),
           Pieces(g, before, after), NEW d \in DOMAIN before
    PROVE  \E p \in DOMAIN after : g[p] <= d /\ d < g[p + 1]
<1> DEFINE T == {q \in 1 .. Len(after) + 1 : d < g[q]}
<1>1. Len(after) + 1 \in T
  BY DEF Pieces
<1>2. PICK q \in T : \A y \in T : q <= y
  <2>1. T \subseteq Nat
    OBVIOUS
  <2> HIDE DEF T
  <2> QED
    BY <1>1, <2>1, Least
<1>3. q # 1
  BY <1>2 DEF Pieces
<1>4. q - 1 \in DOMAIN after /\ q - 1 \notin T /\ (q - 1) + 1 = q
  BY <1>2, <1>3
<1>5. g[q - 1] \in Nat /\ d \in Nat
  <2>1. d \in Nat
    OBVIOUS
  <2> HIDE DEF T
  <2>2. g[q - 1] \in Nat
    BY <1>4, PieceEnds
  <2> QED
    BY <2>1, <2>2
<1>6. d < g[q] /\ ~(d < g[q - 1])
  <2>1. q - 1 \in 1 .. Len(after) + 1
    BY <1>4
  <2> QED
    BY <1>2, <1>4, <2>1
<1>7. g[q - 1] <= d
  <2> HIDE DEF T
  <2> QED
    BY <1>5, <1>6
<1> QED
  BY <1>4, <1>6, <1>7

\* The cuts of two replacements in a row are one cut.
LEMMA PiecesCompose ==
    ASSUME NEW f, NEW g, NEW data \in Seq(Symbols), NEW before \in Seq(Symbols),
           NEW after \in Seq(Symbols), Pieces(f, data, before), Pieces(g, before, after)
    PROVE  Pieces([p \in 1 .. Len(after) + 1 |-> f[g[p]]], data, after)
<1> DEFINE h == [p \in 1 .. Len(after) + 1 |-> f[g[p]]]
<1>1. h \in [1 .. Len(after) + 1 -> 1 .. Len(data) + 1]
  BY DEF Pieces
<1>2. h[1] = 1 /\ h[Len(after) + 1] = Len(data) + 1
  BY DEF Pieces
<1>3. ASSUME NEW p \in DOMAIN after
      PROVE  /\ h[p] < h[p + 1]
             /\ after[p] # Mask => h[p + 1] = h[p] + 1 /\ after[p] = data[h[p]]
  <2>1. /\ h[p] = f[g[p]] /\ h[p + 1] = f[g[p + 1]]
        /\ g[p] \in 1 .. Len(before) + 1 /\ g[p + 1] \in 1 .. Len(before) + 1
        /\ g[p] < g[p + 1]
    BY PieceBounds, PieceEnds
  <2>2. h[p] < h[p + 1]
    BY <2>1, PiecesInOrder
  <2>3. g[p] \in DOMAIN before
    BY <2>1
  <2>4. ASSUME after[p] # Mask PROVE h[p + 1] = h[p] + 1 /\ after[p] = data[h[p]]
    <3>1. g[p + 1] = g[p] + 1 /\ before[g[p]] = after[p]
      BY <2>4 DEF Pieces
    <3> QED
      BY <2>1, <2>3, <2>4, <3>1 DEF Pieces
  <2> QED
    BY <2>2, <2>4
<1> HIDE DEF h
<1>4. Pieces(h, data, after)
  BY <1>1, <1>2, <1>3 DEF Pieces
<1> QED
  BY <1>4 DEF h

---------------------------------------------------------------------------------
(* One replacement. *)

\* What Replace computes at i from what follows.
RestOf(data, needle, rest, i) ==
    IF i > Len(data) THEN <<>>
    ELSE IF At(needle, data, i) THEN <<Mask>> \o rest[i + Len(needle)]
         ELSE <<data[i]>> \o rest[i + 1]

\* The recursion in Replace is well founded: a secret is not empty.
LEMMA RestExists ==
    ASSUME NEW data \in Seq(Symbols), NEW needle \in Seq(Letters), needle # <<>>
    PROVE  \E rest : rest = [i \in 1 .. Len(data) + 1 |-> RestOf(data, needle, rest, i)]
<1> DEFINE N == Len(data) + 1
           From(n) == N - n .. N
           Is(h, n) == h = [i \in From(n) |-> RestOf(data, needle, h, i)]
           T == {n \in Nat : n < N => \E h : Is(h, n)}
<1>0. N \in Nat /\ N >= 1 /\ Len(needle) >= 1 /\ Len(needle) \in Nat
  OBVIOUS
<1>1. ASSUME NEW n \in Nat, \A m \in Nat : m < n => m \in T PROVE n \in T
  <2> SUFFICES ASSUME n < N PROVE \E h : Is(h, n)
    OBVIOUS
  <2>1. CASE n = 0
    <3> DEFINE h == [i \in From(0) |-> <<>>]
    <3>1. \A i \in From(0) : RestOf(data, needle, h, i) = <<>>
      BY DEF RestOf
    <3>2. Is(h, 0)
      BY <3>1
    <3> QED
      BY <2>1, <3>2
  <2>2. CASE n # 0
    <3>1. PICK h : Is(h, n - 1)
      <4>1. n - 1 \in Nat /\ n - 1 < n /\ n - 1 < N
        BY <2>2
      <4> QED
        BY <1>1, <4>1
    <3> DEFINE first == N - n
               x == RestOf(data, needle, h, first)
               k == [i \in From(n) |-> IF i = first THEN x ELSE h[i]]
    <3>2. first \in Nat /\ first >= 1 /\ first < N
      BY <2>2
    <3> HIDE DEF x
    <3>3. \A i \in From(n) : i > first => i \in From(n - 1) /\ k[i] = h[i]
      BY <2>2, <3>2
    <3>4. ASSUME NEW i \in From(n)
          PROVE  RestOf(data, needle, k, i) = RestOf(data, needle, h, i)
      <4>1. CASE i > Len(data)
        BY <4>1 DEF RestOf
      <4>2. CASE ~(i > Len(data)) /\ At(needle, data, i)
        <5>1. i + Len(needle) \in From(n) /\ i + Len(needle) > first
          BY <1>0, <3>2, <4>2 DEF At
        <5>2. k[i + Len(needle)] = h[i + Len(needle)]
          BY <3>3, <5>1
        <5> HIDE DEF k
        <5> QED
          BY <4>2, <5>2 DEF RestOf
      <4>3. CASE ~(i > Len(data)) /\ ~At(needle, data, i)
        <5>1. i + 1 \in From(n) /\ i + 1 > first
          BY <1>0, <3>2, <4>3
        <5>2. k[i + 1] = h[i + 1]
          BY <3>3, <5>1
        <5> HIDE DEF k
        <5> QED
          BY <4>3, <5>2 DEF RestOf
      <4> QED
        BY <4>1, <4>2, <4>3
    <3>5. ASSUME NEW i \in From(n) PROVE k[i] = RestOf(data, needle, k, i)
      <4>1. CASE i = first
        BY <3>4, <4>1 DEF x
      <4>2. CASE i # first
        <5>0. i > first
          <6> HIDE DEF k, Is
          <6> QED
            BY <1>0, <3>2, <4>2
        <5>1. i > first /\ i \in From(n - 1)
          BY <3>3, <5>0
        <5>2. h[i] = RestOf(data, needle, h, i)
          BY <3>1, <5>1
        <5> QED
          BY <3>3, <3>4, <5>1, <5>2
      <4> QED
        BY <4>1, <4>2
    <3>6. Is(k, n)
      BY <3>5
    <3> QED
      BY <3>6
  <2> QED
    BY <2>1, <2>2
<1>2. Nat \subseteq T
  <2> HIDE DEF T
  <2> QED
    BY <1>1, Induction
<1>3. N - 1 \in Nat /\ N - 1 < N /\ From(N - 1) = 1 .. N
  BY <1>0
<1>4. \E h : Is(h, N - 1)
  BY <1>2, <1>3
<1> QED
  BY <1>3, <1>4

\* The pieces of a replacement: a secret found gives way to a mask, whatever else
\* there is stays as it was.
Trace(g, before, needle, after, i) ==
    /\ g \in [1 .. Len(after) + 1 -> 1 .. Len(before) + 1]
    /\ g[1] = i /\ g[Len(after) + 1] = Len(before) + 1
    /\ \A p \in DOMAIN after :
        \/ /\ At(needle, before, g[p]) /\ after[p] = Mask
           /\ g[p + 1] = g[p] + Len(needle)
        \/ /\ ~At(needle, before, g[p]) /\ after[p] = before[g[p]]
           /\ g[p + 1] = g[p] + 1

\* One more piece in front.
LEMMA TraceExtends ==
    ASSUME NEW data \in Seq(Symbols), NEW needle \in Seq(Letters),
           NEW i \in DOMAIN data, NEW j \in 1 .. Len(data) + 1, NEW x \in Symbols,
           NEW after \in Seq(Symbols), NEW g, Trace(g, data, needle, after, j),
           \/ At(needle, data, i) /\ x = Mask /\ j = i + Len(needle)
           \/ ~At(needle, data, i) /\ x = data[i] /\ j = i + 1
    PROVE  \E h : Trace(h, data, needle, <<x>> \o after, i)
<1> DEFINE more == <<x>> \o after
           h == [p \in 1 .. Len(more) + 1 |-> IF p = 1 THEN i ELSE g[p - 1]]
<1>1. /\ more \in Seq(Symbols) /\ Len(more) = Len(after) + 1 /\ more[1] = x
      /\ \A p \in DOMAIN after : more[p + 1] = after[p]
  OBVIOUS
<1> HIDE DEF more
<1>2. Len(after) \in Nat /\ g \in [1 .. Len(after) + 1 -> 1 .. Len(data) + 1]
  BY DEF Trace
<1>3. h \in [1 .. Len(more) + 1 -> 1 .. Len(data) + 1]
  <2>1. ASSUME NEW p \in 1 .. Len(more) + 1, p # 1 PROVE p - 1 \in 1 .. Len(after) + 1
    BY <1>1, <1>2, <2>1
  <2> QED
    BY <1>2, <2>1
<1>4. h[1] = i /\ h[Len(more) + 1] = Len(data) + 1
  BY <1>1, <1>2 DEF Trace
<1>5. ASSUME NEW p \in DOMAIN more
      PROVE  \/ /\ At(needle, data, h[p]) /\ more[p] = Mask
                /\ h[p + 1] = h[p] + Len(needle)
             \/ /\ ~At(needle, data, h[p]) /\ more[p] = data[h[p]]
                /\ h[p + 1] = h[p] + 1
  <2>1. CASE p = 1
    <3>1. h[p] = i /\ h[p + 1] = j /\ more[p] = x
      BY <1>1, <1>2, <2>1 DEF Trace
    <3> HIDE DEF h
    <3> QED
      BY <3>1
  <2>2. CASE p # 1
    <3>1. p - 1 \in DOMAIN after /\ (p - 1) + 1 = p
      BY <1>1, <1>2, <2>2
    <3>2. h[p] = g[p - 1]
      BY <1>1, <1>2, <2>2, <3>1
    <3>3. h[p + 1] = g[p]
      <4>1. p + 1 \in 1 .. Len(more) + 1 /\ p + 1 # 1 /\ (p + 1) - 1 = p
        BY <1>1, <1>2
      <4> QED
        BY <4>1
    <3>4. more[p] = after[p - 1]
      BY <1>1, <3>1
    <3> HIDE DEF h
    <3> QED
      BY <3>1, <3>2, <3>3, <3>4 DEF Trace
  <2> QED
    BY <2>1, <2>2
<1> HIDE DEF h
<1>6. Trace(h, data, needle, more, i)
  BY <1>3, <1>4, <1>5 DEF Trace
<1> QED
  BY <1>6 DEF more

\* Replace works through the data from the left and leaves nothing out.
LEMMA ReplaceTraced ==
    ASSUME NEW data \in Seq(Symbols), NEW needle \in Seq(Letters), needle # <<>>
    PROVE  /\ Replace(data, needle) \in Seq(Symbols)
           /\ \E g : Trace(g, data, needle, Replace(data, needle), 1)
<1> DEFINE rest[i \in 1 .. Len(data) + 1] ==
              IF i > Len(data) THEN <<>>
              ELSE IF At(needle, data, i) THEN <<Mask>> \o rest[i + Len(needle)]
                   ELSE <<data[i]>> \o rest[i + 1]
<1>1. Replace(data, needle) = rest[1]
  BY DEF Replace
<1>2. rest = CHOOSE k : k = [i \in 1 .. Len(data) + 1 |-> RestOf(data, needle, k, i)]
  BY DEF RestOf
<1>3. rest = [i \in 1 .. Len(data) + 1 |-> RestOf(data, needle, rest, i)]
  BY <1>2, RestExists
<1> HIDE DEF rest
<1> DEFINE N == Len(data) + 1
           Good(i) == /\ rest[i] \in Seq(Symbols)
                      /\ \E g : Trace(g, data, needle, rest[i], i)
           T == {n \in Nat : n < N => Good(N - n)}
<1>0. N \in Nat /\ N >= 1 /\ Len(needle) >= 1 /\ Len(needle) \in Nat
  OBVIOUS
<1>4. ASSUME NEW n \in Nat, \A m \in Nat : m < n => m \in T PROVE n \in T
  <2> SUFFICES ASSUME n < N PROVE Good(N - n)
    OBVIOUS
  <2>1. PICK i \in 1 .. N : i = N - n
    <3>1. N - n \in 1 .. N
      BY <1>0
    <3> QED
      BY <3>1
  <2>2. rest[i] = RestOf(data, needle, rest, i)
    BY <1>3
  <2>3. ASSUME NEW j \in 1 .. N, j > i PROVE Good(j)
    <3>1. N - j \in Nat /\ N - j < n /\ N - j < N /\ N - (N - j) = j
      BY <2>1, <2>3
    <3>2. N - j \in T
      BY <1>4, <3>1
    <3> HIDE DEF Good
    <3>3. Good(N - (N - j))
      BY <3>1, <3>2
    <3> QED
      BY <3>1, <3>3
  <2>4. CASE n = 0
    <3>1. rest[i] = <<>> /\ i = Len(data) + 1
      BY <2>1, <2>2, <2>4 DEF RestOf
    <3>2. Trace([p \in 1 .. 1 |-> i], data, needle, rest[i], i)
      BY <3>1 DEF Trace
    <3> QED
      BY <2>1, <3>1, <3>2
  <2>5. CASE n # 0 /\ At(needle, data, i)
    <3>1. i \in DOMAIN data /\ i + Len(needle) \in 1 .. N /\ i + Len(needle) > i
      BY <1>0, <2>1, <2>5 DEF At
    <3>2. rest[i] = <<Mask>> \o rest[i + Len(needle)]
      BY <2>2, <2>5, <3>1 DEF RestOf
    <3>3. /\ rest[i + Len(needle)] \in Seq(Symbols)
          /\ \E g : Trace(g, data, needle, rest[i + Len(needle)], i + Len(needle))
      BY <2>3, <3>1
    <3>4. Mask \in Symbols
      BY DEF Symbols
    <3>5. \E h : Trace(h, data, needle, rest[i], i)
      BY <2>5, <3>1, <3>2, <3>3, <3>4, TraceExtends
    <3>6. rest[i] \in Seq(Symbols)
      BY <3>2, <3>3, <3>4
    <3> QED
      BY <2>1, <3>5, <3>6
  <2>6. CASE n # 0 /\ ~At(needle, data, i)
    <3>1. i \in DOMAIN data /\ i + 1 \in 1 .. N /\ i + 1 > i
      BY <1>0, <2>1, <2>6
    <3>2. rest[i] = <<data[i]>> \o rest[i + 1]
      BY <2>2, <2>6, <3>1 DEF RestOf
    <3>3. /\ rest[i + 1] \in Seq(Symbols)
          /\ \E g : Trace(g, data, needle, rest[i + 1], i + 1)
      BY <2>3, <3>1
    <3>4. data[i] \in Symbols
      BY <3>1
    <3>5. \E h : Trace(h, data, needle, rest[i], i)
      BY <2>6, <3>1, <3>2, <3>3, <3>4, TraceExtends
    <3>6. rest[i] \in Seq(Symbols)
      BY <3>2, <3>3, <3>4
    <3> QED
      BY <2>1, <3>5, <3>6
  <2> QED
    BY <2>4, <2>5, <2>6
<1>5. Nat \subseteq T
  <2> HIDE DEF T
  <2> QED
    BY <1>4, Induction
<1>6. N - 1 \in T /\ N - 1 < N /\ N - (N - 1) = 1
  BY <1>0, <1>5
<1>7. Good(1)
  <2> HIDE DEF Good
  <2>1. Good(N - (N - 1))
    BY <1>6
  <2> QED
    BY <1>6, <2>1
<1> QED
  BY <1>1, <1>7

\* So it cuts the data into pieces.
LEMMA TraceIsCut ==
    ASSUME NEW before \in Seq(Symbols), NEW needle \in Seq(Letters), needle # <<>>,
           NEW after \in Seq(Symbols), NEW g, Trace(g, before, needle, after, 1)
    PROVE  Pieces(g, before, after)
<1>1. Len(needle) \in Nat /\ Len(needle) >= 1
  OBVIOUS
<1>2. ASSUME NEW p \in DOMAIN after
      PROVE  /\ g[p] < g[p + 1]
             /\ after[p] # Mask => g[p + 1] = g[p] + 1 /\ after[p] = before[g[p]]
  <2>1. p \in 1 .. Len(after) + 1 /\ g[p] \in Nat
    BY DEF Trace
  <2> QED
    BY <1>1, <2>1 DEF Trace
<1> QED
  BY <1>2 DEF Trace, Pieces

---------------------------------------------------------------------------------
(* One secret after another. *)

\* The letter at d is part of one of the secrets at the positions in I.
Covered(secrets, I, data, d) ==
    \E n \in I, i \in DOMAIN data :
        At(secrets[n], data, i) /\ i <= d /\ d < i + Len(secrets[n])

\* A mask stands for letters of secrets that have had their turn; where secrets only
\* nest, no letter of theirs was kept.
Cover(f, secrets, I, data, now) ==
    /\ Pieces(f, data, now)
    /\ \A p \in DOMAIN now :
        /\ now[p] = Mask =>
              \A d \in f[p] .. f[p + 1] - 1 : Covered(secrets, I, data, d)
        /\ now[p] # Mask =>
              (Nested(secrets, data) => ~Covered(secrets, I, data, f[p]))

\* The data once the secrets at the positions in I have had their turn.
Masked(secrets, I, data, now) ==
    /\ now \in Seq(Symbols)
    /\ \E f : Cover(f, secrets, I, data, now)
    /\ \A n \in I, i \in DOMAIN now : ~At(secrets[n], now, i)

\* The letters from i on, `length` of them, were kept.
Kept(f, data, now, i, length) ==
    \A e \in i .. i + length - 1, p \in DOMAIN now :
        f[p] <= e /\ e < f[p + 1] => f[p] = e /\ f[p + 1] = e + 1 /\ now[p] = data[e]

\* From q on there are the letters from i on, `length` of them.
Stretch(q, f, data, now, i, length) ==
    \A n \in 0 .. length - 1 :
        q + n \in DOMAIN now /\ f[q + n] = i + n /\ now[q + n] = data[i + n]

\* Where each letter of a stretch was kept, they were kept side by side.
LEMMA KeptTogether ==
    ASSUME NEW data \in Seq(Symbols), NEW now \in Seq(Symbols), NEW f,
           Pieces(f, data, now), NEW i \in Nat, NEW length \in Nat, length >= 1,
           i >= 1, i + length <= Len(data) + 1, Kept(f, data, now, i, length)
    PROVE  \E q \in DOMAIN now : Stretch(q, f, data, now, i, length)
<1>1. PICK q \in DOMAIN now : f[q] <= i /\ i < f[q + 1]
  <2>1. i \in DOMAIN data
    OBVIOUS
  <2> QED
    BY <2>1, InPiece
<1>2. q \in Nat /\ q >= 1 /\ DOMAIN now = 1 .. Len(now) /\ Len(now) \in Nat
  OBVIOUS
<1> USE DEF Kept
<1> DEFINE Here(n) == q + n \in DOMAIN now /\ f[q + n] = i + n /\ now[q + n] = data[i + n]
           T == {n \in Nat : n < length => Here(n)}
<1>3. ASSUME NEW n \in Nat, \A k \in Nat : k < n => k \in T PROVE n \in T
  <2> SUFFICES ASSUME n < length PROVE Here(n)
    OBVIOUS
  <2>0. i + n \in i .. i + length - 1 /\ q + n \in Nat /\ i + n \in Nat
    BY <1>2
  <2>1. q + n \in DOMAIN now /\ f[q + n] <= i + n /\ i + n < f[q + n + 1]
    <3>1. CASE n = 0
      BY <1>1, <1>2, <3>1
    <3>2. CASE n # 0
      <4>1. PICK k \in Nat : k + 1 = n
        BY <3>2
      <4>2. k < length /\ k < n
        BY <4>1
      <4>3. Here(k)
        <5>1. k \in T
          BY <1>3, <4>2
        <5> QED
          BY <4>2, <5>1
      <4>4. q + k \in DOMAIN now /\ f[q + k] = i + k
        BY <4>3
      <4> HIDE DEF T, Here
      <4>5. i + k \in i .. i + length - 1
        BY <4>2
      <4>6. (q + k) + 1 = q + n /\ i + k + 1 = i + n
        <5>1. q \in Nat /\ n = k + 1
          BY <1>2, <4>1
        <5>2. \A x, y \in Nat : (x + y) + 1 = x + (y + 1)
          OBVIOUS
        <5> QED
          BY <5>1, <5>2
      <4>7. f[q + k] < f[(q + k) + 1]
        BY <4>4 DEF Pieces
      <4>8. f[(q + k) + 1] = i + k + 1
        <5>1. PICK p \in DOMAIN now : p = q + k
          BY <4>4
        <5>2. f[p] <= i + k /\ i + k < f[p + 1]
          BY <4>4, <4>7, <5>1
        <5> QED
          BY <4>5, <5>1, <5>2
      <4>9. f[q + n] = i + n /\ i + n # Len(data) + 1
        BY <4>6, <4>8
      <4>10. q + n # Len(now) + 1
        BY <4>9 DEF Pieces
      <4>11. q + n \in DOMAIN now
        BY <1>2, <4>1, <4>4, <4>10
      <4>12. f[q + n] < f[q + n + 1]
        BY <4>11 DEF Pieces
      <4> QED
        BY <2>0, <4>9, <4>11, <4>12
    <3> QED
      BY <3>1, <3>2
  <2> QED
    BY <2>0, <2>1
<1>4. Nat \subseteq T
  <2> HIDE DEF T
  <2> QED
    BY <1>3, Induction
<1>5. \A n \in 0 .. length - 1 : Here(n)
  BY <1>4
<1> QED
  BY <1>5 DEF Stretch

\* Where secrets only nest, no secret overlaps itself.
LEMMA NoSelfOverlap ==
    ASSUME NEW data \in Seq(Letters), NEW secrets \in Seq(Seq(Letters)),
           Nested(secrets, data), NEW m \in DOMAIN secrets,
           NEW i \in DOMAIN data, NEW j \in DOMAIN data,
           At(secrets[m], data, i), At(secrets[m], data, j), i < j
    PROVE  i + Len(secrets[m]) <= j
<1>1. Len(secrets[m]) \in Nat
  OBVIOUS
<1>2. \/ i + Len(secrets[m]) <= j \/ j + Len(secrets[m]) <= i
      \/ i <= j /\ j + Len(secrets[m]) <= i + Len(secrets[m])
      \/ j <= i /\ i + Len(secrets[m]) <= j + Len(secrets[m])
  BY DEF Nested
<1> QED
  BY <1>1, <1>2

\* Of two spans that are apart or nested and meet, the one no shorter holds the other.
LEMMA LongerHolds ==
    ASSUME NEW i \in Nat, NEW l \in Nat, NEW j \in Nat, NEW n \in Nat, l <= n,
           \/ i + l <= j \/ j + n <= i
           \/ i <= j /\ j + n <= i + l
           \/ j <= i /\ i + l <= j + n,
           NEW d \in i .. i + l - 1, NEW e \in i .. i + l - 1, j <= e, e < j + n
    PROVE  j <= d /\ d < j + n
OBVIOUS

\* Where secrets only nest, those no shorter cover an occurrence of a secret as a whole
\* or not at all.
LEMMA WhollyCovered ==
    ASSUME NEW data \in Seq(Letters), NEW secrets \in Seq(Seq(Letters)),
           Nested(secrets, data), NEW I \in SUBSET DOMAIN secrets,
           NEW m \in DOMAIN secrets, \A n \in I : Len(secrets[m]) <= Len(secrets[n]),
           NEW i \in DOMAIN data, At(secrets[m], data, i),
           NEW d \in i .. i + Len(secrets[m]) - 1, ~Covered(secrets, I, data, d),
           NEW e \in i .. i + Len(secrets[m]) - 1
    PROVE  ~Covered(secrets, I, data, e)
<1> SUFFICES ASSUME NEW n \in I, NEW j \in DOMAIN data, At(secrets[n], data, j),
                    j <= e, e < j + Len(secrets[n])
             PROVE  FALSE
  BY DEF Covered
<1>1. /\ Len(secrets[n]) \in Nat /\ n \in DOMAIN secrets
      /\ Len(secrets[m]) <= Len(secrets[n]) /\ Len(secrets[m]) \in Nat
  OBVIOUS
<1>2. \/ i + Len(secrets[m]) <= j \/ j + Len(secrets[n]) <= i
      \/ i <= j /\ j + Len(secrets[n]) <= i + Len(secrets[m])
      \/ j <= i /\ i + Len(secrets[m]) <= j + Len(secrets[n])
  BY <1>1 DEF Nested
<1>3. j <= d /\ d < j + Len(secrets[n])
  <2>1. i \in Nat /\ j \in Nat
    BY Positions
  <2> QED
    BY <1>1, <1>2, <2>1, LongerHolds
<1> QED
  BY <1>3 DEF Covered

\* The occurrence of `s` at i of the data is at q now.
Found(q, f, s, now, i) ==
    At(s, now, q) /\ \A k \in 0 .. Len(s) - 1 : f[q + k] = i + k

\* An occurrence none of whose letters is covered is still there as a whole.
LEMMA StillThere ==
    ASSUME NEW data \in Seq(Letters), NEW secrets, Nested(secrets, data), NEW I,
           NEW now \in Seq(Symbols), NEW f, Cover(f, secrets, I, data, now),
           NEW s \in Seq(Letters), s # <<>>, NEW i \in DOMAIN data, At(s, data, i),
           \A e \in i .. i + Len(s) - 1 : ~Covered(secrets, I, data, e)
    PROVE  \E q \in DOMAIN now : Found(q, f, s, now, i)
<1>0. /\ i \in Nat /\ i >= 1 /\ Len(s) \in Nat /\ Len(s) >= 1
      /\ i + Len(s) <= Len(data) + 1 /\ data \in Seq(Symbols) /\ Pieces(f, data, now)
  BY DEF At, Cover, Symbols
<1>1. ASSUME NEW e \in i .. i + Len(s) - 1, NEW p \in DOMAIN now, f[p] <= e, e < f[p + 1]
      PROVE  f[p] = e /\ f[p + 1] = e + 1 /\ now[p] = data[e]
  <2>2. f[p] \in Nat /\ f[p + 1] \in Nat
    BY <1>0, PieceEnds
  <2>3. e \in f[p] .. f[p + 1] - 1
    BY <1>0, <1>1, <2>2
  <2>4. now[p] # Mask
    BY <2>3 DEF Cover
  <2>5. f[p + 1] = f[p] + 1 /\ now[p] = data[f[p]]
    BY <1>0, <2>4 DEF Pieces
  <2>6. e \in Nat /\ f[p] <= e /\ e < f[p] + 1
    BY <1>0, <1>1, <2>5
  <2>7. f[p] = e
    BY <2>2, <2>6
  <2> QED
    BY <2>5, <2>7
<1>4. Kept(f, data, now, i, Len(s))
  BY <1>1 DEF Kept
<1>5. PICK q \in DOMAIN now : Stretch(q, f, data, now, i, Len(s))
  BY <1>0, <1>4, KeptTogether
<1>2. \A n \in 0 .. Len(s) - 1 : /\ q + n \in DOMAIN now /\ f[q + n] = i + n
                                 /\ now[q + n] = data[i + n]
  BY <1>5 DEF Stretch
<1>3. At(s, now, q)
  <2>1. q + (Len(s) - 1) \in DOMAIN now
    BY <1>0, <1>2
  <2>2. q \in Nat /\ Len(now) \in Nat /\ q + Len(s) <= Len(now) + 1
    BY <1>0, <2>1
  <2>3. ASSUME NEW k \in DOMAIN s PROVE now[q + k - 1] = s[k]
    <3>1. k - 1 \in 0 .. Len(s) - 1
      BY <1>0
    <3>2. now[q + (k - 1)] = data[i + (k - 1)]
      BY <1>2, <3>1
    <3>3. q + (k - 1) = q + k - 1 /\ i + (k - 1) = i + k - 1
      BY <2>2, <3>1
    <3>4. data[i + k - 1] = s[k]
      BY DEF At
    <3> QED
      BY <3>2, <3>3, <3>4
  <2> QED
    BY <2>2, <2>3 DEF At
<1> QED
  BY <1>2, <1>3 DEF Found

\* No position lies strictly between the starts of two pieces that follow each other.
LEMMA NoneBetween ==
    ASSUME NEW g, NEW before \in Seq(Symbols), NEW after \in Seq(Symbols),
           Pieces(g, before, after), NEW p \in DOMAIN after, NEW q \in DOMAIN after
    PROVE  ~(g[p] < g[q] /\ g[q] < g[p + 1])
<1> SUFFICES ASSUME g[p] < g[q], g[q] < g[p + 1] PROVE FALSE
  OBVIOUS
<1>1. /\ p \in 1 .. Len(after) + 1 /\ q \in 1 .. Len(after) + 1
      /\ p + 1 \in 1 .. Len(after) + 1
  OBVIOUS
<1>2. g[p] \in Nat /\ g[q] \in Nat /\ g[p + 1] \in Nat
  BY PieceEnds
<1>3. ~(q < p) /\ q # p
  BY <1>1, <1>2, PiecesInOrder
<1>4. ~(p + 1 < q) /\ p + 1 # q
  BY <1>1, <1>2, PiecesInOrder
<1> QED
  BY <1>1, <1>3, <1>4

\* No two occurrences of `s` overlap.
Apart(s, data) ==
    \A i, j \in DOMAIN data : At(s, data, i) /\ At(s, data, j) /\ i < j => i + Len(s) <= j

\* Then no two of those still there do.
LEMMA StillApart ==
    ASSUME NEW data \in Seq(Symbols), NEW now \in Seq(Symbols), NEW f,
           Pieces(f, data, now), NEW s \in Seq(Letters), s # <<>>, Apart(s, data)
    PROVE  Apart(s, now)
<1> SUFFICES ASSUME NEW i \in DOMAIN now, NEW j \in DOMAIN now,
                    At(s, now, i), At(s, now, j), i < j, j < i + Len(s)
             PROVE  FALSE
  <2>1. \A i, j \in DOMAIN now : i \in Nat /\ j \in Nat /\ Len(s) \in Nat
    OBVIOUS
  <2> QED
    BY <2>1 DEF Apart
<1>1. PICK k \in 0 .. Len(s) : i + k = j /\ k # 0 /\ k < Len(s)
  <2>1. i \in Nat /\ j \in Nat /\ Len(s) \in Nat
    OBVIOUS
  <2>2. j - i \in 0 .. Len(s) /\ i + (j - i) = j /\ j - i # 0 /\ j - i < Len(s)
    BY <2>1
  <2> QED
    BY <2>2
<1>2. At(s, data, f[i]) /\ \A n \in 0 .. Len(s) : f[i + n] = f[i] + n
  BY Lift
<1>3. At(s, data, f[j])
  BY Lift
<1>4. f[j] = f[i] + k
  BY <1>1, <1>2
<1>5. f[i] \in DOMAIN data /\ f[j] \in DOMAIN data
  BY PieceEnds
<1>6. f[i] < f[j] /\ f[i] \in Nat /\ f[j] \in Nat
  BY <1>1, <1>4, <1>5
<1>7. f[i] + Len(s) <= f[j]
  BY <1>2, <1>3, <1>5, <1>6 DEF Apart
<1>8. k < Len(s) /\ k \in Nat /\ Len(s) \in Nat
  BY <1>1
<1> QED
  BY <1>4, <1>6, <1>7, <1>8

\* What lay within an occurrence in the data lies within it now.
LEMMA Within ==
    ASSUME NEW data \in Seq(Symbols), NEW now \in Seq(Symbols), NEW f,
           Pieces(f, data, now), NEW s \in Seq(Letters), s # <<>>,
           NEW i \in DOMAIN data, NEW q \in DOMAIN now, Found(q, f, s, now, i),
           NEW a \in 1 .. Len(now) + 1, i <= f[a], f[a] < i + Len(s)
    PROVE  q <= a /\ a < q + Len(s)
<1>1. q + Len(s) <= Len(now) + 1 /\ \A k \in 0 .. Len(s) - 1 : f[q + k] = i + k
  BY DEF Found, At
<1>2. f[a] \in Nat /\ f[q] \in Nat
  BY PieceBounds, PieceEnds
<1> PICK l \in Nat, N \in Nat : l = Len(s) /\ N = Len(now)
  OBVIOUS
<1>3. i \in Nat /\ q \in 1 .. N /\ a \in 1 .. N + 1
  OBVIOUS
<1>4. PICK k \in 0 .. l - 1 : f[a] = i + k
  <2>1. \A x \in Nat : i <= x /\ x < i + l
                     => x - i \in 0 .. l - 1 /\ i + (x - i) = x
    BY <1>3
  <2>2. f[a] - i \in 0 .. l - 1 /\ i + (f[a] - i) = f[a]
    BY <1>2, <2>1
  <2> QED
    BY <2>2
<1>5. f[q + k] = f[a] /\ q + l <= N + 1
  BY <1>1, <1>4
<1>6. PICK c \in 1 .. N + 1 : c = q + k
  <2>1. \A x, y \in Nat : x >= 1 /\ x + y < q + l /\ q + l <= N + 1 => x + y \in 1 .. N + 1
    BY <1>3
  <2>2. q \in Nat /\ k \in Nat /\ q >= 1 /\ q + k < q + l
    BY <1>3, <1>4
  <2> QED
    BY <1>5, <2>1, <2>2
<1>7. ~(f[c] < f[a]) /\ ~(f[a] < f[c])
  <2>1. f[c] = f[a]
    BY <1>5, <1>6
  <2>2. ~(f[a] < f[a])
    BY <1>2
  <2> QED
    BY <2>1, <2>2
<1>8. ~(c < a) /\ ~(a < c)
  BY <1>6, <1>7, PiecesInOrder
<1>9. c = a
  BY <1>3, <1>6, <1>8
<1>10. q <= a /\ a < q + l
  <2>1. q \in Nat /\ k \in Nat /\ k < l /\ a = q + k
    BY <1>3, <1>4, <1>6, <1>9
  <2> QED
    BY <2>1
<1> QED
  BY <1>10

\* An occurrence that is there when its secret's turn comes is taken as a whole: had
\* one been taken before it was reached, the two would overlap.
LEMMA TakenWhole ==
    ASSUME NEW now \in Seq(Symbols), NEW s \in Seq(Letters), s # <<>>, Apart(s, now),
           NEW after \in Seq(Symbols), NEW g, Trace(g, now, s, after, 1),
           NEW p \in DOMAIN after, ~At(s, now, g[p]),
           NEW q \in DOMAIN now, At(s, now, q)
    PROVE  ~(q <= g[p] /\ g[p] < q + Len(s))
<1> SUFFICES ASSUME q <= g[p], g[p] < q + Len(s) PROVE FALSE
  OBVIOUS
<1>1. Len(s) \in Nat /\ q \in Nat /\ Len(now) \in Nat /\ q <= Len(now)
  OBVIOUS
<1>2. Pieces(g, now, after)
  BY TraceIsCut
<1>3. PICK o \in DOMAIN after : g[o] <= q /\ q < g[o + 1]
  BY <1>2, InPiece
<1>4. /\ g[p] \in Nat
      /\ g[o] \in 1 .. Len(now) + 1 /\ g[o] \in Nat
  <2>1. o \in 1 .. Len(after) + 1
    BY <1>2, PieceEnds
  <2> QED
    BY <1>2, <2>1, PieceBounds, PieceEnds
<1>5. q < g[p]
  <2>1. q # g[p]
    OBVIOUS
  <2> QED
    BY <1>1, <1>4, <2>1
<1>6. CASE ~At(s, now, g[o])
  <2>1. g[o + 1] = g[o] + 1
    BY <1>6 DEF Trace
  <2>2. g[o] = q
    BY <1>1, <1>3, <1>4, <2>1
  <2> QED
    BY <1>6, <2>2
<1>7. CASE At(s, now, g[o])
  <2>1. g[o + 1] = g[o] + Len(s)
    BY <1>7 DEF Trace
  <2>2. CASE g[o] = q
    <3>1. g[o] < g[p] /\ g[p] < g[o + 1]
      BY <1>5, <2>1, <2>2
    <3> QED
      BY <1>2, <3>1, NoneBetween
  <2>3. CASE g[o] # q
    <3>1. g[o] < q /\ g[o] \in DOMAIN now
      BY <1>1, <1>3, <1>4, <2>3
    <3>2. g[o] + Len(s) <= q
      BY <1>7, <3>1 DEF Apart
    <3> QED
      BY <1>1, <1>3, <1>4, <2>1, <3>2
  <2> QED
    BY <2>2, <2>3
<1> QED
  BY <1>6, <1>7

\* A letter that one replacement kept is in no occurrence of the secret in the data.
LEMMA KeptIsOutside ==
    ASSUME NEW data \in Seq(Letters), NEW secrets \in Seq(Seq(Letters)),
           Nested(secrets, data), NEW I \in SUBSET DOMAIN secrets,
           NEW m \in DOMAIN secrets, secrets[m] # <<>>,
           \A n \in I : Len(secrets[m]) <= Len(secrets[n]),
           NEW now \in Seq(Symbols), NEW f, Cover(f, secrets, I, data, now),
           NEW after \in Seq(Symbols), NEW g, Trace(g, now, secrets[m], after, 1),
           NEW p \in DOMAIN after, ~At(secrets[m], now, g[p]),
           ~Covered(secrets, I, data, f[g[p]])
    PROVE  ~Covered(secrets, {m}, data, f[g[p]])
<1> PICK s \in Seq(Letters) : s = secrets[m]
  OBVIOUS
<1>1. /\ s # <<>> /\ Len(s) \in Nat /\ Pieces(f, data, now) /\ data \in Seq(Symbols)
      /\ Trace(g, now, s, after, 1) /\ ~At(s, now, g[p])
  BY DEF Cover, Symbols
<1>2. Pieces(g, now, after)
  BY <1>1, TraceIsCut
<1> SUFFICES ASSUME NEW i \in DOMAIN data, At(s, data, i),
                    i <= f[g[p]], f[g[p]] < i + Len(s)
             PROVE  FALSE
  BY DEF Covered
<1>3. /\ i \in Nat /\ f[g[p]] \in i .. i + Len(s) - 1
      /\ g[p] \in 1 .. Len(now) + 1
  <2>1. g[p] \in 1 .. Len(now) + 1
    BY <1>2, PieceEnds, PieceBounds
  <2>2. f[g[p]] \in Nat
    BY <1>1, <2>1, PieceBounds
  <2>3. i \in Nat
    OBVIOUS
  <2>4. \A x, l \in Nat : i <= x /\ x < i + l => x \in i .. i + l - 1
    BY <2>3
  <2> QED
    BY <1>1, <2>1, <2>2, <2>3, <2>4
<1>4. \A e \in i .. i + Len(s) - 1 : ~Covered(secrets, I, data, e)
  BY <1>3, WhollyCovered
<1>5. PICK q \in DOMAIN now : Found(q, f, s, now, i)
  BY <1>1, <1>4, StillThere
<1>6. Apart(s, data)
  BY NoSelfOverlap DEF Apart
<1>7. Apart(s, now)
  BY <1>1, <1>6, StillApart
<1>8. q <= g[p] /\ g[p] < q + Len(s)
  BY <1>1, <1>3, <1>5, Within
<1>9. At(s, now, q)
  BY <1>5 DEF Found
<1> QED
  BY <1>1, <1>7, <1>8, <1>9, TakenWhole

\* A secret's turn: no occurrence of it is left, none of the earlier ones comes back,
\* what its masks stand for it covers, and what was kept it does not cover.
LEMMA SecretsTurn ==
    ASSUME NEW data \in Seq(Letters), NEW secrets \in Seq(Seq(Letters)),
           NEW I \in SUBSET DOMAIN secrets, NEW m \in DOMAIN secrets, secrets[m] # <<>>,
           \A n \in I : secrets[n] # <<>> /\ Len(secrets[m]) <= Len(secrets[n]),
           NEW now, Masked(secrets, I, data, now)
    PROVE  Masked(secrets, I \cup {m}, data, Replace(now, secrets[m]))
<1> PICK s \in Seq(Letters) : s = secrets[m]
  OBVIOUS
<1> DEFINE after == Replace(now, s)
<1>1. now \in Seq(Symbols) /\ data \in Seq(Symbols) /\ s # <<>>
  BY DEF Masked, Symbols
<1>2. after \in Seq(Symbols) /\ \E g : Trace(g, now, s, after, 1)
  BY <1>1, ReplaceTraced
<1> HIDE DEF after
<1>3. PICK g : Trace(g, now, s, after, 1)
  BY <1>2
<1>4. Pieces(g, now, after)
  BY <1>1, <1>2, <1>3, TraceIsCut
<1>5. PICK f : Cover(f, secrets, I, data, now) /\ Pieces(f, data, now)
  BY DEF Masked, Cover
<1> DEFINE h == [p \in 1 .. Len(after) + 1 |-> f[g[p]]]
<1>6. Pieces(h, data, after)
  BY <1>1, <1>2, <1>4, <1>5, PiecesCompose
<1>7. ASSUME NEW p \in DOMAIN after
      PROVE  /\ p \in 1 .. Len(after) + 1 /\ p + 1 \in 1 .. Len(after) + 1
             /\ h[p] = f[g[p]] /\ h[p + 1] = f[g[p + 1]] /\ g[p] \in DOMAIN now
  <2>1. p \in 1 .. Len(after) + 1 /\ p + 1 \in 1 .. Len(after) + 1
    BY <1>2
  <2>2. g[p] \in DOMAIN now
    BY <1>1, <1>2, <1>4, PieceEnds
  <2> QED
    BY <2>1, <2>2
<1> HIDE DEF h
<1>8. ASSUME NEW d, Covered(secrets, I, data, d) \/ Covered(secrets, {m}, data, d)
      PROVE  Covered(secrets, I \cup {m}, data, d)
  BY <1>8 DEF Covered
<1>9. ASSUME NEW d, Covered(secrets, I \cup {m}, data, d)
      PROVE  Covered(secrets, I, data, d) \/ Covered(secrets, {m}, data, d)
  BY <1>9 DEF Covered
<1>10. ASSUME NEW p \in DOMAIN after, after[p] = Mask,
              NEW d \in h[p] .. h[p + 1] - 1
       PROVE  Covered(secrets, I \cup {m}, data, d)
  <2>1. CASE At(s, now, g[p]) /\ g[p + 1] = g[p] + Len(s)
    <3>1. /\ At(s, data, f[g[p]])
          /\ \A k \in 0 .. Len(s) : f[g[p] + k] = f[g[p]] + k
      <4>1. g[p] \in DOMAIN now /\ At(s, now, g[p])
        BY <1>7, <2>1
      <4>2. Pieces(f, data, now)
        BY <1>5
      <4> QED
        BY <1>1, <4>1, <4>2, Lift
    <3>2. Len(s) \in 0 .. Len(s) /\ Len(s) \in Nat /\ Len(s) >= 1
      BY <1>1
    <3>3. h[p + 1] = h[p] + Len(s) /\ At(s, data, h[p])
      BY <1>7, <2>1, <3>1, <3>2
    <3>4. h[p] \in Nat /\ h[p] \in 1 .. Len(data) + 1
      BY <1>6, <1>7 DEF Pieces
    <3>5. h[p] <= d /\ d < h[p] + Len(s)
      BY <3>2, <3>3, <3>4
    <3>6. h[p] \in DOMAIN data
      BY <3>2, <3>3, <3>4 DEF At
    <3>7. Covered(secrets, {m}, data, d)
      BY <3>3, <3>5, <3>6 DEF Covered
    <3> QED
      BY <1>8, <3>7
  <2>2. CASE after[p] = now[g[p]] /\ g[p + 1] = g[p] + 1
    <3>1. now[g[p]] = Mask /\ d \in f[g[p]] .. f[g[p] + 1] - 1
      BY <1>7, <1>10, <2>2
    <3>2. Covered(secrets, I, data, d)
      BY <1>5, <1>7, <3>1 DEF Cover
    <3> QED
      BY <1>8, <3>2
  <2> QED
    BY <1>3, <2>1, <2>2 DEF Trace
<1>11. ASSUME NEW p \in DOMAIN after, after[p] # Mask, Nested(secrets, data)
       PROVE  ~Covered(secrets, I \cup {m}, data, h[p])
  <2>1. ~At(s, now, g[p]) /\ after[p] = now[g[p]]
    BY <1>3, <1>11 DEF Trace
  <2>2. ~Covered(secrets, I, data, f[g[p]])
    BY <1>5, <1>7, <1>11, <2>1 DEF Cover
  <2>3. ~Covered(secrets, {m}, data, f[g[p]])
    BY <1>1, <1>2, <1>3, <1>5, <1>11, <2>1, <2>2, KeptIsOutside
  <2> QED
    BY <1>7, <1>9, <2>2, <2>3
<1>12. Cover(h, secrets, I \cup {m}, data, after)
  BY <1>6, <1>10, <1>11 DEF Cover
<1>13. ASSUME NEW n \in I \cup {m}, NEW i \in DOMAIN after, At(secrets[n], after, i)
       PROVE  FALSE
  <2> PICK u \in Seq(Letters) : u = secrets[n]
    OBVIOUS
  <2>1. u # <<>> /\ At(u, after, i)
    BY <1>13
  <2>2. At(u, now, g[i])
    BY <1>1, <1>2, <1>4, <2>1, Lift
  <2>3. CASE n \in I
    BY <1>7, <2>2, <2>3 DEF Masked
  <2>4. CASE n = m
    <3>1. after[i] = Mask
      BY <1>3, <2>2, <2>4 DEF Trace
    <3>2. after[i] = u[1] /\ u[1] \in Letters
      <4>1. 1 \in DOMAIN u /\ i \in Nat /\ i + 1 - 1 = i
        BY <1>2, <2>1
      <4> QED
        BY <2>1, <4>1 DEF At
    <3> QED
      BY <3>1, <3>2, MaskAssumption
  <2> QED
    BY <2>3, <2>4
<1>14. Masked(secrets, I \cup {m}, data, after)
  BY <1>2, <1>12, <1>13 DEF Masked
<1> QED
  BY <1>14 DEF after

---------------------------------------------------------------------------------
(* The order of the secrets, and all of them. *)

\* Of some secrets there is one that comes last.
LEMMA LastOf ==
    ASSUME NEW secrets \in Seq(Seq(Letters)), NEW S \in SUBSET DOMAIN secrets, S # {}
    PROVE  \E x \in S : \A y \in S : y # x => Before(secrets, y, x)
<1> DEFINE lengths == {Len(secrets[y]) : y \in S}
<1>1. \A y \in S : Len(secrets[y]) \in Nat /\ y \in Nat /\ y <= Len(secrets)
  OBVIOUS
<1>2. PICK least \in lengths : \A n \in lengths : least <= n
  <2>1. lengths \subseteq Nat /\ lengths # {}
    BY <1>1
  <2> QED
    BY <2>1, Least
<1> DEFINE short == {y \in S : Len(secrets[y]) = least}
           fromEnd == {Len(secrets) - y : y \in short}
<1>3. PICK e \in fromEnd : \A n \in fromEnd : e <= n
  <2>1. fromEnd \subseteq Nat /\ fromEnd # {}
    BY <1>1, <1>2
  <2> HIDE DEF fromEnd
  <2> QED
    BY <2>1, Least
<1>4. PICK x \in short : e = Len(secrets) - x
  BY <1>3
<1>5. \A y \in S : least <= Len(secrets[y])
  BY <1>2
<1>6. \A y \in S : Len(secrets[y]) = least => Len(secrets) - x <= Len(secrets) - y
  BY <1>3, <1>4
<1>7. x \in S /\ Len(secrets[x]) = least
  BY <1>4
<1> HIDE DEF lengths, short, fromEnd
<1>8. ASSUME NEW y \in S, y # x PROVE Before(secrets, y, x)
  <2>1. /\ Len(secrets[y]) \in Nat /\ Len(secrets[x]) \in Nat
        /\ y \in Nat /\ x \in Nat /\ Len(secrets) \in Nat
    BY <1>1, <1>7
  <2>2. CASE Len(secrets[y]) = Len(secrets[x])
    <3>1. Len(secrets) - x <= Len(secrets) - y
      BY <1>6, <1>7, <2>2
    <3>2. y < x
      BY <1>8, <2>1, <3>1
    <3> QED
      BY <2>2, <3>2 DEF Before
  <2>3. CASE Len(secrets[y]) # Len(secrets[x])
    <3>1. Len(secrets[y]) > Len(secrets[x])
      BY <1>5, <1>7, <2>1, <2>3
    <3> QED
      BY <3>1 DEF Before
  <2> QED
    BY <2>2, <2>3
<1> QED
  BY <1>7, <1>8

\* The secrets at any positions can be put in order.
LEMMA OrderExists ==
    ASSUME NEW secrets \in Seq(Seq(Letters)), NEW S \in SUBSET DOMAIN secrets
    PROVE  /\ Cardinality(S) \in Nat
           /\ \E o \in [1 .. Cardinality(S) -> S] : Ordered(o, secrets, S)
<1>1. \A V \in SUBSET DOMAIN secrets : IsFiniteSet(V) /\ Cardinality(V) \in Nat
  <2>1. DOMAIN secrets = 1 .. Len(secrets) /\ Len(secrets) \in Int
    OBVIOUS
  <2>2. IsFiniteSet(DOMAIN secrets)
    BY <2>1, FS_Interval
  <2> QED
    BY <2>2, FS_Subset, FS_CardinalityType
<1> DEFINE Orderable(V) == \E o \in [1 .. Cardinality(V) -> V] : Ordered(o, secrets, V)
           T == {n \in Nat : \A V \in SUBSET DOMAIN secrets :
                                 Cardinality(V) = n => Orderable(V)}
<1>2. ASSUME NEW n \in Nat, \A m \in Nat : m < n => m \in T PROVE n \in T
  <2> SUFFICES ASSUME NEW V \in SUBSET DOMAIN secrets, Cardinality(V) = n
               PROVE  Orderable(V)
    OBVIOUS
  <2>1. CASE n = 0
    <3>1. V = {}
      BY <1>1, <2>1, FS_EmptySet
    <3> DEFINE o == [k \in 1 .. 0 |-> k]
    <3>2. o \in [1 .. 0 -> V] /\ Ordered(o, secrets, V)
      BY <3>1 DEF Ordered
    <3> QED
      BY <2>1, <3>2
  <2>2. CASE n # 0
    <3>1. V # {}
      BY <2>2, FS_EmptySet
    <3>2. PICK x \in V : \A y \in V : y # x => Before(secrets, y, x)
      BY <3>1, LastOf
    <3>3. PICK m \in Nat : m + 1 = n
      BY <2>2
    <3>4. Cardinality(V \ {x}) = m
      <4>1. IsFiniteSet(V)
        BY <1>1
      <4>2. Cardinality(V \ {x}) = Cardinality(V) - 1
        BY <4>1, FS_RemoveElement
      <4> QED
        BY <3>3, <4>2
    <3>5. Orderable(V \ {x})
      <4>1. m \in T /\ V \ {x} \in SUBSET DOMAIN secrets
        BY <1>2, <3>3
      <4> HIDE DEF Orderable
      <4> QED
        BY <3>4, <4>1
    <3>6. PICK o \in [1 .. m -> V \ {x}] : Ordered(o, secrets, V \ {x})
      BY <3>4, <3>5
    <3> DEFINE w == [k \in 1 .. n |-> IF k = n THEN x ELSE o[k]]
    <3>7. \A k \in 1 .. n : k # n => k \in 1 .. m
      BY <3>3
    <3>8. w \in [1 .. n -> V]
      BY <3>7
    <3>9. \A k \in 1 .. m : k \in 1 .. n /\ k # n /\ w[k] = o[k]
      BY <3>3
    <3>10. n \in 1 .. n /\ w[n] = x
      BY <3>3
    <3> HIDE DEF w
    <3>11. ASSUME NEW k \in DOMAIN w, NEW l \in DOMAIN w, k < l
           PROVE  Before(secrets, w[k], w[l])
      <4>1. k \in 1 .. n /\ l \in 1 .. n
        BY <3>8
      <4>2. k # n
        BY <3>11, <4>1
      <4>3. k \in 1 .. m /\ w[k] = o[k] /\ w[k] \in V \ {x}
        BY <3>7, <3>9, <4>1, <4>2
      <4>4. CASE l = n
        BY <3>2, <3>10, <4>3, <4>4
      <4>5. CASE l # n
        <5>1. l \in 1 .. m /\ w[l] = o[l]
          BY <3>7, <3>9, <4>1, <4>5
        <5> QED
          BY <3>6, <3>11, <4>3, <5>1 DEF Ordered
      <4> QED
        BY <4>4, <4>5
    <3>12. ASSUME NEW i \in V PROVE \E k \in DOMAIN w : w[k] = i
      <4>1. CASE i = x
        BY <3>8, <3>10, <4>1
      <4>2. CASE i # x
        <5>1. PICK k \in DOMAIN o : o[k] = i
          BY <3>6, <4>2 DEF Ordered
        <5>2. k \in 1 .. m
          BY <5>1
        <5> QED
          BY <3>8, <3>9, <5>1, <5>2
      <4> QED
        BY <4>1, <4>2
    <3>13. Ordered(w, secrets, V)
      BY <3>11, <3>12 DEF Ordered
    <3> QED
      BY <3>8, <3>13
  <2> QED
    BY <2>1, <2>2
<1>3. Nat \subseteq T
  <2> HIDE DEF T
  <2> QED
    BY <1>2, Induction
<1>4. Orderable(S)
  <2> HIDE DEF Orderable
  <2> QED
    BY <1>1, <1>3
<1> QED
  BY <1>1, <1>4

\* Every secret that is not empty has its turn, and none before a longer one.
LEMMA TurnsTaken ==
    ASSUME NEW secrets \in Seq(Seq(Letters))
    PROVE  /\ Cardinality(Held(secrets)) \in Nat
           /\ \E o \in [1 .. Cardinality(Held(secrets)) -> Held(secrets)] :
                 /\ Ordered(o, secrets, Held(secrets))
                 /\ LongestFirst(secrets)
                       = [n \in 1 .. Cardinality(Held(secrets)) |-> secrets[o[n]]]
<1> DEFINE held == Held(secrets)
           c == Cardinality(held)
           o == CHOOSE w \in [1 .. c -> held] : Ordered(w, secrets, held)
<1>1. c \in Nat /\ \E w \in [1 .. c -> held] : Ordered(w, secrets, held)
  <2>1. held \in SUBSET DOMAIN secrets
    BY DEF Held
  <2> HIDE DEF held
  <2> QED
    BY <2>1, OrderExists
<1>2. o \in [1 .. c -> held] /\ Ordered(o, secrets, held)
  BY <1>1
<1>3. LongestFirst(secrets) = [n \in 1 .. c |-> secrets[o[n]]]
  BY DEF LongestFirst
<1> QED
  BY <1>1, <1>2, <1>3

\* A function on 1 .. n is a sequence.
LEMMA FunctionIsSeq ==
    ASSUME NEW S, NEW n \in Nat, NEW f \in [1 .. n -> S]
    PROVE  f \in Seq(S) /\ Len(f) = n
  OBVIOUS

\* What a secret's turn makes of the data as the turn before left it.
TurnOf(data, order, masked, n) ==
    IF n = 0 THEN data ELSE Replace(masked[n - 1], order[n])

Turns(masked, data, order, c) ==
    masked = [n \in 0 .. c |-> TurnOf(data, order, masked, n)]

\* The recursion over the secrets is well founded.
LEMMA TurnsExist ==
    ASSUME NEW data, NEW order, NEW c \in Nat
    PROVE  \E masked : Turns(masked, data, order, c)
<1> DEFINE Of(h, n) == TurnOf(data, order, h, n)
           Is(h, m) == h = [n \in 0 .. m |-> Of(h, n)]
           T == {m \in Nat : \E h : Is(h, m)}
<1> USE DEF TurnOf
<1>1. ASSUME NEW m \in Nat, \A k \in Nat : k < m => k \in T PROVE m \in T
  <2>1. CASE m = 0
    <3> DEFINE h == [n \in 0 .. 0 |-> data]
    <3>1. Is(h, 0)
      OBVIOUS
    <3> QED
      BY <2>1, <3>1
  <2>2. CASE m # 0
    <3>1. m - 1 \in Nat /\ m - 1 < m
      BY <2>2
    <3>2. PICK h : Is(h, m - 1)
      BY <1>1, <3>1
    <3> DEFINE x == Of(h, m)
               w == [n \in 0 .. m |-> IF n = m THEN x ELSE h[n]]
    <3> HIDE DEF x
    <3>3. \A n \in 0 .. m : n # m => n \in 0 .. m - 1 /\ w[n] = h[n]
      OBVIOUS
    <3>4. ASSUME NEW n \in 0 .. m PROVE Of(w, n) = Of(h, n)
      <4>1. n # 0 => n - 1 \in 0 .. m /\ n - 1 # m
        OBVIOUS
      <4>2. n # 0 => w[n - 1] = h[n - 1]
        BY <3>3, <4>1
      <4> HIDE DEF w
      <4> QED
        BY <4>2
    <3>5. ASSUME NEW n \in 0 .. m PROVE w[n] = Of(w, n)
      <4>1. CASE n = m
        BY <3>4, <4>1 DEF x
      <4>2. CASE n # m
        <5>1. h[n] = Of(h, n)
          BY <3>2, <3>3, <4>2
        <5> QED
          BY <3>3, <3>4, <4>2, <5>1
      <4> QED
        BY <4>1, <4>2
    <3> HIDE DEF Of
    <3>6. Is(w, m)
      BY <3>5
    <3> QED
      BY <3>6
  <2> QED
    BY <2>1, <2>2
<1>2. Nat \subseteq T
  <2> HIDE DEF T
  <2> QED
    BY <1>1, Induction
<1> QED
  BY <1>2 DEF Turns

\* Before the first secret's turn.
LEMMA Untouched ==
    ASSUME NEW data \in Seq(Letters), NEW secrets \in Seq(Seq(Letters))
    PROVE  Masked(secrets, {}, data, data)
<1> DEFINE f == [p \in 1 .. Len(data) + 1 |-> p]
<1>1. data \in Seq(Symbols) /\ \A p \in DOMAIN data : data[p] # Mask
  BY MaskAssumption DEF Symbols
<1>2. Pieces(f, data, data)
  BY DEF Pieces
<1>3. Cover(f, secrets, {}, data, data)
  BY <1>1, <1>2 DEF Cover, Covered
<1> QED
  BY <1>1, <1>3 DEF Masked

\* Once every secret has had its turn, the data is as it may be stored.
LEMMA AllTaken ==
    ASSUME NEW data \in Seq(Letters), NEW secrets \in Seq(Seq(Letters)),
           NEW stored, Masked(secrets, Held(secrets), data, stored)
    PROVE  WellMasked(data, secrets, stored)
<1>1. ASSUME NEW d \in Nat
      PROVE  Covered(secrets, Held(secrets), data, d) <=> InSecret(secrets, data, d)
  <2>1. \A n \in DOMAIN secrets \ Held(secrets) : Len(secrets[n]) = 0
    BY DEF Held
  <2>2. ASSUME NEW n \in DOMAIN secrets, NEW i \in DOMAIN data,
               i <= d, d < i + Len(secrets[n])
        PROVE  n \in Held(secrets)
    BY <2>1, <2>2
  <2>3. Held(secrets) \subseteq DOMAIN secrets
    BY DEF Held
  <2> QED
    BY <2>2, <2>3 DEF Covered, InSecret
<1>2. PICK f : Cover(f, secrets, Held(secrets), data, stored)
  BY DEF Masked
<1>3. stored \in Seq(Symbols) /\ Pieces(f, data, stored)
  BY <1>2 DEF Masked, Cover
<1>4. ASSUME NEW p \in DOMAIN stored
      PROVE  \/ /\ f[p + 1] = f[p] + 1 /\ stored[p] = data[f[p]]
                /\ Nested(secrets, data) => ~InSecret(secrets, data, f[p])
             \/ /\ f[p] < f[p + 1] /\ stored[p] = Mask
                /\ \A d \in f[p] .. f[p + 1] - 1 : InSecret(secrets, data, d)
  <2>0. f[p] \in Nat /\ f[p + 1] \in Nat
    <3>1. p \in 1 .. Len(stored) + 1 /\ p + 1 \in 1 .. Len(stored) + 1
      BY <1>3
    <3> QED
      BY <1>3, <3>1 DEF Pieces
  <2>1. CASE stored[p] = Mask
    <3>1. \A d \in f[p] .. f[p + 1] - 1 : d \in Nat /\ InSecret(secrets, data, d)
      BY <1>1, <1>2, <2>0, <2>1 DEF Cover
    <3> QED
      BY <1>3, <2>1, <3>1 DEF Pieces
  <2>2. CASE stored[p] # Mask
    <3>1. Nested(secrets, data) => ~InSecret(secrets, data, f[p])
      BY <1>1, <1>2, <2>0, <2>2 DEF Cover
    <3> QED
      BY <1>3, <2>2, <3>1 DEF Pieces
  <2> QED
    BY <2>1, <2>2
<1>5. Cut(f, secrets, data, stored)
  BY <1>3, <1>4 DEF Cut, Pieces
<1>6. NoneLeft(secrets, stored)
  BY DEF NoneLeft, Masked
<1> QED
  BY <1>3, <1>5, <1>6 DEF WellMasked, Pieces

\* _redact_body_bytes masks as it should, whatever the body and the secrets: no secret
\* is left, every mask stands for letters of secrets, every other letter is still
\* there, and where secrets only nest no letter of theirs is.
THEOREM RedactionCorrect ==
    ASSUME NEW data \in Seq(Letters), NEW secrets \in Seq(Seq(Letters))
    PROVE  WellMasked(data, secrets, redact_body_bytes(data, secrets))
<1> PICK held : held = Held(secrets)
  OBVIOUS
<1> PICK c \in Nat : c = Cardinality(held)
  BY TurnsTaken
<1>1. PICK o \in [1 .. c -> held] :
         /\ Ordered(o, secrets, held)
         /\ LongestFirst(secrets) = [n \in 1 .. c |-> secrets[o[n]]]
  BY TurnsTaken
<1> PICK order : order = [n \in 1 .. c |-> secrets[o[n]]]
  OBVIOUS
<1>2. \A i \in held : i \in DOMAIN secrets /\ secrets[i] # <<>> /\ secrets[i] \in Seq(Letters)
  BY DEF Held
<1>3. order \in Seq(Seq(Letters)) /\ Len(order) = c
  <2>1. order \in [1 .. c -> Seq(Letters)]
    BY <1>1, <1>2
  <2> QED
    BY <2>1, FunctionIsSeq
<1> DEFINE masked[n \in 0 .. Len(order)] ==
              IF n = 0 THEN data ELSE Replace(masked[n - 1], order[n])
<1>4. redact_body_bytes(data, secrets) = masked[Len(order)]
  BY <1>1 DEF redact_body_bytes
<1>5. masked = [n \in 0 .. c |-> TurnOf(data, order, masked, n)]
  <2>1. masked = CHOOSE h : Turns(h, data, order, c)
    BY <1>3 DEF TurnOf, Turns
  <2>2. \E h : Turns(h, data, order, c)
    BY TurnsExist
  <2> HIDE DEF masked
  <2> QED
    BY <2>1, <2>2 DEF Turns
<1> HIDE DEF masked
<1> DEFINE Taken(n) == {o[k] : k \in 1 .. n}
           T == {n \in Nat : n <= c => Masked(secrets, Taken(n), data, masked[n])}
<1>6. ASSUME NEW n \in Nat, \A m \in Nat : m < n => m \in T PROVE n \in T
  <2> SUFFICES ASSUME n <= c PROVE Masked(secrets, Taken(n), data, masked[n])
    OBVIOUS
  <2>1. CASE n = 0
    <3>1. Taken(0) = {} /\ masked[0] = data
      BY <1>5 DEF TurnOf
    <3> QED
      BY <2>1, <3>1, Untouched
  <2>2. CASE n # 0
    <3>1. PICK m \in Nat : m + 1 = n
      BY <2>2
    <3>2. n \in 1 .. c /\ n \in 0 .. c /\ n - 1 = m /\ m < n /\ m <= c
      BY <3>1
    <3>3. Masked(secrets, Taken(m), data, masked[m])
      BY <1>6, <3>2
    <3>4. masked[n] = Replace(masked[m], secrets[o[n]])
      BY <1>5, <2>2, <3>2 DEF TurnOf
    <3>5. Taken(n) = Taken(m) \cup {o[n]}
      <4>1. 1 .. n = 1 .. m \cup {n}
        BY <3>1
      <4> QED
        BY <4>1
    <3>6. \A k \in 1 .. m : k \in 1 .. c /\ k < n
      BY <3>1, <3>2
    <3>7. \A k \in 1 .. m : Before(secrets, o[k], o[n])
      BY <1>1, <3>2, <3>6 DEF Ordered
    <3>8. ASSUME NEW i \in Taken(m)
          PROVE  /\ i \in DOMAIN secrets /\ secrets[i] # <<>>
                 /\ Len(secrets[o[n]]) <= Len(secrets[i])
      <4>1. PICK k \in 1 .. m : i = o[k]
        OBVIOUS
      <4>2. i \in held /\ o[n] \in held
        BY <3>2, <3>6, <4>1
      <4>3. Len(secrets[i]) \in Nat /\ Len(secrets[o[n]]) \in Nat
        BY <1>2, <4>2
      <4>4. Before(secrets, i, o[n])
        BY <3>7, <4>1
      <4> QED
        BY <1>2, <4>2, <4>3, <4>4 DEF Before
    <3>9. o[n] \in DOMAIN secrets /\ secrets[o[n]] # <<>>
      BY <1>2, <3>2
    <3> HIDE DEF Taken
    <3>10. Taken(m) \in SUBSET DOMAIN secrets
      BY <3>8
    <3>11. Masked(secrets, Taken(m) \cup {o[n]}, data, Replace(masked[m], secrets[o[n]]))
      BY <3>3, <3>8, <3>9, <3>10, SecretsTurn
    <3> QED
      BY <3>4, <3>5, <3>11
  <2> QED
    BY <2>1, <2>2
<1>7. Nat \subseteq T
  <2> HIDE DEF T
  <2> QED
    BY <1>6, Induction
<1>8. Taken(c) = held
  BY <1>1 DEF Ordered
<1>9. Masked(secrets, held, data, masked[c])
  <2>1. c \in T
    BY <1>7
  <2>2. Masked(secrets, Taken(c), data, masked[c])
    BY <2>1
  <2> QED
    BY <1>8, <2>2
<1> QED
  BY <1>3, <1>4, <1>9, AllTaken
=================================================================================
