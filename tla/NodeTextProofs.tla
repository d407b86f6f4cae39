--------------------------- MODULE NodeTextProofs ---------------------------
(***************************************************************************)
(* Proofs about NodeText, for every document, every node and every way a   *)
(* reader cuts its slices.                                                 *)
(***************************************************************************)
EXTENDS NodeText, FiniteSetTheorems, SequenceTheorems, WellFoundedInduction, TLAPS

-----------------------------------------------------------------------------
(* Positions in the document.                                               *)

LEMMA LeastNumber ==
  ASSUME NEW T, T \subseteq Nat, T # {}
  PROVE  \E x \in T : \A y \in T : x <= y
<1>1. PICK x \in T : \A y \in T : ~(<<y, x>> \in OpToRel(<, Nat))
  BY NatLessThanWellFounded, WFMin
<1>2. ASSUME NEW y \in T, y < x  PROVE  FALSE
  <2>1. <<y, x>> \in Nat \X Nat /\ <<y, x>>[1] < <<y, x>>[2]
    BY <1>2
  <2>. QED  BY <1>1, <2>1 DEF OpToRel
<1>. QED  BY <1>2

Newlines(n) == {i \in 1..n : Text[i] = Newline}
LastLine(n) == {i \in 1..n : \A j \in i..n : Text[j] # Newline}

LEMMA FiniteParts ==
  ASSUME NEW n \in Nat
  PROVE  /\ IsFiniteSet(Newlines(n)) /\ Cardinality(Newlines(n)) \in Nat
         /\ IsFiniteSet(LastLine(n)) /\ Cardinality(LastLine(n)) \in Nat
<1>1. IsFiniteSet(1..n)
  BY FS_Interval
<1>2. Newlines(n) \subseteq 1..n /\ LastLine(n) \subseteq 1..n
  BY DEF Newlines, LastLine
<1>3. IsFiniteSet(Newlines(n)) /\ IsFiniteSet(LastLine(n))
  BY <1>1, <1>2, FS_Subset
<1>. QED  BY <1>3, FS_CardinalityType

LEMMA PointType ==
  ASSUME NEW n \in Nat
  PROVE  /\ PointAt(n) \in Points
         /\ PointAt(n) = [row |-> Cardinality(Newlines(n)), column |-> Cardinality(LastLine(n))]
<1>1. PointAt(n) = [row |-> Cardinality(Newlines(n)), column |-> Cardinality(LastLine(n))]
  BY DEF PointAt, Newlines, LastLine
<1>. QED  BY <1>1, FiniteParts DEF Points

LEMMA PointAtStart == PointAt(0) = [row |-> 0, column |-> 0]
<1>1. Newlines(0) = {} /\ LastLine(0) = {}
  BY DEF Newlines, LastLine
<1>. QED  BY <1>1, PointType, FS_EmptySet

(* The position after one more byte.                                        *)
LEMMA PointStep ==
  ASSUME NEW n \in Nat
  PROVE  PointAt(n + 1) = AfterByte(PointAt(n), Text[n + 1])
<1>1. n + 1 \in Nat /\ n + 1 \notin Newlines(n) /\ n + 1 \notin LastLine(n)
  BY DEF Newlines, LastLine
<1>2. 1..(n + 1) = (1..n) \cup {n + 1}
  OBVIOUS
<1>3. CASE Text[n + 1] = Newline
  <2>1. Newlines(n + 1) = Newlines(n) \cup {n + 1}
    BY <1>2, <1>3 DEF Newlines
  <2>2. LastLine(n + 1) = {}
    <3>1. \A i \in 1..(n + 1) : n + 1 \in i..(n + 1)
      OBVIOUS
    <3>. QED  BY <1>3, <3>1 DEF LastLine
  <2>3. Cardinality(Newlines(n + 1)) = Cardinality(Newlines(n)) + 1
    BY <1>1, <2>1, FiniteParts, FS_AddElement
  <2>4. Cardinality(LastLine(n + 1)) = 0
    BY <2>2, FS_EmptySet
  <2>. QED  BY <1>1, <1>3, <2>3, <2>4, PointType DEF AfterByte
<1>4. CASE Text[n + 1] # Newline
  <2>1. Newlines(n + 1) = Newlines(n)
    BY <1>2, <1>4 DEF Newlines
  <2>2. LastLine(n + 1) = LastLine(n) \cup {n + 1}
    <3>1. \A i \in 1..n : i..(n + 1) = (i..n) \cup {n + 1}
      OBVIOUS
    <3>2. \A i \in 1..n : (\A j \in i..(n + 1) : Text[j] # Newline)
                             <=> (\A j \in i..n : Text[j] # Newline)
      BY <1>4, <3>1
    <3>3. (n + 1)..(n + 1) = {n + 1}
      OBVIOUS
    <3>4. \A j \in (n + 1)..(n + 1) : Text[j] # Newline
      BY <1>4, <3>3
    <3>. QED  BY <1>2, <3>2, <3>4 DEF LastLine
  <2>3. Cardinality(LastLine(n + 1)) = Cardinality(LastLine(n)) + 1
    BY <1>1, <2>2, FiniteParts, FS_AddElement
  <2>. QED  BY <1>1, <1>4, <2>1, <2>3, PointType DEF AfterByte
<1>. QED  BY <1>3, <1>4

LEMMA AfterByteType ==
  ASSUME NEW p \in Points, NEW c
  PROVE  /\ AfterByte(p, c) \in Points
         /\ \/ AfterByte(p, c).row = p.row + 1
            \/ AfterByte(p, c).row = p.row /\ AfterByte(p, c).column = p.column + 1
BY DEF AfterByte, Points

(* Positions are met in order, so that no two bytes have the same one.      *)
Before(p, q) == p.row < q.row \/ (p.row = q.row /\ p.column < q.column)

LEMMA PointsAscend ==
  ASSUME NEW m \in Nat, NEW n \in Nat, m < n
  PROVE  Before(PointAt(m), PointAt(n))
<1>. DEFINE Bad == {d \in Nat : m < d /\ ~Before(PointAt(m), PointAt(d))}
<1>1. ASSUME NEW x \in Bad, \A y \in Bad : x <= y  PROVE  FALSE
  <2>1. x \in Nat /\ m < x /\ x - 1 \in Nat /\ (x - 1) + 1 = x
    OBVIOUS
  <2>2. PointAt(x) = AfterByte(PointAt(x - 1), Text[x])
    BY <2>1, PointStep
  <2>3. PointAt(m) \in Points /\ PointAt(x - 1) \in Points
    BY <2>1, PointType
  <2>4. m = x - 1 \/ Before(PointAt(m), PointAt(x - 1))
    BY <2>1, <1>1
  <2>5. Before(PointAt(m), PointAt(x))
    BY <2>2, <2>3, <2>4, AfterByteType DEF Before, Points
  <2>. QED  BY <2>5
<1>2. Bad \subseteq Nat
  OBVIOUS
<1>3. Bad = {}
  <2>. HIDE DEF Bad
  <2>. QED  BY <1>1, <1>2, LeastNumber
<1>. QED  BY <1>3

LEMMA PointsDiffer ==
  ASSUME NEW m \in Nat, NEW n \in Nat, PointAt(m) = PointAt(n)
  PROVE  m = n
<1>1. PointAt(m) \in Points
  BY PointType
<1>2. ~Before(PointAt(m), PointAt(n)) /\ ~Before(PointAt(n), PointAt(m))
  BY <1>1 DEF Before, Points
<1>. QED  BY <1>2, PointsAscend

-----------------------------------------------------------------------------
(* The loop over the bytes of a chunk.                                      *)

(* The recursion has a solution on every prefix: else on a shortest one it  *)
(* has none, and the solution on the one before can be extended.            *)
LEMMA AdvanceFunction ==
  ASSUME NEW p, NEW S, NEW bytes \in Seq(S)
  PROVE  \E f : /\ f[0] = p
                /\ \A k \in 1..Len(bytes) : f[k] = AfterByte(f[k - 1], bytes[k])
                /\ Advance(p, bytes) = f[Len(bytes)]
<1>. DEFINE Step(f, k) == IF k = 0 THEN p ELSE AfterByte(f[k - 1], bytes[k])
            Solves(f, n) == f = [k \in 0..n |-> Step(f, k)]
            Bad == {n \in Nat : ~\E f : Solves(f, n)}
<1>1. 0 \notin Bad
  <2>. DEFINE f == [k \in 0..0 |-> p]
  <2>1. \A k \in 0..0 : Step(f, k) = p
    OBVIOUS
  <2>2. Solves(f, 0)
    BY <2>1
  <2>. QED  BY <2>2
<1>2. ASSUME NEW n \in Nat, n + 1 \in Bad  PROVE  n \in Bad
  <2>1. SUFFICES ASSUME NEW f, Solves(f, n)  PROVE  FALSE
    OBVIOUS
  <2>. DEFINE g == [k \in 0..(n + 1) |-> IF k = n + 1 THEN Step(f, n + 1) ELSE f[k]]
  <2>2. \A k \in 0..n : g[k] = f[k]
    OBVIOUS
  <2>3. \A k \in 0..(n + 1) : k # 0 => g[k - 1] = f[k - 1]
    <3>1. \A k \in 0..(n + 1) : k # 0 => k - 1 \in 0..n
      OBVIOUS
    <3>. HIDE DEF g
    <3>. QED  BY <3>1, <2>2
  <2>4. \A k \in 0..(n + 1) : Step(g, k) = Step(f, k)
    <3>. HIDE DEF g
    <3>. QED  BY <2>3
  <2>5. \A k \in 0..n : f[k] = Step(f, k)
    <3>. HIDE DEF Step
    <3>. QED  BY <2>1
  <2>6. \A k \in 0..(n + 1) : g[k] = Step(f, k)
    <3>. HIDE DEF Step
    <3>1. \A k \in 0..(n + 1) : k = n + 1 \/ k \in 0..n
      OBVIOUS
    <3>. QED  BY <2>2, <2>5, <3>1
  <2>7. Solves(g, n + 1)
    <3>1. g = [k \in 0..(n + 1) |-> g[k]]
      OBVIOUS
    <3>. HIDE DEF Step, g
    <3>. QED  BY <3>1, <2>4, <2>6
  <2>. HIDE DEF Solves, g
  <2>. QED  BY <2>7, <1>2
<1>3. Bad = {}
  <2>1. SUFFICES ASSUME Bad # {}  PROVE  FALSE
    OBVIOUS
  <2>2. Bad \subseteq Nat
    OBVIOUS
  <2>. HIDE DEF Bad
  <2>3. PICK x \in Bad : \A y \in Bad : x <= y
    BY <2>1, <2>2, LeastNumber
  <2>4. x \in Nat /\ x # 0 /\ x - 1 \in Nat /\ (x - 1) + 1 = x
    BY <2>2, <2>3, <1>1
  <2>5. x - 1 \in Bad
    BY <2>3, <2>4, <1>2
  <2>. QED  BY <2>3, <2>4, <2>5
<1>. DEFINE after == CHOOSE f : Solves(f, Len(bytes))
<1>4. Len(bytes) \in Nat /\ \A n \in Nat : n \notin Bad => \E f : Solves(f, n)
  OBVIOUS
<1>5. Solves(after, Len(bytes))
  <2>. HIDE DEF Solves, Bad
  <2>. QED  BY <1>3, <1>4
<1>6. Advance(p, bytes) = after[Len(bytes)]
  BY DEF Advance
<1>7. \A k \in 0..Len(bytes) : after[k] = Step(after, k)
  <2>. HIDE DEF Step, after
  <2>. QED  BY <1>5
<1>8. 0 \in 0..Len(bytes) /\ \A k \in 1..Len(bytes) : k \in 0..Len(bytes) /\ k # 0
  OBVIOUS
<1>9. after[0] = p /\ \A k \in 1..Len(bytes) : after[k] = AfterByte(after[k - 1], bytes[k])
  <2>. HIDE DEF after
  <2>. QED  BY <1>7, <1>8, Zenon
<1>. HIDE DEF after
<1>. QED  BY <1>6, <1>9

LEMMA AdvanceType ==
  ASSUME NEW p \in Points, NEW S, NEW bytes \in Seq(S)
  PROVE  Advance(p, bytes) \in Points
<1>1. PICK f : /\ f[0] = p
               /\ \A k \in 1..Len(bytes) : f[k] = AfterByte(f[k - 1], bytes[k])
               /\ Advance(p, bytes) = f[Len(bytes)]
  BY AdvanceFunction
<1>. DEFINE Bad == {k \in 0..Len(bytes) : f[k] \notin Points}
<1>2. ASSUME NEW x \in Bad, \A y \in Bad : x <= y  PROVE  FALSE
  <2>1. x \in 1..Len(bytes) /\ x - 1 \in 0..Len(bytes)
    BY <1>1
  <2>2. x - 1 \notin Bad
    BY <1>2, <2>1
  <2>3. f[x - 1] \in Points
    BY <2>1, <2>2
  <2>4. f[x] \in Points
    BY <2>1, <2>3, <1>1, AfterByteType
  <2>. QED  BY <2>4
<1>3. Bad \subseteq Nat
  OBVIOUS
<1>4. Bad = {}
  <2>. HIDE DEF Bad
  <2>. QED  BY <1>2, <1>3, LeastNumber
<1>. QED  BY <1>1, <1>4

(* The bytes that follow an offset lead to the position behind them.        *)
LEMMA AdvancePoint ==
  ASSUME NEW n \in Nat, NEW S, NEW bytes \in Seq(S),
         \A k \in 1..Len(bytes) : bytes[k] = Text[n + k]
  PROVE  Advance(PointAt(n), bytes) = PointAt(n + Len(bytes))
<1>1. PICK f : /\ f[0] = PointAt(n)
               /\ \A k \in 1..Len(bytes) : f[k] = AfterByte(f[k - 1], bytes[k])
               /\ Advance(PointAt(n), bytes) = f[Len(bytes)]
  BY AdvanceFunction
<1>. DEFINE Bad == {k \in 0..Len(bytes) : f[k] # PointAt(n + k)}
<1>2. ASSUME NEW x \in Bad, \A y \in Bad : x <= y  PROVE  FALSE
  <2>1. x # 0
    <3>1. n + 0 = n
      OBVIOUS
    <3>. QED  BY <3>1, <1>1
  <2>2. x \in 1..Len(bytes) /\ x - 1 \in 0..Len(bytes)
    BY <2>1
  <2>3. f[x - 1] = PointAt(n + (x - 1))
    BY <1>2, <2>2
  <2>4. n + (x - 1) \in Nat /\ (n + (x - 1)) + 1 = n + x
    BY <2>2
  <2>5. PointAt(n + x) = AfterByte(PointAt(n + (x - 1)), Text[n + x])
    BY <2>4, PointStep
  <2>6. f[x] = PointAt(n + x)
    BY <1>1, <2>2, <2>3, <2>5
  <2>. QED  BY <2>6
<1>3. Bad \subseteq Nat
  OBVIOUS
<1>4. Bad = {}
  <2>. HIDE DEF Bad
  <2>. QED  BY <1>2, <1>3, LeastNumber
<1>. QED  BY <1>1, <1>4

(* Two runs of the loop do what one over both chunks would.                 *)
LEMMA AdvanceTwice ==
  ASSUME NEW p, NEW S, NEW a \in Seq(S), NEW b \in Seq(S)
  PROVE  Advance(Advance(p, a), b) = Advance(p, a \o b)
<1>1. PICK f : /\ f[0] = p
               /\ \A k \in 1..Len(a) : f[k] = AfterByte(f[k - 1], a[k])
               /\ Advance(p, a) = f[Len(a)]
  BY AdvanceFunction
<1>2. PICK g : /\ g[0] = f[Len(a)]
               /\ \A k \in 1..Len(b) : g[k] = AfterByte(g[k - 1], b[k])
               /\ Advance(f[Len(a)], b) = g[Len(b)]
  BY AdvanceFunction
<1>. DEFINE ab == a \o b
<1>3. /\ ab \in Seq(S) /\ Len(ab) = Len(a) + Len(b) /\ Len(a) \in Nat /\ Len(b) \in Nat
      /\ \A k \in 1..Len(a) : ab[k] = a[k]
      /\ \A k \in 1..Len(b) : ab[Len(a) + k] = b[k]
  BY ConcatProperties
<1>. HIDE DEF ab
<1>31. ab \in Seq(S)
  BY <1>3
<1>4. PICK h : /\ h[0] = p
               /\ \A k \in 1..Len(ab) : h[k] = AfterByte(h[k - 1], ab[k])
               /\ Advance(p, ab) = h[Len(ab)]
  BY <1>31, AdvanceFunction
<1>5. \A k \in 0..Len(a) : h[k] = f[k]
  <2>. DEFINE Bad == {k \in 0..Len(a) : h[k] # f[k]}
  <2>1. ASSUME NEW x \in Bad, \A y \in Bad : x <= y  PROVE  FALSE
    <3>1. x \in 1..Len(a) /\ x \in 1..Len(ab) /\ x - 1 \in 0..Len(a) /\ x - 1 < x
      BY <1>1, <1>3, <1>4
    <3>2. h[x - 1] = f[x - 1]
      BY <2>1, <3>1
    <3>3. h[x] = AfterByte(h[x - 1], ab[x]) /\ f[x] = AfterByte(f[x - 1], a[x]) /\ ab[x] = a[x]
      BY <1>1, <1>3, <1>4, <3>1
    <3>. QED  BY <3>2, <3>3
  <2>2. Bad \subseteq Nat
    OBVIOUS
  <2>3. Bad = {}
    <3>. HIDE DEF Bad
    <3>. QED  BY <2>1, <2>2, LeastNumber
  <2>. QED  BY <2>3
<1>6. \A k \in 0..Len(b) : h[Len(a) + k] = g[k]
  <2>. DEFINE Bad == {k \in 0..Len(b) : h[Len(a) + k] # g[k]}
  <2>1. ASSUME NEW x \in Bad, \A y \in Bad : x <= y  PROVE  FALSE
    <3>1. h[Len(a) + 0] = g[0]
      BY <1>2, <1>3, <1>5
    <3>2. x \in 1..Len(b) /\ Len(a) + x \in 1..Len(ab) /\ x - 1 \in 0..Len(b) /\ x - 1 < x
      BY <1>3, <3>1
    <3>3. h[Len(a) + (x - 1)] = g[x - 1] /\ Len(a) + (x - 1) = (Len(a) + x) - 1
      BY <1>3, <2>1, <3>2
    <3>4. h[Len(a) + x] = AfterByte(h[(Len(a) + x) - 1], ab[Len(a) + x])
      BY <1>4, <3>2
    <3>5. g[x] = AfterByte(g[x - 1], b[x]) /\ ab[Len(a) + x] = b[x]
      BY <1>2, <1>3, <3>2
    <3>. QED  BY <3>3, <3>4, <3>5
  <2>2. Bad \subseteq Nat
    OBVIOUS
  <2>3. Bad = {}
    <3>. HIDE DEF Bad
    <3>. QED  BY <2>1, <2>2, LeastNumber
  <2>. QED  BY <2>3
<1>7. h[Len(ab)] = g[Len(b)]
  <2>1. Len(b) \in 0..Len(b)
    BY <1>3
  <2>. QED  BY <1>3, <1>6, <2>1
<1>. QED  BY <1>1, <1>2, <1>4, <1>7 DEF ab

LEMMA AdvanceNothing ==
  ASSUME NEW p
  PROVE  Advance(p, <<>>) = p
<1>1. <<>> \in Seq({}) /\ Len(<<>>) = 0
  OBVIOUS
<1>. QED  BY <1>1, AdvanceFunction

-----------------------------------------------------------------------------
(* Slices.                                                                  *)

TextLen == Len(Text)

LEMMA TextType == Text \in Seq(Range(Text)) /\ TextLen \in Nat
BY TextAssumption DEF TextLen

(* What Slice() returns of a sequence, and how slices of it join.           *)
LEMMA SliceType ==
  ASSUME NEW S, NEW s \in Seq(S), NEW m \in Nat, NEW n \in Nat
  PROVE  Slice(s, m, n) \in Seq(S)
BY DEF Slice

LEMMA SliceFacts ==
  ASSUME NEW S, NEW s \in Seq(S), NEW m \in 0..Len(s), NEW n \in Nat, m <= n
  PROVE  LET last == IF n < Len(s) THEN n ELSE Len(s)
         IN  /\ Slice(s, m, n) = Slice(s, m, last) /\ last \in m..Len(s)
             /\ Len(Slice(s, m, n)) = last - m
             /\ \A k \in 1..last - m : Slice(s, m, n)[k] = s[m + k]
BY DEF Slice

LEMMA SlicesJoin ==
  ASSUME NEW S, NEW s \in Seq(S), NEW m \in Nat, NEW n \in m..Len(s), NEW l \in n..Len(s)
  PROVE  Slice(s, m, n) \o Slice(s, n, l) = Slice(s, m, l)
<1>. DEFINE a == Slice(s, m, n)
            b == Slice(s, n, l)
            c == Slice(s, m, l)
<1>1. m \in Nat /\ n \in Nat /\ l \in Nat /\ m <= n /\ n <= l /\ l <= Len(s)
  OBVIOUS
<1>2. a \in Seq(S) /\ Len(a) = n - m /\ \A k \in 1..n - m : a[k] = s[m + k]
  BY <1>1 DEF Slice
<1>3. b \in Seq(S) /\ Len(b) = l - n /\ \A k \in 1..l - n : b[k] = s[n + k]
  BY <1>1 DEF Slice
<1>4. c \in Seq(S) /\ Len(c) = l - m /\ \A k \in 1..l - m : c[k] = s[m + k]
  BY <1>1 DEF Slice
<1>. HIDE DEF a, b, c
<1>5. /\ a \o b \in Seq(S) /\ Len(a \o b) = Len(a) + Len(b)
      /\ \A k \in 1..Len(a) + Len(b) : (a \o b)[k] = IF k <= Len(a) THEN a[k] ELSE b[k - Len(a)]
  BY <1>2, <1>3, ConcatProperties
<1>6. Len(a) + Len(b) = Len(c)
  BY <1>1, <1>2, <1>3, <1>4
<1>7. ASSUME NEW k \in 1..Len(c)  PROVE  (a \o b)[k] = c[k]
  <2>1. CASE k <= n - m
    <3>1. k \in 1..n - m /\ (a \o b)[k] = a[k]
      BY <1>1, <1>2, <1>4, <1>5, <1>6, <2>1
    <3>. QED  BY <1>2, <1>4, <3>1
  <2>2. CASE k > n - m
    <3>1. k - Len(a) \in 1..l - n /\ n + (k - Len(a)) = m + k
      BY <1>1, <1>2, <1>3, <1>4, <2>2
    <3>2. (a \o b)[k] = b[k - Len(a)]
      BY <1>1, <1>2, <1>5, <1>6, <2>2
    <3>. QED  BY <1>3, <1>4, <3>1, <3>2
  <2>3. k <= n - m \/ k > n - m
    <3>1. n - m \in Int /\ k \in Int
      BY <1>1
    <3>. QED  BY <3>1
  <2>. QED  BY <2>1, <2>2, <2>3
<1>. DEFINE d == a \o b
<1>. HIDE DEF d
<1>8. d \in Seq(S) /\ Len(d) = Len(c) /\ \A k \in 1..Len(c) : d[k] = c[k]
  BY <1>5, <1>6, <1>7, Zenon DEF d
<1>9. d = c
  BY <1>4, <1>8
<1>. QED  BY <1>9 DEF a, b, c, d

LEMMA SliceOfSlice ==
  ASSUME NEW S, NEW s \in Seq(S), NEW m \in Nat, NEW n \in m..Len(s), NEW l \in n..Len(s)
  PROVE  Slice(Slice(s, m, l), 0, n - m) = Slice(s, m, n)
BY DEF Slice

LEMMA SliceWithin ==
  ASSUME NEW S, NEW s \in Seq(S), NEW m \in Nat, NEW n \in m..Len(s)
  PROVE  Len(Slice(s, m, n)) = n - m /\ \A k \in 1..n - m : Slice(s, m, n)[k] = s[m + k]
BY DEF Slice

LEMMA SliceNothing ==
  ASSUME NEW S, NEW s \in Seq(S), NEW m \in Nat, NEW n \in Nat, m >= n \/ m >= Len(s)
  PROVE  Slice(s, m, n) = <<>>
BY DEF Slice

-----------------------------------------------------------------------------
(* Types, and how far the loop has come.                                    *)

Fetching == pc \in {"loop", "read"}
Bytes == Range(Text) \cup {Newline, OtherByte}

FetchInv ==
  /\ source \in Readers \cup {"bytes", "None"}
  /\ node \in [start : 0..Len(Text), end : 0..Len(Text), shift : Shifts \cup {0}]
  /\ node.start <= node.end
  /\ pc \in {"idle", "loop", "read", "faulted"}
  /\ offset \in Nat /\ point \in Points
  /\ collected \in Seq(Bytes)
  /\ Fetching => offset >= StartByte /\ Len(collected) = offset - StartByte
  /\ result.kind \in {"none yet", "None", "text", "error"}
  /\ reader \in Readers \cup {"bytes", "None"} /\ reused \in BOOLEAN /\ foreign \in BOOLEAN

LEMMA NothingCollected == <<>> \in Seq(Bytes) /\ Len(<<>>) = 0
OBVIOUS

LEMMA NodeType ==
  ASSUME FetchInv
  PROVE  /\ node.start \in 0..TextLen /\ node.end \in node.start..TextLen /\ node.shift \in Nat
         /\ StartByte \in Nat /\ EndByte \in Nat /\ StartByte <= EndByte
         /\ StartPoint \in Points
<1>. DEFINE places == 0..Len(Text)
<1>0. node \in [start : places, end : places, shift : Shifts \cup {0}] /\ node.start <= node.end
  BY DEF FetchInv
<1>2. TextLen \in Nat
  BY TextType
<1>1. /\ node.start \in 0..TextLen /\ node.end \in 0..TextLen /\ node.start <= node.end
      /\ node.shift \in Nat
  <2>. HIDE DEF places
  <2>1. node.start \in places /\ node.end \in places /\ node.shift \in Shifts \cup {0}
    BY <1>0
  <2>2. Shifts \subseteq Nat
    BY TextAssumption
  <2>3. \A x \in Shifts \cup {0} : x \in Nat
    BY <2>2
  <2>4. node.shift \in Nat
    BY <2>1, <2>3, Zenon
  <2>. QED  BY <1>0, <2>1, <2>4, Zenon DEF places, TextLen
<1>3. PointAt(node.start) \in Points
  BY <1>1, <1>2, PointType
<1>4. StartPoint \in Points
  BY <1>1, <1>3 DEF StartPoint, Points
<1>. QED  BY <1>1, <1>2, <1>4 DEF StartByte, EndByte

LEMMA WantedType == Wanted \in 0..TextLen
<1>. DEFINE at == {n \in 0..Len(Text) :
                     IF reader = "by point" THEN PointAt(n) = point ELSE n = offset}
<1>1. at \subseteq 0..Len(Text)
  OBVIOUS
<1>2. Wanted = IF at = {} THEN Len(Text) ELSE CHOOSE n \in at : TRUE
  BY DEF Wanted
<1>. HIDE DEF at
<1>3. CASE at = {}
  BY <1>2, <1>3, TextType DEF TextLen
<1>4. CASE at # {}
  <2>1. Wanted \in at
    BY <1>2, <1>4
  <2>. QED  BY <1>1, <2>1 DEF TextLen
<1>. QED  BY <1>3, <1>4

(* What a reader that goes by the contract returns.                         *)
LEMMA ChunkType ==
  ASSUME NEW n \in 1..MaxChunk
  PROVE  Slice(Text, Wanted, Wanted + n) \in Seq(Bytes)
<1>1. Wanted \in Nat /\ Wanted + n \in Nat
  BY WantedType, TextType, TextAssumption
<1>2. Slice(Text, Wanted, Wanted + n) \in Seq(Range(Text))
  BY <1>1, TextType, SliceType
<1>. QED  BY <1>2 DEF Bytes

LEMMA ReturnKeepsFetch ==
  ASSUME FetchInv, NEW value, value.kind \in {"None", "text", "error"}, Return(value),
         UNCHANGED <<source, node>>, Begin \/ UNCHANGED history
  PROVE  FetchInv'
<1>1. pc' = "idle" /\ offset' = 0 /\ point' = PointAt(0) /\ collected' = <<>> /\ result' = value
  BY DEF Return
<1>2. PointAt(0) \in Points
  BY PointType
<1>3. pc' = "idle" /\ offset' \in Nat /\ point' \in Points /\ collected' \in Seq(Bytes)
      /\ result'.kind \in {"none yet", "None", "text", "error"}
  BY <1>1, <1>2, NothingCollected
<1>4. reader' \in Readers \cup {"bytes", "None"} /\ reused' \in BOOLEAN /\ foreign' \in BOOLEAN
  BY DEF Begin, history, FetchInv
<1>. QED  BY <1>3, <1>4 DEF FetchInv, Fetching

LEMMA CollectKeepsFetch ==
  ASSUME FetchInv, pc = "read", NEW chunk \in Seq(Bytes), Collect(chunk), foreign' \in BOOLEAN
  PROVE  FetchInv'
<1>1. /\ collected' = collected \o chunk /\ offset' = offset + Len(chunk) /\ pc' = "loop"
      /\ UNCHANGED <<source, node, result, reader>>
  BY DEF Collect
<1>2. PICK bytes \in {chunk} \cup Overwritten(chunk) :
        point' = Advance(point, bytes) /\ reused' = (reused \/ bytes # chunk)
  BY DEF Collect
<1>3. Len(chunk) \in Nat
  OBVIOUS
<1>4. point' \in Points
  <2>1. bytes \in Seq(Bytes)
    <3>1. \A b \in [1..Len(chunk) -> {Newline, OtherByte}] : b \in Seq(Bytes)
      BY <1>3 DEF Bytes
    <3>. QED  BY <3>1 DEF Overwritten
  <2>. QED  BY <1>2, <2>1, AdvanceType DEF FetchInv
<1>5. StartByte \in Nat /\ StartByte' = StartByte
  BY <1>1, NodeType DEF StartByte
<1>6. /\ collected' \in Seq(Bytes) /\ offset' \in Nat
      /\ offset' >= StartByte /\ Len(collected') = offset' - StartByte
  <2>1. /\ collected \in Seq(Bytes) /\ offset \in Nat
        /\ offset >= StartByte /\ Len(collected) = offset - StartByte
    BY DEF FetchInv, Fetching
  <2>2. collected' \in Seq(Bytes) /\ Len(collected') = Len(collected) + Len(chunk)
    BY <1>1, <1>3, <2>1, ConcatProperties
  <2>. QED  BY <1>1, <1>3, <1>5, <2>1, <2>2
<1>7. reused' \in BOOLEAN
  BY <1>2 DEF FetchInv
<1>. QED  BY <1>1, <1>4, <1>5, <1>6, <1>7 DEF FetchInv, Fetching

(* An int, an iterable of ints or another buffer is collected like a chunk. *)
LEMMA OtherIsCollected ==
  ASSUME ReaderReturnsOther
  PROVE  \/ foreign' = TRUE /\ \E chunk \in Seq(Bytes) : Collect(chunk)
         \/ Return([kind |-> "error"]) /\ UNCHANGED <<source, node>> /\ UNCHANGED history
<1>1. CASE foreign' = TRUE /\ \E n \in 0..MaxChunk : \E chunk \in [1..n -> {Newline, OtherByte}] :
             Collect(chunk)
  <2>1. PICK n \in 0..MaxChunk : \E chunk \in [1..n -> {Newline, OtherByte}] : Collect(chunk)
    BY <1>1
  <2>2. PICK chunk \in [1..n -> {Newline, OtherByte}] : Collect(chunk)
    BY <2>1
  <2>3. n \in Nat
    BY TextAssumption
  <2>4. chunk \in Seq(Bytes)
    BY <2>3 DEF Bytes
  <2>. QED  BY <1>1, <2>2, <2>4
<1>2. CASE Return([kind |-> "error"]) /\ UNCHANGED <<source, node, history>>
  BY <1>2
<1>. QED  BY <1>1, <1>2 DEF ReaderReturnsOther

LEMMA FetchInit == Init => FetchInv
<1>. SUFFICES ASSUME Init  PROVE  FetchInv
  OBVIOUS
<1>1. PointAt(0) \in Points /\ Len(Text) \in Nat
  BY PointType, TextType DEF TextLen
<1>2. node \in [start : 0..Len(Text), end : 0..Len(Text), shift : Shifts \cup {0}]
  BY <1>1 DEF Init
<1>3. collected \in Seq(Bytes) /\ node.start <= node.end /\ pc = "idle"
  BY <1>1, NothingCollected DEF Init
<1>4. result.kind \in {"none yet", "None", "text", "error"}
  BY DEF Init, NoResult
<1>. QED  BY <1>1, <1>2, <1>3, <1>4 DEF Init, FetchInv, Fetching

LEMMA FetchStep == FetchInv /\ [Next]_vars => FetchInv'
<1>. SUFFICES ASSUME FetchInv, [Next]_vars  PROVE  FetchInv'
  OBVIOUS
<1>1. CASE TakeNode
  <2>1. PICK start \in 0..Len(Text), end \in 0..Len(Text), shift \in Shifts :
          start <= end /\ node' = [start |-> start, end |-> end, shift |-> shift]
    BY <1>1 DEF TakeNode
  <2>. QED  BY <1>1, <2>1 DEF TakeNode, FetchInv, Fetching, NoResult, history
<1>2. CASE EditTree
  BY <1>2 DEF EditTree, FetchInv, Fetching, StartByte, history
<1>3. CASE TextOfEdited
  BY <1>3, ReturnKeepsFetch DEF TextOfEdited
<1>4. CASE TextOfBytes
  BY <1>4, ReturnKeepsFetch DEF TextOfBytes
<1>5. CASE TextOfCallable
  <2>1. /\ pc' = "loop" /\ offset' = StartByte /\ point' = StartPoint /\ collected' = <<>>
        /\ result' = NoResult /\ UNCHANGED <<source, node>>
        /\ reader' = source /\ reused' = FALSE /\ foreign' = FALSE
    BY <1>5 DEF TextOfCallable, Begin
  <2>2. StartByte' = StartByte
    BY <2>1 DEF StartByte
  <2>3. collected' \in Seq(Bytes) /\ Len(collected') = 0
    BY <2>1, NothingCollected
  <2>4. /\ offset' \in Nat /\ point' \in Points
        /\ offset' >= StartByte' /\ Len(collected') = offset' - StartByte'
    BY <2>1, <2>2, <2>3, NodeType
  <2>. QED  BY <2>1, <2>3, <2>4 DEF FetchInv, Fetching, NoResult
<1>6. CASE CallReader
  BY <1>6 DEF CallReader, FetchInv, Fetching, StartByte, history
<1>7. CASE ReaderReturns
  <2>1. PICK n \in 1..MaxChunk : Collect(Slice(Text, Wanted, Wanted + n))
    BY <1>7 DEF ReaderReturns
  <2>2. pc = "read" /\ foreign' \in BOOLEAN
    BY <1>7 DEF ReaderReturns, FetchInv
  <2>. QED  BY <2>1, <2>2, ChunkType, CollectKeepsFetch
<1>8. CASE ReaderReturnsOther
  <2>1. pc = "read"
    BY <1>8 DEF ReaderReturnsOther
  <2>2. CASE foreign' = TRUE /\ \E chunk \in Seq(Bytes) : Collect(chunk)
    <3>1. PICK chunk \in Seq(Bytes) : Collect(chunk)
      BY <2>2
    <3>2. foreign' \in BOOLEAN
      BY <2>2
    <3>. QED  BY <2>1, <3>1, <3>2, CollectKeepsFetch
  <2>3. CASE Return([kind |-> "error"]) /\ UNCHANGED <<source, node>> /\ UNCHANGED history
    BY <2>3, ReturnKeepsFetch
  <2>. QED  BY <1>8, <2>2, <2>3, OtherIsCollected
<1>9. CASE ReaderRaises
  BY <1>9 DEF ReaderRaises, FetchInv, Fetching, history
<1>10. CASE Finish
  BY <1>10, ReturnKeepsFetch DEF Finish
<1>11. CASE UNCHANGED vars
  BY <1>11 DEF vars, FetchInv, Fetching, StartByte, history
<1>. QED  BY <1>1, <1>2, <1>3, <1>4, <1>5, <1>6, <1>7, <1>8, <1>9, <1>10, <1>11
          DEF Next, GetText

THEOREM FetchInvariant == Spec => []FetchInv
BY FetchInit, FetchStep, PTL DEF Spec

(* Every variable keeps its type, and the loop has always collected as many *)
(* bytes as its offset has moved, whatever the reader returns and whatever  *)
(* the released memory holds (node_get_text).                               *)
THEOREM TypeCorrect == Spec => []TypeOK
<1>1. FetchInv => TypeOK
  BY DEF FetchInv, Fetching, TypeOK, Bytes
<1>. QED  BY <1>1, FetchInvariant, PTL

-----------------------------------------------------------------------------
(* What was collected, and the point. As long as no released chunk has been *)
(* overwritten the point is where the collected bytes lead to. A reader that*)
(* was told where it should read has returned what the document has up to   *)
(* the offset, because no two places have one point; it has nothing to      *)
(* return for a node that was moved behind the document's end.              *)

PlaceInv ==
  /\ Fetching /\ ~reused => point = Advance(StartPoint, collected)
  /\ Fetching /\ Served => /\ collected = Slice(Text, StartByte, offset)
                           /\ offset <= TextLen \/ offset = StartByte
  /\ TextIsSlice

LEMMA NotMoved ==
  ASSUME FetchInv, node.shift = 0
  PROVE  /\ StartByte = node.start /\ EndByte = node.end
         /\ StartPoint = PointAt(node.start)
<1>1. node.start \in Nat /\ node.end \in Nat
  BY NodeType DEF TextLen
<1>2. PointAt(node.start) \in [row : Nat, column : Nat]
  BY <1>1, PointType DEF Points
<1>3. [PointAt(node.start) EXCEPT !.column = @ + 0] = PointAt(node.start)
  BY <1>2
<1>. QED  BY <1>1, <1>3 DEF StartByte, EndByte, StartPoint

(* The point names the place of the offset.                                 *)
LEMMA PointOfOffset ==
  ASSUME FetchInv, PlaceInv, Fetching, ~reused, ~foreign, node.shift = 0
  PROVE  point = PointAt(offset) /\ offset \in node.start..TextLen
<1>1. /\ node.start \in 0..TextLen /\ TextLen \in Nat /\ offset \in Nat /\ offset >= node.start
      /\ Len(collected) = offset - node.start /\ collected \in Seq(Bytes)
  BY NotMoved, NodeType, TextType DEF FetchInv
<1>2. Served
  BY DEF Served
<1>3. /\ point = Advance(PointAt(node.start), collected)
      /\ collected = Slice(Text, node.start, offset) /\ offset <= TextLen
  BY <1>1, <1>2, NotMoved DEF PlaceInv
<1>4. node.start \in Nat /\ node.start \in 0..Len(Text) /\ node.start <= offset /\ offset <= Len(Text)
  BY <1>1, <1>3 DEF TextLen
<1>5. \A k \in 1..Len(collected) : collected[k] = Text[node.start + k]
  <2>1. Text \in Seq(Range(Text)) /\ offset \in node.start..Len(Text)
    BY <1>1, <1>4, TextType DEF TextLen
  <2>2. \A k \in 1..offset - node.start :
          Slice(Text, node.start, offset)[k] = Text[node.start + k]
    BY <1>4, <2>1, SliceWithin
  <2>. QED  BY <1>1, <1>3, <2>2
<1>6. Advance(PointAt(node.start), collected) = PointAt(node.start + Len(collected))
  BY <1>1, <1>4, <1>5, AdvancePoint
<1>7. node.start + Len(collected) = offset /\ offset \in node.start..TextLen
  BY <1>1, <1>3
<1>. QED  BY <1>3, <1>6, <1>7

(* The reader finds the place it is asked for, if the document has it.      *)
LEMMA WantedPlace ==
  ASSUME FetchInv, PlaceInv, pc = "read", Served
  PROVE  Wanted = IF offset <= TextLen THEN offset ELSE TextLen
<1>1. offset \in Nat /\ TextLen \in Nat
  BY TextType DEF FetchInv
<1>. DEFINE at == {n \in 0..TextLen : IF reader = "by point" THEN PointAt(n) = point ELSE n = offset}
<1>2. Wanted = IF at = {} THEN TextLen ELSE CHOOSE n \in at : TRUE
  BY DEF Wanted, TextLen
<1>3. CASE reader = "by point"
  <2>1. offset \in 0..TextLen /\ point = PointAt(offset)
    <3>1. Fetching /\ ~foreign /\ ~reused /\ node.shift = 0
      BY <1>3 DEF Served, Fetching
    <3>2. point = PointAt(offset) /\ offset \in node.start..TextLen
      BY <3>1, PointOfOffset
    <3>. QED  BY <1>1, <3>2
  <2>2. \A n \in 0..TextLen : PointAt(n) = PointAt(offset) <=> n = offset
    <3>1. 0..TextLen \subseteq Nat
      OBVIOUS
    <3>. QED  BY <2>1, <3>1, PointsDiffer
  <2>3. at = {offset}
    BY <1>3, <2>1, <2>2
  <2>. HIDE DEF at
  <2>. QED  BY <1>1, <1>2, <2>1, <2>3
<1>4. CASE reader # "by point"
  <2>1. at = {n \in 0..TextLen : n = offset}
    BY <1>4
  <2>2. CASE offset <= TextLen
    <3>1. {n \in 0..TextLen : n = offset} = {offset}
      BY <1>1, <2>2
    <3>. HIDE DEF at
    <3>. QED  BY <1>2, <2>1, <2>2, <3>1
  <2>3. CASE ~(offset <= TextLen)
    <3>1. {n \in 0..TextLen : n = offset} = {}
      BY <1>1, <2>3
    <3>. HIDE DEF at
    <3>. QED  BY <1>2, <2>1, <2>3, <3>1
  <2>. QED  BY <2>2, <2>3
<1>. QED  BY <1>3, <1>4

LEMMA ReturnKeepsPlace ==
  ASSUME PlaceInv, NEW value, Return(value), UNCHANGED <<source, node>>,
         value.kind = "text" /\ Served' => value.bytes = Slice(Text, StartByte, EndByte)
  PROVE  PlaceInv'
<1>1. pc' = "idle" /\ result' = value /\ node' = node
  BY DEF Return
<1>2. StartByte' = StartByte /\ EndByte' = EndByte
  BY <1>1 DEF StartByte, EndByte
<1>. QED  BY <1>1, <1>2 DEF PlaceInv, Fetching, TextIsSlice

(* Any chunk takes the point along.                                         *)
LEMMA CollectMovesPoint ==
  ASSUME FetchInv, PlaceInv, pc = "read", NEW chunk \in Seq(Bytes), Collect(chunk), ~reused'
  PROVE  point' = Advance(StartPoint', collected')
<1>1. PICK bytes \in {chunk} \cup Overwritten(chunk) :
        point' = Advance(point, bytes) /\ reused' = (reused \/ bytes # chunk)
  BY DEF Collect
<1>2. bytes = chunk /\ ~reused
  BY <1>1
<1>3. point = Advance(StartPoint, collected) /\ collected \in Seq(Bytes)
  BY <1>2 DEF PlaceInv, Fetching, FetchInv
<1>4. StartPoint' = StartPoint /\ collected' = collected \o chunk
  <2>1. node' = node /\ collected' = collected \o chunk
    BY DEF Collect
  <2>. QED  BY <2>1 DEF StartPoint
<1>. QED  BY <1>1, <1>2, <1>3, <1>4, AdvanceTwice

LEMMA ReaderReturnsPlace ==
  ASSUME FetchInv, PlaceInv, ReaderReturns
  PROVE  PlaceInv'
<1>1. PICK n \in 1..MaxChunk : Collect(Slice(Text, Wanted, Wanted + n))
  BY DEF ReaderReturns
<1>. DEFINE chunk == Slice(Text, Wanted, Wanted + n)
<1>2. /\ pc = "read" /\ pc' = "loop" /\ UNCHANGED <<source, node, result, reader, foreign>>
      /\ collected' = collected \o chunk /\ offset' = offset + Len(chunk)
      /\ reused => reused'
  BY <1>1 DEF ReaderReturns, Collect
<1>3. chunk \in Seq(Bytes)
  BY ChunkType
<1>4. ~reused' => point' = Advance(StartPoint', collected')
  BY <1>1, <1>2, <1>3, CollectMovesPoint
<1>5. Served' => Served
  BY <1>2 DEF Served
<1>6. StartByte' = StartByte /\ EndByte' = EndByte
  BY <1>2 DEF StartByte, EndByte
<1>7. ASSUME Served'
      PROVE  /\ collected' = Slice(Text, StartByte, offset')
             /\ offset' <= TextLen \/ offset' = StartByte
  <2>1. /\ collected = Slice(Text, StartByte, offset) /\ (offset <= TextLen \/ offset = StartByte)
        /\ StartByte \in Nat /\ offset \in Nat /\ offset >= StartByte /\ TextLen \in Nat
        /\ Wanted = IF offset <= TextLen THEN offset ELSE TextLen
    BY <1>2, <1>5, <1>7, WantedPlace, NodeType, TextType DEF PlaceInv, Fetching, FetchInv
  <2>2. n \in Nat
    BY TextAssumption
  <2>3. CASE offset <= TextLen
    <3>. DEFINE end == IF offset + n < TextLen THEN offset + n ELSE TextLen
    <3>1. /\ chunk = Slice(Text, offset, end) /\ end \in offset..TextLen
          /\ Len(chunk) = end - offset
      <4>1. Wanted = offset /\ offset \in 0..Len(Text) /\ offset + n \in Nat /\ offset <= offset + n
        BY <2>1, <2>2, <2>3 DEF TextLen
      <4>. QED  BY <4>1, TextType, SliceFacts DEF TextLen
    <3>. HIDE DEF chunk, end
    <3>2. offset' = end /\ end <= TextLen /\ end \in Nat
      BY <1>2, <2>1, <3>1
    <3>3. Slice(Text, StartByte, offset) \o Slice(Text, offset, end) = Slice(Text, StartByte, end)
      <4>1. /\ offset \in StartByte..Len(Text) /\ end \in offset..Len(Text)
            /\ Text \in Seq(Range(Text)) /\ StartByte \in Nat
        BY <2>1, <2>3, <3>1, TextType DEF TextLen
      <4>. QED  BY <4>1, SlicesJoin
    <3>. QED  BY <1>2, <2>1, <3>1, <3>2, <3>3
  <2>4. CASE offset > TextLen
    <3>1. Wanted = Len(Text) /\ Wanted \in Nat /\ Wanted + n \in Nat /\ Text \in Seq(Range(Text))
      BY <2>1, <2>2, <2>4, TextType DEF TextLen
    <3>2. chunk = <<>>
      BY <3>1, SliceNothing
    <3>3. Len(chunk) = 0 /\ offset' = offset
      BY <1>2, <2>1, <3>2
    <3>4. collected = <<>>
      <4>1. StartByte \in Nat /\ offset \in Nat /\ StartByte >= offset /\ Text \in Seq(Range(Text))
        BY <2>1, <2>4, <3>1
      <4>. QED  BY <2>1, <4>1, SliceNothing
    <3>5. collected' = collected
      <4>1. <<>> \o <<>> = <<>>
        OBVIOUS
      <4>. QED  BY <1>2, <3>2, <3>4, <4>1
    <3>. QED  BY <2>1, <2>4, <3>3, <3>5
  <2>. QED  BY <2>1, <2>3, <2>4
<1>. QED  BY <1>2, <1>4, <1>5, <1>6, <1>7 DEF PlaceInv, Fetching, TextIsSlice

LEMMA ReaderReturnsOtherPlace ==
  ASSUME FetchInv, PlaceInv, ReaderReturnsOther
  PROVE  PlaceInv'
<1>1. CASE foreign' = TRUE /\ \E chunk \in Seq(Bytes) : Collect(chunk)
  <2>1. PICK chunk \in Seq(Bytes) : Collect(chunk)
    BY <1>1
  <2>2. pc = "read" /\ ~Served'
    BY <1>1 DEF ReaderReturnsOther, Served
  <2>3. ~reused' => point' = Advance(StartPoint', collected')
    BY <2>1, <2>2, CollectMovesPoint
  <2>. QED  BY <2>2, <2>3 DEF PlaceInv, TextIsSlice
<1>2. CASE Return([kind |-> "error"]) /\ UNCHANGED <<source, node>> /\ UNCHANGED history
  BY <1>2, ReturnKeepsPlace
<1>. QED  BY <1>1, <1>2, OtherIsCollected

LEMMA FinishPlace ==
  ASSUME FetchInv, PlaceInv, Finish
  PROVE  PlaceInv'
<1>1. /\ pc = "loop" /\ offset >= EndByte /\ UNCHANGED <<source, node>> /\ UNCHANGED history
      /\ Return([kind |-> "text", bytes |-> Slice(collected, 0, EndByte - StartByte)])
  BY DEF Finish, Covered
<1>2. Served' = Served
  BY <1>1 DEF Served, history
<1>3. ASSUME Served
      PROVE  Slice(collected, 0, EndByte - StartByte) = Slice(Text, StartByte, EndByte)
  <2>1. /\ collected = Slice(Text, StartByte, offset) /\ (offset <= TextLen \/ offset = StartByte)
        /\ StartByte \in Nat /\ EndByte \in Nat /\ StartByte <= EndByte /\ offset \in Nat
        /\ TextLen \in Nat /\ Text \in Seq(Range(Text)) /\ collected \in Seq(Bytes)
    BY <1>1, <1>3, NodeType, TextType DEF PlaceInv, Fetching, FetchInv
  <2>2. CASE offset <= TextLen
    <3>1. EndByte \in StartByte..Len(Text) /\ offset \in EndByte..Len(Text)
      BY <1>1, <2>1, <2>2 DEF TextLen
    <3>. QED  BY <2>1, <3>1, SliceOfSlice
  <2>3. CASE offset = StartByte
    <3>1. EndByte = StartByte /\ EndByte - StartByte = 0
      BY <1>1, <2>1, <2>3
    <3>2. Slice(Text, StartByte, EndByte) = <<>>
      BY <2>1, <3>1, SliceNothing
    <3>3. Slice(collected, 0, 0) = <<>>
      BY <2>1, SliceNothing
    <3>. QED  BY <3>1, <3>2, <3>3
  <2>. QED  BY <2>1, <2>2, <2>3
<1>. QED  BY <1>1, <1>2, <1>3, ReturnKeepsPlace

LEMMA PlaceInit == Init => PlaceInv
<1>. SUFFICES ASSUME Init  PROVE  PlaceInv
  OBVIOUS
<1>1. pc = "idle" /\ result.kind = "none yet"
  BY DEF Init, NoResult
<1>. QED  BY <1>1 DEF PlaceInv, Fetching, TextIsSlice

LEMMA PlaceStep == FetchInv /\ PlaceInv /\ [Next]_vars => PlaceInv'
<1>. SUFFICES ASSUME FetchInv, PlaceInv, [Next]_vars  PROVE  PlaceInv'
  OBVIOUS
<1>1. CASE TakeNode
  <2>1. pc' = "idle" /\ result'.kind = "none yet"
    BY <1>1 DEF TakeNode, NoResult
  <2>. QED  BY <2>1 DEF PlaceInv, Fetching, TextIsSlice
<1>2. CASE EditTree
  BY <1>2 DEF EditTree, PlaceInv, Fetching, TextIsSlice, Served, StartByte, EndByte, StartPoint,
              history
<1>3. CASE TextOfEdited
  BY <1>3, ReturnKeepsPlace DEF TextOfEdited
<1>4. CASE TextOfBytes
  BY <1>4, ReturnKeepsPlace DEF TextOfBytes
<1>5. CASE TextOfCallable
  <2>1. /\ offset' = StartByte /\ point' = StartPoint /\ collected' = <<>>
        /\ result'.kind = "none yet" /\ node' = node
    BY <1>5 DEF TextOfCallable, NoResult
  <2>2. StartByte' = StartByte /\ StartPoint' = StartPoint
    BY <2>1 DEF StartByte, StartPoint
  <2>3. Slice(Text, StartByte, StartByte) = <<>> /\ Advance(StartPoint, <<>>) = StartPoint
    BY NodeType, TextType, SliceNothing, AdvanceNothing
  <2>. QED  BY <2>1, <2>2, <2>3 DEF PlaceInv, TextIsSlice
<1>6. CASE CallReader
  BY <1>6 DEF CallReader, PlaceInv, Fetching, TextIsSlice, Served, StartByte, EndByte, StartPoint,
              history
<1>7. CASE ReaderReturns
  BY <1>7, ReaderReturnsPlace
<1>8. CASE ReaderReturnsOther
  BY <1>8, ReaderReturnsOtherPlace
<1>9. CASE ReaderRaises
  BY <1>9 DEF ReaderRaises, PlaceInv, Fetching, TextIsSlice, Served, StartByte, EndByte, history
<1>10. CASE Finish
  BY <1>10, FinishPlace
<1>11. CASE UNCHANGED vars
  BY <1>11 DEF vars, history, PlaceInv, Fetching, TextIsSlice, Served, StartByte, EndByte,
               StartPoint
<1>. QED  BY <1>1, <1>2, <1>3, <1>4, <1>5, <1>6, <1>7, <1>8, <1>9, <1>10, <1>11
          DEF Next, GetText

THEOREM PlaceInvariant == Spec => []PlaceInv
BY PlaceInit, PlaceStep, FetchInvariant, PTL DEF Spec

(* The position that the reader is given is where the bytes collected so far*)
(* lead to from the node's start, whatever they are, until a released chunk *)
(* has been overwritten before it was read; and in a node that was not moved*)
(* it then is the place of the byte offset (node_get_text).                 *)
THEOREM PointsMatch == Spec => []PointKeepsUp
<1>1. FetchInv /\ PlaceInv => PointKeepsUp
  <2>1. FetchInv /\ PlaceInv /\ pc = "read" /\ ~reused =>
          /\ point = Advance(StartPoint, collected)
          /\ node.shift = 0 /\ ~foreign => point = PointAt(offset)
    BY PointOfOffset DEF PlaceInv, Fetching
  <2>. QED  BY <2>1 DEF PointKeepsUp
<1>. QED  BY <1>1, FetchInvariant, PlaceInvariant, PTL

(* text is the part of the document at the bytes the node reports, whatever *)
(* slices the reader cuts, wherever the node was moved and whatever was in  *)
(* the released memory; a reader that goes by the point needs one that was  *)
(* not led astray by either (node_get_text).                                *)
THEOREM TextIsTheNodes == Spec => []TextIsSlice
<1>1. PlaceInv => TextIsSlice
  BY DEF PlaceInv
<1>. QED  BY <1>1, PlaceInvariant, PTL
=============================================================================
